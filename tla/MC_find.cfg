SPECIFICATION Spec
CONSTANTS
  Nodes <- MCNodes
  Names <- MCNames
  Rank <- MCRank
  NULL = NULL
  BAD = BAD
  MaxArrayPad = 2
  MaxDepth = 12
  MaxCount = 24
  Calls <- FindCalls
INVARIANTS
  
  FindFirstIsHead
  NoneIffNoMatch
PROPERTIES
  Returns
