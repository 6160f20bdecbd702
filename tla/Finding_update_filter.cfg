SPECIFICATION Spec
CONSTANTS
  Nodes <- MCNodes
  Names <- MCNames
  Rank <- MCRank
  NULL = NULL
  BAD = BAD
  MaxArrayPad = 2
  MaxDepth = 12
  MaxCount = 24
  Calls <- UpdateFilter
PROPERTIES
  Returns
