SPECIFICATION Spec
CONSTANTS
  Nodes <- MCNodes
  Names <- MCNames
  Rank <- MCRank
  NULL = NULL
  BAD = BAD
  MaxArrayPad = 2
  MaxDepth = 150
  MaxCount = 24
  Calls <- RemoveCalls
INVARIANTS
  RemoveIsExact
  RemoveCounts
  RestartAfterLoss
  LoopsStayAlive
  NoCrash
PROPERTIES
  Returns
