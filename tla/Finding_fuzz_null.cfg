CONSTANTS
  Nodes <- MCNodes
  Names <- MCNames
  Rank <- MCRank
  NULL = NULL
  BAD = BAD
  MaxArrayPad = 1
  Campaigns <- WithNull
  MaxFrames = 3
SPECIFICATION Spec
PROPERTIES FollowsPlan

CHECK_DEADLOCK FALSE
