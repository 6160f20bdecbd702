CONSTANTS
  Nodes <- MCNodes
  Names <- MCNames
  Rank <- MCRank
  NULL = NULL
  BAD = BAD
  MaxArrayPad = 1
  Campaigns <- MCCampaigns
  MaxFrames = 3
SPECIFICATION Spec
INVARIANTS TypeOK Restorable ValuesReleased
PROPERTIES FollowsPlan CampaignEnds
CHECK_DEADLOCK FALSE
