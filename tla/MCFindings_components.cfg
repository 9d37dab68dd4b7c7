SPECIFICATION LiveSpec
CONSTANTS
  NumSources = 4
  MinSources = 2
  Window = 3
  Threshold = 50
  PortThreshold = 4
  TopLimit = 2
  Behaviours <- SomeBehaviours
INVARIANTS
  TypeOK
  SamePartition
  UnionFindInv
  CampaignsAreComponents
  CampaignsAreCoherent
  CampaignsAreContinuous
  CampaignsMatchFindings
  SweepsStayApart
  SeriousAreListed
PROPERTIES
  Finishes
CHECK_DEADLOCK FALSE
