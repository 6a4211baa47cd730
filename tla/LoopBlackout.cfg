SPECIFICATION Spec
CONSTANTS
  Missing = Missing
  Kinds <- BlackoutKinds
  Contexts <- OneContext
  TargetFeatures <- VolumeFeatures
  RiskLayer = FALSE
  FeedLimit = 9
  MaxWindow = 3
  MaxExecutions = 2
  MaxRequests = 3
INVARIANTS MissingNeverImpliesSuccess
CHECK_DEADLOCK FALSE
