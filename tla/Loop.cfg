SPECIFICATION Spec
CONSTANTS
  Missing = Missing
  Kinds <- LoopKinds
  Contexts <- LoopContexts
  TargetFeatures <- VolumeFeatures
  RiskLayer = TRUE
  FeedLimit = 9
  MaxWindow = 3
  MaxExecutions = 2
  MaxRequests = 3
INVARIANTS EachExecutionIsAsked ReconsiderationIsCautious VerdictIsDeserved
PROPERTIES RequestsAreMinimumSufficient MismatchStands ReconsiderationIsDeserved
CHECK_DEADLOCK FALSE
