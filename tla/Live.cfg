SPECIFICATION RuntimeSpec
CONSTANTS
  None = None
  MaxSessions = 3
  MaxSteps = 2
  MaxHistory = 2
  Speeds <- ByHandOrTimer
  StartCanFail = TRUE
INVARIANT ActiveIsLooping
PROPERTY LiveRunEnds
CHECK_DEADLOCK FALSE
