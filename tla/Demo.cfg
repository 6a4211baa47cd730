SPECIFICATION Spec
CONSTANTS
  None = None
  MaxSessions = 3
  MaxSteps = 4
  MaxHistory = 2
  Speeds <- ByHandOrTimer
INVARIANTS TimerFitsStatus SessionIsInOrder
PROPERTY PlaybackEnds
CHECK_DEADLOCK FALSE
