SPECIFICATION WatchSpec
CONSTANTS
  None = None
  MaxSessions = 1
  MaxSteps = 3
  MaxHistory = 2
  Speeds <- ByHand
  MaxLosses = 2
  MaxQueue = 3
  MaxAsked = 2
INVARIANT SentOnce
PROPERTY Converges
CHECK_DEADLOCK FALSE
