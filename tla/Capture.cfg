SPECIFICATION CaptureSpec
CONSTANTS
  None = None
  Services <- OneService
  Foreign <- OneOutsider
  Locals <- OneLocal
  MaxOutsiders = 1
  MaxProbes = 1
  MaxInFlight = 1
  MaxLines = 3
  MaxTime = 3
  Windows = 2
  WindowLength = 2
  WallWait = 1
INVARIANTS ManifestIsHonest PacketsAreAccountedFor
CHECK_DEADLOCK FALSE
