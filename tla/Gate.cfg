SPECIFICATION Spec
CONSTANTS
  None = None
  r1 = r1
  r2 = r2
  a1 = a1
  a2 = a2
  t1 = t1
  s1 = s1
  RequestIds <- TwoRequests
  ActionIds <- TwoActions
  Targets = {t1}
  Placeholders = {}
  WindowIds <- TwoWindows
  DecisionIds <- TwoWindows
  SnapshotIds = {s1}
  Recommendations <- OneRecommendation
  Policies <- GatePolicies
  Topologies <- GateTopologies
  Ttls <- ShortTtls
  MaxClock = 1
  MaxDecisions = 2
  MaxRecords = 2
SYMMETRY Symmetry
INVARIANTS AtMostOncePerRequest ExecutedSetIsHistory ActiveIsApproved NoOrphanEffect
PROPERTY ImplementsGatedResponse
CHECK_DEADLOCK FALSE
