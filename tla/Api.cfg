SPECIFICATION Spec
CONSTANTS
  None = None
  a1 = a1
  a2 = a2
  t1 = t1
  ActionIds = {a1, a2}
  Targets = {t1}
  RollbackTargets = {t1}
  Placeholders = {}
  WindowIds <- TwoWindows
  DecisionIds <- TwoWindows
  SnapshotIds = {}
  ClientActions <- BlockActions
  Policies <- ApiPolicies
  Topology <- DemoTopology
  MaxRecords = 3
SYMMETRY Symmetry
INVARIANTS AtMostOnceExecuted RolledBackIsFinal
PROPERTY FreshEvidenceOnly
CHECK_DEADLOCK FALSE
