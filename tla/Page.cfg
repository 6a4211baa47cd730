SPECIFICATION PageSpec
CONSTANTS
  None = None
  a1 = a1
  a2 = a2
  api = api
  gateway = gateway
  ActionIds = {a1, a2}
  Targets = {api, gateway}
  RollbackTargets = {api}
  Placeholders = {}
  WindowIds <- ThreeWindows
  DecisionIds <- ThreeWindows
  SnapshotIds = {}
  ClientActions = {}
  Policies <- StrongOrAlerting
  Proposals <- SomeProposals
  Topology <- WholeTopology
  MaxRecords = 3
  MaxClicks = 2
SYMMETRY Symmetry
INVARIANTS InForceWasShown
CHECK_DEADLOCK FALSE
