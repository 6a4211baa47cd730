SPECIFICATION Spec
CONSTANTS
  None = None
  Missing = None
  Services <- Nodes
  Critical <- CriticalNodes
  Sorted <- Listed
  Database <- DatabaseNode
  Foci <- MCFoci
  Evidence <- MCEvidence
  Penalties <- MCPenalties
  Decided <- MCDecided
  ReversalIndex = 2
  Horizon <- MCHorizon
  MaxPlaybacks = 2
INVARIANTS ImpactIsExact GraphAnswersAreExact SingleTruth RevisionNeverWidens
PROPERTIES ToldWhatIsNew WindowsArePublished
CHECK_DEADLOCK FALSE
