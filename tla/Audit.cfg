SPECIFICATION BundleSpec
CONSTANTS
  None = None
  Conns = {c1, c2}
  Artifacts <- Response
  Bundles <- ResponseBundles
  Tracked <- TrackedTypes
  MaxLog = 2
  MaxCalls = 2
  MaxExports = 1
SYMMETRY Swap
INVARIANTS StoreIsSound AcknowledgedIsStored BundleIsFaithful
PROPERTY AppendOnly
CHECK_DEADLOCK FALSE
