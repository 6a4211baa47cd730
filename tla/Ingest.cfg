SPECIFICATION Spec
CONSTANTS
  WindowSize = 2
  LongGap = 4
  MaxBadShare = 34
  Times <- FewTimes
  Contents <- WithOrWithoutPackets
  Tags <- OneTag
  MaxRemoved = 1
  HistoryDepth = 1
  RolloutDepth = 3
  MaxHorizon = 2
  MinSamples = 2
  Block <- Intrusion
  Lags <- TwoLags
INVARIANTS StatesTileTime SamplesWereObserved RolloutsAgree SplitsAreHonest LabelsTellOneStory
CHECK_DEADLOCK FALSE
