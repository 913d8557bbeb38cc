SPECIFICATION FairSpec
CONSTANTS
  w1 = w1
  Writes <- One
  Needs <- OneNeeds
  MaxAge = 2
  MaxStaleness = 1
  FailedThreshold = 1
  DebounceWindow = 1
  MaxPendingAge = 2
  MinRebuildInterval = 1
  RebuildInterval = 3
  HotDisable = FALSE
  MaxRestarts = 1
PROPERTY WritesArrive
