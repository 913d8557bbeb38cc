SPECIFICATION Spec
CONSTANTS
  w1 = w1
  w2 = w2
  Writes <- Two
  Needs <- TwoNeeds
  MaxAge = 2
  MaxStaleness = 1
  FailedThreshold = 1
  DebounceWindow = 1
  MaxPendingAge = 2
  MinRebuildInterval = 1
  RebuildInterval = 2
  HotDisable = TRUE
  MaxRestarts = 1
INVARIANTS TypeOK NoForgottenWrite ServedFresh
