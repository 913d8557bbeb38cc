SPECIFICATION Spec
CONSTANTS
  i1 = i1
  i2 = i2
  b1 = b1
  b2 = b2
  u1 = u1
  x1 = x1
  Requests <- Mixed
  Asked <- MixedAsked
  Principal <- MixedPrincipal
  Weight <- MixedWeight
  Continuation <- Continued
  FairWeight <- Equal
  PolicySet <- Fixed
  SettingsSet <- Steady
  MaxDemand = 1
  MaxWeight = 2
  MaxPassed = 2
  MaxSlotTime = 0
  Overrunning <- Nobody
  WarmWindow = FALSE
INVARIANTS TypeOK Accounting PreemptCovers WorkConserving ReserveKept
PROPERTIES NoBarging NoInversion NoOverAdmission BackgroundYields QueuesBounded
