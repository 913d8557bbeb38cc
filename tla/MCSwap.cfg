SPECIFICATION Spec
CONSTANTS
  i1 = i1
  u1 = u1
  u2 = u2
  x1 = x1
  Requests <- Mixed
  Asked <- MixedAsked
  Principal <- MixedPrincipal
  Weight <- MixedWeight
  Continuation <- Never
  FairWeight <- Equal
  PolicySet <- Policies
  SettingsSet <- Steady
  MaxDemand = 0
  MaxWeight = 2
  MaxPassed = 3
  MaxSlotTime = 0
  Overrunning <- Overrun
  WarmWindow = FALSE
INVARIANTS LeaseOwned WorkConserving
PROPERTIES NoOverAdmission
