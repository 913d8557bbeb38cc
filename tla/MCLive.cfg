SPECIFICATION KindSpec
CONSTANTS
  i1 = i1
  b1 = b1
  b2 = b2
  u1 = u1
  u2 = u2
  u3 = u3
  Requests <- Callers
  Asked <- CallersAsked
  Principal <- CallersPrincipal
  Weight <- CallersWeight
  Continuation <- Never
  FairWeight <- Equal
  PolicySet <- Kinds
  SettingsSet <- Steady
  MaxDemand = 1
  MaxWeight = 2
  MaxPassed = 2
  MaxSlotTime = 1
  Overrunning <- Hanging
  WarmWindow = FALSE
INVARIANT CancelCauses
PROPERTIES LeasesEnd InteractiveAnswered BackgroundAnswered ExternalAnswered
