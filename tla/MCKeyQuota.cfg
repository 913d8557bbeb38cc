SPECIFICATION Spec
CONSTANTS
  r1 = r1
  r2 = r2
  r3 = r3
  Requests <- Three
  Estimates = {1, 4}
  Usages = {0, 1, 5}
  LimitsSet <- HotLimits
  window = 3
  reserveScale = 3
  MaxInt64 = 1000
  MaxTime = 4
SYMMETRY Sym
INVARIANTS TypeOK OracleExact RateBound UrgentKept RetryAfterExact SlotsBounded
CHECK_DEADLOCK FALSE
