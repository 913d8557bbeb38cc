SPECIFICATION Spec
CONSTANTS
  m0 = m0
  m1 = m1
  m2 = m2
  none = none
  Models <- All
  NoModel = none
  Serving = m0
  Targets <- Next2
  NBlocks = 2
  Later = {2}
  TooLong <- Long
  Paths <- Written
  Budgets <- TwoMigrations
PROPERTY FollowUpRefused
CHECK_DEADLOCK FALSE
