SPECIFICATION FairSpec
CONSTANTS
  k1 = k1
  k2 = k2
  k3 = k3
  k4 = k4
  k5 = k5
  Source <- Three
  Yield <- Found
  Dropped = {k4}
  MaxManifests = 2
  RowsPerRead = 4
  RowsPerCall = 2
  FirstRoom = 2
  NextRoom = 2
  SeedSlack = 1
  Caps = {0, 1}
  GroupMaxRows = 4
  WakeIDCap = 1
  Budgets <- Chosen
INVARIANTS TypeOK NothingLost OncePerRange WakeKept
PROPERTIES PublishedKept AllCovered
