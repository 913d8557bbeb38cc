SPECIFICATION Spec
CONSTANTS
  c1 = c1
  ba = ba
  bb = bb
  bc = bc
  tenant = tenant
  nomodel = nomodel
  Callers = {c1}
  Texts = {"t1"}
  Backends <- Rowset
  Host <- Hosts
  ModelFor <- ModelNames
  Global <- Operator
  Topologies <- Chains
  Edits <- BackAndForth
  Boot0 <- First
  TTL = TRUE
  MaxRows = 1
  MaxFaults = 1
  MaxCrashes = 1
INVARIANTS TypeOK RowsGenuine StampTruthful
