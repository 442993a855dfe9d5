SPECIFICATION SavingSpec
CONSTANTS
  Instances = {i1}
  Changes = {c1, c2, c3}
  Operations = {"transaction", "applied", "flush", "metadata"}
  Faults = {"write", "readback", "refresh", "verify"}
  MaxRevision = 5
  Nobody = Nobody
  Paths = {p1, p2}
  Flushers = {f1, f2}
  Worker = Worker
  MaxPending = 1
  MaxStores = 2
  SpawnFails = TRUE
PROPERTIES
  ImplementsDurableLog
  StoresAreTried
CHECK_DEADLOCK FALSE
