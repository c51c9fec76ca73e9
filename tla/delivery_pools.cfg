SPECIFICATION Spec
CONSTANTS
  Jobs = {j1, j2}
  Series = {r1}
  Poisoned = {}
  NoSeries = NoSeries
  MaxRetry = 1
  MaxClaims = 2
  Unroutable = {}
  Procs = {p1, p2}
  PoolSize = 1
  EntryIds = {e1}
  MaxFaults = 0
  ReplicaLag = TRUE
  SlowQueue = FALSE
SYMMETRY MCSymmetry
INVARIANT OneWorkerAtATime
PROPERTY KeepsStore
CHECK_DEADLOCK FALSE
