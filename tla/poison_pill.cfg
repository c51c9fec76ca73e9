SPECIFICATION Spec
CONSTANTS
  Jobs = {j1}
  Series = {}
  Poisoned = {}
  NoSeries = NoSeries
  MaxRetry = 1
  MaxClaims = 3
  Unroutable = {}
  Procs = {p1}
  PoolSize = 1
  EntryIds = {e1}
  MaxFaults = 1
  ReplicaLag = FALSE
  SlowQueue = FALSE
PROPERTY PoisonPillsFail
CHECK_DEADLOCK FALSE
