SPECIFICATION FairSpec
CONSTANTS
  Jobs = {j1, j2}
  Series = {}
  Poisoned = {}
  NoSeries = NoSeries
  MaxRetry = 2
  MaxClaims = 5
  Unroutable = {j2}
  Procs = {p1}
  PoolSize = 5
  EntryIds = {e1}
  MaxFaults = 1
  ReplicaLag = FALSE
  SlowQueue = FALSE
PROPERTY EveryJobSettles
CHECK_DEADLOCK FALSE
