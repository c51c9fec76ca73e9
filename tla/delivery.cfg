SPECIFICATION Spec
CONSTANTS
  Jobs = {j1}
  Series = {}
  Poisoned = {}
  NoSeries = NoSeries
  MaxRetry = 2
  MaxClaims = 3
  Unroutable = {}
  Procs = {p1}
  PoolSize = 2
  EntryIds = {e1, e2}
  MaxFaults = 1
  ReplicaLag = FALSE
  SlowQueue = TRUE
SYMMETRY MCSymmetry
INVARIANTS
  NoScheduledEntry
  CompletedWasWorked
PROPERTIES
  OnlyLatestClaimSettles
  KeepsContract
CHECK_DEADLOCK FALSE
