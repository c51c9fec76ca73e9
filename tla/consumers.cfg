SPECIFICATION ConsumersSpec
CONSTANTS
  Workers = {w1, w2}
  Lanes = {high, low}
  QueueCap = 1
  MaxJobs = 2
  MinReadBackoff = 100
  MaxReadBackoff = 5000
  Batch = 2
  JobqueueCap = 1
  Handovers = 2
  MaxEntries = 3
  MaxOutages = 2
  MaxLosses = 1
  Pools = {email, file_processing, exec_processing}
  MaxBackoff = 3
  MaxStartFails = 2
  Nil = Nil
  good = good
  bad = bad
  Tasks = {good, bad}
  Malformed = {bad}
  MaxRetries = 1
  MaxRuns = 3
  MaxFaults = 1
  MaxTrims = 1
INVARIANTS
  OneCarrierPerPool
  AckedAreFollowed
PROPERTIES
  KeepsOrder
  FreshPoolServes
  Drains
  EntriesAreRead
  PoolsComeBack
CHECK_DEADLOCK FALSE
