SPECIFICATION BackgroundSpec
CONSTANTS
  JobCount = 3
  Unroutable = {1}
  SweepBatch = 2
  MaxCopies = 2
  MaxTickFaults = 1
  Jobs = {j1, j2}
  Schedulers = {s1, s2}
  Ahead = 2
  Horizon = 3
  Bootstrapped = {0, 1, 2, 3}
  Batch = 1
  MaxLag = 2
  MaxCycleFaults = 1
  Max = 3
  MaxWrite = 2
  MaxReads = 2
  MaxClaims = 2
  MaxRunFaults = 1
INVARIANT PanicsAreRecovered
CHECK_DEADLOCK FALSE
