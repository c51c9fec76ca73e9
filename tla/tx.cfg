SPECIFICATION MCTxSpec
CONSTANTS
  Jobs = {j1, j2, j3}
  Series = {r1, r2}
  Poisoned = {r2}
  NoSeries = NoSeries
  MaxRetry = 2
  MaxClaims = 3
  Txs = {t1, t2}
SYMMETRY MCSymmetry
INVARIANTS
  SeenStillHolds
  TokenDiscipline
  RetryBudget
  OneNextOccurrence
PROPERTIES
  KeepsStore
  SettledIsFinal
CHECK_DEADLOCK FALSE
