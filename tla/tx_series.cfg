SPECIFICATION TxSpec
CONSTANTS
  Jobs = {j1, j2}
  Series = {r1}
  Poisoned = {}
  NoSeries = NoSeries
  MaxRetry = 2
  MaxClaims = 2
  Txs = {t1, t2}
PROPERTY SeriesStops
CHECK_DEADLOCK FALSE
SYMMETRY MCSymmetry
