SPECIFICATION RequestsSpec
CONSTANTS
  Parts = {"create", "retry", "limit", "credentials", "dashboard", "email", "file"}
  CreationKeys = {k1, k2}
  Creations = {r1, r2, r3}
  Purger = Purger
  NoCreation = NoCreation
  RetryHeaders = {h1, h2}
  RetryJobs = {j1, j2}
  Retries = {t1, t2, t3}
  MaxFails = 1
  MaxErrors = 1
  NoHeader = NoHeader
  Callers = {c1, c2}
  Reqs = {q1, q2}
  Cost = 2
  Capacity = 4
  MaxBuckets = 1
  MaxTime = 3
  People = {p1, p2}
  Emails = {e1, e2}
  Standbys = {s1, s2}
  MaxKeys = 2
  MaxLost = 1
  Nobody = Nobody
  Tabs = {b1, b2}
  MaxLogins = 2
  MaxHops = 20
  MaxAttempts = 3
  Authenticates = TRUE
  a1 = a1
  a2 = a2
  small = small
  big = big
  path = path
  object = object
  escape = escape
  nokey = nokey
  Local = {path}
  S3 = {object}
  BadLocal = {escape}
  BadS3 = {nokey}
  Attempts = {a1, a2}
  Contents = {small, big}
  Big = {big}
  MaxFaults = 2
  Nil = Nil
  Torn = Torn
SYMMETRY Interchangeable
INVARIANTS
  OneRetryPerKey
  RetriesFollowFailures
  RateIsBounded
  AccountsAreOwn
  RotationKeepsAccess
  RedirectsEnd
  AnswersMatchDelivery
  FilesAreWhole
  AnswersAreTrue
PROPERTIES
  RefusalIsEarned
  KeepsPromise
CHECK_DEADLOCK FALSE
