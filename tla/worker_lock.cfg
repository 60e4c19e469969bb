SPECIFICATION Spec
CONSTANTS
  u = u
  v = v
  w = w
  Workers = {u, v, w}
  TTL = 10
  Refresh <- RefreshEvery
  Retry = 5
  Lag = 1
  MaxMiss <- MissedAtMost
  MaxOutages = 2
SYMMETRY Interchangeable
INVARIANTS
  TypeOK
  OneRunner
  TakeoverInTime
