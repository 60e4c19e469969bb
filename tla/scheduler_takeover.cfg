SPECIFICATION FairSpec
CONSTANTS
  u = u
  v = v
  w = w
  Workers = {u, v}
  TTL = 10
  Refresh <- RefreshEvery
  Retry = 5
  Lag = 1
  MaxMiss <- MissedAtMost
  MaxOutages = 0
PROPERTY SchedulerTakenOver
