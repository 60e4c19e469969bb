SPECIFICATION FairSpec
CONSTANTS
  n1 = n1
  n2 = n2
  l1 = l1
  l2 = l2
  Runs = {n1, n2}
  LowRuns = {}
  LockRuns = {n1, n2}
  Limit = 2
  SlotTTL = 8
  LockTTL = 10
  Beat = 2
  Lag = 1
  MaxMiss = 1
INVARIANTS
  RunningKeepsLease
  RunningKeepsLock
PROPERTY LeftoverFreed
