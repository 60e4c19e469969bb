SPECIFICATION Spec
CONSTANTS
  n1 = n1
  n2 = n2
  l1 = l1
  l2 = l2
  Runs = {n1, n2, l1, l2}
  LowRuns = {l1, l2}
  LockRuns = {}
  Limit = 2
  SlotTTL = 4
  LockTTL = 5
  Beat = 1
  Lag = 1
  MaxMiss = 0
SYMMETRY Interchangeable
INVARIANTS
  TypeOK
  Cap
  LowCap
PROPERTY PoolSpec
