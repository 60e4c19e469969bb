SPECIFICATION Spec
CONSTANTS
  a = a
  b = b
  h = h
  k = k
  loop = loop
  r = r
  l = l
  m = m
  Coords = {a, b}
  Handlers = {h, k, loop}
  Loop = loop
  Runs = {r, l, m}
  LowRuns = {l, m}
  Limit = 2
  QueueMax = 1
  MaxAsks = 2
  MaxFaults = 0
  MaxVersion = 2
  NoJob = NoJob
SYMMETRY Interchangeable
INVARIANTS
  TypeOK
  OneBackgroundRun
  HeldLockHasOwner
  QueueBounded
  SandboxBounded
CHECK_DEADLOCK FALSE
