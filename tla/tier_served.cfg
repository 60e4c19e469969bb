SPECIFICATION FairSpec
CONSTANTS
  a = a
  b = b
  h = h
  k = k
  m = m
  loop = loop
  r = r
  l = l
  Coords = {a, b}
  Handlers = {h, loop}
  Loop = loop
  Runs = {r, l}
  LowRuns = {l}
  Limit = 2
  QueueMax = 2
  MaxAsks = 2
  MaxFaults = 1
  MaxVersion = 1
  NoJob = NoJob
INVARIANTS
  OneBackgroundRun
  HeldLockHasOwner
  SlotsAccounted
PROPERTY QueueEmptied
CHECK_DEADLOCK FALSE
