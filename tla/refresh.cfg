SPECIFICATION FairSpec
CONSTANTS
  c = c
  q = q
  u = u
  Coords = {c}
  Workers = {u}
  Tasks = {1, 2, 3}
  Callers = {q}
  Home <- Homes
  Slots = 1
  MaxPending = 2
  FreshTTL = 1
  StaleTTL = 2
  ErrorTTL = 2
  LockTTL = 1
  ScanTime = 1
  MaxVersion = 2
  MaxFaults = 1
  None = None
INVARIANTS
  TypeOK
  FreshMeansAnHour
  BackgroundBounded
PROPERTIES
  NotScannableIsNews
  Answered
CHECK_DEADLOCK FALSE
