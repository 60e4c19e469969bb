SPECIFICATION FairSpec
CONSTANTS
  hook = hook
  hook2 = hook2
  w = w
  d = d
  e = e
  o = o
  None = None
  Subs = {hook}
  Requests = {d}
  Worker = w
  Owners = {o}
  Threshold = 3
  MaxActivations = 1
  MaxSuspensions = 1
  MaxFaults = 1
INVARIANT TypeOK
PROPERTIES
  TurnedOffForCause
  StaysOff
  BrokenLeftAlone
CHECK_DEADLOCK FALSE
