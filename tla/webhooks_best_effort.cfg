SPECIFICATION Spec
CONSTANTS
  hook = hook
  hook2 = hook2
  w = w
  d = d
  e = e
  o = o
  None = None
  Subs = {hook}
  Requests = {d}
  Worker = w
  Owners = {o}
  Threshold = 2
  MaxActivations = 1
  MaxSuspensions = 0
  MaxFaults = 0
INVARIANT BestEffort
CHECK_DEADLOCK FALSE
