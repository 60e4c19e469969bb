SPECIFICATION Spec
CONSTANTS
  u1 = u1
  u2 = u2
  h1 = h1
  h2 = h2
  NoOne = NoOne
  Users = {u1, u2}
  Hooks = {h1}
  Price = 2
  MaxFaults = 0
PROPERTY DisputeOnEscrow
CHECK_DEADLOCK FALSE
