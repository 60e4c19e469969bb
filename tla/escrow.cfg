SPECIFICATION FairSpec
CONSTANTS
  u1 = u1
  u2 = u2
  h1 = h1
  h2 = h2
  NoOne = NoOne
  Users = {u1, u2}
  Hooks = {h1, h2}
  Price = 2
  MaxFaults = 1
INVARIANTS
  TypeOK
  StatusBacked
  AmountPaid
  StripeOwes
PROPERTIES
  Recorded
  Settles
CHECK_DEADLOCK FALSE
