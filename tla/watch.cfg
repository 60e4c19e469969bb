SPECIFICATION FairSpec
CONSTANTS
  a = a
  p = p
  q = q
  d1 = d1
  d2 = d2
  x = x
  y = y
  None = None
  Watches = {a}
  Passes = {p, q}
  Facts <- History
  MaxVersion <- Lengths
  Digests = {d1, d2}
  Parts = {"r"}
  Findings = {x, y}
  Margin = 5
  Limit = 1
  LongNames = {}
  MaxAdds = 2
  MaxFaults = 1
  MaxOverlaps = 1
INVARIANTS
  TypeOK
  BehaviorAlertMeansNew
  AlertsHaveCause
PROPERTIES
  ChangeNoticed
  ToldOfEveryChange
