CONSTANTS
  NoPoint = NoPoint
  NoSale = NoSale
  Points = {p1, p2}
  Sales = {s1, s2, s3}
  Stock = 1
  Ttl = 0
  MaxNow = 2
  MaxPresses = 3
SPECIFICATION TillSpec
INVARIANTS
  OneDraftPerPoint
  PointIsWhole
PROPERTIES
  WizardGetsDraft
CHECK_DEADLOCK FALSE
