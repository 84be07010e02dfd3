CONSTANTS
  NoPoint = NoPoint
  NoSale = NoSale
  Points = {p1}
  Sales = {s1, s2, s3}
  Stock = 1
  Ttl = 2
  MaxNow = 2
  MaxPresses = 4
SPECIFICATION TillSpec
INVARIANTS
  SalesAreAccepted
CHECK_DEADLOCK FALSE
