CONSTANTS
  NoPoint = NoPoint
  NoSale = NoSale
  Points = {p1}
  Sales = {s1, s2, s3}
  Stock = 1
  Ttl = 0
  MaxNow = 2
  MaxPresses = 4
SPECIFICATION TillSpec
PROPERTIES
  NoSaleAfterExpiry
CHECK_DEADLOCK FALSE
