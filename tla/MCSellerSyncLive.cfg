CONSTANTS
  sale = sale
  tea = tea
  cups = cups
  Empty = Empty
  Nothing = Nothing
  Sales <- MCSales
  Contents <- MCContents
  MaxEvents = 2
  MaxFailures = 1
SPECIFICATION FairSpec
PROPERTIES
  UpsertsDrain
CHECK_DEADLOCK FALSE
