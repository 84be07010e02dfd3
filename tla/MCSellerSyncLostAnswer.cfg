CONSTANTS
  sale = sale
  tea = tea
  cups = cups
  Empty = Empty
  Nothing = Nothing
  Sales <- MCSales
  Contents <- MCContents
  MaxEvents = 3
  MaxFailures = 1
SYMMETRY CartSymmetry
SPECIFICATION Spec
PROPERTIES
  RevisionNeverRefuses
CHECK_DEADLOCK FALSE
