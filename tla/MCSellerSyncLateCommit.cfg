CONSTANTS
  sale = sale
  tea = tea
  cups = cups
  Empty = Empty
  Nothing = Nothing
  Sales <- MCSales
  Contents <- MCContents
  MaxEvents = 3
  MaxFailures = 0
SYMMETRY CartSymmetry
SPECIFICATION Spec
INVARIANTS
  NoCommitLost
CHECK_DEADLOCK FALSE
