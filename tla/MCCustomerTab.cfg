CONSTANTS
  p1 = p1
  a1 = a1
  a2 = a2
  m1 = m1
  m2 = m2
  NoMethod = NoMethod
  Products <- MCProducts
  Rows <- MCRows
  of <- MCof
  Addresses <- MCAddresses
  Methods <- MCMethods
  Serves <- MCServes
  Wires <- MCWires
  MaxAmount = 2
  MaxPresses = 3
  MaxLosses = 1
  ann = ann
  bob = bob
  NoUser = NoUser
  Users <- MCUsers
  Staff <- MCStaff
  Calls <- MCCalls
  MaxClicks = 4
  MaxCuts = 1
SPECIFICATION TabSpec
INVARIANTS
  RowsOrderedOnce
  RetryIsAnswered
  ShownIsCached
PROPERTIES
  TotalIsOfForm
  TotalComes
CHECK_DEADLOCK FALSE
