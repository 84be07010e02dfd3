CONSTANTS
  o1 = o1
  w1 = w1
  w2 = w2
  c1 = c1
  c2 = c2
  m1 = m1
  r1 = r1
  n1 = n1
  n2 = n2
  NoTask = NoTask
  NoPoint = NoPoint
  Tasks <- MCTasks
  Points <- MCPoints
  at <- MCat
  Slots <- MCSlots
  MaxEvents = 2
  Orders <- MCOrders
  Issues = {}
  Requests <- MCRequests
  Filters <- MCFilters
  Lanes <- MCLanes
  MaxMoves = 2
  Sections = {"picker", "manager"}
SPECIFICATION DeviceSpec
INVARIANTS
  DeskEditsOncePerDialog
PROPERTIES
  PickerListsCatchUp
  DeskPageCatchesUp
CHECK_DEADLOCK FALSE
