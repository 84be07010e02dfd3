CONSTANTS
  square = square
  flat = flat
  tube = tube
  tin = tin
  bar = bar
  oolong = oolong
  nougat = nougat
  NoBox = NoBox
  Boxes <- MCBoxes
  Width <- MCWidth
  Height <- MCHeight
  MaxWeight <- MCMaxWeight
  TeaCount <- MCTeaCount
  SweetCount <- MCSweetCount
  Formats <- MCFormats
  CellsWide <- MCCellsWide
  CellsHigh <- MCCellsHigh
  CanRotate <- MCCanRotate
  Role <- MCRole
  ProductOf <- MCProductOf
  Portion <- MCPortion
  Weight <- MCWeight
  MaxItems = 3
  Stock <- MCStock
  MaxEdits = 2
  MaxFailures = 1
  MaxVisits = 1
SPECIFICATION GiftSpec
INVARIANTS
  NoPlaceMeansNone
  ShownIsAsked
  OnceInCart
PROPERTIES
  BusyEnds
CHECK_DEADLOCK FALSE
