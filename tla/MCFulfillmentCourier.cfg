CONSTANTS
  hub = hub
  depot = depot
  local = local
  transfer = transfer
  replacement = replacement
  order = order
  ann = ann
  bob = bob
  cat = cat
  Admin = Admin
  Nobody = Nobody
  Inventories <- MCInventories
  Executions <- MCExecutions
  Sales = {}
  Batches <- MCBatches
  Demand <- MCDemand
  InitialQuantity <- MCInitialQuantity
  SaleContents = {}
  MaxReturns = 1
  MaxRevision = 0
  MaxAdjustments = 0
  AdjustTo = {0}
  Mains <- MCMains
  Allocations <- MCAllocations
  Transfers <- MCTransfers
  CourierMethod <- MCMains
  PickupMethod = {}
  Pickers <- MCPickers
  Couriers <- MCCouriers
  AdminMoves <- ServiceMoves
SYMMETRY PickerSymmetry
SPECIFICATION Spec
INVARIANTS
  PackedIffCommitted
  HandedOnWhole
  VoidKeepsNothing
  NoStaleOwner
  SinglePartNeverStranded
PROPERTIES
  TravelIsOneWay
  StagesBelongToWorkflows
  StockFollowsLedger
  KeepsPromise
CHECK_DEADLOCK FALSE
