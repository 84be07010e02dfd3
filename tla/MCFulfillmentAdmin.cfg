CONSTANTS
  hub = hub
  depot = depot
  local = local
  transfer = transfer
  replacement = replacement
  order = order
  ann = ann
  bob = bob
  cat = cat
  Admin = Admin
  Nobody = Nobody
  Inventories <- MCInventories
  Executions <- TwoParts
  Sales = {}
  Batches <- CompositeOnly
  Demand <- MCDemand
  InitialQuantity <- MCInitialQuantity
  SaleContents = {}
  MaxReturns = 1
  MaxRevision = 0
  MaxAdjustments = 1
  AdjustTo = {0}
  Mains <- MCMains
  Allocations <- CompositeAllocation
  Transfers <- MCTransfers
  CourierMethod = {}
  PickupMethod = {}
  Pickers <- OnePicker
  Couriers <- MCCouriers
  AdminMoves <- AllMoves
SPECIFICATION Spec
INVARIANTS
  HandedOnWhole
CHECK_DEADLOCK FALSE
