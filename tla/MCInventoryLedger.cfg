CONSTANTS
  shop = shop
  depot = depot
  near = near
  far = far
  rival = rival
  sale = sale
  Inventories <- MCInventories
  Executions <- MCExecutions
  Sales <- MCSales
  Batches <- MCBatches
  Demand <- MCDemand
  InitialQuantity <- MCInitialQuantity
  SaleContents <- MCSaleContents
  MaxReturns = 1
  MaxRevision = 2
  MaxAdjustments = 1
  AdjustTo = {0, 2}
SPECIFICATION LedgerSpec
INVARIANTS
  LedgerTypeOK
  StampsAgree
  BooksAgree
  ShippedOnce
  KeysNeverClash
PROPERTIES
  OversoldOnlyByHand
  ReleaseIsFinal
