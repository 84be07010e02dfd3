CONSTANTS
  d1 = d1
  d2 = d2
  l1 = l1
  l2 = l2
  NoDelivery = NoDelivery
  Deliveries <- MCDeliveries
  Places <- MCPlaces
  Kinds <- MCKinds
  Transfers <- MCTransfers
  Lines <- MCLines
  PageSize = 1
  MaxSteps = 2
SPECIFICATION CourierSpec
INVARIANTS
  PendingIsOnePost
PROPERTIES
  CourierCatchesUp
CHECK_DEADLOCK FALSE
