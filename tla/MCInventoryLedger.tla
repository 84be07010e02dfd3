------------------------- MODULE MCInventoryLedger -------------------------
(* A small instance of the ledger: two web orders that compete for one     *)
(* row, the first with a second execution at another warehouse, and one    *)
(* sale of the shop that keeps the contested row.                          *)
EXTENDS InventoryLedger

CONSTANTS shop, depot, near, far, rival, sale

MCInventories == {shop, depot}
MCExecutions == {near, far, rival}
MCSales == {sale}
MCBatches == {{near, far}, {rival}}
MCDemand == [o \in MCExecutions |->
  [i \in MCInventories |->
     IF o = far THEN (IF i = depot THEN 1 ELSE 0)
     ELSE IF i = shop THEN (IF o = near THEN 2 ELSE 1) ELSE 0]]
MCInitialQuantity == [i \in MCInventories |-> IF i = shop THEN 3 ELSE 1]
MCSaleContents == {[i \in MCInventories |-> IF i = shop THEN n ELSE 0] : n \in 1 .. 2}
============================================================================
