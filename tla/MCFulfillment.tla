--------------------------- MODULE MCFulfillment ---------------------------
(* One composite order: a part of the hub itself and a transfer from the   *)
(* depot; after an edit by the manager the hub alone fulfils it.           *)
EXTENDS Fulfillment, TLC

CONSTANTS hub, depot, local, transfer, replacement, order,
          ann, bob, cat

MCInventories == {hub, depot}
MCExecutions == {local, transfer, replacement}
MCBatches == {{local, transfer}, {replacement}}
MCDemand == [o \in Executions |->
  [i \in MCInventories |-> IF i = depot THEN (IF o = transfer THEN 1 ELSE 0)
                           ELSE IF o = transfer THEN 0 ELSE 1]]
MCInitialQuantity == [i \in MCInventories |-> 1]
MCMains == {order}
MCAllocations == [m \in MCMains |-> MCBatches]
MCTransfers == {transfer}
MCPickers == {ann, bob}
OnePicker == {ann}
MCCouriers == {cat}

AllMoves == {"main", "part"} \X Statuses \X AdminTargets

\* The composite order alone, which no edit replaces.
TwoParts == {local, transfer}
CompositeOnly == {TwoParts}
CompositeAllocation == [m \in MCMains |-> CompositeOnly]

PickerSymmetry == Permutations(MCPickers)
============================================================================
