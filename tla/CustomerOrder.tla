---------------------------- MODULE CustomerOrder ----------------------------
(***************************************************************************)
(* What the shop promises the customer about one web order, whoever works  *)
(* on it and in how many parts: the goods leave the shelves step by step,  *)
(* may be put back until the whole order is handed over, and an order is   *)
(* cancelled only while all of its goods still lie on the shelves.         *)
(***************************************************************************)

CONSTANT Mains

VARIABLE stage

Stages == {"none", "open", "packing", "packed", "out", "delivered", "cancelled"}

Init == stage = [m \in Mains |-> "none"]

Move(m, from, to) ==
  /\ stage[m] \in from
  /\ \E s \in to : stage' = [stage EXCEPT ![m] = s]

Place(m) == Move(m, {"none"}, {"open"})

\* Goods leave the shelves: some of them, or the last of them.
Pack(m) == Move(m, {"open", "packing"}, {"packing", "packed"})

\* Goods are put back: some of them, or the last of them.
Unpack(m) == Move(m, {"packing", "packed"}, {"open", "packing"})

HandOver(m) == Move(m, {"packed"}, {"out"})

\* The goods are with the customer, brought there or collected at the shop.
Deliver(m) == Move(m, {"packed", "out"}, {"delivered"})

Cancel(m) == Move(m, {"open"}, {"cancelled"})

Next == \E m \in Mains : Place(m) \/ Pack(m) \/ Unpack(m) \/ HandOver(m)
                         \/ Deliver(m) \/ Cancel(m)

Spec == Init /\ [][Next]_stage
==============================================================================
