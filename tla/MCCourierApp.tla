----------------------------- MODULE MCCourierApp -----------------------------
(* Two deliveries, one of them a transfer; a page holds one. *)
EXTENDS CourierApp

CONSTANTS d1, d2, l1, l2

MCDeliveries == << d1, d2 >>
MCPlaces == {{d1, d2}, {d1}}
MCKinds == {{d1, d2}, {d2}}
MCTransfers == {d2}
MCLines == {l1, l2}
===============================================================================
