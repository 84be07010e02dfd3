---------------------------- MODULE MCStaffDevice ----------------------------
(* Small instances of the staff's sections. *)
EXTENDS StaffDevice, TLC

CONSTANTS o1, w1, w2, c1, c2, m1, r1, n1, n2

MCTasks == {o1}
MCPoints == {w1, w2}
MCat == [t \in MCTasks |-> w1]
MCSlots == {c1, c2}
MCOrders == {m1}
MCRequests == {r1}
MCFilters == {{"waiting", "mine", "other", "pending"}, {"waiting"}}
MCLanes == {n1, n2}
=============================================================================
