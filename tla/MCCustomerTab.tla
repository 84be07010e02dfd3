----------------------------- MODULE MCCustomerTab -----------------------------
(* One product and two rows of it, two towns with one method in common; two *)
(* users, one of them of the staff.                                         *)
EXTENDS CustomerTab

CONSTANTS p1, a1, a2, m1, m2, ann, bob

MCProducts == {p1}
MCRows == {1, 2}
MCof == [r \in MCRows |-> p1]
MCAddresses == {a1, a2}
MCMethods == {m1, m2}
MCServes == [a \in MCAddresses |-> IF a = a1 THEN << m1 >> ELSE << m2, m1 >>]
MCWires == {1, 2}
MCUsers == {ann, bob}
MCStaff == {ann}
MCCalls == {1, 2}
===============================================================================
