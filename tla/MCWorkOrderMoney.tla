-------------------------- MODULE MCWorkOrderMoney --------------------------
(* Instances of WorkOrderMoney for TLC. *)
EXTENDS WorkOrderMoney, TLC

CONSTANTS r1, r2, p1, p2, p3

Symmetry == Permutations(Requests) \cup Permutations(Payments)
=============================================================================
