-------------------------- MODULE MCSupplierOrder --------------------------
(* Instances of SupplierOrder for TLC. *)
EXTENDS SupplierOrder, TLC

CONSTANTS o1, o2
=============================================================================
