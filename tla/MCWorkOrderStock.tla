-------------------------- MODULE MCWorkOrderStock --------------------------
(* Instances of WorkOrderStock for TLC. *)
EXTENDS WorkOrderStock, TLC

CONSTANTS k1, w1, w2, l1, l2, l3, t1, t2

NoPrograms == {}
TxnSymmetry == Permutations(Txns)

\* Two orders compete for one stock row; the first may get a second part.
OneKey == <<k1>>
OneKeyPartKey == [l \in {l1, l2, l3} |-> k1]
OneKeyOwner == (l1 :> w1) @@ (l2 :> w2) @@ (l3 :> w1)
OneKeyParts == (l1 :> 2) @@ (l2 :> 1) @@ (l3 :> 0)
=============================================================================
