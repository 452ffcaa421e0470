--------------------------- MODULE MCOnlinePayment ---------------------------
(* Instances of OnlinePayment for TLC. *)
EXTENDS OnlinePayment, TLC

CONSTANTS i1, i2, w1, w2

OneEach == [i \in Intents |-> 1]
=============================================================================
