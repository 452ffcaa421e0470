---------------------------- MODULE MCStockLedger ----------------------------
(* Instances of StockLedger for TLC. *)
EXTENDS StockLedger

CONSTANTS k1, k2, d1, d2, l1, l2, t1, t2

Move(type, key, quantity, doc, line) ==
    [type |-> type, key |-> key, quantity |-> quantity, doc |-> doc, line |-> line]

\* The movement lists of the callers, on two stock rows.  CompleteUnreserved and Transfer
\* lock the two in opposite orders.
Receive == <<Move("RECEIPT", k1, 1, NoDoc, NoLine)>>
Opening == <<Move("OPENING_BALANCE", k2, 1, NoDoc, NoLine)>>
Reserve == <<Move("RESERVATION", k1, 2, d1, NoLine)>>
Release == <<Move("RESERVATION_RELEASE", k1, -2, d1, NoLine)>>
Complete == <<Move("RESERVATION_RELEASE", k1, -2, d1, NoLine), Move("WRITEOFF", k1, -2, d1, l1)>>
CompleteUnreserved == <<Move("WRITEOFF", k1, -2, d2, l1), Move("WRITEOFF", k2, -1, d2, l2)>>
CancelCompleted == <<Move("RETURN", k1, 2, d1, l1)>>
Transfer == <<Move("WRITEOFF", k2, -1, NoDoc, NoLine), Move("RECEIPT", k1, 1, NoDoc, NoLine)>>

CallerPrograms == {Receive, Opening, Reserve, Release, Complete, CompleteUnreserved,
                   CancelCompleted, Transfer}
=============================================================================
