------------------------------ MODULE StockBook ------------------------------
(***************************************************************************)
(* What the stock ledger promises: a book of two counters per stock row on *)
(* which whole movement lists are posted one at a time.                    *)
(***************************************************************************)
EXTENDS Integers, Sequences

CONSTANTS Keys, Programs, InitialQty

VARIABLE book   \* stock row -> quantity on hand and the part of it reserved

Physical(m) == m.type \notin {"RESERVATION", "RESERVATION_RELEASE"}

Moved(b, m) ==
    IF Physical(m) THEN [b EXCEPT ![m.key].quantity = @ + m.quantity]
                   ELSE [b EXCEPT ![m.key].reserved = @ + m.quantity]

\* The book after the first i movements of p.
After(p) == LET run[i \in 0..Len(p)] == IF i = 0 THEN book ELSE Moved(run[i - 1], p[i])
            IN  run

Sound(b) == \A k \in Keys : 0 <= b[k].reserved /\ b[k].reserved <= b[k].quantity

Init == book = [k \in Keys |-> [quantity |-> InitialQty, reserved |-> 0]]

Post(p) ==
    /\ \A i \in 0..Len(p) : Sound(After(p)[i])
    /\ book' = After(p)[Len(p)]

Next == \E p \in Programs : Post(p)

Spec == Init /\ [][Next]_book
=============================================================================
