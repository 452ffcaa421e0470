-------------------------- MODULE SupplierPlacement --------------------------
(***************************************************************************)
(* What sending goods orders through a supplier's API promises: whatever   *)
(* is lost on the way, the supplier is asked for an external order again   *)
(* only when it certainly did not get the previous request, so it never    *)
(* holds it twice; and the order is called placed only when it is held.    *)
(***************************************************************************)

CONSTANT Order  \* external orders

VARIABLES
    asked,      \* orders whose request the supplier may still act on
    held,       \* orders the supplier holds
    known       \* orders known to be placed

pvars == <<asked, held, known>>

PInit == asked = {} /\ held = {} /\ known = {}

\* A request leaves: none is under way and the order is not held.
Ask(o) ==
    /\ o \notin asked \cup held
    /\ asked' = asked \cup {o}
    /\ UNCHANGED <<held, known>>

Accept(o) ==
    /\ o \in asked
    /\ asked' = asked \ {o} /\ held' = held \cup {o}
    /\ UNCHANGED known

\* The request is refused, or never arrives.
Drop(o) ==
    /\ o \in asked
    /\ asked' = asked \ {o}
    /\ UNCHANGED <<held, known>>

Learn(o) ==
    /\ o \in held
    /\ known' = known \cup {o}
    /\ UNCHANGED <<asked, held>>

\* The supplier calls a known order off; the shop learns of it.
Forget(o) ==
    /\ known' = known \ {o}
    /\ UNCHANGED <<asked, held>>

PNext == \E o \in Order : Ask(o) \/ Accept(o) \/ Drop(o) \/ Learn(o) \/ Forget(o)

PSpec == PInit /\ [][PNext]_pvars
=============================================================================
