--------------------------- MODULE WorkOrderStock ---------------------------
(***************************************************************************)
(* What work orders do to the stock: the reservation on the way to work,   *)
(* the write-off on completion, the return on cancellation, the trimming   *)
(* of the reservation after an edit of the parts, and the reservation of   *)
(* goods received for an order.  Every effect is a transaction that first  *)
(* locks the row of its work order (a status CAS, or FOR UPDATE) and then  *)
(* runs movements of StockLedger, computed from what it reads at its start.*)
(*                                                                         *)
(* The edits of parts read the status BEFORE their transaction and do not  *)
(* read it again, so a checked edit may take effect after any transition.  *)
(* Money (totals, charges, payments) is in WorkOrderMoney.  Docs are the   *)
(* work orders, Lines their parts, quantities are in base units.           *)
(***************************************************************************)
EXTENDS StockLedger, SequencesExt

CONSTANTS
    PartKey,        \* part -> the stock row it draws from
    KeyOrder,       \* the stock rows in the order of their sort key
    InitialParts,   \* part -> its quantity at the start, 0: an id not used yet
    PartOwner,      \* part -> its work order
    MaxPart,        \* bound: quantity of a part
    MaxEdits,       \* bound: edits of parts in a run
    MaxUnitChanges, \* bound: changes of a unit's coefficient in a run
    MaxReceipts     \* bound: receipts for a work order in a run

ASSUME WorkOrderStockAssumption ==
    /\ PartKey \in [Lines -> Keys]
    /\ PartOwner \in [Lines -> Docs]
    /\ InitialParts \in [Lines -> Nat]
    /\ KeyOrder \in Seq(Keys) /\ Keys \subseteq Range(KeyOrder) /\ IsInjective(KeyOrder)
    /\ {MaxPart, MaxEdits, MaxUnitChanges, MaxReceipts} \subseteq Nat

VARIABLES
    status,     \* work order -> status; DELETED stands for deletedAt
    part,       \* part -> quantity in base units, 0 when it is not there
    fresh,      \* ids of parts not used yet
    checked,    \* edits of parts that have read an editable status
    job,        \* transaction -> what it is doing, and for which order
    used        \* how much of each bound the run has used

orderVars == <<status, part, fresh, checked, job, used>>
allVars == <<vars, orderVars>>

Editable == {"DRAFT", "ESTIMATE", "APPROVED"}
ProcurementActive == Editable \cup {"IN_PROGRESS", "ON_HOLD"}
Deletable == {"DRAFT", "CANCELLED"}
Charged == {"COMPLETED", "INVOICED"}

Transitions ==
    [s \in {"DRAFT", "ESTIMATE", "APPROVED", "IN_PROGRESS", "ON_HOLD", "COMPLETED",
            "INVOICED", "PAID", "ARCHIVED", "CANCELLED", "DELETED"} |->
        CASE s = "DRAFT" -> {"ESTIMATE", "CANCELLED"}
          [] s = "ESTIMATE" -> {"APPROVED", "DRAFT", "CANCELLED"}
          [] s = "APPROVED" -> {"IN_PROGRESS", "ON_HOLD", "CANCELLED"}
          [] s = "IN_PROGRESS" -> {"ON_HOLD", "COMPLETED"}
          [] s = "ON_HOLD" -> {"IN_PROGRESS", "CANCELLED"}
          [] s = "COMPLETED" -> {"INVOICED", "CANCELLED"}
          [] s = "INVOICED" -> {"PAID", "CANCELLED"}
          [] s = "PAID" -> {"ARCHIVED"}
          [] OTHER -> {}]

Statuses == DOMAIN Transitions

NoJob == [kind |-> "none"]

\* The transaction that holds the row lock of work order w, if any.
Locked(w) == \E t \in Txns : job[t] # NoJob /\ job[t].order = w

-----------------------------------------------------------------------------
(* What the transactions read. *)

PartsOf(w) == {l \in Lines : PartOwner[l] = w /\ part[l] > 0}
SumOf(f, S) == SumFunction([x \in S |-> f[x]])

\* requiredForWorkOrder, for a given assignment of quantities.
Required(w, quantity, k) ==
    SumOf(quantity, {l \in Lines : PartOwner[l] = w /\ PartKey[l] = k})

\* netReservedByWorkOrder.
Net(w, k) == committed[k].held[w]
Larger(a, b) == IF a > b THEN a ELSE b
Free(row) == Larger(0, row.quantity - row.reserved)

WrittenByLine(w, l) == Written(<<w, l>>, PartKey[l])

-----------------------------------------------------------------------------
(* The movement lists. *)

Movement(type, k, q, w, l) ==
    [type |-> type, key |-> k, quantity |-> q, doc |-> w, line |-> l]

\* A movement on every key whose amount is positive, in the order of the keys.
InKeyOrder(type, w, amount, sign) ==
    LET k(i) == KeyOrder[i]
    IN  FlattenSeq([i \in 1..Len(KeyOrder) |->
            IF amount[k(i)] > 0 THEN <<Movement(type, k(i), sign * amount[k(i)], w, NoLine)>>
                                ELSE <<>>])

\* Faulty: what the order already holds is not subtracted (WO-C1).
FaultyReserveProgram(w) ==
    InKeyOrder("RESERVATION", w,
        [k \in Keys |-> Smaller(Required(w, part, k), Free(committed[k]))], 1)

\* reserveParts: the missing part of the need, as far as there are free goods.
ReserveProgram(w) ==
    InKeyOrder("RESERVATION", w,
        [k \in Keys |-> Smaller(Required(w, part, k) - Larger(0, Net(w, k)),
                                Free(committed[k]))], 1)

\* releaseExcess: what the order holds above what it keeps.
ReleaseProgram(w, keep) ==
    InKeyOrder("RESERVATION_RELEASE", w,
        [k \in Keys |-> Smaller(Net(w, k) - keep[k], committed[k].reserved)], -1)

KeepNothing == [k \in Keys |-> 0]

\* loadParts has no ORDER BY: any order of the parts.
Listings(w) ==
    {s \in [1..Cardinality(PartsOf(w)) -> PartsOf(w)] :
        \A i, j \in DOMAIN s : s[i] = s[j] => i = j}

\* Faulty: the reservation is released for the whole part, whoever holds it
\* (Bug #780).
FaultyOwnRelease(w, s, i) == part[s[i]]

\* takeFromReserve: the part of the order's own reservation that falls to the
\* i-th part of the listing.
OwnRelease(w, s, i) ==
    LET earlier == {j \in 1..(i - 1) : PartKey[s[j]] = PartKey[s[i]]}
        left == Larger(0, Net(w, PartKey[s[i]])) - SumFunction([j \in earlier |-> part[s[j]]])
    IN  Larger(0, Smaller(part[s[i]], left))

\* Faulty: only what is reserved is written off.
FaultyWriteOffProgram(w, s) ==
    LET k(i) == PartKey[s[i]]
        q(i) == OwnRelease(w, s, i)
    IN  FlattenSeq([i \in 1..Len(s) |->
            IF q(i) = 0 THEN <<>>
            ELSE <<Movement("RESERVATION_RELEASE", k(i), -q(i), w, NoLine),
                   Movement("WRITEOFF", k(i), -q(i), w, s[i])>>])

\* writeOffPartsAndCharge: release and write-off part by part, then the rest of
\* the reservation.
PartWriteOff(w, s, i) ==
    LET k == PartKey[s[i]]
        q == OwnRelease(w, s, i)
    IN  (IF q = 0 THEN <<>> ELSE <<Movement("RESERVATION_RELEASE", k, -q, w, NoLine)>>)
            \o <<Movement("WRITEOFF", k, -part[s[i]], w, s[i])>>

WriteOffProgram(w, s) ==
    FlattenSeq([i \in 1..Len(s) |-> PartWriteOff(w, s, i)])
        \o ReleaseProgram(w, [k \in Keys |-> Required(w, part, k)])

FaultyReturnedQuantity(w, l) == part[l]   \* Faulty: by the present coefficient.
\* returnPartsAndCredit: what each part really wrote off, or its quantity when
\* it wrote off nothing.
ReturnedQuantity(w, l) ==
    IF WrittenByLine(w, l) > 0 THEN WrittenByLine(w, l) ELSE part[l]
ReturnProgram(w, s) ==
    [i \in 1..Len(s) |-> Movement("RETURN", PartKey[s[i]], ReturnedQuantity(w, s[i]), w, s[i])]

\* The lists a transition may run.
TransitionPrograms(w, from, to) ==
    CASE to = "IN_PROGRESS" -> {ReserveProgram(w)}
      [] to = "COMPLETED" -> {WriteOffProgram(w, s) : s \in Listings(w)}
      [] to = "CANCELLED" /\ from \in Charged -> {ReturnProgram(w, s) : s \in Listings(w)}
      [] to \in {"CANCELLED", "DELETED"} /\ from \notin Charged ->
            {ReleaseProgram(w, KeepNothing)}
      [] OTHER -> {<<>>}

-----------------------------------------------------------------------------
(* Requests. *)

OrderInit ==
    /\ Init
    /\ status = [w \in Docs |-> "APPROVED"]
    /\ part = InitialParts
    /\ fresh = {l \in Lines : InitialParts[l] = 0}
    /\ checked = {}
    /\ job = [t \in Txns |-> NoJob]
    /\ used = [edits |-> 0, units |-> 0, receipts |-> 0]

\* A transaction that locks w, runs p, and takes effect at its commit.
Open(t, w, p, j) ==
    /\ ~Running(t) /\ job[t] = NoJob
    /\ ~Locked(w)
    /\ txn' = [txn EXCEPT ![t] = [program |-> p, next |-> 1, checked |-> FALSE]]
    /\ job' = [job EXCEPT ![t] = j]
    /\ UNCHANGED <<live, committed, lock>>

\* transition (and remove, to DELETED): the status CAS, then the stock effects.
BeginTransition(t, w, to) ==
    /\ to \in Transitions[status[w]] \/ (to = "DELETED" /\ status[w] \in Deletable)
    /\ \E p \in TransitionPrograms(w, status[w], to) :
          Open(t, w, p, [kind |-> "transition", order |-> w, to |-> to])
    /\ UNCHANGED <<status, part, fresh, checked, used>>

\* addPart, updatePart, removePart: the status and the part are read outside the
\* transaction; q is the new quantity, 0 for removePart.
CheckEdit(l, q) ==
    /\ used.edits < MaxEdits
    /\ status[PartOwner[l]] \in Editable
    /\ IF l \in fresh THEN q > 0 ELSE part[l] > 0 /\ q # part[l]
    /\ checked' = checked \cup {[part |-> l, quantity |-> q, add |-> l \in fresh]}
    /\ fresh' = fresh \ {l}
    /\ used' = [used EXCEPT !.edits = @ + 1]
    /\ UNCHANGED <<vars, status, part, job>>

\* addPart inserts the part; its commit waits for the row of the order
\* (recalcTotals writes it), and no reservation is looked at.
AddPart(e) ==
    /\ e.add
    /\ ~Locked(PartOwner[e.part])
    /\ part' = [part EXCEPT ![e.part] = e.quantity]
    /\ checked' = checked \ {e}
    /\ UNCHANGED <<vars, status, fresh, job, used>>

\* updatePart and removePart lock the order, write the part and trim the
\* reservation to the new need (reconcileAfterPartsChange).  A part removed in the
\* meantime stays removed.
BeginChangePart(t, e) ==
    /\ ~e.add
    /\ LET w == PartOwner[e.part]
           q == IF part[e.part] = 0 THEN 0 ELSE e.quantity
           after == [part EXCEPT ![e.part] = q]
       IN  Open(t, w, ReleaseProgram(w, [k \in Keys |-> Required(w, after, k)]),
                [kind |-> "edit", order |-> w, part |-> e.part, quantity |-> q])
    /\ checked' = checked \ {e}
    /\ UNCHANGED <<status, part, fresh, used>>

\* The coefficient of the unit of a part's good is edited: its quantity in base
\* units changes, in any status, without a look at the work orders.
ChangeUnit(l, q) ==
    /\ used.units < MaxUnitChanges
    /\ part[l] > 0 /\ q # part[l]
    /\ part' = [part EXCEPT ![l] = q]
    /\ used' = [used EXCEPT !.units = @ + 1]
    /\ UNCHANGED <<vars, status, fresh, checked, job>>

\* PurchaseOrdersService.receive with one good ordered for w: the candidate order
\* is locked before the stock row (lockCandidateWorkOrders).
BeginReceipt(t, w, k, q) ==
    /\ used.receipts < MaxReceipts
    /\ Open(t, w, <<Movement("RECEIPT", k, q, NoDoc, NoLine)>>,
            [kind |-> "receipt", order |-> w, key |-> k, quantity |-> q, allocated |-> FALSE])
    /\ used' = [used EXCEPT !.receipts = @ + 1]
    /\ UNCHANGED <<status, part, fresh, checked>>

\* allocateOnReceipt, after the RECEIPT, under the lock of the stock row.
AllocateReceived(t) ==
    /\ Running(t) /\ ~Unfinished(t)
    /\ job[t].kind = "receipt" /\ ~job[t].allocated
    /\ LET w == job[t].order
           k == job[t].key
           open == Required(w, part, k) - Larger(0, Net(w, k))
           reserve == Smaller(Smaller(job[t].quantity, open), Free(live[k]))
       IN  txn' = [txn EXCEPT ![t].program =
                      IF status[w] \in ProcurementActive /\ reserve > 0
                      THEN Append(@, Movement("RESERVATION", k, reserve, w, NoLine))
                      ELSE @]
    /\ job' = [job EXCEPT ![t].allocated = TRUE]
    /\ UNCHANGED <<live, committed, lock, status, part, fresh, checked, used>>

\* releaseReservation of a purchase list item, at most the order's own net.
BeginReleaseReservation(t, w, k, q) ==
    /\ q <= Net(w, k)
    /\ Open(t, w, <<Movement("RESERVATION_RELEASE", k, -q, w, NoLine)>>,
            [kind |-> "release", order |-> w])
    /\ UNCHANGED <<status, part, fresh, checked, used>>

-----------------------------------------------------------------------------
(* The steps of the transactions. *)

EndJob(t) == job' = [job EXCEPT ![t] = NoJob]

CommitJob(t) ==
    /\ job[t] # NoJob
    /\ ~Unfinished(t)
    /\ job[t].kind = "receipt" => job[t].allocated
    /\ committed' = [k \in Keys |-> IF lock[k] = t THEN live[k] ELSE committed[k]]
    /\ lock' = [k \in Keys |-> IF lock[k] = t THEN NoTxn ELSE lock[k]]
    /\ txn' = [txn EXCEPT ![t] = Idle]
    /\ status' = IF job[t].kind = "transition"
                 THEN [status EXCEPT ![job[t].order] = job[t].to] ELSE status
    /\ part' = IF job[t].kind = "edit"
               THEN [part EXCEPT ![job[t].part] = job[t].quantity] ELSE part
    /\ EndJob(t)
    /\ UNCHANGED <<live, fresh, checked, used>>

MoveOn(t) ==
    /\ CheckMovement(t) \/ ApplyMovement(t)
    /\ UNCHANGED orderVars

GiveUp(t) ==
    /\ RefuseMovement(t) \/ FailMovement(t) \/ DeadlockVictim(t) \/ Interrupt(t)
    /\ EndJob(t)
    /\ UNCHANGED <<status, part, fresh, checked, used>>

Quantities == 1..MaxPart

Request(t) ==
    \/ \E w \in Docs, to \in Statuses : BeginTransition(t, w, to)
    \/ \E e \in checked : BeginChangePart(t, e)
    \/ \E w \in Docs, k \in Keys, q \in Quantities :
          BeginReceipt(t, w, k, q) \/ BeginReleaseReservation(t, w, k, q)

OrderNext ==
    \/ \E t \in Txns :
          Request(t) \/ MoveOn(t) \/ GiveUp(t) \/ AllocateReceived(t) \/ CommitJob(t)
    \/ \E l \in Lines : \E q \in 0..MaxPart : CheckEdit(l, q)
    \/ \E e \in checked : AddPart(e)
    \/ \E l \in Lines : \E q \in Quantities : ChangeUnit(l, q)

OrderSpec == OrderInit /\ [][OrderNext]_allVars

-----------------------------------------------------------------------------
(* Properties. *)

\* The reservation of a stock row is the sum of what the work orders hold, and no
\* order holds less than nothing: nobody releases what another order reserved
\* (Bug #780, BR-INVT-018), whichever transitions, edits, receipts and
\* releases of purchase list items interleave.
ReservationsOwned ==
    \A k \in Keys :
        /\ \A d \in Docs \cup {NoDoc} : committed[k].held[d] >= 0
        /\ SumFunction(committed[k].held) = committed[k].reserved

Closed == {"COMPLETED", "INVOICED", "PAID", "ARCHIVED", "CANCELLED", "DELETED"}

\* An order never reserves more than its parts need, and nothing once it is
\* completed, cancelled or deleted: entering work twice, receiving goods, shrinking or
\* removing a part do not add up to an excess, and a receipt or an edit that was under
\* way when the order was closed leaves nothing hanging on the stock (BR-WO-021).
HeldWithinNeed ==
    \A w \in Docs, k \in Keys :
        Net(w, k) <= (IF status[w] \in Closed THEN 0 ELSE Required(w, part, k))

\* Completing an order writes off each of its parts in full, reserved or not.
CompletionWritesOffParts ==
    [][\A w \in Docs :
        status[w] # "COMPLETED" /\ status'[w] = "COMPLETED" =>
            \A l \in PartsOf(w) : WrittenByLine(w, l)' = part[l]]_allVars

\* Cancelling an order puts back exactly what each of its lines took from the stock,
\* also when the unit of a good changed after the write-off (BR-WO-039).
CancelReturnsWrittenOff ==
    \A w \in Docs, l \in Lines :
        status[w] = "CANCELLED" => Outstanding(committed[PartKey[l]].batches, <<w, l>>) = 0
=============================================================================
