----------------------------- MODULE StockLedger -----------------------------
(***************************************************************************)
(* The stock ledger: InventoryService.createMovement and the batch         *)
(* operations it calls, run by concurrent database transactions.           *)
(*                                                                         *)
(* A transaction runs a list of movements.  PostgreSQL runs at READ        *)
(* COMMITTED: a read sees the committed version of a row (or the           *)
(* transaction's own), the upsert of a stock row locks it until the end of *)
(* the transaction and increments the newest version.  So one movement is  *)
(* two steps: CheckMovement, which reads without a lock, and ApplyMovement,*)
(* which owns the row.  Everything after the upsert (the post-checks and   *)
(* the batch updates) touches data that only the owner of the stock row    *)
(* writes, and belongs to the second step.                                 *)
(*                                                                         *)
(* A missing stock_items row behaves as a row with 0 on both counters.     *)
(* isActive of a batch is remaining > 0.  Prices and costs are left out.   *)
(***************************************************************************)
EXTENDS Integers, Sequences, FiniteSets, Functions

CONSTANTS
    Keys,       \* stock rows: pairs (good, warehouse)
    Docs,       \* source documents, the documentId of a movement
    NoDoc,      \* a movement without a source document
    Lines,      \* document lines, the documentLineId of a movement
    NoLine,     \* a movement without a line
    Txns,       \* database transactions that may run at the same time
    NoTxn,      \* the owner of an unlocked row
    Programs,   \* the movement lists the callers submit
    InitialQty, \* goods on hand at the start, one batch per stock row
    MaxLots     \* bound: batches per stock row

ASSUME StockLedgerAssumption ==
    /\ NoTxn \notin Txns
    /\ NoDoc \notin Docs
    /\ NoLine \notin Lines
    /\ IsFiniteSet(Docs) /\ IsFiniteSet(Lines)
    /\ InitialQty \in Nat
    /\ MaxLots \in Nat

\* Definitions named Faulty... are plausible errors, used only to show that a
\* property notices them.
FaultyBatchCreatingInflow == {"RECEIPT"}
BatchCreatingInflow == {"RECEIPT", "OPENING_BALANCE"}
InflowOnly == {"RECEIPT", "OPENING_BALANCE", "RESERVATION"}
OutflowOnly == {"WRITEOFF", "TRANSFER"}
MovementTypes == InflowOnly \cup OutflowOnly \cup {"RETURN", "RESERVATION_RELEASE"}

Movements == [type : MovementTypes, key : Keys, quantity : Int,
              doc : Docs \cup {NoDoc}, line : Lines \cup {NoLine}]

ASSUME ProgramsAssumption == Programs \subseteq Seq(Movements)

\* Only returnPartsAndCredit returns goods: part by part, each part once, by its line.
ASSUME ReturnsAssumption ==
    \A p \in Programs : \A i, j \in 1..Len(p) :
        p[i].type = "RETURN" =>
            /\ p[i].line # NoLine
            /\ p[j] = [p[i] EXCEPT !.quantity = p[j].quantity] => i = j

\* What a BatchConsumption row refers to: the document and its line.
Sources == (Docs \cup {NoDoc}) \X (Lines \cup {NoLine})

\* A batch with its BatchConsumption rows: taken and returned, per source.
Batches == [received : Nat, remaining : Nat,
            taken : [Sources -> Nat], returned : [Sources -> Nat]]

\* A stock row, its batches in creation order, and the net reservation of
\* each document (the sum of its RESERVATION and RESERVATION_RELEASE rows).
Rows == [quantity : Int, reserved : Int, batches : Seq(Batches),
         held : [Docs \cup {NoDoc} -> Int]]

VARIABLES
    live,       \* newest version of every row, uncommitted writes included
    committed,  \* committed version of every row, what other readers see
    lock,       \* the transaction that holds the row lock
    txn         \* per transaction: its program, the next movement, and
                \* whether that movement has passed its unlocked checks

vars == <<live, committed, lock, txn>>

Idle == [program |-> <<>>, next |-> 1, checked |-> FALSE]

NewBatch(q) == [received |-> q, remaining |-> q,
                taken |-> [s \in Sources |-> 0], returned |-> [s \in Sources |-> 0]]

InitialRow == [quantity |-> InitialQty, reserved |-> 0,
               batches |-> IF InitialQty > 0 THEN <<NewBatch(InitialQty)>> ELSE <<>>,
               held |-> [d \in Docs \cup {NoDoc} |-> 0]]

Init ==
    /\ live = [k \in Keys |-> InitialRow]
    /\ committed = live
    /\ lock = [k \in Keys |-> NoTxn]
    /\ txn = [t \in Txns |-> Idle]

-----------------------------------------------------------------------------
(* The rules of one movement. *)

Running(t) == txn[t].program # <<>>
Unfinished(t) == Running(t) /\ txn[t].next <= Len(txn[t].program)
Current(t) == txn[t].program[txn[t].next]

\* The row t reads: its own version once it has written it.
Visible(t, k) == IF lock[k] = t THEN live[k] ELSE committed[k]

\* The sign rules, before any read.
WellFormed(m) ==
    /\ m.quantity # 0
    /\ m.type = "RESERVATION_RELEASE" => m.quantity < 0
    /\ m.type \in InflowOnly => m.quantity > 0
    /\ m.type \in OutflowOnly => m.quantity < 0
    /\ m.type = "RETURN" => m.quantity > 0 /\ m.doc # NoDoc

\* The checks on the row as read, without a lock.
PreCheck(m, row) ==
    LET available == row.quantity - row.reserved IN
    /\ m.quantity < 0 /\ m.type # "RESERVATION_RELEASE" => available >= -m.quantity
    /\ m.type = "RESERVATION" => m.quantity <= available
    /\ m.type = "RESERVATION_RELEASE" => -m.quantity <= row.reserved

QuantityDelta(m) ==
    IF m.type \in {"RESERVATION", "RESERVATION_RELEASE"} THEN 0 ELSE m.quantity
ReservedDelta(m) ==
    IF m.type \in {"RESERVATION", "RESERVATION_RELEASE"} THEN m.quantity ELSE 0

\* Faulty: a reservation is not compared again with the quantity.
FaultyPostCheck(m, quantity, reserved) ==
    /\ QuantityDelta(m) < 0 => quantity >= 0 /\ reserved <= quantity
    /\ ReservedDelta(m) < 0 => reserved >= 0

\* The checks on the values the upsert returned, under the row lock.
PostCheck(m, quantity, reserved) ==
    /\ QuantityDelta(m) < 0 => quantity >= 0 /\ reserved <= quantity
    /\ ReservedDelta(m) < 0 => reserved >= 0
    /\ ReservedDelta(m) > 0 => reserved <= quantity

-----------------------------------------------------------------------------
(* Batches. *)

Indices(batches) == 1..Len(batches)
Smaller(a, b) == IF a < b THEN a ELSE b

\* The ways to draw q in one walk over the amounts: every entry met is drained
\* before the next, so at most one entry is left half drawn.  The order of the
\* walk is that of the cost method (FIFO, LIFO, FEFO: the organisation may
\* change the setting between two movements), here any order.
Walks(amount, q) ==
    {w \in [DOMAIN amount -> 0..q] :
        /\ \A i \in DOMAIN amount : w[i] <= amount[i]
        /\ SumFunction(w) = q
        /\ \A i, j \in DOMAIN amount :
              (0 < w[i] /\ w[i] < amount[i] /\ 0 < w[j] /\ w[j] < amount[j]) => i = j}

\* Faulty: the batch is decremented without a look at what it has left.
FaultyConsumed(batches, q, src) ==
    {[batches EXCEPT ![i].remaining = @ - q, ![i].taken[src] = @ + q] : i \in Indices(batches)}

\* consumeBatch: no walk reaches the quantity when the batches fall short.
Consumed(batches, q, src) ==
    {[i \in Indices(batches) |->
        [batches[i] EXCEPT !.remaining = @ - w[i], !.taken[src] = @ + w[i]]] :
        w \in Walks([i \in Indices(batches) |-> batches[i].remaining], q)}

LinesWithOwn(batches, doc) ==
    {l \in Lines : \E i \in Indices(batches) : batches[i].taken[<<doc, l>>] > 0}

\* What restoreBatchesForReturn may put back into each batch: what this very
\* line took; or, when the line took nothing, the net of the document's rows
\* outside the lines that have their own (all rows for a movement without line).
ReturnPool(batches, doc, line) ==
    LET own == LinesWithOwn(batches, doc)
        pooled == IF line = NoLine THEN Lines \cup {NoLine}
                                   ELSE (Lines \cup {NoLine}) \ own
    IN  [i \in Indices(batches) |->
            IF line \in own THEN batches[i].taken[<<doc, line>>]
            ELSE LET net == SumFunction([l \in pooled |->
                        batches[i].taken[<<doc, l>>] - batches[i].returned[<<doc, l>>]])
                 IN  IF net > 0 THEN net ELSE 0]

\* returnToBatch: once per (batch, document, line), never above what came in.
AlreadyReturned(batch, src) == batch.returned[src] > 0
ReturnFits(batches, back, src) ==
    \A i \in Indices(batches) :
        (back[i] > 0 /\ ~AlreadyReturned(batches[i], src))
            => batches[i].remaining <= batches[i].received - back[i]

ReturnWalks(batches, m) ==
    LET pool == ReturnPool(batches, m.doc, m.line)
    IN  Walks(pool, Smaller(SumFunction(pool), m.quantity))

\* Faulty: the return is not noted in the journal.
FaultyPutBack(batches, back, src) ==
    [i \in Indices(batches) |-> [batches[i] EXCEPT !.remaining = @ + back[i]]]

PutBack(batches, back, src) ==
    [i \in Indices(batches) |->
        IF back[i] = 0 \/ AlreadyReturned(batches[i], src) THEN batches[i]
        ELSE [batches[i] EXCEPT !.remaining = @ + back[i], !.returned[src] = @ + back[i]]]

\* The batch lists a movement may leave; none when its batch step fails.
BatchOutcomes(m, batches) ==
    LET src == <<m.doc, m.line>> IN
    CASE m.type \in BatchCreatingInflow -> {Append(batches, NewBatch(m.quantity))}
      [] QuantityDelta(m) < 0 -> Consumed(batches, -m.quantity, src)
      [] m.type = "RETURN" ->
            {PutBack(batches, back, src) :
                back \in {b \in ReturnWalks(batches, m) : ReturnFits(batches, b, src)}}
      [] OTHER -> {batches}

RowsAfter(m, row) ==
    {[quantity |-> row.quantity + QuantityDelta(m),
      reserved |-> row.reserved + ReservedDelta(m),
      batches |-> b,
      held |-> [row.held EXCEPT ![m.doc] = @ + ReservedDelta(m)]] :
        b \in BatchOutcomes(m, row.batches)}

-----------------------------------------------------------------------------
(* Steps of a transaction. *)

\* The caller holds its document's row (a status CAS or FOR UPDATE opens every
\* calling transaction), so one transaction at a time works for a document.
DocsOf(p) == {p[i].doc : i \in 1..Len(p)} \ {NoDoc}
DocumentsFree(p) ==
    \A t \in Txns : Running(t) => DocsOf(txn[t].program) \cap DocsOf(p) = {}

Outstanding(batches, src) ==
    SumFunction([i \in Indices(batches) |->
        batches[i].taken[src] - batches[i].returned[src]])

Written(src, key) ==
    SumFunction([i \in Indices(committed[key].batches) |->
        committed[key].batches[i].taken[src]])

\* A document line is written off once and returned in full: the status CAS of
\* its document lets it complete once and cancel once (WorkOrderStock shows it).
OncePerLine(p) ==
    \A i \in 1..Len(p) :
        LET src == <<p[i].doc, p[i].line>> IN
        /\ p[i].type = "RETURN" =>
              p[i].quantity = Outstanding(committed[p[i].key].batches, src)
        /\ p[i].type \in OutflowOnly /\ p[i].line # NoLine => Written(src, p[i].key) = 0

\* Bound on the model: no receipt starts when a row might exceed MaxLots.
RoomForLots(p) ==
    \A i \in 1..Len(p) : p[i].type \in BatchCreatingInflow =>
        Len(live[p[i].key].batches) + Cardinality(Txns) <= MaxLots + 1

StartProgram(t, p) ==
    /\ ~Running(t)
    /\ p # <<>>
    /\ DocumentsFree(p)
    /\ txn' = [txn EXCEPT ![t] = [program |-> p, next |-> 1, checked |-> FALSE]]
    /\ UNCHANGED <<live, committed, lock>>

Begin(t, p) == RoomForLots(p) /\ OncePerLine(p) /\ StartProgram(t, p)

Rollback(t) ==
    /\ live' = [k \in Keys |-> IF lock[k] = t THEN committed[k] ELSE live[k]]
    /\ lock' = [k \in Keys |-> IF lock[k] = t THEN NoTxn ELSE lock[k]]
    /\ txn' = [txn EXCEPT ![t] = Idle]
    /\ UNCHANGED committed

ChecksPass(t) ==
    LET m == Current(t) IN WellFormed(m) /\ PreCheck(m, Visible(t, m.key))

CheckMovement(t) ==
    /\ Unfinished(t) /\ ~txn[t].checked
    /\ ChecksPass(t)
    /\ txn' = [txn EXCEPT ![t].checked = TRUE]
    /\ UNCHANGED <<live, committed, lock>>

\* Faulty: a refusal is swallowed and the movement tried again.
FaultyRefuseMovement(t) == UNCHANGED vars

RefuseMovement(t) ==
    /\ Unfinished(t) /\ ~txn[t].checked
    /\ ~ChecksPass(t)
    /\ Rollback(t)

\* Faulty: a read followed by a write, instead of an upsert that locks the row.
FaultyOwnsOrFree(t, k) == TRUE

OwnsOrFree(t, k) == lock[k] \in {t, NoTxn}

PostCheckPasses(m, row) ==
    PostCheck(m, row.quantity + QuantityDelta(m), row.reserved + ReservedDelta(m))

ApplyMovement(t) ==
    /\ Unfinished(t) /\ txn[t].checked
    /\ LET m == Current(t) IN
         /\ OwnsOrFree(t, m.key)
         /\ PostCheckPasses(m, live[m.key])
         /\ \E row \in RowsAfter(m, live[m.key]) : live' = [live EXCEPT ![m.key] = row]
         /\ lock' = [lock EXCEPT ![m.key] = t]
    /\ txn' = [txn EXCEPT ![t].next = @ + 1, ![t].checked = FALSE]
    /\ UNCHANGED committed

FailMovement(t) ==
    /\ Unfinished(t) /\ txn[t].checked
    /\ LET m == Current(t) IN
         /\ OwnsOrFree(t, m.key)
         /\ ~PostCheckPasses(m, live[m.key]) \/ RowsAfter(m, live[m.key]) = {}
    /\ Rollback(t)

Commit(t) ==
    /\ Running(t) /\ ~Unfinished(t)
    /\ committed' = [k \in Keys |-> IF lock[k] = t THEN live[k] ELSE committed[k]]
    /\ lock' = [k \in Keys |-> IF lock[k] = t THEN NoTxn ELSE lock[k]]
    /\ txn' = [txn EXCEPT ![t] = Idle]
    /\ UNCHANGED live

\* Transactions that wait for each other in a circle; PostgreSQL aborts one.
Waiting(t) == Unfinished(t) /\ txn[t].checked /\ ~OwnsOrFree(t, Current(t).key)
WaitCircle(S) == S # {} /\ \A t \in S : Waiting(t) /\ lock[Current(t).key] \in S
DeadlockVictim(t) ==
    /\ \E S \in SUBSET Txns : t \in S /\ WaitCircle(S)
    /\ Rollback(t)

\* The transaction timeout, a lost connection, a crash of the process, or any
\* failure of the caller's own code between two movements.
Interrupt(t) == Running(t) /\ Rollback(t)

Step(t) ==
    \/ CheckMovement(t)
    \/ RefuseMovement(t)
    \/ ApplyMovement(t)
    \/ FailMovement(t)
    \/ Commit(t)
    \/ DeadlockVictim(t)
    \/ Interrupt(t)

Next == \E t \in Txns : Step(t) \/ \E p \in Programs : Begin(t, p)

Spec == Init /\ [][Next]_vars

\* A transaction that can go on does; a waiter is served in turn (PostgreSQL
\* queues the waiters of a row), and a deadlock is resolved.
Fairness ==
    \A t \in Txns :
        /\ WF_vars(CheckMovement(t) \/ RefuseMovement(t))
        /\ SF_vars(ApplyMovement(t) \/ FailMovement(t))
        /\ WF_vars(Commit(t))
        /\ WF_vars(DeadlockVictim(t))

FairSpec == Spec /\ Fairness

-----------------------------------------------------------------------------
(* Properties. *)

TypeOK ==
    /\ live \in [Keys -> Rows]
    /\ committed \in [Keys -> Rows]
    /\ lock \in [Keys -> Txns \cup {NoTxn}]
    /\ txn \in [Txns -> [program : Seq(Movements), next : Nat \ {0}, checked : BOOLEAN]]

CountersSound(row) == 0 <= row.reserved /\ row.reserved <= row.quantity

\* No stock row is ever committed with a negative counter or with more reserved
\* than there is: two writers that both passed the unlocked checks of
\* createMovement cannot both commit (BR-INVT-006).
ReservedWithinQuantity == \A k \in Keys : CountersSound(committed[k])

\* The sum of the remaining quantities of the active batches equals the quantity
\* of the stock row after every committed transaction (the invariant stated at
\* BATCH_CREATING_INFLOW), whatever mixture of receipts, write-offs, transfers,
\* returns and rollbacks ran.
BatchesCoverQuantity ==
    \A k \in Keys : LET b == committed[k].batches IN
        SumFunction([i \in Indices(b) |-> b[i].remaining]) = committed[k].quantity

\* The BatchConsumption journal explains every batch: what came in, minus what
\* documents took, plus what they gave back, is what remains, and no source gave
\* back more than it took from that batch.
JournalExplainsBatches ==
    \A k \in Keys : \A i \in Indices(committed[k].batches) :
        LET b == committed[k].batches[i] IN
        /\ b.remaining = b.received - SumFunction(b.taken) + SumFunction(b.returned)
        /\ \A s \in Sources : b.returned[s] <= b.taken[s]

\* Transactions are serializable on the stock rows although they check before
\* they lock: the committed counters move only as if whole programs ran one at
\* a time, each movement legal when it runs.
Book == INSTANCE StockBook WITH
            book <- [k \in Keys |-> [quantity |-> committed[k].quantity,
                                     reserved |-> committed[k].reserved]]
SerialBook == Book!Spec

\* Every transaction ends: lock waits do not last for ever.
EveryTransactionEnds == \A t \in Txns : Running(t) ~> ~Running(t)
=============================================================================
