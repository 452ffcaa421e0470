----------------------------- MODULE StockProofs -----------------------------
(***************************************************************************)
(* Proofs about StockLedger and WorkOrderStock, for any stock rows,        *)
(* documents, lines, transactions and movement lists.                      *)
(*                                                                         *)
(* Of the ledger: its types, the soundness of the committed counters, the  *)
(* implementation of StockBook, and the agreement of the counters with the *)
(* batches and their journal.                                              *)
(*                                                                         *)
(* Of the orders: the reservation of a stock row is always what they hold  *)
(* of it, none holds more than its parts need, a closed one holds nothing, *)
(* completion writes off every part in full, and cancellation returns what *)
(* was written off.  All follow from what is still to come: the rest of a  *)
(* transaction's list releases no more than its order holds                *)
(* (ReleasesCovered), leaves it with no more than it needs                 *)
(* (EndsWithinNeed), takes what of its parts is not taken yet (TakesParts) *)
(* and returns what is not yet returned (ReturnsInFull).                   *)
(***************************************************************************)
EXTENDS WorkOrderStock, SequenceTheorems, SumTheorems, TLAPS

\* The inductive invariant.  A movement is applied to the newest version of its
\* row, so the counters must be sound there, committed or not; and what the
\* batches receive is typed only because a checked movement obeys the sign rules.
CheckedIsWellFormed ==
    \A t \in Txns : txn[t].checked => Unfinished(t) /\ WellFormed(Current(t))

RowsSound ==
    \A k \in Keys : CountersSound(live[k]) /\ CountersSound(committed[k])

LedgerInvariant == TypeOK /\ CheckedIsWellFormed /\ RowsSound

---------------------------------------------
(* The batch operators keep batches typed. *)

\* A walk draws from each entry no more than the entry has.
LEMMA WalkBounds ==
    ASSUME NEW amount, NEW q, NEW w \in Walks(amount, q), NEW i \in DOMAIN amount
    PROVE  w[i] \in Nat /\ w[i] <= amount[i]
  BY DEF Walks

\* Consuming from batches leaves batches: none goes below zero (consumeBatch).
LEMMA ConsumedTyped ==
    ASSUME NEW batches \in Seq(Batches), NEW q, NEW src \in Sources,
           NEW c \in Consumed(batches, q, src)
    PROVE  c \in Seq(Batches)
  <1> DEFINE amount == [i \in Indices(batches) |-> batches[i].remaining]
             drawn(w) == [i \in Indices(batches) |->
                 [batches[i] EXCEPT !.remaining = @ - w[i], !.taken[src] = @ + w[i]]]
  <1>1. PICK w \in Walks(amount, q) : c = drawn(w)
    BY DEF Consumed
  <1>2. ASSUME NEW i \in 1..Len(batches)
        PROVE  drawn(w)[i] \in Batches
    <2>1. w[i] \in Nat /\ w[i] <= batches[i].remaining
      BY WalkBounds, <1>2 DEF Indices
    <2>2. batches[i] \in Batches
      BY <1>2
    <2>6. batches[i].remaining \in Nat
      BY <2>2 DEF Batches
    <2>3. batches[i].remaining - w[i] \in Nat
      BY <2>1, <2>6
    <2>4. batches[i].taken \in [Sources -> Nat]
      BY <2>2 DEF Batches
    <2>5. [batches[i].taken EXCEPT ![src] = @ + w[i]] \in [Sources -> Nat]
      BY <2>1, <2>4, CountedTyped
    <2> QED
      BY <2>2, <2>3, <2>5, <1>2 DEF Batches, Indices
  <1>3. DOMAIN drawn(w) = 1..Len(batches) /\ drawn(w) = [i \in DOMAIN drawn(w) |-> drawn(w)[i]]
    BY DEF Indices
  <1>4. c \in [1..Len(batches) -> Batches]
    <2> HIDE DEF drawn
    <2> QED
      BY <1>1, <1>2, <1>3, FunctionTyped
  <1>5. Len(batches) \in Nat
    OBVIOUS
  <1> QED
    BY <1>4, <1>5, SeqDef

\* Returning to batches leaves batches (returnToBatch).
LEMMA PutBackTyped ==
    ASSUME NEW batches \in Seq(Batches), NEW src \in Sources, NEW pool, NEW q,
           DOMAIN pool = Indices(batches), NEW back \in Walks(pool, q)
    PROVE  PutBack(batches, back, src) \in Seq(Batches)
  <1> DEFINE put == PutBack(batches, back, src)
  <1>1. ASSUME NEW i \in 1..Len(batches)
        PROVE  put[i] \in Batches
    <2>1. back[i] \in Nat
      BY WalkBounds, <1>1 DEF Indices
    <2>2. batches[i] \in Batches
      BY <1>1
    <2>3. batches[i].returned \in [Sources -> Nat]
      BY <2>2 DEF Batches
    <2>4. [batches[i].returned EXCEPT ![src] = @ + back[i]] \in [Sources -> Nat]
      BY <2>1, <2>3, CountedTyped
    <2>5. put[i] = IF back[i] = 0 \/ AlreadyReturned(batches[i], src) THEN batches[i]
                   ELSE [batches[i] EXCEPT !.remaining = @ + back[i],
                                           !.returned[src] = @ + back[i]]
      BY <1>1 DEF PutBack, Indices
    <2>7. batches[i].remaining \in Nat
      BY <2>2 DEF Batches
    <2>6. batches[i].remaining + back[i] \in Nat
      BY <2>1, <2>7
    <2> QED
      BY <2>2, <2>4, <2>5, <2>6 DEF Batches
  <1>2. DOMAIN put = 1..Len(batches) /\ put = [i \in DOMAIN put |-> put[i]]
    BY DEF PutBack, Indices
  <1>3. put \in [1..Len(batches) -> Batches]
    <2> HIDE DEF put
    <2> QED
      BY <1>1, <1>2, FunctionTyped
  <1>4. Len(batches) \in Nat
    OBVIOUS
  <1> QED
    BY <1>3, <1>4, SeqDef

\* A new batch is a batch (createFromReceipt).
LEMMA NewBatchTyped ==
    ASSUME NEW q \in Nat
    PROVE  NewBatch(q) \in Batches
  BY DEF NewBatch, Batches

\* A movement that obeys the sign rules leaves a typed list of batches.
LEMMA OutcomesTyped ==
    ASSUME NEW m \in Movements, WellFormed(m), NEW batches \in Seq(Batches),
           NEW b \in BatchOutcomes(m, batches)
    PROVE  b \in Seq(Batches)
  <1> DEFINE src == <<m.doc, m.line>>
  <1>1. src \in Sources
    BY DEF Sources, Movements
  <1>2. CASE m.type \in BatchCreatingInflow
    <2>1. m.quantity \in Nat
      BY <1>2 DEF WellFormed, BatchCreatingInflow, InflowOnly, Movements
    <2>2. ~(QuantityDelta(m) < 0) /\ m.type # "RETURN"
      BY <1>2, <2>1 DEF QuantityDelta, BatchCreatingInflow
    <2>3. b = Append(batches, NewBatch(m.quantity))
      BY <1>2, <2>2 DEF BatchOutcomes
    <2> QED
      BY <2>1, <2>3, NewBatchTyped
  <1>3. CASE m.type \notin BatchCreatingInflow /\ QuantityDelta(m) < 0
    <2>1. m.type # "RETURN"
      BY <1>3 DEF WellFormed, QuantityDelta, Movements
    <2>2. b \in Consumed(batches, -m.quantity, src)
      BY <1>3, <2>1 DEF BatchOutcomes
    <2> QED
      BY <2>2, <1>1, ConsumedTyped
  <1>4. CASE m.type \notin BatchCreatingInflow /\ ~(QuantityDelta(m) < 0) /\ m.type = "RETURN"
    <2>1. PICK back \in ReturnWalks(batches, m) : b = PutBack(batches, back, src)
      BY <1>4 DEF BatchOutcomes
    <2>2. DOMAIN ReturnPool(batches, m.doc, m.line) = Indices(batches)
      BY DEF ReturnPool
    <2> QED
      BY <2>1, <2>2, <1>1, PutBackTyped DEF ReturnWalks
  <1>5. CASE m.type \notin BatchCreatingInflow /\ ~(QuantityDelta(m) < 0) /\ m.type # "RETURN"
    BY <1>5 DEF BatchOutcomes
  <1> QED
    BY <1>2, <1>3, <1>4, <1>5

\* The deltas of a movement are integers.
LEMMA DeltasTyped ==
    ASSUME NEW m \in Movements
    PROVE  QuantityDelta(m) \in Int /\ ReservedDelta(m) \in Int
  BY DEF QuantityDelta, ReservedDelta, Movements

\* The row that a checked movement leaves is a row.
LEMMA RowsAfterTyped ==
    ASSUME NEW m \in Movements, WellFormed(m), NEW row \in Rows, NEW r \in RowsAfter(m, row)
    PROVE  r \in Rows
  <1>1. PICK b \in BatchOutcomes(m, row.batches) :
            r = [quantity |-> row.quantity + QuantityDelta(m),
                 reserved |-> row.reserved + ReservedDelta(m),
                 batches |-> b,
                 held |-> [row.held EXCEPT ![m.doc] = @ + ReservedDelta(m)]]
    BY DEF RowsAfter
  <1>2. row.batches \in Seq(Batches)
    BY DEF Rows
  <1>3. b \in Seq(Batches)
    BY <1>2, OutcomesTyped
  <1>4. [row.held EXCEPT ![m.doc] = @ + ReservedDelta(m)] \in [Docs \cup {NoDoc} -> Int]
    BY DeltasTyped DEF Rows, Movements
  <1> QED
    BY <1>1, <1>3, <1>4, DeltasTyped DEF Rows

---------------------------------------------
(* One movement keeps the counters sound. *)

\* The checks that createMovement makes on the values the upsert returned are enough:
\* whatever the unlocked checks saw, a sound row stays sound.
LEMMA PostCheckKeepsSound ==
    ASSUME NEW m \in Movements, NEW row \in Rows, CountersSound(row),
           PostCheckPasses(m, row), NEW r \in RowsAfter(m, row)
    PROVE  CountersSound(r)
  <1>1. r.quantity = row.quantity + QuantityDelta(m) /\ r.reserved = row.reserved + ReservedDelta(m)
    BY DEF RowsAfter
  <1>2. QuantityDelta(m) = 0 \/ ReservedDelta(m) = 0
    BY DEF QuantityDelta, ReservedDelta
  <1>3. row.quantity \in Int /\ row.reserved \in Int
    BY DEF Rows
  <1> QED
    BY <1>1, <1>2, <1>3, DeltasTyped DEF CountersSound, PostCheckPasses, PostCheck

---------------------------------------------
(* The invariant is inductive. *)

\* The initial stock rows satisfy the invariant.
LEMMA InitEstablishes == Init => LedgerInvariant
  <1> SUFFICES ASSUME Init PROVE LedgerInvariant
    OBVIOUS
  <1> USE StockLedgerAssumption
  <1>1. InitialRow \in Rows /\ CountersSound(InitialRow)
    <2>1. NewBatch(InitialQty) \in Batches
      BY NewBatchTyped
    <2> QED
      BY <2>1 DEF InitialRow, Rows, CountersSound
  <1>2. Idle \in [program : Seq(Movements), next : Nat \ {0}, checked : BOOLEAN]
    BY DEF Idle
  <1>3. TypeOK
    BY <1>1, <1>2 DEF Init, TypeOK
  <1>4. CheckedIsWellFormed
    BY DEF Init, CheckedIsWellFormed, Idle
  <1>5. RowsSound
    BY <1>1 DEF Init, RowsSound
  <1> QED
    BY <1>3, <1>4, <1>5 DEF LedgerInvariant

\* The current movement of an unfinished transaction.
LEMMA CurrentTyped ==
    ASSUME TypeOK, NEW t \in Txns, Unfinished(t)
    PROVE  Current(t) \in Movements
  BY DEF TypeOK, Unfinished, Current

\* A rollback restores the committed version of what the transaction wrote.
LEMMA RollbackKeeps ==
    ASSUME LedgerInvariant, NEW t \in Txns, Rollback(t)
    PROVE  LedgerInvariant'
  <1> USE DEF LedgerInvariant
  <1>1. TypeOK'
    <2>1. Idle \in [program : Seq(Movements), next : Nat \ {0}, checked : BOOLEAN]
      BY DEF Idle
    <2> QED
      BY <2>1 DEF TypeOK, Rollback
  <1>2. CheckedIsWellFormed'
    BY DEF TypeOK, CheckedIsWellFormed, Rollback, Unfinished, Running, Current, Idle
  <1>3. RowsSound'
    BY DEF TypeOK, RowsSound, Rollback
  <1> QED
    BY <1>1, <1>2, <1>3

\* Starting a movement list touches no row.
LEMMA BeginKeeps ==
    ASSUME LedgerInvariant, NEW t \in Txns, NEW p \in Programs, Begin(t, p)
    PROVE  LedgerInvariant'
  <1> USE DEF LedgerInvariant, Begin, StartProgram
  <1>1. p \in Seq(Movements)
    BY ProgramsAssumption
  <1>2. TypeOK'
    BY <1>1 DEF TypeOK
  <1>3. CheckedIsWellFormed'
    BY DEF TypeOK, CheckedIsWellFormed, Unfinished, Running, Current
  <1>4. RowsSound'
    BY DEF RowsSound
  <1> QED
    BY <1>2, <1>3, <1>4

\* A movement that passes the unlocked checks of createMovement obeys the sign rules.
LEMMA CheckMovementKeeps ==
    ASSUME LedgerInvariant, NEW t \in Txns, CheckMovement(t)
    PROVE  LedgerInvariant'
  <1> USE DEF LedgerInvariant, CheckMovement
  <1>1. TypeOK'
    BY DEF TypeOK
  <1>2. CheckedIsWellFormed'
    BY DEF TypeOK, CheckedIsWellFormed, ChecksPass, Unfinished, Running, Current
  <1>3. RowsSound'
    BY DEF RowsSound
  <1> QED
    BY <1>1, <1>2, <1>3

\* A movement applied under the row lock keeps the newest version of the row sound: this
\* is where the post-checks of createMovement are needed.
LEMMA ApplyMovementKeeps ==
    ASSUME LedgerInvariant, NEW t \in Txns, ApplyMovement(t)
    PROVE  LedgerInvariant'
  <1> USE DEF LedgerInvariant
  <1> DEFINE m == Current(t)
  <1>1. m \in Movements /\ WellFormed(m) /\ m.key \in Keys
    BY CurrentTyped DEF ApplyMovement, CheckedIsWellFormed, Movements
  <1>2. live[m.key] \in Rows /\ CountersSound(live[m.key])
    BY <1>1 DEF TypeOK, RowsSound
  <1>3. PICK row \in RowsAfter(m, live[m.key]) : live' = [live EXCEPT ![m.key] = row]
    BY DEF ApplyMovement
  <1>4. row \in Rows
    BY <1>1, <1>2, <1>3, RowsAfterTyped
  <1>5. CountersSound(row)
    BY <1>1, <1>2, <1>3, PostCheckKeepsSound DEF ApplyMovement
  <1>6. TypeOK'
    <2>1. live' \in [Keys -> Rows]
      BY <1>3, <1>4 DEF TypeOK
    <2>2. lock' \in [Keys -> Txns \cup {NoTxn}] /\ committed' \in [Keys -> Rows]
      BY <1>1 DEF ApplyMovement, TypeOK
    <2>3. txn' \in [Txns -> [program : Seq(Movements), next : Nat \ {0}, checked : BOOLEAN]]
      BY DEF ApplyMovement, TypeOK
    <2> QED
      BY <2>1, <2>2, <2>3 DEF TypeOK
  <1>7. CheckedIsWellFormed'
    <2> SUFFICES ASSUME NEW u \in Txns, txn'[u].checked
                 PROVE  (Unfinished(u) /\ WellFormed(Current(u)))'
      BY DEF CheckedIsWellFormed
    <2>1. u # t /\ txn'[u] = txn[u]
      BY DEF ApplyMovement, TypeOK
    <2>2. Unfinished(u) /\ WellFormed(Current(u))
      BY <2>1 DEF CheckedIsWellFormed
    <2> QED
      BY <2>1, <2>2 DEF Unfinished, Running, Current, WellFormed
  <1>8. RowsSound'
    BY <1>3, <1>5 DEF TypeOK, RowsSound, ApplyMovement
  <1> QED
    BY <1>6, <1>7, <1>8

\* A commit publishes sound rows.
LEMMA CommitKeeps ==
    ASSUME LedgerInvariant, NEW t \in Txns, Commit(t)
    PROVE  LedgerInvariant'
  <1> USE DEF LedgerInvariant, Commit
  <1>1. TypeOK'
    <2>1. Idle \in [program : Seq(Movements), next : Nat \ {0}, checked : BOOLEAN]
      BY DEF Idle
    <2> QED
      BY <2>1 DEF TypeOK
  <1>2. CheckedIsWellFormed'
    BY DEF TypeOK, CheckedIsWellFormed, Unfinished, Running, Current, Idle
  <1>3. RowsSound'
    BY DEF TypeOK, RowsSound
  <1> QED
    BY <1>1, <1>2, <1>3

\* A step that changes nothing keeps the invariant.
LEMMA StutterKeeps ==
    ASSUME LedgerInvariant, UNCHANGED vars
    PROVE  LedgerInvariant'
  BY DEF LedgerInvariant, TypeOK, CheckedIsWellFormed, RowsSound, vars, Unfinished,
         Running, Current

\* Every step of every transaction keeps the invariant.
LEMMA NextKeeps == LedgerInvariant /\ [Next]_vars => LedgerInvariant'
  <1> SUFFICES ASSUME LedgerInvariant, [Next]_vars PROVE LedgerInvariant'
    OBVIOUS
  <1>1. CASE UNCHANGED vars
    BY <1>1, StutterKeeps
  <1>2. ASSUME NEW t \in Txns, NEW p \in Programs, Begin(t, p) PROVE LedgerInvariant'
    BY <1>2, BeginKeeps
  <1>3. ASSUME NEW t \in Txns, Step(t) PROVE LedgerInvariant'
    <2>1. CASE CheckMovement(t)
      BY <2>1, CheckMovementKeeps
    <2>2. CASE ApplyMovement(t)
      BY <2>2, ApplyMovementKeeps
    <2>3. CASE Commit(t)
      BY <2>3, CommitKeeps
    <2>4. CASE RefuseMovement(t) \/ FailMovement(t) \/ DeadlockVictim(t) \/ Interrupt(t)
      BY <2>4, RollbackKeeps DEF RefuseMovement, FailMovement, DeadlockVictim, Interrupt
    <2> QED
      BY <1>3, <2>1, <2>2, <2>3, <2>4 DEF Step
  <1> QED
    BY <1>1, <1>2, <1>3 DEF Next

---------------------------------------------
(* Theorems. *)

\* The inductive invariant holds in every state of the ledger: rows are typed and sound in
\* both versions, and a checked movement obeys the sign rules of createMovement.
THEOREM LedgerInvariantHolds == Spec => []LedgerInvariant
  BY InitEstablishes, NextKeeps, PTL DEF Spec

\* In every reachable state the rows, their batches, the locks and the transactions
\* have their types; in particular no batch ever has a negative remainder, whichever
\* movements race (createMovement, consumeBatch, returnToBatch).
THEOREM TypeCorrect == Spec => []TypeOK
  <1>1. LedgerInvariant => TypeOK
    BY DEF LedgerInvariant
  <1> QED
    BY <1>1, LedgerInvariantHolds, PTL

\* No stock row is ever committed with a negative counter or with more reserved than
\* there is, for any number of concurrent transactions running any movement lists
\* (the post-checks of createMovement, BR-INVT-006).
THEOREM NeverOverReserved == Spec => []ReservedWithinQuantity
  <1>1. LedgerInvariant => ReservedWithinQuantity
    BY DEF LedgerInvariant, RowsSound, ReservedWithinQuantity
  <1> QED
    BY <1>1, LedgerInvariantHolds, PTL

---------------------------------------------
(* What a movement list posts on the book. *)

Counters(row) == [quantity |-> row.quantity, reserved |-> row.reserved]

\* What the first n movements of p add to the counters of the stock row k.
QuantityOn(p, k) == [i \in 1..Len(p) |-> IF p[i].key = k THEN QuantityDelta(p[i]) ELSE 0]
ReservedOn(p, k) == [i \in 1..Len(p) |-> IF p[i].key = k THEN ReservedDelta(p[i]) ELSE 0]
QuantityBy(p, n, k) == SumFunctionOnSet(QuantityOn(p, k), 1..n)
ReservedBy(p, n, k) == SumFunctionOnSet(ReservedOn(p, k), 1..n)

\* The counters of k, and the whole book, when they have been posted on b.
RowPosted(r, p, n, k) ==
    [quantity |-> r.quantity + QuantityBy(p, n, k), reserved |-> r.reserved + ReservedBy(p, n, k)]
Posted(b, p, n) == [k \in Keys |-> RowPosted(b[k], p, n, k)]

CountersType == [quantity : Int, reserved : Int]

\* What the movements of a list add is an integer.
LEMMA DeltasOnTyped ==
    ASSUME NEW p \in Seq(Movements), NEW k
    PROVE  /\ Len(p) \in Nat
           /\ \A i \in 1..Len(p) : /\ p[i] \in Movements /\ p[i].key \in Keys
                                   /\ QuantityOn(p, k)[i] \in Int /\ ReservedOn(p, k)[i] \in Int
  <1>1. \A i \in 1..Len(p) : p[i] \in Movements
    OBVIOUS
  <1>2. \A i \in 1..Len(p) : p[i].key \in Keys
    BY <1>1 DEF Movements
  <1>3. \A i \in 1..Len(p) : QuantityDelta(p[i]) \in Int /\ ReservedDelta(p[i]) \in Int
    BY <1>1, DeltasTyped
  <1> QED
    BY <1>1, <1>2, <1>3 DEF QuantityOn, ReservedOn

\* Nothing is posted by no movement.
LEMMA PostedNothing ==
    ASSUME NEW p, NEW k
    PROVE  QuantityBy(p, 0, k) = 0 /\ ReservedBy(p, 0, k) = 0
  <1>1. 1..0 = {}
    OBVIOUS
  <1> QED
    BY <1>1, SumEmpty DEF QuantityBy, ReservedBy

\* One movement more.
LEMMA PostedNext ==
    ASSUME NEW p \in Seq(Movements), NEW n \in Nat, n + 1 <= Len(p), NEW k
    PROVE  /\ QuantityBy(p, n, k) \in Int /\ ReservedBy(p, n, k) \in Int
           /\ QuantityBy(p, n + 1, k) = QuantityBy(p, n, k) + QuantityOn(p, k)[n + 1]
           /\ ReservedBy(p, n + 1, k) = ReservedBy(p, n, k) + ReservedOn(p, k)[n + 1]
  <1>1. /\ 1..(n + 1) = (1..n) \cup {n + 1} /\ n + 1 \notin 1..n
        /\ (1..n) \cup {n + 1} \subseteq 1..Len(p) /\ IsFiniteSet(1..n)
    <2>1. Len(p) \in Nat
      OBVIOUS
    <2>2. IsFiniteSet(1..n)
      BY FS_Interval
    <2> DEFINE l == Len(p)
    <2> HIDE DEF l
    <2>3. l \in Nat /\ n + 1 <= l
      BY <2>1 DEF l
    <2>4. 1..(n + 1) = (1..n) \cup {n + 1} /\ n + 1 \notin 1..n
          /\ (1..n) \cup {n + 1} \subseteq 1..l
      BY <2>3
    <2> QED
      BY <2>2, <2>4 DEF l
  <1> DEFINE q == QuantityOn(p, k)
             r == ReservedOn(p, k)
  <1>2. \A i \in (1..n) \cup {n + 1} : q[i] \in Int /\ r[i] \in Int
    BY <1>1, DeltasOnTyped
  <1> HIDE DEF q, r
  <1>3. /\ SumFunctionOnSet(q, 1..n) \in Int /\ SumFunctionOnSet(r, 1..n) \in Int
    BY <1>1, <1>2, SumInt
  <1>6. Summable(q, (1..n) \cup {n + 1}) /\ Summable(r, (1..n) \cup {n + 1})
    BY <1>2 DEF Summable
  <1> DEFINE X == 1..n
             z == n + 1
  <1> HIDE DEF X, z
  <1>7. IsFiniteSet(X) /\ z \notin X /\ Summable(q, X \cup {z}) /\ Summable(r, X \cup {z})
    BY <1>1, <1>6 DEF X, z
  <1>4. SumFunctionOnSet(q, X \cup {z}) = SumFunctionOnSet(q, X) + q[z]
    BY <1>7, SumExtends
  <1>5. SumFunctionOnSet(r, X \cup {z}) = SumFunctionOnSet(r, X) + r[z]
    BY <1>7, SumExtends
  <1> QED
    BY <1>1, <1>3, <1>4, <1>5 DEF QuantityBy, ReservedBy, q, r, X, z

\* So are the sums of what they add.
LEMMA PostedTyped ==
    ASSUME NEW p \in Seq(Movements), NEW n \in Nat, n <= Len(p), NEW k
    PROVE  QuantityBy(p, n, k) \in Int /\ ReservedBy(p, n, k) \in Int
  <1>1. IsFiniteSet(1..n) /\ 1..n \subseteq 1..Len(p)
    BY DeltasOnTyped, FS_Interval
  <1>2. \A i \in 1..n : QuantityOn(p, k)[i] \in Int /\ ReservedOn(p, k)[i] \in Int
    BY <1>1, DeltasOnTyped
  <1> QED
    BY <1>1, <1>2, SumInt DEF QuantityBy, ReservedBy

\* A row that no movement is about stays.
LEMMA PostedElsewhere ==
    ASSUME NEW p \in Seq(Movements), NEW n \in Nat, n <= Len(p), NEW k,
           \A i \in 1..n : p[i].key # k
    PROVE  QuantityBy(p, n, k) = 0 /\ ReservedBy(p, n, k) = 0
  <1>1. IsFiniteSet(1..n) /\ 1..n \subseteq 1..Len(p)
    BY DeltasOnTyped, FS_Interval
  <1>2. \A i \in 1..n : QuantityOn(p, k)[i] = 0 /\ ReservedOn(p, k)[i] = 0
    BY <1>1 DEF QuantityOn, ReservedOn
  <1> QED
    BY <1>1, <1>2, SumZero DEF QuantityBy, ReservedBy

\* The book of StockBook moves as the sums do.
LEMMA MovedPosts ==
    ASSUME NEW b \in [Keys -> CountersType], NEW p \in Seq(Movements), NEW n \in Nat, n + 1 <= Len(p)
    PROVE  Book!Moved(Posted(b, p, n), p[n + 1]) = Posted(b, p, n + 1)
  <1> DEFINE m == p[n + 1]
             c == Posted(b, p, n)
             d == Posted(b, p, n + 1)
  <1>1. n + 1 \in 1..Len(p) /\ m \in Movements /\ m.key \in Keys /\ QuantityDelta(m) \in Int /\ ReservedDelta(m) \in Int
    <2>1. Len(p) \in Nat
      BY DeltasOnTyped
    <2>2. n + 1 \in 1..Len(p)
      BY <2>1
    <2>3. m \in Movements /\ m.key \in Keys
      BY <2>2, DeltasOnTyped
    <2> HIDE DEF m
    <2> QED
      BY <2>2, <2>3, DeltasTyped
  <1>2. ASSUME NEW k \in Keys
        PROVE  /\ c[k] \in CountersType /\ d[k] \in CountersType
               /\ k # m.key => d[k] = c[k]
               /\ k = m.key => d[k] = [quantity |-> c[k].quantity + QuantityDelta(m),
                                       reserved |-> c[k].reserved + ReservedDelta(m)]
    <2> DEFINE x == QuantityBy(p, n, k)
               y == ReservedBy(p, n, k)
               u == QuantityOn(p, k)[n + 1]
               v == ReservedOn(p, k)[n + 1]
               bq == b[k].quantity
               br == b[k].reserved
    <2>1. x \in Int /\ y \in Int /\ QuantityBy(p, n + 1, k) = x + u /\ ReservedBy(p, n + 1, k) = y + v
      BY PostedNext
    <2>2. bq \in Int /\ br \in Int
      BY DEF CountersType
    <2>3. u = (IF m.key = k THEN QuantityDelta(m) ELSE 0) /\ v = (IF m.key = k THEN ReservedDelta(m) ELSE 0)
      BY <1>1 DEF QuantityOn, ReservedOn
    <2>4. /\ c[k] = [quantity |-> bq + x, reserved |-> br + y]
          /\ d[k] = [quantity |-> bq + (x + u), reserved |-> br + (y + v)]
      BY <2>1 DEF Posted, RowPosted
    <2> HIDE DEF c, d, x, y, u, v, bq, br, m
    <2>5. u \in Int /\ v \in Int
      BY <1>1, <2>3
    <2>6. c[k] \in CountersType /\ d[k] \in CountersType
      BY <2>1, <2>2, <2>4, <2>5 DEF CountersType
    <2>7. CASE k # m.key
      <3>1. u = 0 /\ v = 0
        BY <2>3, <2>7
      <3>2. bq + (x + u) = bq + x /\ br + (y + v) = br + y
        BY <2>1, <2>2, <3>1
      <3> QED
        BY <2>4, <2>6, <2>7, <3>2
    <2>8. CASE k = m.key
      <3>1. u = QuantityDelta(m) /\ v = ReservedDelta(m)
        BY <2>3, <2>8
      <3>2. bq + (x + u) = (bq + x) + u /\ br + (y + v) = (br + y) + v
        BY <2>1, <2>2, <2>5
      <3>3. c[k].quantity = bq + x /\ c[k].reserved = br + y
        BY <2>4
      <3> QED
        BY <2>4, <2>6, <2>8, <3>1, <3>2, <3>3
    <2> QED
      BY <2>6, <2>7, <2>8
  <1>3. c \in [Keys -> CountersType] /\ d \in [Keys -> CountersType]
    <2>1. c = [k \in Keys |-> c[k]] /\ d = [k \in Keys |-> d[k]]
      BY DEF Posted
    <2> HIDE DEF c, d
    <2> QED
      BY <1>2, <2>1
  <1>4. QuantityDelta(m) = (IF Book!Physical(m) THEN m.quantity ELSE 0)
        /\ ReservedDelta(m) = (IF Book!Physical(m) THEN 0 ELSE m.quantity)
    BY DEF QuantityDelta, ReservedDelta, Book!Physical
  <1> HIDE DEF m, c, d
  <1>5. ASSUME NEW k \in Keys PROVE Book!Moved(c, m)[k] = d[k]
    <2>1. c[k].quantity \in Int /\ c[k].reserved \in Int
          /\ c[k] = [quantity |-> c[k].quantity, reserved |-> c[k].reserved]
      BY <1>2 DEF CountersType
    <2>2. CASE k # m.key
      BY <1>2, <1>3, <2>2 DEF Book!Moved
    <2>3. CASE k = m.key
      <3>1. Book!Moved(c, m)[k] = [quantity |-> c[k].quantity + QuantityDelta(m),
                                   reserved |-> c[k].reserved + ReservedDelta(m)]
        <4>1. CASE Book!Physical(m)
          <5>1. QuantityDelta(m) = m.quantity /\ ReservedDelta(m) = 0
            BY <1>4, <4>1
          <5>2. Book!Moved(c, m)[k] = [c[k] EXCEPT !.quantity = @ + m.quantity]
            BY <1>3, <2>3, <4>1 DEF Book!Moved
          <5>3. [c[k] EXCEPT !.quantity = @ + m.quantity]
                    = [quantity |-> c[k].quantity + m.quantity, reserved |-> c[k].reserved]
            BY <2>1
          <5>4. c[k].reserved + 0 = c[k].reserved
            BY <2>1
          <5> QED
            BY <5>1, <5>2, <5>3, <5>4
        <4>2. CASE ~Book!Physical(m)
          <5>1. QuantityDelta(m) = 0 /\ ReservedDelta(m) = m.quantity
            BY <1>4, <4>2
          <5>2. Book!Moved(c, m)[k] = [c[k] EXCEPT !.reserved = @ + m.quantity]
            BY <1>3, <2>3, <4>2 DEF Book!Moved
          <5>3. [c[k] EXCEPT !.reserved = @ + m.quantity]
                    = [quantity |-> c[k].quantity, reserved |-> c[k].reserved + m.quantity]
            <6>1. PICK x, y, r : x = c[k].quantity /\ y = c[k].reserved /\ r = c[k]
              OBVIOUS
            <6>2. r = [quantity |-> x, reserved |-> y]
              BY <2>1, <6>1
            <6>3. [r EXCEPT !.reserved = @ + m.quantity] = [quantity |-> x, reserved |-> y + m.quantity]
              BY <6>2
            <6> QED
              BY <6>1, <6>3
          <5>4. c[k].quantity + 0 = c[k].quantity
            BY <2>1
          <5> QED
            BY <5>1, <5>2, <5>3, <5>4
        <4> QED
          BY <4>1, <4>2
      <3> QED
        BY <1>2, <2>3, <3>1
    <2> QED
      BY <2>2, <2>3
  <1>6. Book!Moved(c, m) = [k \in Keys |-> Book!Moved(c, m)[k]]
    BY <1>3 DEF Book!Moved
  <1>7. d = [k \in Keys |-> d[k]]
    BY <1>3
  <1>8. Book!Moved(c, m) = d
    BY <1>5, <1>6, <1>7
  <1> QED
    BY <1>8 DEF c, d, m

BookNow == [k \in Keys |-> Counters(committed[k])]

\* Nothing posted leaves the book.
LEMMA PostedStart ==
    ASSUME NEW b \in [Keys -> CountersType], NEW p
    PROVE  Posted(b, p, 0) = b
  <1>1. ASSUME NEW k \in Keys PROVE RowPosted(b[k], p, 0, k) = b[k]
    BY PostedNothing DEF RowPosted, CountersType
  <1> QED
    BY <1>1 DEF Posted

\* What StockBook computes step by step.
LEMMA AfterIsPosted ==
    ASSUME TypeOK, NEW p \in Seq(Movements)
    PROVE  \A i \in 0..Len(p) : Book!After(p)[i] = Posted(BookNow, p, i)
  <1> DEFINE b == BookNow
             after == Book!After(p)
             posted == [i \in 0..Len(p) |-> Posted(b, p, i)]
             Runs(f) == f = [i \in 0..Len(p) |-> IF i = 0 THEN b ELSE Book!Moved(f[i - 1], p[i])]
  <1>1. b \in [Keys -> CountersType] /\ Len(p) \in Nat
    BY DEF TypeOK, Rows, BookNow, Counters, CountersType
  <1>2. after = CHOOSE f : Runs(f)
    BY DEF Book!After, BookNow, Counters
  <1>3. ASSUME NEW i \in 0..Len(p), i # 0
        PROVE  Posted(b, p, i) = Book!Moved(Posted(b, p, i - 1), p[i]) /\ i - 1 \in 0..Len(p)
    <2>1. i - 1 \in Nat /\ (i - 1) + 1 = i /\ i <= Len(p) /\ i - 1 \in 0..Len(p)
      BY <1>1, <1>3
    <2> DEFINE n == i - 1
    <2>2. n \in Nat /\ n + 1 = i /\ n + 1 <= Len(p)
      BY <2>1
    <2> HIDE DEF n, b
    <2>3. Book!Moved(Posted(b, p, n), p[n + 1]) = Posted(b, p, n + 1)
      BY <1>1, <2>2, MovedPosts
    <2> QED
      BY <2>1, <2>2, <2>3 DEF n
  <1>4. Runs(posted)
    <2>1. \A i \in 0..Len(p) : posted[i] = IF i = 0 THEN b ELSE Book!Moved(posted[i - 1], p[i])
      <3>1. Posted(b, p, 0) = b
        BY <1>1, PostedStart
      <3> HIDE DEF b
      <3> QED
        BY <1>3, <3>1
    <2> QED
      BY <2>1
  <1> HIDE DEF after
  <1>5. Runs(after)
    <2> HIDE DEF Runs, posted
    <2> QED
      BY <1>2, <1>4
  <1>6. /\ 0 \in 0..Len(p) => after[0] = b
        /\ \A i \in 0..Len(p) : i # 0 => after[i] = Book!Moved(after[i - 1], p[i])
    BY <1>5
  <1> DEFINE T == {n \in Nat : n <= Len(p) => after[n] = Posted(b, p, n)}
  <1> HIDE DEF b, Runs
  <1>7. 0 \in T
    <2>1. Posted(b, p, 0) = b
      BY <1>1, PostedStart
    <2> QED
      BY <1>1, <1>6, <2>1
  <1>8. ASSUME NEW n \in T PROVE n + 1 \in T
    <2> SUFFICES ASSUME n + 1 <= Len(p) PROVE after[n + 1] = Posted(b, p, n + 1)
      OBVIOUS
    <2>1. n \in Nat /\ n <= Len(p) /\ n + 1 \in 0..Len(p) /\ n + 1 # 0 /\ (n + 1) - 1 = n
      BY <1>1
    <2>2. after[n + 1] = Book!Moved(after[n], p[n + 1])
      BY <1>6, <2>1
    <2>3. after[n] = Posted(b, p, n)
      BY <2>1
    <2> HIDE DEF T
    <2>4. Book!Moved(Posted(b, p, n), p[n + 1]) = Posted(b, p, n + 1)
      BY <1>1, <2>1, MovedPosts
    <2> QED
      BY <2>2, <2>3, <2>4
  <1>9. T = Nat
    <2>1. T \in SUBSET Nat
      OBVIOUS
    <2> HIDE DEF T
    <2> QED
      BY <1>7, <1>8, <2>1, NatSetInduction
  <1>10. \A i \in 0..Len(p) : i \in Nat /\ i <= Len(p)
    BY <1>1
  <1>11. \A i \in 0..Len(p) : after[i] = Posted(b, p, i)
    BY <1>9, <1>10
  <1> QED
    BY <1>11 DEF after, b

---------------------------------------------
(* Every transaction replays its list on what is committed. *)

\* What t has done of its list, on one of the rows it has written: the newest version is
\* the committed one with the movements so far posted on it, each of them legal.
Done(t) == txn[t].next - 1
RowReplayed(t, k) ==
    /\ Counters(live[k]) = RowPosted(committed[k], txn[t].program, Done(t), k)
    /\ \A i \in 0..Done(t) : CountersSound(RowPosted(committed[k], txn[t].program, i, k))

\* A transaction holds the rows its movements so far were about.
Progress(t) ==
    /\ txn[t].program \in Programs /\ txn[t].next <= Len(txn[t].program) + 1
    /\ \A i \in 1..Done(t) : lock[txn[t].program[i].key] = t

Replayed ==
    /\ \A t \in Txns : Running(t) => Progress(t)
    /\ \A k \in Keys : IF lock[k] = NoTxn THEN live[k] = committed[k]
                       ELSE Running(lock[k]) /\ RowReplayed(lock[k], k)

\* A step that leaves a row, its lock and the list of its owner keeps what is replayed.
LEMMA RowKept ==
    ASSUME NEW u, NEW k, live'[k] = live[k], committed'[k] = committed[k],
           txn'[u].program = txn[u].program, txn'[u].next = txn[u].next, RowReplayed(u, k)
    PROVE  RowReplayed(u, k)'
  BY DEF RowReplayed, Done

\* A transaction that keeps its list and its locks keeps its progress.
LEMMA ProgressKept ==
    ASSUME NEW u, txn'[u].program = txn[u].program, txn'[u].next = txn[u].next,
           \A k : lock[k] = u => lock'[k] = u, Progress(u)
    PROVE  Progress(u)'
  BY DEF Progress, Done

\* When only the transaction t goes on, and of the rows only those it held change hands.
LEMMA OthersReplay ==
    ASSUME TypeOK, Replayed, NEW t \in Txns, NEW u \in Txns, u # t, Running(u),
           txn'[u] = txn[u], \A k : lock[k] = u => lock'[k] = u
    PROVE  Running(u)' /\ Progress(u)'
  BY ProgressKept DEF Replayed, Running

\* At the start no transaction runs.
LEMMA InitReplays == Init => Replayed
  BY StockLedgerAssumption DEF Init, Replayed, Running, Idle

\* A list begins: nothing is done of it yet (Begin).
LEMMA BeginReplays ==
    ASSUME LedgerInvariant, Replayed, NEW t \in Txns, NEW p \in Programs, Begin(t, p)
    PROVE  Replayed'
  <1>1. TypeOK /\ ~Running(t) /\ UNCHANGED <<live, committed, lock>>
    BY DEF LedgerInvariant, Begin, StartProgram
  <1>2. /\ txn'[t].program = p /\ txn'[t].next = 1
        /\ \A u \in Txns \ {t} : txn'[u] = txn[u]
    BY <1>1 DEF Begin, StartProgram, TypeOK
  <1>3. Progress(t)'
    <2>1. p \in Seq(Movements)
      BY ProgramsAssumption
    <2>2. Len(p) \in Nat
      BY <2>1
    <2>3. 1 <= Len(p) + 1 /\ 1..(1 - 1) = {}
      BY <2>2
    <2> QED
      BY <1>2, <2>3 DEF Progress, Done
  <1>4. ASSUME NEW u \in Txns, u # t, Running(u) PROVE Running(u)' /\ Progress(u)'
    BY <1>1, <1>2, <1>4, OthersReplay
  <1>5. ASSUME NEW k \in Keys
        PROVE  (IF lock[k] = NoTxn THEN live[k] = committed[k]
                ELSE Running(lock[k]) /\ RowReplayed(lock[k], k))'
    <2>1. CASE lock[k] = NoTxn
      BY <1>1, <2>1 DEF Replayed
    <2>2. CASE lock[k] # NoTxn
      <3>1. PICK u \in Txns : u = lock[k]
        BY <1>1, <2>2 DEF TypeOK
      <3>2. Running(u) /\ RowReplayed(u, k) /\ u # t
        BY <1>1, <2>2, <3>1 DEF Replayed
      <3>3. Running(u)' /\ RowReplayed(u, k)'
        BY <1>1, <1>2, <1>4, <3>2, RowKept
      <3> QED
        BY <1>1, <2>2, <3>1, <3>3
    <2> QED
      BY <2>1, <2>2
  <1>6. ASSUME NEW u \in Txns, Running(u)' PROVE Progress(u)'
    BY <1>2, <1>3, <1>4, <1>6 DEF Running
  <1> QED
    BY <1>5, <1>6 DEF Replayed

\* The unlocked checks post nothing (CheckMovement).
LEMMA CheckMovementReplays ==
    ASSUME LedgerInvariant, Replayed, NEW t \in Txns, CheckMovement(t)
    PROVE  Replayed'
  <1>1. TypeOK /\ UNCHANGED <<live, committed, lock>>
    BY DEF LedgerInvariant, CheckMovement
  <1>2. \A u \in Txns : txn'[u].program = txn[u].program /\ txn'[u].next = txn[u].next
    BY <1>1 DEF CheckMovement, TypeOK
  <1>3. ASSUME NEW u \in Txns, Running(u)' PROVE Progress(u)'
    BY <1>1, <1>2, <1>3, ProgressKept DEF Replayed, Running
  <1>4. ASSUME NEW k \in Keys
        PROVE  (IF lock[k] = NoTxn THEN live[k] = committed[k]
                ELSE Running(lock[k]) /\ RowReplayed(lock[k], k))'
    <2>1. CASE lock[k] = NoTxn
      BY <1>1, <2>1 DEF Replayed
    <2>2. CASE lock[k] # NoTxn
      <3>1. PICK u \in Txns : u = lock[k]
        BY <1>1, <2>2 DEF TypeOK
      <3>2. Running(u) /\ RowReplayed(u, k)
        BY <2>2, <3>1 DEF Replayed
      <3>3. Running(u)' /\ RowReplayed(u, k)'
        BY <1>1, <1>2, <3>2, RowKept DEF Running
      <3> QED
        BY <1>1, <2>2, <3>1, <3>3
    <2> QED
      BY <2>1, <2>2
  <1> QED
    BY <1>3, <1>4 DEF Replayed

\* A transaction that ends leaves its rows committed, one way or the other.
LEMMA EndReplays ==
    ASSUME LedgerInvariant, Replayed, NEW t \in Txns, txn' = [txn EXCEPT ![t] = Idle],
           lock' = [k \in Keys |-> IF lock[k] = t THEN NoTxn ELSE lock[k]],
           \A k \in Keys : IF lock[k] = t THEN live'[k] = committed'[k]
                           ELSE live'[k] = live[k] /\ committed'[k] = committed[k]
    PROVE  Replayed'
  <1>1. TypeOK /\ NoTxn \notin Txns
    BY StockLedgerAssumption DEF LedgerInvariant
  <1>2. ~Running(t)' /\ \A u \in Txns \ {t} : txn'[u] = txn[u]
    BY <1>1 DEF TypeOK, Running, Idle
  <1>3. ASSUME NEW u \in Txns, Running(u)' PROVE Progress(u)'
    <2>1. u # t /\ txn'[u] = txn[u] /\ Running(u) /\ Progress(u)
      BY <1>2, <1>3 DEF Replayed, Running
    <2>2. txn[u].program \in Seq(Movements) /\ Done(u) <= Len(txn[u].program) /\ Done(u) \in Nat
      <3>1. txn[u].program \in Seq(Movements) /\ txn[u].next \in Nat \ {0}
        BY <1>1 DEF TypeOK
      <3>2. Len(txn[u].program) \in Nat
        BY <3>1
      <3> QED
        BY <2>1, <3>1, <3>2 DEF Progress, Done
    <2>3. \A i \in 1..Done(u) : txn[u].program[i].key \in Keys
      <3> DEFINE p == txn[u].program
                 n == Done(u)
      <3>1. p \in Seq(Movements) /\ n <= Len(p) /\ n \in Nat
        BY <2>2
      <3> HIDE DEF p, n
      <3>2. 1..n \subseteq 1..Len(p)
        BY <3>1
      <3>3. \A i \in 1..n : p[i].key \in Keys
        BY <3>1, <3>2, DeltasOnTyped
      <3> QED
        BY <3>3 DEF p, n
    <2>4. \A i \in 1..Done(u) : lock'[txn[u].program[i].key] = u
      BY <2>1, <2>3 DEF Progress
    <2> QED
      BY <2>1, <2>4 DEF Progress, Done
  <1>4. ASSUME NEW k \in Keys
        PROVE  (IF lock[k] = NoTxn THEN live[k] = committed[k]
                ELSE Running(lock[k]) /\ RowReplayed(lock[k], k))'
    <2>1. CASE lock[k] = t
      BY <2>1
    <2>2. CASE lock[k] = NoTxn
      BY <1>1, <2>2 DEF Replayed
    <2>3. CASE lock[k] \notin {t, NoTxn}
      <3>1. PICK u \in Txns : u = lock[k] /\ u # t
        BY <1>1, <2>3 DEF TypeOK
      <3>2. Running(u) /\ RowReplayed(u, k)
        BY <2>3, <3>1 DEF Replayed
      <3>3. Running(u)' /\ RowReplayed(u, k)'
        BY <1>2, <2>3, <3>1, <3>2, RowKept DEF Running
      <3>4. lock'[k] = u
        BY <2>3, <3>1
      <3> QED
        BY <1>1, <3>3, <3>4
    <2> QED
      BY <2>1, <2>2, <2>3
  <1> QED
    BY <1>3, <1>4 DEF Replayed

\* A movement is posted on the row of its key, and on no other.
LEMMA MovementPosted ==
    ASSUME NEW p \in Seq(Movements), NEW n \in Nat, n + 1 <= Len(p), NEW k, NEW r \in CountersType
    PROVE  /\ k # p[n + 1].key => RowPosted(r, p, n + 1, k) = RowPosted(r, p, n, k)
           /\ k = p[n + 1].key =>
                 RowPosted(r, p, n + 1, k) =
                     [quantity |-> RowPosted(r, p, n, k).quantity + QuantityDelta(p[n + 1]),
                      reserved |-> RowPosted(r, p, n, k).reserved + ReservedDelta(p[n + 1])]
  <1>1. n + 1 \in 1..Len(p)
    BY DeltasOnTyped
  <1> DEFINE m == p[n + 1]
             x == QuantityBy(p, n, k)
             y == ReservedBy(p, n, k)
             u == QuantityOn(p, k)[n + 1]
             v == ReservedOn(p, k)[n + 1]
             rq == r.quantity
             rr == r.reserved
  <1>2. x \in Int /\ y \in Int /\ QuantityBy(p, n + 1, k) = x + u /\ ReservedBy(p, n + 1, k) = y + v
    BY PostedNext
  <1>3. u = (IF m.key = k THEN QuantityDelta(m) ELSE 0) /\ v = (IF m.key = k THEN ReservedDelta(m) ELSE 0)
    BY <1>1 DEF QuantityOn, ReservedOn
  <1>4. rq \in Int /\ rr \in Int /\ QuantityDelta(m) \in Int /\ ReservedDelta(m) \in Int
    BY <1>1, DeltasTyped DEF CountersType
  <1>5. /\ RowPosted(r, p, n, k) = [quantity |-> rq + x, reserved |-> rr + y]
        /\ RowPosted(r, p, n + 1, k) = [quantity |-> rq + (x + u), reserved |-> rr + (y + v)]
    BY <1>2 DEF RowPosted
  <1> HIDE DEF m, x, y, u, v, rq, rr
  <1>6. CASE k # m.key
    <2>1. u = 0 /\ v = 0
      BY <1>3, <1>6
    <2>2. rq + (x + u) = rq + x /\ rr + (y + v) = rr + y
      BY <1>2, <1>4, <2>1
    <2> QED
      BY <1>5, <1>6, <2>2 DEF m
  <1>7. CASE k = m.key
    <2>1. u = QuantityDelta(m) /\ v = ReservedDelta(m)
      BY <1>3, <1>7
    <2>2. rq + (x + u) = (rq + x) + QuantityDelta(m) /\ rr + (y + v) = (rr + y) + ReservedDelta(m)
      BY <1>2, <1>4, <2>1
    <2> QED
      BY <1>5, <1>7, <2>2 DEF m
  <1> QED
    BY <1>6, <1>7

\* A row that no movement so far was about is as it is committed.
LEMMA UntouchedPosted ==
    ASSUME NEW p \in Seq(Movements), NEW n \in Nat, n <= Len(p), NEW k, NEW r \in CountersType,
           \A i \in 1..n : p[i].key # k
    PROVE  \A i \in 0..n : RowPosted(r, p, i, k) = r
  <1> SUFFICES ASSUME NEW i \in 0..n PROVE RowPosted(r, p, i, k) = r
    OBVIOUS
  <1>1. Len(p) \in Nat
    OBVIOUS
  <1> DEFINE l == Len(p)
  <1>2. i \in Nat /\ i <= l /\ 1..i \subseteq 1..n
    <2>1. l \in Nat /\ n <= l
      BY <1>1
    <2> HIDE DEF l
    <2> QED
      BY <2>1
  <1>3. \A j \in 1..i : p[j].key # k
    BY <1>2
  <1>4. QuantityBy(p, i, k) = 0 /\ ReservedBy(p, i, k) = 0
    BY <1>2, <1>3, PostedElsewhere
  <1> QED
    BY <1>4 DEF RowPosted, CountersType

\* Before its movement, the row is its own or free.
LEMMA FreeRowReplayed ==
    ASSUME LedgerInvariant, Replayed, NEW t \in Txns, Unfinished(t), NEW k \in Keys, OwnsOrFree(t, k)
    PROVE  RowReplayed(t, k)
  <1>1. CASE lock[k] = t
    BY <1>1, StockLedgerAssumption DEF Replayed
  <1>2. CASE lock[k] = NoTxn
    <2> DEFINE p == txn[t].program
               n == Done(t)
               r == committed[k]
    <2>1. /\ p \in Seq(Movements) /\ n \in Nat /\ n <= Len(p) /\ r \in Rows
          /\ live[k] = r /\ CountersSound(r) /\ NoTxn # t
          /\ \A i \in 1..n : p[i].key # k
      <3>1. /\ p \in Seq(Movements) /\ txn[t].next \in Nat \ {0} /\ r \in Rows
            /\ txn[t].next <= Len(p) /\ CountersSound(r)
        BY DEF LedgerInvariant, TypeOK, RowsSound, Unfinished
      <3>2. Len(p) \in Nat
        BY <3>1
      <3>3. n \in Nat /\ n <= Len(p)
        BY <3>1, <3>2 DEF Done
      <3>4. live[k] = r /\ NoTxn # t
        BY <1>2, StockLedgerAssumption DEF Replayed
      <3>5. \A i \in 1..n : lock[p[i].key] = t
        BY DEF Unfinished, Replayed, Progress
      <3> QED
        BY <1>2, <3>1, <3>3, <3>4, <3>5
    <2>2. Counters(r) \in CountersType
      BY <2>1 DEF Rows, Counters, CountersType
    <2>3. \A i \in 0..n : RowPosted(Counters(r), p, i, k) = Counters(r)
      <3> HIDE DEF p, n, r
      <3> QED
        BY <2>1, <2>2, UntouchedPosted
    <2>4. \A i \in 0..n : RowPosted(r, p, i, k) = Counters(r)
      BY <2>3 DEF RowPosted, Counters
    <2>5. n \in 0..n /\ CountersSound(Counters(r))
      BY <2>1 DEF CountersSound, Counters
    <2> QED
      BY <2>1, <2>4, <2>5 DEF RowReplayed
  <1> QED
    BY <1>1, <1>2 DEF OwnsOrFree

\* A movement is posted on the newest version of its row (ApplyMovement).
LEMMA ApplyMovementReplays ==
    ASSUME LedgerInvariant, LedgerInvariant', Replayed, NEW t \in Txns, ApplyMovement(t)
    PROVE  Replayed'
  <1>t. TypeOK /\ TypeOK' /\ Unfinished(t) /\ NoTxn \notin Txns
    BY StockLedgerAssumption DEF LedgerInvariant, ApplyMovement
  <1>p. PICK p, n : p = txn[t].program /\ n = Done(t)
    OBVIOUS
  <1>1. /\ p \in Seq(Movements) /\ n \in Nat /\ n + 1 <= Len(p) /\ n + 1 = txn[t].next
        /\ n + 1 \in 1..Len(p) /\ p[n + 1] = Current(t)
    <2>1. p \in Seq(Movements) /\ txn[t].next \in Nat \ {0} /\ txn[t].next <= Len(p)
      BY <1>t, <1>p DEF TypeOK, Unfinished
    <2>2. n \in Nat /\ n + 1 = txn[t].next
      BY <1>p, <2>1 DEF Done
    <2>3. Len(p) \in Nat
      BY <2>1
    <2>4. n + 1 \in 1..Len(p)
      BY <2>1, <2>2, <2>3
    <2> QED
      BY <1>p, <2>1, <2>2, <2>4 DEF Current
  <1>m. PICK m : m = p[n + 1]
    OBVIOUS
  <1>2. m \in Movements /\ m.key \in Keys
    BY <1>1, <1>m, DeltasOnTyped
  <1>3. /\ txn'[t].program = p /\ txn'[t].next = n + 2 /\ Done(t)' = n + 1
        /\ \A u \in Txns \ {t} : txn'[u] = txn[u]
    <2>1. txn'[t].program = p /\ txn'[t].next = txn[t].next + 1
      BY <1>t, <1>p DEF ApplyMovement, TypeOK
    <2>2. \A u \in Txns \ {t} : txn'[u] = txn[u]
      BY <1>t DEF ApplyMovement, TypeOK
    <2> QED
      BY <1>1, <2>1, <2>2 DEF Done
  <1>4. /\ lock[m.key] \in {t, NoTxn} /\ lock'[m.key] = t
        /\ \A k \in Keys \ {m.key} : lock'[k] = lock[k] /\ live'[k] = live[k]
        /\ committed' = committed
        /\ \A k : lock[k] = t => lock'[k] = t
        /\ \A u \in Txns \ {t} : \A k \in Keys : lock[k] = u => lock'[k] = u
    <2>1. lock' = [lock EXCEPT ![m.key] = t] /\ lock[m.key] \in {t, NoTxn} /\ committed' = committed
      BY <1>1, <1>m DEF ApplyMovement, OwnsOrFree
    <2>2. \A k \in Keys \ {m.key} : live'[k] = live[k]
      BY <1>1, <1>m, <1>t DEF ApplyMovement, TypeOK
    <2> QED
      BY <1>t, <1>2, <2>1, <2>2 DEF TypeOK
  <1>5. Counters(live'[m.key]) = [quantity |-> live[m.key].quantity + QuantityDelta(m),
                                  reserved |-> live[m.key].reserved + ReservedDelta(m)]
    <2>1. PICK row \in RowsAfter(m, live[m.key]) : live' = [live EXCEPT ![m.key] = row]
      BY <1>1, <1>m DEF ApplyMovement
    <2>2. live'[m.key] = row
      BY <1>2, <1>t, <2>1 DEF TypeOK
    <2>3. row.quantity = live[m.key].quantity + QuantityDelta(m)
          /\ row.reserved = live[m.key].reserved + ReservedDelta(m)
      BY <2>1 DEF RowsAfter
    <2> QED
      BY <2>2, <2>3 DEF Counters
  <1>6. Running(t) /\ Progress(t)
    BY <1>t DEF Unfinished, Replayed
  <1>7. Progress(t)'
    <2>1. \A i \in 1..n : lock[p[i].key] = t
      BY <1>6, <1>p DEF Progress
    <2>2. \A i \in 1..(n + 1) : lock'[p[i].key] = t
      <3>1. \A i \in 1..(n + 1) : i \in 1..n \/ i = n + 1
        BY <1>1
      <3> QED
        BY <1>4, <1>m, <2>1, <3>1
    <2>3. n + 2 <= Len(p) + 1
      <3> DEFINE l == Len(p)
      <3>1. l \in Nat /\ n + 1 <= l
        BY <1>1
      <3> HIDE DEF l
      <3>2. n + 2 <= l + 1
        BY <1>1, <3>1
      <3> QED
        BY <3>2 DEF l
    <2> QED
      BY <1>3, <1>6, <1>p, <2>2, <2>3 DEF Progress
  <1>8. ASSUME NEW k \in Keys, lock'[k] = t PROVE RowReplayed(t, k)'
    <2>1. RowReplayed(t, k)
      <3>1. OwnsOrFree(t, k)
        BY <1>4, <1>8 DEF OwnsOrFree
      <3> QED
        BY <1>t, <3>1, FreeRowReplayed
    <2> DEFINE r == Counters(committed[k])
               R(i) == RowPosted(r, p, i, k)
    <2>2. \A i : RowPosted(committed[k], p, i, k) = R(i)
      BY DEF RowPosted, Counters
    <2>3. r \in CountersType
      BY <1>t DEF TypeOK, Rows, Counters, CountersType
    <2>4. /\ k # m.key => R(n + 1) = R(n)
          /\ k = m.key => R(n + 1) = [quantity |-> R(n).quantity + QuantityDelta(m),
                                      reserved |-> R(n).reserved + ReservedDelta(m)]
      <3> HIDE DEF r
      <3> QED
        BY <1>1, <1>m, <2>3, MovementPosted
    <2>5. Counters(live[k]) = R(n) /\ \A i \in 0..n : CountersSound(R(i))
      BY <2>1, <2>2, <1>p DEF RowReplayed
    <2> HIDE DEF R
    <2>6. Counters(live'[k]) = R(n + 1)
      <3>1. CASE k # m.key
        BY <1>4, <2>4, <2>5, <3>1 DEF Counters
      <3>2. CASE k = m.key
        <4>1. R(n).quantity = live[k].quantity /\ R(n).reserved = live[k].reserved
          BY <2>5 DEF Counters
        <4> QED
          BY <1>5, <2>4, <3>2, <4>1
      <3> QED
        BY <3>1, <3>2
    <2>7. CountersSound(R(n + 1))
      <3>1. CountersSound(live'[k])
        BY DEF LedgerInvariant, RowsSound
      <3>2. R(n + 1).quantity = live'[k].quantity /\ R(n + 1).reserved = live'[k].reserved
        BY <2>6 DEF Counters
      <3> QED
        BY <3>1, <3>2 DEF CountersSound
    <2>8. \A i \in 0..(n + 1) : CountersSound(R(i))
      <3>1. \A i \in 0..(n + 1) : i \in 0..n \/ i = n + 1
        BY <1>1
      <3> QED
        BY <2>5, <2>7, <3>1
    <2> QED
      BY <1>3, <1>4, <2>2, <2>6, <2>8 DEF RowReplayed
  <1>9. ASSUME NEW u \in Txns, Running(u)' PROVE Progress(u)'
    <2>1. CASE u = t
      BY <1>7, <2>1
    <2>2. CASE u # t
      <3>1. txn'[u] = txn[u] /\ Progress(u)
        BY <1>3, <1>9, <2>2 DEF Replayed, Running
      <3>2. \A k : lock[k] = u => lock'[k] = u
        <4> SUFFICES ASSUME NEW k, lock[k] = u PROVE lock'[k] = u
          OBVIOUS
        <4>1. lock' = [lock EXCEPT ![m.key] = t] /\ m.key \in Keys /\ k # m.key /\ DOMAIN lock = Keys
          BY <1>1, <1>2, <1>4, <1>m, <1>t, <2>2 DEF ApplyMovement, TypeOK
        <4>2. CASE k \in Keys
          BY <4>1, <4>2
        <4>3. CASE k \notin Keys
          BY <4>1, <4>3
        <4> QED
          BY <4>2, <4>3
      <3> QED
        BY <3>1, <3>2, ProgressKept
    <2> QED
      BY <2>1, <2>2
  <1>10. ASSUME NEW k \in Keys
         PROVE  (IF lock[k] = NoTxn THEN live[k] = committed[k]
                 ELSE Running(lock[k]) /\ RowReplayed(lock[k], k))'
    <2>1. CASE lock'[k] = t
      <3>1. Running(t)'
        BY <1>3, <1>6, <1>p DEF Running
      <3> QED
        BY <1>8, <1>t, <2>1, <3>1
    <2>2. CASE lock'[k] = NoTxn
      BY <1>4, <1>t, <2>2 DEF Replayed
    <2>3. CASE lock'[k] \notin {t, NoTxn}
      <3>1. lock'[k] = lock[k] /\ live'[k] = live[k] /\ committed'[k] = committed[k]
        BY <1>4, <2>3
      <3>2. PICK u \in Txns : u = lock[k] /\ u # t
        BY <1>t, <2>3, <3>1 DEF TypeOK
      <3>3. Running(u) /\ RowReplayed(u, k)
        BY <1>t, <3>2 DEF Replayed
      <3>4. Running(u)' /\ RowReplayed(u, k)'
        BY <1>3, <3>1, <3>2, <3>3, RowKept DEF Running
      <3> QED
        BY <1>t, <3>1, <3>2, <3>4
    <2> QED
      BY <2>1, <2>2, <2>3
  <1> QED
    BY <1>9, <1>10 DEF Replayed

\* Every step keeps what the transactions have replayed.
LEMMA NextReplays ==
    ASSUME LedgerInvariant, LedgerInvariant', Replayed, [Next]_vars
    PROVE  Replayed'
  <1>1. CASE UNCHANGED vars
    BY <1>1 DEF vars, Replayed, Running, Progress, Done, RowReplayed
  <1>2. ASSUME NEW t \in Txns, NEW p \in Programs, Begin(t, p) PROVE Replayed'
    BY <1>2, BeginReplays
  <1>3. ASSUME NEW t \in Txns, Step(t) PROVE Replayed'
    <2>1. CASE CheckMovement(t)
      BY <2>1, CheckMovementReplays
    <2>2. CASE ApplyMovement(t)
      BY <2>2, ApplyMovementReplays
    <2>3. CASE Commit(t) \/ Rollback(t)
      BY <2>3, EndReplays DEF Commit, Rollback
    <2> QED
      BY <1>3, <2>1, <2>2, <2>3 DEF Step, RefuseMovement, FailMovement, DeadlockVictim, Interrupt
  <1> QED
    BY <1>1, <1>2, <1>3 DEF Next

---------------------------------------------
(* The ledger implements the book. *)

\* The book of StockBook starts as the ledger does.
LEMMA InitBook == Init => Book!Init
  BY DEF Init, InitialRow, Book!Init

\* A commit posts the whole list of its transaction.
LEMMA CommitPosts ==
    ASSUME LedgerInvariant, Replayed, NEW t \in Txns, Commit(t)
    PROVE  Book!Next
  <1>p. PICK p, n : p = txn[t].program /\ n = Len(p)
    OBVIOUS
  <1>1. /\ TypeOK /\ p \in Programs /\ p \in Seq(Movements) /\ n \in Nat /\ Done(t) = n
        /\ \A i \in 1..n : p[i].key \in Keys /\ lock[p[i].key] = t
    <2>1. TypeOK /\ Running(t) /\ ~Unfinished(t) /\ Progress(t)
      BY DEF LedgerInvariant, Commit, Replayed
    <2>2. /\ p \in Programs /\ p \in Seq(Movements) /\ txn[t].next \in Nat \ {0}
          /\ txn[t].next <= n + 1 /\ ~(txn[t].next <= n)
      BY <1>p, <2>1 DEF TypeOK, Progress, Unfinished
    <2>3. n \in Nat
      BY <1>p, <2>2
    <2>4. Done(t) = n
      BY <2>2, <2>3 DEF Done
    <2>5. \A i \in 1..n : p[i].key \in Keys
      BY <1>p, <2>2, DeltasOnTyped
    <2> QED
      BY <1>p, <2>1, <2>2, <2>3, <2>4, <2>5 DEF Progress
  <1> DEFINE now == BookNow
  <1>2. now \in [Keys -> CountersType]
    BY <1>1 DEF BookNow, TypeOK, Rows, Counters, CountersType
  <1>3. ASSUME NEW k \in Keys
        PROVE  /\ \A i \in 0..n : CountersSound(Posted(now, p, i)[k])
               /\ Counters(committed'[k]) = Posted(now, p, n)[k]
    <2>1. \A i : Posted(now, p, i)[k] = RowPosted(committed[k], p, i, k)
      BY DEF Posted, BookNow, Counters, RowPosted
    <2>2. CASE lock[k] = t
      <3>1. RowReplayed(t, k) /\ committed'[k] = live[k]
        BY <2>2, StockLedgerAssumption DEF Replayed, Commit
      <3> QED
        BY <1>p, <1>1, <2>1, <3>1 DEF RowReplayed
    <2>3. CASE lock[k] # t
      <3>1. \A i \in 1..n : p[i].key # k
        BY <1>1, <2>3
      <3>2. now[k] \in CountersType /\ n <= Len(p)
        BY <1>1, <1>2, <1>p
      <3> HIDE DEF now
      <3>3. \A i \in 0..n : RowPosted(now[k], p, i, k) = now[k]
        BY <1>1, <3>1, <3>2, UntouchedPosted
      <3>4. \A i \in 0..n : Posted(now, p, i)[k] = now[k]
        BY <3>3 DEF Posted
      <3>5. now[k] = Counters(committed[k]) /\ committed'[k] = committed[k]
        BY <2>3 DEF now, BookNow, Commit
      <3>6. CountersSound(Counters(committed[k])) /\ n \in 0..n
        BY <1>1 DEF LedgerInvariant, RowsSound, CountersSound, Counters
      <3> QED
        BY <3>4, <3>5, <3>6
    <2> QED
      BY <2>2, <2>3
  <1>4. \A i \in 0..n : Book!After(p)[i] = Posted(now, p, i)
    BY <1>1, <1>p, AfterIsPosted
  <1>5. \A i \in 0..n : Book!Sound(Book!After(p)[i])
    BY <1>3, <1>4 DEF Book!Sound, CountersSound
  <1>6. [k \in Keys |-> Counters(committed'[k])] = Book!After(p)[n]
    <2>1. n \in 0..n
      BY <1>1
    <2>2. Posted(now, p, n) = [k \in Keys |-> Posted(now, p, n)[k]]
      BY DEF Posted
    <2> HIDE DEF now
    <2> QED
      BY <1>3, <1>4, <2>1, <2>2
  <1>7. Book!Post(p)
    BY <1>5, <1>6, <1>p DEF Book!Post, Counters
  <1> QED
    BY <1>1, <1>7 DEF Book!Next

\* No other step changes a committed counter.
LEMMA StepPosts ==
    ASSUME LedgerInvariant, Replayed, [Next]_vars
    PROVE  Book!Next \/ committed' = committed
  <1>1. ASSUME NEW t \in Txns, Step(t) PROVE Commit(t) \/ committed' = committed
    BY <1>1 DEF Step, CheckMovement, ApplyMovement, RefuseMovement, FailMovement, DeadlockVictim,
                Interrupt, Rollback
  <1>2. ASSUME NEW t \in Txns, NEW p \in Programs, Begin(t, p) PROVE committed' = committed
    BY <1>2 DEF Begin, StartProgram
  <1>3. UNCHANGED vars => committed' = committed
    BY DEF vars
  <1> QED
    BY <1>1, <1>2, <1>3, CommitPosts DEF Next

\* The transactions of the ledger check before they lock, and interleave as they like; on
\* the committed counters it looks as if whole movement lists were posted one at a time,
\* every movement of them legal when it was posted.
THEOREM LedgerImplementsBook == Spec => SerialBook
  <1>1. LedgerInvariant /\ LedgerInvariant' /\ Replayed /\ [Next]_vars => Replayed'
    BY NextReplays
  <1>2. LedgerInvariant /\ Replayed /\ [Next]_vars =>
            [Book!Next]_([k \in Keys |-> [quantity |-> committed[k].quantity,
                                         reserved |-> committed[k].reserved]])
    BY StepPosts
  <1> QED
    BY <1>1, <1>2, InitReplays, InitBook, LedgerInvariantHolds, PTL DEF Spec, SerialBook, Book!Spec

---------------------------------------------
(* The batches of a row. *)

Source(m) == <<m.doc, m.line>>
Remaining(b) == SumFunction([i \in Indices(b) |-> b[i].remaining])
Total(b, s) == SumFunction([i \in Indices(b) |-> b[i].taken[s]])
NoneReturned(b, s) == \A i \in Indices(b) : b[i].returned[s] = 0
AllReturned(b, s) == \A i \in Indices(b) : b[i].returned[s] = b[i].taken[s]

\* A batch and its journal; of a line of a document either nothing is back, or all.
Explained(batch) ==
    /\ batch.remaining = batch.received - SumFunction(batch.taken) + SumFunction(batch.returned)
    /\ \A s \in Sources : batch.returned[s] <= batch.taken[s]
BackInFull(b) ==
    \A s \in Sources : NoneReturned(b, s) \/ (AllReturned(b, s) /\ s \in Docs \X Lines)
Journalled(b) == (\A i \in Indices(b) : Explained(b[i])) /\ BackInFull(b)
BatchesBooked(row) == Remaining(row.batches) = row.quantity /\ Journalled(row.batches)

\* A movement to come: what it returns is still out in full, and nothing came back of
\* the line that it writes off.
Outflow(m) == m.type \in OutflowOnly /\ m.line # NoLine
Ready(m, b) ==
    WellFormed(m) =>
        /\ m.type = "RETURN" => NoneReturned(b, Source(m)) /\ Total(b, Source(m)) = m.quantity
        /\ Outflow(m) => NoneReturned(b, Source(m))
ReadyAt(t, j) ==
    LET m == txn[t].program[j]
    IN  Ready(m, live[m.key].batches) /\ Ready(m, committed[m.key].batches)

\* No list writes off what it returns.
SameLine(m, n) == m.key = n.key /\ Source(m) = Source(n)
Unmixed(p) ==
    \A i, j \in 1..Len(p) :
        WellFormed(p[i]) /\ p[i].type = "RETURN" /\ Outflow(p[j]) => ~SameLine(p[i], p[j])
InOrder(t) ==
    /\ \A j \in txn[t].next..Len(txn[t].program) : ReadyAt(t, j)
    /\ Unmixed(txn[t].program)

\* Nobody else works for the document of a transaction: the journal of a document is
\* as it is committed, but on the rows that a transaction for it has written.
Exclusive ==
    \A t, u \in Txns : t # u /\ Running(t) /\ Running(u) =>
        DocsOf(txn[t].program) \cap DocsOf(txn[u].program) = {}
SameSource(b, c, s) == Total(b, s) = Total(c, s) /\ (NoneReturned(b, s) <=> NoneReturned(c, s))
Untouched ==
    \A k \in Keys, d \in Docs, l \in Lines \cup {NoLine} :
        lock[k] = NoTxn \/ d \notin DocsOf(txn[lock[k]].program) =>
            SameSource(live[k].batches, committed[k].batches, <<d, l>>)

BatchInvariant ==
    /\ \A k \in Keys : BatchesBooked(live[k]) /\ BatchesBooked(committed[k])
    /\ \A t \in Txns : Running(t) => InOrder(t)
    /\ Exclusive /\ Untouched

---------------------------------------------
(* Sums over the batches of a row and over the sources of a batch. *)

\* A row has finitely many sources.
LEMMA SourcesFinite == IsFiniteSet(Sources)
  <1>1. IsFiniteSet(Docs \cup {NoDoc}) /\ IsFiniteSet(Lines \cup {NoLine})
    BY StockLedgerAssumption, FS_AddElement
  <1> QED
    BY <1>1, FS_Product DEF Sources

\* The numbers of a list of batches.
LEMMA BatchNumbers ==
    ASSUME NEW b \in Seq(Batches)
    PROVE  /\ Len(b) \in Nat /\ Indices(b) = 1..Len(b) /\ IsFiniteSet(Indices(b))
           /\ [i \in Indices(b) |-> b[i].remaining] \in [Indices(b) -> Int]
           /\ \A s \in Sources : [i \in Indices(b) |-> b[i].taken[s]] \in [Indices(b) -> Int]
           /\ \A i \in Indices(b) :
                 /\ b[i] \in Batches /\ b[i].remaining \in Nat /\ b[i].received \in Nat
                 /\ b[i].taken \in [Sources -> Nat] /\ b[i].returned \in [Sources -> Nat]
  <1>1. Len(b) \in Nat /\ Indices(b) = 1..Len(b)
    BY DEF Indices
  <1>2. IsFiniteSet(Indices(b))
    BY <1>1, FS_Interval
  <1>3. \A i \in Indices(b) :
            /\ b[i] \in Batches /\ b[i].remaining \in Nat /\ b[i].received \in Nat
            /\ b[i].taken \in [Sources -> Nat] /\ b[i].returned \in [Sources -> Nat]
    <2> SUFFICES ASSUME NEW i \in Indices(b)
                 PROVE  /\ b[i] \in Batches /\ b[i].remaining \in Nat /\ b[i].received \in Nat
                        /\ b[i].taken \in [Sources -> Nat] /\ b[i].returned \in [Sources -> Nat]
      OBVIOUS
    <2>1. b[i] \in Batches
      BY <1>1
    <2> QED
      BY <2>1 DEF Batches
  <1> QED
    BY <1>1, <1>2, <1>3

\* So the sums over a batch and over the batches are integers.
LEMMA BatchSums ==
    ASSUME NEW b \in Seq(Batches)
    PROVE  /\ Remaining(b) \in Int
           /\ \A s \in Sources : Total(b, s) \in Int
           /\ \A i \in Indices(b) : SumFunction(b[i].taken) \in Int /\ SumFunction(b[i].returned) \in Int
  <1>1. Remaining(b) \in Int
    BY BatchNumbers, FunctionSum DEF Remaining
  <1>2. ASSUME NEW s \in Sources PROVE Total(b, s) \in Int
    <2>1. [i \in Indices(b) |-> b[i].taken[s]] \in [Indices(b) -> Int] /\ IsFiniteSet(Indices(b))
      BY BatchNumbers
    <2> QED
      BY <2>1, FunctionSum DEF Total
  <1>3. ASSUME NEW i \in Indices(b)
        PROVE  SumFunction(b[i].taken) \in Int /\ SumFunction(b[i].returned) \in Int
    <2>1. b[i].taken \in [Sources -> Nat] /\ b[i].returned \in [Sources -> Nat]
      BY BatchNumbers
    <2>2. b[i].taken \in [Sources -> Int] /\ b[i].returned \in [Sources -> Int]
      BY <2>1
    <2> QED
      BY <2>2, SourcesFinite, FunctionSum
  <1> QED
    BY <1>1, <1>2, <1>3

---------------------------------------------
(* What a movement does to the batches and their journal. *)

\* A new batch has an empty journal.
LEMMA NewBatchExplained ==
    ASSUME NEW q \in Nat
    PROVE  Explained(NewBatch(q)) /\ \A s \in Sources : NewBatch(q).taken[s] = 0 /\ NewBatch(q).returned[s] = 0
  <1> DEFINE none == [s \in Sources |-> 0]
  <1>1. none \in [Sources -> Int] /\ \A s \in Sources : none[s] = 0
    OBVIOUS
  <1>2. /\ NewBatch(q).taken = none /\ NewBatch(q).returned = none
        /\ NewBatch(q).remaining = q /\ NewBatch(q).received = q
    BY DEF NewBatch
  <1> HIDE DEF none
  <1>3. SumFunction(none) = 0
    BY <1>1, SourcesFinite, FunctionZero
  <1> QED
    BY <1>1, <1>2, <1>3 DEF Explained

\* A batch that is drawn from notes it in its journal.
Drawn(batch, src, n) == [batch EXCEPT !.remaining = @ - n, !.taken[src] = @ + n]

\* Its remainder and its journal move together.
LEMMA DrawnExplained ==
    ASSUME NEW batch \in Batches, Explained(batch), NEW src \in Sources, NEW n \in Nat,
           NEW new, new = Drawn(batch, src, n)
    PROVE  /\ Explained(new) /\ new.remaining = batch.remaining - n /\ new.returned = batch.returned
           /\ \A s \in Sources \ {src} : new.taken[s] = batch.taken[s]
  <1> DEFINE old == batch.taken
             now == [old EXCEPT ![src] = @ + n]
  <1>1. /\ old \in [Sources -> Nat] /\ batch.returned \in [Sources -> Nat]
        /\ batch.remaining \in Nat /\ batch.received \in Nat
    BY DEF Batches
  <1>2. /\ new.remaining = batch.remaining - n /\ new.returned = batch.returned
        /\ new.received = batch.received /\ new.taken = now
    BY DEF Batches, Drawn
  <1> HIDE DEF old
  <1>3. now \in [Sources -> Nat] /\ now[src] = old[src] + n /\ \A s \in Sources \ {src} : now[s] = old[s]
    BY <1>1
  <1> HIDE DEF now
  <1>4. now \in [Sources -> Int] /\ old \in [Sources -> Int] /\ batch.returned \in [Sources -> Int]
    BY <1>1, <1>3
  <1>5. SumFunction(now) = SumFunction(old) - old[src] + now[src]
    BY <1>3, <1>4, SourcesFinite, FunctionChanged
  <1>6. SumFunction(old) \in Int /\ SumFunction(batch.returned) \in Int /\ old[src] \in Nat
    BY <1>1, <1>4, SourcesFinite, FunctionSum
  <1>7. SumFunction(now) = SumFunction(old) + n
    BY <1>3, <1>5, <1>6
  <1>8. \A s \in Sources : batch.returned[s] <= now[s]
    <2> SUFFICES ASSUME NEW s \in Sources PROVE batch.returned[s] <= now[s]
      OBVIOUS
    <2>1. batch.returned[s] \in Nat /\ old[s] \in Nat /\ batch.returned[s] <= old[s]
      BY <1>1 DEF Explained, old
    <2>2. now[s] \in Nat /\ now[s] >= old[s]
      BY <1>1, <1>3
    <2> QED
      BY <2>1, <2>2
  <1>9. batch.remaining = batch.received - SumFunction(old) + SumFunction(batch.returned)
    BY DEF Explained, old
  <1>10. new.remaining = new.received - SumFunction(now) + SumFunction(new.returned)
    BY <1>1, <1>2, <1>6, <1>7, <1>9
  <1> QED
    BY <1>2, <1>3, <1>8, <1>10 DEF Explained, old

\* A batch into which all is put back that a source took.
Restored(batch, src, n) == [batch EXCEPT !.remaining = @ + n, !.returned[src] = @ + n]

\* Its remainder and its journal move together, and the source has all back.
LEMMA ReturnedExplained ==
    ASSUME NEW batch \in Batches, Explained(batch), NEW src \in Sources, NEW n \in Nat,
           batch.returned[src] = 0, n = batch.taken[src],
           NEW new, new = Restored(batch, src, n)
    PROVE  /\ Explained(new) /\ new.remaining = batch.remaining + n /\ new.taken = batch.taken
           /\ new.returned[src] = n
           /\ \A s \in Sources \ {src} : new.returned[s] = batch.returned[s]
  <1> DEFINE old == batch.returned
             now == [old EXCEPT ![src] = @ + n]
  <1>1. /\ old \in [Sources -> Nat] /\ batch.taken \in [Sources -> Nat]
        /\ batch.remaining \in Nat /\ batch.received \in Nat /\ old[src] = 0
    BY DEF Batches
  <1>2. /\ new.remaining = batch.remaining + n /\ new.taken = batch.taken
        /\ new.received = batch.received /\ new.returned = now
    BY DEF Batches, Restored
  <1> HIDE DEF old
  <1>3. now \in [Sources -> Nat] /\ now[src] = n /\ \A s \in Sources \ {src} : now[s] = old[s]
    BY <1>1
  <1> HIDE DEF now
  <1>4. now \in [Sources -> Int] /\ old \in [Sources -> Int] /\ batch.taken \in [Sources -> Int]
    BY <1>1, <1>3
  <1>5. SumFunction(now) = SumFunction(old) - old[src] + now[src]
    BY <1>3, <1>4, SourcesFinite, FunctionChanged
  <1>6. SumFunction(old) \in Int /\ SumFunction(batch.taken) \in Int
    BY <1>4, SourcesFinite, FunctionSum
  <1>7. SumFunction(now) = SumFunction(old) + n
    BY <1>1, <1>3, <1>5, <1>6
  <1>8. \A s \in Sources : now[s] <= batch.taken[s]
    <2> SUFFICES ASSUME NEW s \in Sources PROVE now[s] <= batch.taken[s]
      OBVIOUS
    <2>1. CASE s = src
      BY <1>3, <2>1
    <2>2. CASE s # src
      BY <1>3, <2>2 DEF Explained, old
    <2> QED
      BY <2>1, <2>2
  <1>9. batch.remaining = batch.received - SumFunction(batch.taken) + SumFunction(old)
    BY DEF Explained, old
  <1>10. new.remaining = new.received - SumFunction(new.taken) + SumFunction(now)
    BY <1>1, <1>2, <1>6, <1>7, <1>9
  <1> QED
    BY <1>2, <1>3, <1>8, <1>10 DEF Explained, old

\* Goods come in as a batch of their own (createFromReceipt).
LEMMA AppendBooks ==
    ASSUME NEW b \in Seq(Batches), Journalled(b), NEW q \in Nat, NEW c, c = Append(b, NewBatch(q))
    PROVE  /\ Remaining(c) = Remaining(b) + q /\ Journalled(c)
           /\ \A s \in Sources : SameSource(c, b, s)
  <1> DEFINE n == Len(b)
  <1>1. /\ n \in Nat /\ Indices(b) = 1..n /\ Indices(c) = 1..(n + 1)
        /\ c[n + 1] = NewBatch(q) /\ \A i \in 1..n : c[i] = b[i]
        /\ c \in Seq(Batches)
    BY NewBatchTyped DEF Indices
  <1> HIDE DEF n
  <1>2. \A i \in 1..(n + 1) : i \in 1..n \/ i = n + 1
    BY <1>1
  <1>3. n + 1 \in 1..(n + 1) /\ \A i \in 1..n : i \in 1..(n + 1)
    BY <1>1
  <1>4. Remaining(c) = Remaining(b) + q
    <2> DEFINE f == [i \in 1..n |-> b[i].remaining]
               e == [i \in 1..(n + 1) |-> c[i].remaining]
    <2>1. f \in [1..n -> Int] /\ e \in [1..(n + 1) -> Int]
      BY <1>1, BatchNumbers
    <2>2. (\A i \in 1..n : e[i] = f[i]) /\ e[n + 1] = q
      <3>2. NewBatch(q).remaining = q
        BY DEF NewBatch
      <3>1. c[n + 1].remaining = q
        BY <1>1, <3>2
      <3> QED
        BY <1>1, <1>3, <3>1
    <2>3. Remaining(c) = SumFunction(e) /\ Remaining(b) = SumFunction(f)
      BY <1>1 DEF Remaining
    <2> HIDE DEF f, e
    <2> QED
      BY <1>1, <2>1, <2>2, <2>3, SequenceSum
  <1>5. ASSUME NEW s \in Sources PROVE SameSource(c, b, s)
    <2> DEFINE f == [i \in 1..n |-> b[i].taken[s]]
               e == [i \in 1..(n + 1) |-> c[i].taken[s]]
    <2>1. f \in [1..n -> Int] /\ e \in [1..(n + 1) -> Int]
      BY <1>1, BatchNumbers
    <2>2. (\A i \in 1..n : e[i] = f[i]) /\ e[n + 1] = 0
      BY <1>1, <1>3, NewBatchExplained
    <2>3. Total(c, s) = SumFunction(e) /\ Total(b, s) = SumFunction(f)
      BY <1>1 DEF Total
    <2>4. NoneReturned(c, s) <=> NoneReturned(b, s)
      <3>1. c[n + 1].returned[s] = 0
        BY <1>1, NewBatchExplained
      <3>2. (\A i \in 1..n : b[i].returned[s] = 0) <=> (\A i \in 1..(n + 1) : c[i].returned[s] = 0)
        BY <1>1, <1>2, <1>3, <3>1
      <3> QED
        BY <1>1, <3>2 DEF NoneReturned
    <2> HIDE DEF f, e
    <2>5. SumFunction(e) = SumFunction(f) + 0
      BY <1>1, <2>1, <2>2, SequenceSum
    <2>7. IsFiniteSet(1..n)
      BY <1>1, FS_Interval
    <2>6. SumFunction(f) \in Int
      BY <2>1, <2>7, FunctionSum
    <2> QED
      BY <2>3, <2>4, <2>5, <2>6 DEF SameSource
  <1>6. \A i \in Indices(c) : Explained(c[i])
    BY <1>1, <1>2, NewBatchExplained DEF Journalled
  <1>7. BackInFull(c)
    <2> SUFFICES ASSUME NEW s \in Sources
                 PROVE  NoneReturned(c, s) \/ (AllReturned(c, s) /\ s \in Docs \X Lines)
      BY DEF BackInFull
    <2>1. NoneReturned(b, s) => NoneReturned(c, s)
      BY <1>5 DEF SameSource
    <2>3. c[n + 1].returned[s] = c[n + 1].taken[s]
      BY <1>1, NewBatchExplained
    <2>2. AllReturned(b, s) => AllReturned(c, s)
      BY <1>1, <1>2, <2>3 DEF AllReturned
    <2> QED
      BY <2>1, <2>2 DEF Journalled, BackInFull
  <1> QED
    BY <1>4, <1>5, <1>6, <1>7 DEF Journalled

\* Goods are drawn from the batches of which the source has returned nothing (consumeBatch).
LEMMA ConsumeBooks ==
    ASSUME NEW b \in Seq(Batches), Journalled(b), NEW q \in Nat, NEW src \in Sources,
           NoneReturned(b, src), NEW c \in Consumed(b, q, src)
    PROVE  /\ Remaining(c) = Remaining(b) - q /\ Journalled(c)
           /\ \A s \in Sources \ {src} : SameSource(c, b, s)
           /\ \A s \in Sources : NoneReturned(b, s) => NoneReturned(c, s)
  <1> DEFINE D == Indices(b)
             amount == [i \in D |-> b[i].remaining]
             drawn(w) == [i \in D |-> [b[i] EXCEPT !.remaining = @ - w[i], !.taken[src] = @ + w[i]]]
  <1>1. PICK w \in Walks(amount, q) : c = drawn(w)
    BY DEF Consumed
  <1>2. /\ IsFiniteSet(D) /\ DOMAIN amount = D /\ w \in [D -> Nat] /\ SumFunction(w) = q
        /\ \A i \in D : w[i] <= b[i].remaining
    <2>1. w \in [D -> 0..q] /\ SumFunction(w) = q /\ \A i \in D : w[i] <= b[i].remaining
      BY DEF Walks
    <2> QED
      BY <2>1, BatchNumbers
  <1>3. c \in Seq(Batches) /\ Indices(c) = D
    <2>1. c \in Seq(Batches)
      BY ConsumedTyped
    <2>2. DOMAIN c = D
      BY <1>1
    <2> QED
      BY <2>1, <2>2 DEF Indices
  <1>4. ASSUME NEW i \in D
        PROVE  /\ Explained(c[i]) /\ c[i].remaining = b[i].remaining - w[i]
               /\ c[i].returned = b[i].returned
               /\ \A s \in Sources \ {src} : c[i].taken[s] = b[i].taken[s]
    <2>1. b[i] \in Batches /\ Explained(b[i]) /\ w[i] \in Nat
      BY <1>2, BatchNumbers DEF Journalled
    <2>2. c[i] = Drawn(b[i], src, w[i])
      BY <1>1 DEF Drawn
    <2> HIDE DEF drawn, amount, D
    <2> QED
      BY <2>1, <2>2, DrawnExplained
  <1> HIDE DEF drawn, amount
  <1>5. Remaining(c) = Remaining(b) - q
    <2> DEFINE f == [i \in D |-> b[i].remaining]
               e == [i \in D |-> c[i].remaining]
    <2>1. f \in [D -> Int] /\ e \in [D -> Int] /\ w \in [D -> Int]
      BY <1>2, <1>3, BatchNumbers
    <2>2. \A i \in D : f[i] = e[i] + w[i]
      <3> SUFFICES ASSUME NEW i \in D PROVE f[i] = e[i] + w[i]
        OBVIOUS
      <3>1. f[i] \in Int /\ w[i] \in Int /\ e[i] = f[i] - w[i]
        BY <1>4, <2>1
      <3> HIDE DEF f, e
      <3> QED
        BY <3>1
    <2>3. Remaining(b) = SumFunction(f) /\ Remaining(c) = SumFunction(e)
      BY <1>3 DEF Remaining
    <2> HIDE DEF f, e, D
    <2>6. PointwiseSum(D, e, w, f)
      BY <1>2, <2>1, <2>2 DEF PointwiseSum
    <2>4. SumFunction(f) = SumFunction(e) + SumFunction(w)
      BY <2>6, FunctionsAdd
    <2>5. SumFunction(e) \in Int
      BY <1>2, <2>1, FunctionSum
    <2> QED
      BY <1>2, <2>3, <2>4, <2>5
  <1>6. \A s \in Sources : NoneReturned(c, s) <=> NoneReturned(b, s)
    BY <1>3, <1>4 DEF NoneReturned
  <1>7. ASSUME NEW s \in Sources, s # src PROVE SameSource(c, b, s)
    <2>1. [i \in D |-> c[i].taken[s]] = [i \in D |-> b[i].taken[s]]
      BY <1>4, <1>7
    <2> QED
      BY <1>3, <1>6, <2>1 DEF SameSource, Total
  <1>8. BackInFull(c)
    <2> SUFFICES ASSUME NEW s \in Sources, ~NoneReturned(c, s)
                 PROVE  AllReturned(c, s) /\ s \in Docs \X Lines
      BY DEF BackInFull
    <2>1. s # src /\ AllReturned(b, s) /\ s \in Docs \X Lines
      BY <1>6 DEF Journalled, BackInFull
    <2> QED
      BY <1>3, <1>4, <2>1 DEF AllReturned
  <1>9. \A i \in Indices(c) : Explained(c[i])
    BY <1>3, <1>4
  <1> QED
    BY <1>5, <1>6, <1>7, <1>8, <1>9 DEF Journalled

\* What a line took comes back into the batches it was taken from (restoreBatchesForReturn).
LEMMA ReturnBooks ==
    ASSUME NEW b \in Seq(Batches), Journalled(b), NEW m \in Movements, m.doc \in Docs, m.line \in Lines,
           NEW q \in Nat \ {0}, q = m.quantity, NoneReturned(b, Source(m)), Total(b, Source(m)) = q,
           NEW back \in ReturnWalks(b, m), NEW c, c = PutBack(b, back, Source(m))
    PROVE  /\ Remaining(c) = Remaining(b) + q /\ Journalled(c)
           /\ \A s \in Sources \ {Source(m)} : SameSource(c, b, s)
  <1> DEFINE D == Indices(b)
             src == Source(m)
             taken == [i \in D |-> b[i].taken[src]]
  <1>1. IsFiniteSet(D) /\ src \in Sources /\ taken \in [D -> Nat] /\ taken \in [D -> Int] /\ SumFunction(taken) = q
        /\ src \in Docs \X Lines
    BY BatchNumbers DEF Source, Sources, Total
  <1>2. \E i \in D : taken[i] > 0
    <2>1. (\A i \in D : taken[i] = 0) => SumFunction(taken) = 0
      <3> HIDE DEF D, taken
      <3> QED
        BY <1>1, FunctionZero
    <2>2. \A i \in D : taken[i] \in Nat
      BY <1>1
    <2> HIDE DEF taken, D
    <2>3. \A i \in D : taken[i] = 0 \/ taken[i] > 0
      BY <2>2
    <2> QED
      BY <1>1, <2>1, <2>3
  <1>3. ReturnPool(b, m.doc, m.line) = taken
    <2>1. m.line \in LinesWithOwn(b, m.doc)
      BY <1>2 DEF LinesWithOwn, Source
    <2> QED
      BY <2>1 DEF ReturnPool, Source
  <1>4. back \in [D -> Nat] /\ (\A i \in D : back[i] <= taken[i]) /\ SumFunction(back) = q
    <2>1. back \in Walks(taken, Smaller(SumFunction(taken), m.quantity))
      BY <1>3 DEF ReturnWalks
    <2>2. Smaller(SumFunction(taken), m.quantity) = q
      BY <1>1 DEF Smaller
    <2>3. back \in Walks(taken, q) /\ DOMAIN taken = D
      BY <2>1, <2>2
    <2> HIDE DEF taken, D
    <2>4. back \in [D -> 0..q] /\ (\A i \in D : back[i] <= taken[i]) /\ SumFunction(back) = q
      BY <2>3 DEF Walks
    <2> QED
      BY <2>4
  <1>5. \A i \in D : back[i] = taken[i]
    <2> HIDE DEF taken, D
    <2>1. back \in [D -> Int]
      BY <1>4
    <2>2. PointwiseBelow(D, back, taken)
      BY <1>1, <1>4, <2>1 DEF PointwiseBelow
    <2> QED
      BY <1>1, <1>4, <2>2, FunctionsMeet
  <1>6. c \in Seq(Batches) /\ Indices(c) = D
    <2>1. DOMAIN c = D
      BY DEF PutBack
    <2>2. c \in Seq(Batches)
      <3>1. DOMAIN ReturnPool(b, m.doc, m.line) = Indices(b)
        BY DEF ReturnPool
      <3> QED
        BY <1>1, <3>1, PutBackTyped DEF ReturnWalks
    <2> QED
      BY <2>1, <2>2 DEF Indices
  <1>7. ASSUME NEW i \in D
        PROVE  /\ Explained(c[i]) /\ c[i].remaining = b[i].remaining + taken[i]
               /\ c[i].taken = b[i].taken /\ c[i].returned[src] = c[i].taken[src]
               /\ \A s \in Sources \ {src} : c[i].returned[s] = b[i].returned[s]
    <2>1. /\ b[i] \in Batches /\ Explained(b[i]) /\ b[i].returned[src] = 0
          /\ taken[i] \in Nat /\ taken[i] = b[i].taken[src] /\ b[i].remaining \in Nat
      BY <1>1, BatchNumbers DEF Journalled, NoneReturned
    <2>2. c[i] = IF back[i] = 0 \/ AlreadyReturned(b[i], src) THEN b[i]
                 ELSE Restored(b[i], src, back[i])
      BY DEF PutBack, Restored
    <2>3. ~AlreadyReturned(b[i], src)
      BY <2>1 DEF AlreadyReturned
    <2>4. PICK x, y, n : x = b[i] /\ y = c[i] /\ n = taken[i]
      OBVIOUS
    <2>5. /\ x \in Batches /\ Explained(x) /\ x.returned[src] = 0 /\ n \in Nat /\ n = x.taken[src]
          /\ x.remaining \in Nat
      BY <2>1, <2>4
    <2>6. y = IF n = 0 THEN x ELSE Restored(x, src, n)
      BY <1>5, <2>2, <2>3, <2>4
    <2>7. src \in Sources
      BY <1>1
    <2> HIDE DEF taken, D, src
    <2>8. /\ Explained(y) /\ y.remaining = x.remaining + n /\ y.taken = x.taken
          /\ y.returned[src] = y.taken[src]
          /\ \A s \in Sources \ {src} : y.returned[s] = x.returned[s]
      <3>1. CASE n = 0
        <4>1. y = x
          BY <2>6, <3>1
        <4>2. x.remaining + n = x.remaining
          BY <2>5, <3>1
        <4> QED
          BY <2>5, <3>1, <4>1, <4>2
      <3>2. CASE n # 0
        BY <2>5, <2>6, <2>7, <3>2, ReturnedExplained
      <3> QED
        BY <3>1, <3>2
    <2> QED
      BY <2>4, <2>8
  <1>8. Remaining(c) = Remaining(b) + q
    <2> DEFINE f == [i \in D |-> b[i].remaining]
               e == [i \in D |-> c[i].remaining]
    <2>1. f \in [D -> Int] /\ e \in [D -> Int]
      BY <1>6, BatchNumbers
    <2>2. \A i \in D : e[i] = f[i] + taken[i]
      BY <1>7
    <2>3. Remaining(b) = SumFunction(f) /\ Remaining(c) = SumFunction(e)
      BY <1>6 DEF Remaining
    <2> HIDE DEF f, e, D, taken
    <2>5. PointwiseSum(D, f, taken, e)
      BY <1>1, <2>1, <2>2 DEF PointwiseSum
    <2>4. SumFunction(e) = SumFunction(f) + SumFunction(taken)
      BY <2>5, FunctionsAdd
    <2> QED
      BY <1>1, <2>3, <2>4
  <1>9. ASSUME NEW s \in Sources, s # src PROVE SameSource(c, b, s) /\ (AllReturned(b, s) => AllReturned(c, s))
    <2>1. [i \in D |-> c[i].taken[s]] = [i \in D |-> b[i].taken[s]]
      BY <1>7
    <2>2. NoneReturned(c, s) <=> NoneReturned(b, s)
      BY <1>6, <1>7, <1>9 DEF NoneReturned
    <2>3. AllReturned(b, s) => AllReturned(c, s)
      BY <1>6, <1>7, <1>9 DEF AllReturned
    <2> QED
      BY <1>6, <2>1, <2>2, <2>3 DEF SameSource, Total
  <1>10. AllReturned(c, src)
    BY <1>6, <1>7 DEF AllReturned
  <1>11. BackInFull(c)
    <2> SUFFICES ASSUME NEW s \in Sources
                 PROVE  NoneReturned(c, s) \/ (AllReturned(c, s) /\ s \in Docs \X Lines)
      BY DEF BackInFull
    <2>1. CASE s = src
      BY <1>1, <1>10, <2>1
    <2>2. CASE s # src
      <3>1. NoneReturned(b, s) \/ (AllReturned(b, s) /\ s \in Docs \X Lines)
        BY DEF Journalled, BackInFull
      <3> QED
        BY <1>9, <2>2, <3>1 DEF SameSource
    <2> QED
      BY <2>1, <2>2
  <1>12. \A i \in Indices(c) : Explained(c[i])
    BY <1>6, <1>7
  <1> QED
    BY <1>8, <1>9, <1>11, <1>12 DEF Journalled

\* The batches that a movement leaves, seen from the lines of the documents.
Effect(m, b, c) ==
    /\ Remaining(c) = Remaining(b) + QuantityDelta(m) /\ Journalled(c)
    /\ \A s \in Sources \ {Source(m)} : SameSource(c, b, s)
    /\ m.type # "RETURN" => \A s \in Sources : NoneReturned(b, s) => NoneReturned(c, s)
    /\ m.type \notin OutflowOnly \cup {"RETURN"} => \A s \in Sources : SameSource(c, b, s)

\* The parts of a movement have their types.
LEMMA SourceTyped ==
    ASSUME NEW m \in Movements
    PROVE  /\ Source(m) \in Sources /\ m.key \in Keys /\ m.quantity \in Int
           /\ m.doc \in Docs \cup {NoDoc} /\ m.line \in Lines \cup {NoLine}
  BY DEF Source, Sources, Movements

\* Only write-offs and transfers take goods out.
LEMMA OutflowIsNegative ==
    ASSUME NEW m \in Movements, WellFormed(m)
    PROVE  QuantityDelta(m) < 0 <=> m.type \in OutflowOnly
  BY DEF WellFormed, QuantityDelta, Movements, MovementTypes, OutflowOnly, InflowOnly

\* A movement that is in order has that effect (createMovement).
LEMMA OutcomeEffect ==
    ASSUME NEW m \in Movements, WellFormed(m), m.type = "RETURN" => m.line # NoLine,
           NEW b \in Seq(Batches), Journalled(b), Ready(m, b), NEW c \in BatchOutcomes(m, b)
    PROVE  Effect(m, b, c)
  <1> DEFINE src == Source(m)
  <1>1. /\ src \in Sources /\ m.quantity \in Int /\ src = <<m.doc, m.line>>
        /\ (QuantityDelta(m) < 0 <=> m.type \in OutflowOnly)
    BY SourceTyped, OutflowIsNegative DEF Source
  <1>2. CASE m.type \in BatchCreatingInflow
    <2>1. m.quantity \in Nat /\ QuantityDelta(m) = m.quantity /\ m.type \notin OutflowOnly /\ m.type # "RETURN"
      BY <1>1, <1>2 DEF WellFormed, BatchCreatingInflow, InflowOnly, OutflowOnly, QuantityDelta
    <2>2. c = Append(b, NewBatch(m.quantity))
      BY <1>1, <1>2, <2>1 DEF BatchOutcomes
    <2>3. /\ Remaining(c) = Remaining(b) + m.quantity /\ Journalled(c)
          /\ \A s \in Sources : SameSource(c, b, s)
      BY <2>1, <2>2, AppendBooks
    <2> QED
      BY <2>1, <2>3 DEF Effect, SameSource
  <1>3. CASE m.type \in OutflowOnly
    <2>1. m.type # "RETURN" /\ m.type \notin BatchCreatingInflow /\ QuantityDelta(m) = m.quantity
      BY <1>3 DEF OutflowOnly, BatchCreatingInflow, QuantityDelta
    <2> DEFINE q == -m.quantity
    <2>2. q \in Nat /\ m.quantity = -q
      BY <1>1, <1>3, <2>1
    <2>3. c \in Consumed(b, q, src)
      BY <1>1, <1>3, <2>1 DEF BatchOutcomes
    <2>4. NoneReturned(b, src)
      <3>1. CASE m.line = NoLine
        <4>1. src \notin Docs \X Lines
          BY <3>1, <1>1, StockLedgerAssumption
        <4> QED
          BY <1>1, <4>1 DEF Journalled, BackInFull
      <3>2. CASE m.line # NoLine
        BY <1>3, <3>2 DEF Ready, Outflow
      <3> QED
        BY <3>1, <3>2
    <2> HIDE DEF q, src
    <2>6. /\ Remaining(c) = Remaining(b) - q /\ Journalled(c)
          /\ \A s \in Sources \ {src} : SameSource(c, b, s)
          /\ \A s \in Sources : NoneReturned(b, s) => NoneReturned(c, s)
      BY <1>1, <2>2, <2>3, <2>4, ConsumeBooks
    <2>7. Remaining(b) \in Int
      BY BatchSums
    <2>8. Remaining(c) = Remaining(b) + QuantityDelta(m)
      BY <2>1, <2>2, <2>6, <2>7
    <2> QED
      BY <1>3, <2>1, <2>6, <2>8 DEF Effect, src
  <1>4. CASE m.type = "RETURN"
    <2>1. /\ QuantityDelta(m) = m.quantity /\ m.quantity \in Nat \ {0}
          /\ m.doc \in Docs /\ m.line \in Lines
      BY <1>1, <1>4, SourceTyped DEF QuantityDelta, WellFormed
    <2>2. m.type \notin BatchCreatingInflow /\ ~(QuantityDelta(m) < 0)
      BY <1>4, <2>1 DEF BatchCreatingInflow
    <2>3. PICK back \in ReturnWalks(b, m) : c = PutBack(b, back, src)
      BY <1>1, <1>4, <2>2 DEF BatchOutcomes
    <2>4. NoneReturned(b, src) /\ Total(b, src) = m.quantity
      BY <1>4 DEF Ready
    <2>5. /\ Remaining(c) = Remaining(b) + m.quantity /\ Journalled(c)
          /\ \A s \in Sources \ {src} : SameSource(c, b, s)
      BY <2>1, <2>3, <2>4, ReturnBooks
    <2> QED
      BY <1>4, <2>1, <2>5 DEF Effect
  <1>5. CASE m.type \notin BatchCreatingInflow \cup OutflowOnly \cup {"RETURN"}
    <2>1. QuantityDelta(m) = 0
      BY <1>5 DEF QuantityDelta, Movements, MovementTypes, OutflowOnly, InflowOnly, BatchCreatingInflow
    <2>2. c = b
      BY <1>5, <2>1 DEF BatchOutcomes
    <2>3. Remaining(b) \in Int
      BY BatchSums
    <2> QED
      BY <1>5, <2>1, <2>2, <2>3 DEF Effect, SameSource
  <1> QED
    BY <1>2, <1>3, <1>4, <1>5

---------------------------------------------
(* The batches stay booked. *)

\* What one row tells of a source that another row tells as well.
LEMMA SameReady ==
    ASSUME NEW m \in Movements, NEW b, NEW c, SameSource(c, b, Source(m)), Ready(m, b)
    PROVE  Ready(m, c)
  BY DEF Ready, SameSource

\* The two versions of a row have their types.
LEMMA LiveBatches ==
    ASSUME TypeOK, NEW k \in Keys
    PROVE  /\ live[k].batches \in Seq(Batches) /\ committed[k].batches \in Seq(Batches)
           /\ live[k].quantity \in Int /\ committed[k].quantity \in Int
  BY DEF TypeOK, Rows

\* The initial row has one batch, or none.
LEMMA InitBooked == Init => BatchInvariant
  <1> SUFFICES ASSUME Init PROVE BatchInvariant
    OBVIOUS
  <1> DEFINE b == InitialRow.batches
  <1>1. InitialQty \in Nat
    BY StockLedgerAssumption
  <1>2. Journalled(<<>>) /\ Remaining(<<>>) = 0
    <2>1. Indices(<<>>) = {} /\ <<>> \in Seq(Batches)
      BY DEF Indices
    <2>2. Journalled(<<>>)
      BY <2>1 DEF Journalled, BackInFull, NoneReturned
    <2> DEFINE f == [i \in Indices(<<>>) |-> <<>>[i].remaining]
    <2>3. f \in [{} -> Int] /\ IsFiniteSet({}) /\ \A i \in {} : f[i] = 0
      BY <2>1, FS_EmptySet
    <2>4. Remaining(<<>>) = SumFunction(f)
      BY DEF Remaining
    <2> HIDE DEF f
    <2> QED
      BY <2>2, <2>3, <2>4, FunctionZero
  <1>3. BatchesBooked(InitialRow)
    <2>1. InitialRow.quantity = InitialQty
      BY DEF InitialRow
    <2>2. CASE InitialQty = 0
      <3>1. b = <<>>
        BY <2>2 DEF InitialRow
      <3> QED
        BY <1>2, <2>1, <2>2, <3>1 DEF BatchesBooked
    <2>3. CASE InitialQty # 0
      <3>1. b = <<NewBatch(InitialQty)>>
        BY <1>1, <2>3 DEF InitialRow
      <3>2. b = Append(<<>>, NewBatch(InitialQty)) /\ <<>> \in Seq(Batches)
        BY <3>1
      <3> HIDE DEF b
      <3>3. Remaining(b) = Remaining(<<>>) + InitialQty /\ Journalled(b)
        BY <1>1, <1>2, <3>2, AppendBooks
      <3> QED
        BY <1>1, <1>2, <2>1, <3>3 DEF BatchesBooked, b
    <2> QED
      BY <2>2, <2>3
  <1>4. \A t \in Txns : ~Running(t)
    BY DEF Init, Running, Idle
  <1>5. \A k \in Keys : live[k] = InitialRow /\ committed[k] = InitialRow /\ lock[k] = NoTxn
    BY DEF Init
  <1> QED
    BY <1>3, <1>4, <1>5 DEF BatchInvariant, Exclusive, Untouched, SameSource

\* A line that has returned nothing is still out in full.
LEMMA OutstandingIsTotal ==
    ASSUME NEW b \in Seq(Batches), NEW s \in Sources
    PROVE  /\ NoneReturned(b, s) => Outstanding(b, s) = Total(b, s)
           /\ AllReturned(b, s) => Outstanding(b, s) = 0
  <1> DEFINE D == Indices(b)
             out == [i \in D |-> b[i].taken[s] - b[i].returned[s]]
             taken == [i \in D |-> b[i].taken[s]]
  <1>1. Outstanding(b, s) = SumFunction(out) /\ Total(b, s) = SumFunction(taken)
    BY DEF Outstanding, Total
  <1>2. \A i \in D : b[i].taken[s] \in Nat /\ b[i].returned[s] \in Nat
    BY BatchNumbers
  <1>3. IsFiniteSet(D) /\ out \in [D -> Int]
    BY <1>2, BatchNumbers
  <1>4. ASSUME NoneReturned(b, s) PROVE out = taken
    BY <1>2, <1>4 DEF NoneReturned
  <1>5. ASSUME AllReturned(b, s) PROVE \A i \in D : out[i] = 0
    BY <1>2, <1>5 DEF AllReturned
  <1> HIDE DEF out, taken, D
  <1> QED
    BY <1>1, <1>3, <1>4, <1>5, FunctionZero

\* Of a line that has taken nothing nothing can be back.
LEMMA NothingTaken ==
    ASSUME NEW b \in Seq(Batches), Journalled(b), NEW s \in Sources, Total(b, s) = 0
    PROVE  NoneReturned(b, s)
  <1> DEFINE D == Indices(b)
             taken == [i \in D |-> b[i].taken[s]]
             none == [i \in D |-> 0]
  <1>1. IsFiniteSet(D) /\ taken \in [D -> Int] /\ none \in [D -> Int] /\ \A i \in D : none[i] = 0
    BY BatchNumbers
  <1>2. \A i \in D : b[i].taken[s] \in Nat /\ b[i].returned[s] \in Nat /\ b[i].returned[s] <= b[i].taken[s]
    BY BatchNumbers DEF Journalled, Explained
  <1>3. \A i \in D : none[i] <= taken[i]
    BY <1>2
  <1>4. SumFunction(taken) = 0
    BY DEF Total
  <1>5. \A i \in D : taken[i] = 0
    <2> HIDE DEF taken, none, D
    <2>1. PointwiseBelow(D, none, taken)
      BY <1>1, <1>3 DEF PointwiseBelow
    <2>2. SumFunction(none) = 0
      BY <1>1, FunctionZero
    <2> QED
      BY <1>1, <1>4, <2>1, <2>2, FunctionsMeet
  <1>6. ASSUME NEW i \in D PROVE b[i].returned[s] = 0
    <2>1. b[i].taken[s] = 0
      BY <1>5
    <2> HIDE DEF D, taken, none
    <2> QED
      BY <1>2, <2>1
  <1> QED
    BY <1>6 DEF NoneReturned

\* The movement of a list that may begin is in order on the rows, committed or not.
LEMMA BeginsInOrder ==
    ASSUME LedgerInvariant, Replayed, BatchInvariant, NEW p \in Programs, OncePerLine(p), DocumentsFree(p),
           NEW j \in 1..Len(p)
    PROVE  /\ p[j] \in Movements
           /\ Ready(p[j], live[p[j].key].batches) /\ Ready(p[j], committed[p[j].key].batches)
           /\ WellFormed(p[j]) /\ p[j].type = "RETURN" => Total(committed[p[j].key].batches, Source(p[j])) # 0
           /\ Outflow(p[j]) => Total(committed[p[j].key].batches, Source(p[j])) = 0
  <1>p. PICK m, k, s : m = p[j] /\ k = m.key /\ s = Source(m)
    OBVIOUS
  <1>1. m \in Movements /\ k \in Keys /\ s \in Sources /\ s = <<m.doc, m.line>>
    <2>1. p \in Seq(Movements)
      BY ProgramsAssumption
    <2> QED
      BY <1>p, <2>1, SourceTyped DEF Source
  <1>q. PICK b, c : b = live[k].batches /\ c = committed[k].batches
    OBVIOUS
  <1>2. /\ b \in Seq(Batches) /\ c \in Seq(Batches) /\ Journalled(b) /\ Journalled(c)
        /\ m.quantity \in Int
    BY <1>1, <1>q, LiveBatches, SourceTyped DEF LedgerInvariant, BatchInvariant, BatchesBooked
  <1>3. /\ m.type = "RETURN" => m.quantity = Outstanding(c, s)
        /\ m.type \in OutflowOnly /\ m.line # NoLine => Total(c, s) = 0
    BY <1>p, <1>q, <1>1 DEF OncePerLine, Written, Total
  <1>4. m.doc # NoDoc => SameSource(b, c, s)
    <2> SUFFICES ASSUME m.doc # NoDoc PROVE SameSource(b, c, s)
      OBVIOUS
    <2>1. m.doc \in Docs /\ m.line \in Lines \cup {NoLine}
      BY <1>1, SourceTyped
    <2>2. m.doc \in DocsOf(p)
      BY <1>p DEF DocsOf
    <2>3. lock[k] = NoTxn \/ m.doc \notin DocsOf(txn[lock[k]].program)
      <3>1. lock[k] # NoTxn => lock[k] \in Txns /\ Running(lock[k])
        BY <1>1 DEF LedgerInvariant, TypeOK, Replayed
      <3> QED
        BY <2>2, <3>1 DEF DocumentsFree
    <2> QED
      BY <1>1, <1>q, <2>1, <2>3 DEF BatchInvariant, Untouched
  <1>5. ASSUME WellFormed(m), m.type = "RETURN"
        PROVE  NoneReturned(c, s) /\ Total(c, s) = m.quantity /\ m.quantity # 0 /\ m.doc # NoDoc
    <2>1. m.quantity # 0 /\ m.doc # NoDoc
      BY <1>5 DEF WellFormed
    <2>2. ~AllReturned(c, s)
      BY <1>1, <1>2, <1>3, <1>5, <2>1, OutstandingIsTotal
    <2>3. NoneReturned(c, s)
      BY <1>1, <1>2, <2>2 DEF Journalled, BackInFull
    <2> QED
      BY <1>1, <1>2, <1>3, <1>5, <2>1, <2>3, OutstandingIsTotal
  <1>6. ASSUME Outflow(m) PROVE NoneReturned(c, s) /\ NoneReturned(b, s)
    <2>1. NoneReturned(c, s)
      BY <1>1, <1>2, <1>3, <1>6, NothingTaken DEF Outflow
    <2>2. CASE m.doc = NoDoc
      <3>1. s \notin Docs \X Lines
        BY <1>1, <2>2, StockLedgerAssumption
      <3> QED
        BY <1>1, <1>2, <2>1, <3>1 DEF Journalled, BackInFull
    <2>3. CASE m.doc # NoDoc
      BY <1>4, <2>1, <2>3 DEF SameSource
    <2> QED
      BY <2>1, <2>2, <2>3
  <1>7. Ready(m, c)
    BY <1>p, <1>5, <1>6 DEF Ready
  <1>8. Ready(m, b)
    BY <1>p, <1>4, <1>5, <1>6 DEF Ready, SameSource
  <1>9. Outflow(m) => Total(c, s) = 0
    BY <1>3 DEF Outflow
  <1> QED
    BY <1>p, <1>q, <1>1, <1>5, <1>7, <1>8, <1>9

\* A list begins: its returns and write-offs have each line to themselves (OncePerLine).
LEMMA BeginBooks ==
    ASSUME LedgerInvariant, Replayed, BatchInvariant, NEW t \in Txns, NEW p \in Programs, Begin(t, p)
    PROVE  BatchInvariant'
  <1>1. /\ UNCHANGED <<live, committed, lock>> /\ ~Running(t) /\ DocumentsFree(p) /\ OncePerLine(p)
        /\ txn' = [txn EXCEPT ![t] = [program |-> p, next |-> 1, checked |-> FALSE]]
    BY DEF Begin, StartProgram
  <1>2. /\ txn'[t].program = p /\ txn'[t].next = 1
        /\ \A u \in Txns : u # t => txn'[u] = txn[u]
    BY <1>1 DEF LedgerInvariant, TypeOK
  <1>3. \A k \in Keys : BatchesBooked(live'[k]) /\ BatchesBooked(committed'[k])
    BY <1>1 DEF BatchInvariant
  <1>4. ASSUME NEW u \in Txns, Running(u)' PROVE InOrder(u)'
    <2>1. CASE u # t
      BY <1>1, <1>2, <1>4, <2>1 DEF BatchInvariant, InOrder, ReadyAt, Running
    <2>2. CASE u = t
      <3>1. \A j \in 1..Len(p) : /\ Ready(p[j], live[p[j].key].batches)
                                 /\ Ready(p[j], committed[p[j].key].batches)
        BY <1>1, BeginsInOrder
      <3>2. Unmixed(p)
        <4> SUFFICES ASSUME NEW i \in 1..Len(p), NEW j \in 1..Len(p), WellFormed(p[i]),
                            p[i].type = "RETURN", Outflow(p[j])
                     PROVE  ~SameLine(p[i], p[j])
          BY DEF Unmixed
        <4>1. Total(committed[p[i].key].batches, Source(p[i])) # 0
          BY <1>1, BeginsInOrder
        <4>2. Total(committed[p[j].key].batches, Source(p[j])) = 0
          BY <1>1, BeginsInOrder
        <4> QED
          BY <4>1, <4>2 DEF SameLine
      <3> QED
        BY <1>1, <1>2, <2>2, <3>1, <3>2 DEF InOrder, ReadyAt
    <2> QED
      BY <2>1, <2>2
  <1>5. Exclusive'
    <2> SUFFICES ASSUME NEW u \in Txns, NEW v \in Txns, u # v, Running(u)', Running(v)'
                 PROVE  DocsOf(txn'[u].program) \cap DocsOf(txn'[v].program) = {}
      BY DEF Exclusive
    <2>1. CASE u # t /\ v # t
      BY <1>2, <2>1 DEF BatchInvariant, Exclusive, Running
    <2>2. CASE u = t
      BY <1>1, <1>2, <2>2 DEF DocumentsFree, Running
    <2>3. CASE v = t
      BY <1>1, <1>2, <2>3 DEF DocumentsFree, Running
    <2> QED
      BY <2>1, <2>2, <2>3
  <1>6. Untouched'
    <2> SUFFICES ASSUME NEW k \in Keys, NEW d \in Docs, NEW l \in Lines \cup {NoLine},
                        lock'[k] = NoTxn \/ d \notin DocsOf(txn'[lock'[k]].program)
                 PROVE  SameSource(live'[k].batches, committed'[k].batches, <<d, l>>)
      BY DEF Untouched
    <2>1. lock[k] # NoTxn => lock[k] \in Txns /\ lock[k] # t
      BY <1>1 DEF LedgerInvariant, TypeOK, Replayed
    <2>2. lock[k] = NoTxn \/ d \notin DocsOf(txn[lock[k]].program)
      BY <1>1, <1>2, <2>1
    <2> QED
      BY <1>1, <2>2 DEF BatchInvariant, Untouched
  <1> QED
    BY <1>3, <1>4, <1>5, <1>6 DEF BatchInvariant

\* A movement after another of the same list: no line is returned twice, none both
\* returned and written off.
LEMMA LaterStaysReady ==
    ASSUME NEW p \in Programs, Unmixed(p), NEW i \in 1..Len(p), NEW j \in 1..Len(p), i # j,
           WellFormed(p[i]), p[i].key = p[j].key,
           NEW b, NEW c, Effect(p[i], b, c), Ready(p[j], b)
    PROVE  Ready(p[j], c)
  <1>1. p[i] \in Movements /\ p[j] \in Movements
    BY ProgramsAssumption
  <1>p. PICK m, n : m = p[i] /\ n = p[j]
    OBVIOUS
  <1>2. m \in Movements /\ n \in Movements /\ Source(n) \in Sources
    BY <1>1, <1>p, SourceTyped
  <1>3. CASE Source(n) # Source(m)
    <2>1. SameSource(c, b, Source(n))
      BY <1>2, <1>3, <1>p DEF Effect
    <2> QED
      BY <1>2, <1>p, <2>1, SameReady
  <1>4. CASE Source(n) = Source(m) /\ m.type \notin OutflowOnly \cup {"RETURN"}
    <2>1. SameSource(c, b, Source(n))
      BY <1>2, <1>4, <1>p DEF Effect
    <2> QED
      BY <1>2, <1>p, <2>1, SameReady
  <1>5. CASE Source(n) = Source(m) /\ m.type \in OutflowOnly \cup {"RETURN"}
    <2>1. SameLine(m, n) /\ SameLine(n, m)
      BY <1>5, <1>p DEF SameLine
    <2>2. m.doc = n.doc /\ m.line = n.line /\ m.key = n.key
      BY <2>1 DEF SameLine, Source
    <2>3. ASSUME WellFormed(n), n.type = "RETURN" PROVE FALSE
      <3>1. n.line # NoLine
        BY <1>p, <2>3, ReturnsAssumption
      <3>2. CASE m.type = "RETURN"
        <4>1. m = [n EXCEPT !.quantity = m.quantity]
          BY <1>2, <2>2, <2>3, <3>2 DEF Movements
        <4> QED
          BY <1>p, <2>3, <4>1, ReturnsAssumption
      <3>3. CASE m.type \in OutflowOnly
        <4>1. Outflow(m)
          BY <2>2, <3>1, <3>3 DEF Outflow
        <4> QED
          BY <1>p, <2>1, <2>3, <4>1 DEF Unmixed
      <3> QED
        BY <1>5, <3>2, <3>3
    <2>4. ASSUME WellFormed(n), Outflow(n) PROVE NoneReturned(c, Source(n))
      <3>1. m.type # "RETURN"
        BY <1>p, <2>1, <2>4 DEF Unmixed
      <3>2. NoneReturned(b, Source(n))
        BY <1>p, <2>4 DEF Ready
      <3> QED
        BY <1>2, <1>p, <3>1, <3>2 DEF Effect
    <2> QED
      BY <1>p, <2>3, <2>4 DEF Ready
  <1> QED
    BY <1>3, <1>4, <1>5

\* A movement of one transaction leaves the lists of the others in order: they work for
\* other documents, or for none.
LEMMA OthersStayReady ==
    ASSUME NEW m \in Movements, WellFormed(m), NEW n \in Movements,
           m.doc # NoDoc => m.doc # n.doc,
           NEW b, NEW c, Effect(m, b, c), Ready(n, b)
    PROVE  Ready(n, c)
  <1>1. Source(n) \in Sources
    BY SourceTyped
  <1>2. CASE Source(n) # Source(m)
    <2>1. SameSource(c, b, Source(n))
      BY <1>1, <1>2 DEF Effect
    <2> QED
      BY <2>1, SameReady
  <1>3. CASE Source(n) = Source(m)
    <2>1. m.doc = NoDoc /\ n.doc = NoDoc
      BY <1>3 DEF Source
    <2>2. m.type # "RETURN" /\ (WellFormed(n) => n.type # "RETURN")
      BY <2>1 DEF WellFormed
    <2> QED
      BY <1>1, <2>2 DEF Effect, Ready
  <1> QED
    BY <1>2, <1>3

\* A movement is applied (createMovement with its batch operations).
LEMMA ApplyMovementBooks ==
    ASSUME LedgerInvariant, Replayed, BatchInvariant, NEW t \in Txns, ApplyMovement(t)
    PROVE  BatchInvariant'
  <1>p. PICK m, k, p, n : m = Current(t) /\ k = m.key /\ p = txn[t].program /\ n = txn[t].next
    OBVIOUS
  <1>1. /\ TypeOK /\ Running(t) /\ Progress(t) /\ InOrder(t)
    BY DEF LedgerInvariant, Replayed, BatchInvariant, ApplyMovement, Unfinished
  <1>2. /\ p \in Programs /\ n \in 1..Len(p) /\ m = p[n] /\ m \in Movements /\ WellFormed(m) /\ k \in Keys
        /\ lock[k] \in {t, NoTxn} /\ \A j \in n..Len(p) : j \in 1..Len(p)
        /\ \A j \in (n + 1)..Len(p) : j \in n..Len(p) /\ j # n
        /\ n \in n..Len(p)
    <2>1. p \in Programs /\ p \in Seq(Movements) /\ n \in Nat \ {0} /\ n <= Len(p) /\ m = p[n]
          /\ lock[k] \in {t, NoTxn}
      BY <1>p, <1>1 DEF Progress, ApplyMovement, OwnsOrFree, Unfinished, Current, TypeOK
    <2>2. m \in Movements /\ WellFormed(m) /\ k \in Keys
      BY <1>p, <1>1, CurrentTyped DEF ApplyMovement, LedgerInvariant, CheckedIsWellFormed, Movements
    <2>3. Len(p) \in Nat
      BY <2>1
    <2> DEFINE l == Len(p)
    <2> HIDE DEF l
    <2>4. /\ n \in 1..l /\ n \in n..l /\ (\A j \in n..l : j \in 1..l)
          /\ \A j \in (n + 1)..l : j \in n..l /\ j # n
      BY <2>1, <2>3 DEF l
    <2> QED
      BY <2>1, <2>2, <2>4 DEF l
  <1>3. PICK row \in RowsAfter(m, live[k]) : live' = [live EXCEPT ![k] = row]
    BY <1>p DEF ApplyMovement
  <1>b. PICK b, c : b = live[k].batches /\ c = row.batches
    OBVIOUS
  <1>4. /\ live'[k] = row /\ lock'[k] = t /\ committed' = committed
        /\ \A j \in Keys : j # k => live'[j] = live[j] /\ lock'[j] = lock[j]
        /\ \A u \in Txns : txn'[u].program = txn[u].program
        /\ \A u \in Txns : u # t => txn'[u].next = txn[u].next
        /\ txn'[t].next = n + 1
    <2>1. /\ lock' = [lock EXCEPT ![k] = t] /\ committed' = committed
          /\ txn' = [txn EXCEPT ![t].next = @ + 1, ![t].checked = FALSE]
      BY <1>p DEF ApplyMovement
    <2>2. /\ live'[k] = row /\ lock'[k] = t
          /\ \A j \in Keys : j # k => live'[j] = live[j] /\ lock'[j] = lock[j]
      BY <1>1, <1>2, <1>3, <2>1 DEF TypeOK
    <2>3. \A u \in Txns : u # t => txn'[u] = txn[u]
      BY <1>1, <2>1 DEF TypeOK
    <2>4. txn'[t].program = txn[t].program /\ txn'[t].next = n + 1
      BY <1>p, <1>1, <2>1 DEF TypeOK
    <2> QED
      BY <2>1, <2>2, <2>3, <2>4
  <1>5. /\ c \in BatchOutcomes(m, b) /\ row.quantity = live[k].quantity + QuantityDelta(m)
        /\ b \in Seq(Batches) /\ Journalled(b) /\ Remaining(b) = live[k].quantity /\ live[k].quantity \in Int
    BY <1>b, <1>1, <1>2, <1>3, LiveBatches DEF RowsAfter, BatchInvariant, BatchesBooked
  <1>6. Ready(m, b)
    BY <1>p, <1>b, <1>1, <1>2 DEF InOrder, ReadyAt
  <1>7. m.type = "RETURN" => m.line # NoLine
    BY <1>2, ReturnsAssumption
  <1>8. Effect(m, b, c)
    BY <1>2, <1>5, <1>6, <1>7, OutcomeEffect
  <1>9. ASSUME NEW j \in Keys PROVE BatchesBooked(live'[j]) /\ BatchesBooked(committed'[j])
    <2>1. BatchesBooked(row)
      BY <1>b, <1>5, <1>8 DEF Effect, BatchesBooked
    <2> QED
      BY <1>4, <2>1 DEF BatchInvariant
  <1>10. ASSUME NEW u \in Txns, Running(u)' PROVE InOrder(u)'
    <2>1. Running(u) /\ InOrder(u) /\ txn'[u].program = txn[u].program
      BY <1>4, <1>10 DEF Running, BatchInvariant
    <2>p. PICK q : q = txn[u].program
      OBVIOUS
    <2>2. Unmixed(txn'[u].program)
      BY <2>1 DEF InOrder
    <2>3. ASSUME NEW j \in txn'[u].next..Len(q)
          PROVE  Ready(q[j], live'[q[j].key].batches) /\ Ready(q[j], committed'[q[j].key].batches)
      <3>1. /\ j \in txn[u].next..Len(q) /\ j \in 1..Len(q) /\ q[j] \in Movements /\ q[j].key \in Keys
            /\ u = t => j # n /\ q = p
        <4>1. CASE u = t
          <5>1. q = p /\ j \in (n + 1)..Len(p) /\ p \in Seq(Movements)
            BY <1>p, <1>4, <2>p, <2>3, <4>1, <1>1 DEF TypeOK
          <5>2. j \in n..Len(p) /\ j # n /\ j \in 1..Len(p)
            BY <1>2, <5>1
          <5>3. p[j] \in Movements
            BY <5>1, <5>2
          <5> QED
            BY <1>p, <4>1, <5>1, <5>2, <5>3 DEF Movements
        <4>2. CASE u # t
          <5>1. j \in txn[u].next..Len(q) /\ q \in Seq(Movements) /\ txn[u].next \in Nat \ {0}
            BY <1>1, <1>4, <2>p, <2>3, <4>2 DEF TypeOK
          <5>2. j \in 1..Len(q)
            BY <5>1
          <5>3. q[j] \in Movements
            BY <5>1, <5>2
          <5> QED
            BY <4>2, <5>1, <5>2, <5>3 DEF Movements
        <4> QED
          BY <4>1, <4>2
      <3>2. Ready(q[j], live[q[j].key].batches) /\ Ready(q[j], committed[q[j].key].batches)
        BY <2>1, <2>p, <3>1 DEF InOrder, ReadyAt
      <3>3. CASE q[j].key # k
        BY <1>4, <3>1, <3>2, <3>3
      <3>4. CASE q[j].key = k
        <4>1. Ready(q[j], b) /\ live'[k].batches = c
          BY <1>4, <1>b, <3>2, <3>4
        <4>2. CASE u = t
          <5>1. Unmixed(p)
            BY <1>p, <1>1 DEF InOrder
          <5>3. /\ j \in 1..Len(p) /\ n # j /\ p[n].key = p[j].key
                /\ Ready(p[j], b) /\ WellFormed(p[n]) /\ Effect(p[n], b, c)
            BY <1>p, <1>2, <1>8, <3>1, <3>4, <4>1, <4>2
          <5>2. Ready(p[j], c)
            BY <1>2, <5>1, <5>3, LaterStaysReady
          <5> QED
            BY <1>4, <3>1, <3>2, <3>4, <4>1, <4>2, <5>2
        <4>3. CASE u # t
          <5>1. DocsOf(p) \cap DocsOf(q) = {}
            BY <1>p, <1>1, <2>1, <2>p, <4>3 DEF BatchInvariant, Exclusive
          <5>2. m.doc # NoDoc => m.doc # q[j].doc
            BY <1>2, <3>1, <5>1 DEF DocsOf
          <5>3. Ready(q[j], c)
            BY <1>2, <1>8, <3>1, <4>1, <5>2, OthersStayReady
          <5> QED
            BY <1>4, <3>2, <3>4, <4>1, <5>3
        <4> QED
          BY <4>2, <4>3
      <3> QED
        BY <3>3, <3>4
    <2> QED
      BY <2>1, <2>2, <2>3, <2>p DEF InOrder, ReadyAt
  <1>11. Exclusive'
    BY <1>4 DEF BatchInvariant, Exclusive, Running
  <1>12. Untouched'
    <2> SUFFICES ASSUME NEW j \in Keys, NEW d \in Docs, NEW l \in Lines \cup {NoLine},
                        lock'[j] = NoTxn \/ d \notin DocsOf(txn'[lock'[j]].program)
                 PROVE  SameSource(live'[j].batches, committed'[j].batches, <<d, l>>)
      BY DEF Untouched
    <2>1. CASE j # k
      <3>1. lock'[j] = lock[j] /\ live'[j] = live[j] /\ lock[j] \in Txns \cup {NoTxn}
        BY <1>1, <1>4, <2>1 DEF TypeOK
      <3>2. lock[j] = NoTxn \/ d \notin DocsOf(txn[lock[j]].program)
        BY <1>4, <3>1
      <3> QED
        BY <1>4, <3>1, <3>2 DEF BatchInvariant, Untouched
    <2>2. CASE j = k
      <3>1. d \notin DocsOf(p) /\ m.doc # d
        <4>1. d \notin DocsOf(p)
          BY <1>p, <1>4, <2>2, StockLedgerAssumption
        <4>2. m.doc \in DocsOf(p) \/ m.doc = NoDoc
          BY <1>2 DEF DocsOf
        <4> QED
          BY <4>1, <4>2, StockLedgerAssumption
      <3>2. lock[k] = NoTxn \/ d \notin DocsOf(txn[lock[k]].program)
        BY <1>p, <1>2, <3>1
      <3>3. SameSource(b, committed[k].batches, <<d, l>>)
        BY <1>b, <1>2, <3>2 DEF BatchInvariant, Untouched
      <3>4. <<d, l>> \in Sources /\ <<d, l>> # Source(m)
        BY <3>1 DEF Sources, Source
      <3>5. SameSource(c, b, <<d, l>>)
        BY <1>8, <3>4 DEF Effect
      <3>6. SameSource(c, committed[k].batches, <<d, l>>)
        BY <3>3, <3>5 DEF SameSource
      <3> QED
        BY <1>4, <1>b, <2>2, <3>6
    <2> QED
      BY <2>1, <2>2
  <1> QED
    BY <1>9, <1>10, <1>11, <1>12 DEF BatchInvariant

\* The unlocked checks change no row.
LEMMA CheckMovementBooks ==
    ASSUME LedgerInvariant, BatchInvariant, NEW t \in Txns, CheckMovement(t)
    PROVE  BatchInvariant'
  <1>1. /\ UNCHANGED <<live, committed, lock>>
        /\ \A u \in Txns : txn'[u].program = txn[u].program /\ txn'[u].next = txn[u].next
    BY DEF LedgerInvariant, TypeOK, CheckMovement
  <1>2. \A k \in Keys : BatchesBooked(live'[k]) /\ BatchesBooked(committed'[k])
    BY <1>1 DEF BatchInvariant
  <1>3. \A u \in Txns : Running(u)' => InOrder(u)'
    BY <1>1 DEF BatchInvariant, InOrder, ReadyAt, Running
  <1>4. Exclusive'
    BY <1>1 DEF BatchInvariant, Exclusive, Running
  <1>5. Untouched'
    <2> SUFFICES ASSUME NEW k \in Keys, NEW d \in Docs, NEW l \in Lines \cup {NoLine},
                        lock'[k] = NoTxn \/ d \notin DocsOf(txn'[lock'[k]].program)
                 PROVE  SameSource(live'[k].batches, committed'[k].batches, <<d, l>>)
      BY DEF Untouched
    <2>1. lock[k] \in Txns \cup {NoTxn}
      BY DEF LedgerInvariant, TypeOK
    <2>2. lock[k] = NoTxn \/ d \notin DocsOf(txn[lock[k]].program)
      BY <1>1, <2>1
    <2> QED
      BY <1>1, <2>2 DEF BatchInvariant, Untouched
  <1> QED
    BY <1>2, <1>3, <1>4, <1>5 DEF BatchInvariant

\* A transaction ends: every row it has written gets one version again, its new one or its
\* old one.
LEMMA EndBooks ==
    ASSUME LedgerInvariant, BatchInvariant, NEW t \in Txns, Commit(t) \/ Rollback(t)
    PROVE  BatchInvariant'
  <1>1. /\ txn'[t].program = <<>>
        /\ \A u \in Txns : u # t => txn'[u] = txn[u]
        /\ \A k \in Keys : lock'[k] = IF lock[k] = t THEN NoTxn ELSE lock[k]
        /\ \A k \in Keys : lock[k] \in Txns \cup {NoTxn}
    BY DEF LedgerInvariant, TypeOK, Commit, Rollback, Idle
  <1>2. ASSUME NEW k \in Keys
        PROVE  /\ live'[k] = live[k] \/ live'[k] = committed[k]
               /\ committed'[k] = live[k] \/ committed'[k] = committed[k]
               /\ lock[k] = t => live'[k] = committed'[k]
               /\ lock[k] # t => live'[k] = live[k] /\ committed'[k] = committed[k]
    BY DEF LedgerInvariant, TypeOK, Commit, Rollback
  <1>3. \A k \in Keys : BatchesBooked(live'[k]) /\ BatchesBooked(committed'[k])
    BY <1>2 DEF BatchInvariant
  <1>4. ASSUME NEW u \in Txns, Running(u)' PROVE InOrder(u)'
    <2>1. u # t /\ txn'[u] = txn[u] /\ Running(u) /\ InOrder(u)
      BY <1>1, <1>4 DEF Running, BatchInvariant
    <2>p. PICK p, n : p = txn[u].program /\ n = txn[u].next
      OBVIOUS
    <2>2. p \in Seq(Movements) /\ n \in Nat \ {0} /\ Len(p) \in Nat
      BY <2>p DEF LedgerInvariant, TypeOK
    <2>3. ASSUME NEW j \in n..Len(p)
          PROVE  Ready(p[j], live'[p[j].key].batches) /\ Ready(p[j], committed'[p[j].key].batches)
      <3>1. j \in 1..Len(p)
        BY <2>2
      <3>4. p[j] \in Movements
        BY <2>2, <3>1
      <3>2. p[j].key \in Keys
        BY <3>4 DEF Movements
      <3>3. Ready(p[j], live[p[j].key].batches) /\ Ready(p[j], committed[p[j].key].batches)
        BY <2>1, <2>p DEF InOrder, ReadyAt
      <3> QED
        BY <1>2, <3>2, <3>3
    <2> QED
      BY <2>1, <2>p, <2>3 DEF InOrder, ReadyAt
  <1>5. Exclusive'
    BY <1>1 DEF BatchInvariant, Exclusive, Running
  <1>6. Untouched'
    <2> SUFFICES ASSUME NEW k \in Keys, NEW d \in Docs, NEW l \in Lines \cup {NoLine},
                        lock'[k] = NoTxn \/ d \notin DocsOf(txn'[lock'[k]].program)
                 PROVE  SameSource(live'[k].batches, committed'[k].batches, <<d, l>>)
      BY DEF Untouched
    <2>1. CASE lock[k] = t
      BY <1>2, <2>1 DEF SameSource
    <2>2. CASE lock[k] # t
      <3>1. lock[k] = NoTxn \/ d \notin DocsOf(txn[lock[k]].program)
        BY <1>1, <2>2
      <3> QED
        BY <1>2, <2>2, <3>1 DEF BatchInvariant, Untouched
    <2> QED
      BY <2>1, <2>2
  <1> QED
    BY <1>3, <1>4, <1>5, <1>6 DEF BatchInvariant

\* Every step keeps the batches booked.
LEMMA NextBooks ==
    ASSUME LedgerInvariant, Replayed, BatchInvariant, [Next]_vars
    PROVE  BatchInvariant'
  <1>1. CASE UNCHANGED vars
    BY <1>1 DEF vars, BatchInvariant, InOrder, ReadyAt, Exclusive, Untouched, Running
  <1>2. ASSUME NEW t \in Txns, NEW p \in Programs, Begin(t, p) PROVE BatchInvariant'
    BY <1>2, BeginBooks
  <1>3. ASSUME NEW t \in Txns, Step(t) PROVE BatchInvariant'
    <2>1. CASE CheckMovement(t)
      BY <2>1, CheckMovementBooks
    <2>2. CASE ApplyMovement(t)
      BY <2>2, ApplyMovementBooks
    <2>3. CASE Commit(t) \/ Rollback(t)
      BY <2>3, EndBooks
    <2> QED
      BY <1>3, <2>1, <2>2, <2>3 DEF Step, RefuseMovement, FailMovement, DeadlockVictim, Interrupt
  <1> QED
    BY <1>1, <1>2, <1>3 DEF Next

\* Both versions of every row are booked in every state, and every list is in order: what it
\* will return is out in full, and nothing came back of what it will write off.
THEOREM BatchInvariantHolds == Spec => [](LedgerInvariant /\ Replayed /\ BatchInvariant)
  <1>1. LedgerInvariant /\ LedgerInvariant' /\ Replayed /\ [Next]_vars => Replayed'
    BY NextReplays
  <1>2. LedgerInvariant /\ Replayed /\ BatchInvariant /\ [Next]_vars => BatchInvariant'
    BY NextBooks
  <1> QED
    BY <1>1, <1>2, InitReplays, InitBooked, LedgerInvariantHolds, PTL DEF Spec

\* The remaining quantities of the batches of a row always add up to its quantity (the
\* invariant stated at BATCH_CREATING_INFLOW), whichever movement lists run together.
THEOREM BatchesAlwaysCover == Spec => []BatchesCoverQuantity
  <1>1. BatchInvariant => BatchesCoverQuantity
    BY DEF BatchInvariant, BatchesBooked, Remaining, BatchesCoverQuantity
  <1> QED
    BY <1>1, BatchInvariantHolds, PTL

\* The journal of consumptions always explains every batch, and no line of a document gives
\* back more than it took from a batch (consumeBatch, returnToBatch).
THEOREM JournalAlwaysExplains == Spec => []JournalExplainsBatches
  <1>1. BatchInvariant => JournalExplainsBatches
    BY DEF BatchInvariant, BatchesBooked, Journalled, Explained, JournalExplainsBatches
  <1> QED
    BY <1>1, BatchInvariantHolds, PTL

---------------------------------------------
(* The inductive invariants. *)

\* The movements of order w: whatever they reserve or release is its own.
Own(w) == {m \in Movements : ReservedDelta(m) # 0 => m.doc = w}

\* What a movement list still releases, and by how much it still changes the reservation,
\* on row k from its n-th movement on.
ReleaseOn(p, k) == [i \in 1..Len(p) |->
    IF p[i].key = k /\ ReservedDelta(p[i]) < 0 THEN -ReservedDelta(p[i]) ELSE 0]
ToRelease(p, n, k) == SumFunctionOnSet(ReleaseOn(p, k), n..Len(p))
ToReserve(p, n, k) == SumFunctionOnSet(ReservedOn(p, k), n..Len(p))

Jobs ==
    {NoJob} \cup [kind : {"transition"}, order : Docs, to : Statuses]
            \cup [kind : {"edit"}, order : Docs, part : Lines, quantity : Nat]
            \cup [kind : {"receipt"}, order : Docs, key : Keys, quantity : Nat,
                  allocated : BOOLEAN]
            \cup [kind : {"release"}, order : Docs]

OrderTyped ==
    /\ status \in [Docs -> Statuses]
    /\ part \in [Lines -> Nat]
    /\ fresh \in SUBSET Lines
    /\ checked \in SUBSET [part : Lines, quantity : Nat, add : BOOLEAN]
    /\ job \in [Txns -> Jobs]
    /\ used \in [edits : Nat, units : Nat, receipts : Nat]

Working(t) == job[t] # NoJob

\* A transaction has the row of its order, and what it has written in a stock row is what
\* its order holds, and nobody else's.
Apart ==
    /\ \A t \in Txns : Running(t) => Working(t)
    /\ \A t, u \in Txns : Working(t) /\ Working(u) /\ job[t].order = job[u].order => t = u
    /\ \A k \in Keys : lock[k] = NoTxn => live[k] = committed[k]
    /\ \A k \in Keys, t \in Txns : lock[k] = t =>
          /\ Working(t)
          /\ \A d \in Docs \cup {NoDoc} :
                d # job[t].order => live[k].held[d] = committed[k].held[d]

\* Its movements reserve and release for its order only.
OwnMoves == \A t \in Txns : Working(t) => txn[t].program \in Seq(Own(job[t].order))

\* What it still releases its order still holds.
ReleasesCovered ==
    \A t \in Txns, k \in Keys : Working(t) =>
        ToRelease(txn[t].program, txn[t].next, k) <= Visible(t, k).held[job[t].order]

RowOwned(row) ==
    /\ \A d \in Docs \cup {NoDoc} : row.held[d] >= 0
    /\ SumFunction(row.held) = row.reserved
RowsOwned == \A k \in Keys : RowOwned(live[k]) /\ RowOwned(committed[k])

OrderInvariant ==
    LedgerInvariant /\ OrderTyped /\ Apart /\ OwnMoves /\ ReleasesCovered /\ RowsOwned

\* An edit is one of the order of its part; a receipt has not touched the reservation before
\* it shares the goods.
JobsMatch ==
    \A t \in Txns :
        /\ job[t].kind = "edit" => job[t].order = PartOwner[job[t].part]
        /\ job[t].kind = "receipt" /\ ~job[t].allocated =>
              /\ \A k \in Keys : Visible(t, k).held[job[t].order] = Net(job[t].order, k)
              /\ \A i \in 1..Len(txn[t].program) : ReservedDelta(txn[t].program[i]) = 0

\* A part that is still to be added has no quantity, and nobody edits it.
Unborn(l) == l \in fresh \/ \E e \in checked : e.add /\ e.part = l
PartsAreAddedOnce ==
    /\ \A l \in Lines : Unborn(l) =>
          /\ part[l] = 0
          /\ \A e \in checked : e.part = l => e.add
          /\ \A t \in Txns : job[t].kind = "edit" => job[t].part # l
    /\ \A e, g \in checked : e.add /\ g.add /\ e.part = g.part => e = g
    /\ \A e \in checked : e.part \notin fresh

\* What order w may hold on row k when job j ends.
EndGoal(w, j, k) ==
    IF status[w] \in Closed \/ (j.kind = "transition" /\ j.to \in Closed)
    THEN 0
    ELSE Required(w, IF j.kind = "edit" THEN [part EXCEPT ![j.part] = j.quantity] ELSE part, k)

\* With what is left of its list an order does not come to hold more.
EndsWithinNeed ==
    \A t \in Txns, k \in Keys : Working(t) =>
        Visible(t, k).held[job[t].order] + ToReserve(txn[t].program, txn[t].next, k)
            <= EndGoal(job[t].order, job[t], k)

NeedInvariant ==
    OrderInvariant /\ JobsMatch /\ PartsAreAddedOnce /\ EndsWithinNeed /\ HeldWithinNeed

---------------------------------------------
(* Movement lists put together from pieces. *)

\* What holds of no piece, and of one piece more.
Inherited(T, n, f, S) ==
    /\ <<0, <<>>>> \in T
    /\ \A i \in 0..(n - 1), q \in Seq(S) : <<i, q>> \in T => <<i + 1, q \o f[i + 1]>> \in T

\* It holds of all the pieces put together.
LEMMA FlattenInduction ==
    ASSUME NEW S, NEW n \in Nat, NEW f \in [1..n -> Seq(S)], NEW T, Inherited(T, n, f, S)
    PROVE  FlattenSeq(f) \in Seq(S) /\ <<n, FlattenSeq(f)>> \in T
  <1> USE DEF Inherited
  <1>1. f \in Seq(Seq(S)) /\ Len(f) = n
    BY SeqDef
  <1>2. CASE n = 0
    <2>1. f = <<>>
      BY <1>1, <1>2
    <2>2. FlattenSeq(f) = <<>>
      BY <1>1, <1>2, <2>1 DEF FlattenSeq
    <2> QED
      BY <1>2, <2>2
  <1>3. CASE n # 0
    <2> DEFINE g == CHOOSE h : Flattens(f, n, h)
    <2>1. FlattenSeq(f) = g[n]
      BY <1>1, <1>3 DEF FlattenSeq, Flattens
    <2>2. Flattens(f, n, g)
      BY FlattensExists
    <2> HIDE DEF g
    <2>3. \A i \in 1..n : g[i] = IF i = 1 THEN f[i] ELSE g[i - 1] \o f[i]
      BY <2>2 DEF Flattens
    <2> DEFINE G == {k \in Nat : 1 <= k /\ k <= n => g[k] \in Seq(S) /\ <<k, g[k]>> \in T}
    <2>4. 0 \in G
      OBVIOUS
    <2>5. ASSUME NEW k \in G PROVE k + 1 \in G
      <3> SUFFICES ASSUME k + 1 <= n PROVE g[k + 1] \in Seq(S) /\ <<k + 1, g[k + 1]>> \in T
        OBVIOUS
      <3>1. k \in Nat /\ k + 1 \in 1..n /\ k \in 0..(n - 1)
        OBVIOUS
      <3>2. f[k + 1] \in Seq(S)
        BY <3>1
      <3>3. CASE k = 0
        <4>1. g[k + 1] = f[k + 1]
          BY <2>3, <3>1, <3>3
        <4>2. <<>> \o f[k + 1] = f[k + 1] /\ <<>> \in Seq(S)
          BY <3>2
        <4>3. <<k + 1, <<>> \o f[k + 1]>> \in T
          BY <3>1, <3>3, <4>2
        <4> QED
          BY <3>2, <4>1, <4>2, <4>3
      <3>4. CASE k # 0
        <4>1. g[k] \in Seq(S) /\ <<k, g[k]>> \in T
          BY <3>1, <3>4
        <4>2. g[k + 1] = g[k] \o f[k + 1]
          <5>1. k + 1 # 1 /\ (k + 1) - 1 = k
            BY <3>1, <3>4
          <5> QED
            BY <2>3, <3>1, <5>1
        <4>3. <<k + 1, g[k] \o f[k + 1]>> \in T
          BY <3>1, <4>1
        <4>4. g[k] \o f[k + 1] \in Seq(S)
          BY <3>2, <4>1
        <4> QED
          BY <4>2, <4>3, <4>4
      <3> QED
        BY <3>3, <3>4
    <2>6. G = Nat
      <3>1. G \in SUBSET Nat
        OBVIOUS
      <3> HIDE DEF G
      <3> QED
        BY <2>4, <2>5, <3>1, NatSetInduction
    <2> QED
      BY <1>3, <2>1, <2>6
  <1> QED
    BY <1>2, <1>3

---------------------------------------------
(* What a movement list does to the reservation of a row. *)

\* One movement's release and its change of the reservation of k.
ReleaseOf(m, k) == IF m.key = k /\ ReservedDelta(m) < 0 THEN -ReservedDelta(m) ELSE 0
ChangeOf(m, k) == IF m.key = k THEN ReservedDelta(m) ELSE 0

\* They are integers, and no release is negative.
LEMMA ReleasesTyped ==
    ASSUME NEW p \in Seq(Movements), NEW k
    PROVE  /\ Len(p) \in Nat
           /\ \A i \in 1..Len(p) :
                 /\ ReleaseOn(p, k)[i] = ReleaseOf(p[i], k) /\ ReleaseOf(p[i], k) \in Nat
                 /\ ReservedOn(p, k)[i] = ChangeOf(p[i], k) /\ ChangeOf(p[i], k) \in Int
  <1>1. \A i \in 1..Len(p) : p[i] \in Movements
    OBVIOUS
  <1>2. \A i \in 1..Len(p) : ReservedDelta(p[i]) \in Int
    BY <1>1, DeltasTyped
  <1> QED
    BY <1>2 DEF ReleaseOn, ReservedOn, ReleaseOf, ChangeOf

\* What a whole list releases and changes.
Released(p, k) == ToRelease(p, 1, k)
Changed(p, k) == ToReserve(p, 1, k)

\* A list and another one after it.
LEMMA BothTotals ==
    ASSUME NEW p \in Seq(Movements), NEW q \in Seq(Movements), NEW k
    PROVE  /\ Released(p \o q, k) = Released(p, k) + Released(q, k)
           /\ Changed(p \o q, k) = Changed(p, k) + Changed(q, k)
  <1> DEFINE m == Len(p)
             n == Len(q)
             r == p \o q
  <1>1. m \in Nat /\ n \in Nat /\ r \in Seq(Movements) /\ Len(r) = m + n
    OBVIOUS
  <1>2. (\A i \in 1..m : r[i] = p[i]) /\ (\A i \in 1..n : r[m + i] = q[i])
    OBVIOUS
  <1>3. /\ \A i \in 1..m : ReleaseOn(p, k)[i] = ReleaseOf(p[i], k) /\ ReleaseOn(p, k)[i] \in Int
        /\ \A i \in 1..n : ReleaseOn(q, k)[i] = ReleaseOf(q[i], k) /\ ReleaseOn(q, k)[i] \in Int
        /\ \A i \in 1..Len(r) : ReleaseOn(r, k)[i] = ReleaseOf(r[i], k)
    <2>1. \A s \in Seq(Movements) : \A i \in 1..Len(s) :
              /\ ReleaseOn(s, k)[i] = ReleaseOf(s[i], k) /\ ReleaseOf(s[i], k) \in Int
      BY ReleasesTyped
    <2> QED
      BY <1>1, <2>1
  <1>4. /\ \A i \in 1..m : ReservedOn(p, k)[i] = ChangeOf(p[i], k) /\ ReservedOn(p, k)[i] \in Int
        /\ \A i \in 1..n : ReservedOn(q, k)[i] = ChangeOf(q[i], k) /\ ReservedOn(q, k)[i] \in Int
        /\ \A i \in 1..Len(r) : ReservedOn(r, k)[i] = ChangeOf(r[i], k)
    <2>1. \A s \in Seq(Movements) : \A i \in 1..Len(s) :
              /\ ReservedOn(s, k)[i] = ChangeOf(s[i], k) /\ ChangeOf(s[i], k) \in Int
      BY ReleasesTyped
    <2> QED
      BY <1>1, <2>1
  <1> HIDE DEF m, n, r
  <1>5. (\A i \in 1..m : i \in 1..(m + n)) /\ (\A i \in 1..n : m + i \in 1..(m + n))
    BY <1>1
  <1>6. /\ \A i \in 1..m : ReleaseOn(r, k)[i] = ReleaseOn(p, k)[i]
        /\ \A i \in 1..n : ReleaseOn(r, k)[m + i] = ReleaseOn(q, k)[i]
    BY <1>1, <1>2, <1>3, <1>5
  <1>7. /\ \A i \in 1..m : ReservedOn(r, k)[i] = ReservedOn(p, k)[i]
        /\ \A i \in 1..n : ReservedOn(r, k)[m + i] = ReservedOn(q, k)[i]
    BY <1>1, <1>2, <1>4, <1>5
  <1>8. SumFunctionOnSet(ReleaseOn(r, k), 1..(m + n)) =
            SumFunctionOnSet(ReleaseOn(p, k), 1..m) + SumFunctionOnSet(ReleaseOn(q, k), 1..n)
    <2>1. Summable(ReleaseOn(p, k), 1..m) /\ Summable(ReleaseOn(q, k), 1..n)
      BY <1>3 DEF Summable
    <2> DEFINE f == ReleaseOn(p, k)
               e == ReleaseOn(q, k)
               h == ReleaseOn(r, k)
    <2>2. /\ Summable(f, 1..m) /\ Summable(e, 1..n)
          /\ (\A i \in 1..m : h[i] = f[i]) /\ (\A i \in 1..n : h[m + i] = e[i])
      BY <1>6, <2>1
    <2> HIDE DEF f, e, h
    <2>4. Joined(f, m, e, n, h)
      BY <2>2 DEF Joined
    <2>3. SumFunctionOnSet(h, 1..(m + n)) = SumFunctionOnSet(f, 1..m) + SumFunctionOnSet(e, 1..n)
      BY <1>1, <2>4, SumOfBoth
    <2> QED
      BY <2>3 DEF f, e, h
  <1>9. SumFunctionOnSet(ReservedOn(r, k), 1..(m + n)) =
            SumFunctionOnSet(ReservedOn(p, k), 1..m) + SumFunctionOnSet(ReservedOn(q, k), 1..n)
    <2>1. Summable(ReservedOn(p, k), 1..m) /\ Summable(ReservedOn(q, k), 1..n)
      BY <1>4 DEF Summable
    <2> DEFINE f == ReservedOn(p, k)
               e == ReservedOn(q, k)
               h == ReservedOn(r, k)
    <2>2. /\ Summable(f, 1..m) /\ Summable(e, 1..n)
          /\ (\A i \in 1..m : h[i] = f[i]) /\ (\A i \in 1..n : h[m + i] = e[i])
      BY <1>7, <2>1
    <2> HIDE DEF f, e, h
    <2>4. Joined(f, m, e, n, h)
      BY <2>2 DEF Joined
    <2>3. SumFunctionOnSet(h, 1..(m + n)) = SumFunctionOnSet(f, 1..m) + SumFunctionOnSet(e, 1..n)
      BY <1>1, <2>4, SumOfBoth
    <2> QED
      BY <2>3 DEF f, e, h
  <1> QED
    BY <1>1, <1>8, <1>9 DEF Released, Changed, ToRelease, ToReserve, m, n, r

\* The empty list.
LEMMA NoTotals ==
    ASSUME NEW k PROVE Released(<<>>, k) = 0 /\ Changed(<<>>, k) = 0
  <1>1. 1..Len(<<>>) = {}
    OBVIOUS
  <1> QED
    BY <1>1, SumEmpty DEF Released, Changed, ToRelease, ToReserve

\* A list of one movement.
LEMMA OneTotal ==
    ASSUME NEW m \in Movements, NEW k
    PROVE  /\ <<m>> \in Seq(Movements)
           /\ Released(<<m>>, k) = ReleaseOf(m, k) /\ Changed(<<m>>, k) = ChangeOf(m, k)
  <1>1. <<m>> \in Seq(Movements) /\ Len(<<m>>) = 1 /\ <<m>>[1] = m /\ 1..1 = {1}
    OBVIOUS
  <1>2. /\ ReleaseOn(<<m>>, k)[1] = ReleaseOf(m, k) /\ ReleaseOf(m, k) \in Int
        /\ ReservedOn(<<m>>, k)[1] = ChangeOf(m, k) /\ ChangeOf(m, k) \in Int
    <2>1. PICK p : p = <<m>>
      OBVIOUS
    <2>2. p \in Seq(Movements) /\ 1 \in 1..Len(p) /\ p[1] = m
      BY <1>1, <2>1
    <2>3. /\ ReleaseOn(p, k)[1] = ReleaseOf(p[1], k) /\ ReleaseOf(p[1], k) \in Nat
          /\ ReservedOn(p, k)[1] = ChangeOf(p[1], k) /\ ChangeOf(p[1], k) \in Int
      BY <2>2, ReleasesTyped
    <2> QED
      BY <2>1, <2>2, <2>3
  <1>3. SumFunctionOnSet(ReleaseOn(<<m>>, k), {1}) = ReleaseOn(<<m>>, k)[1]
    BY <1>2, SumSingleton
  <1>4. SumFunctionOnSet(ReservedOn(<<m>>, k), {1}) = ReservedOn(<<m>>, k)[1]
    BY <1>2, SumSingleton
  <1> QED
    BY <1>1, <1>2, <1>3, <1>4 DEF Released, Changed, ToRelease, ToReserve

\* Totals are integers; the releases that are left never add up to less than nothing.
LEMMA TotalsTyped ==
    ASSUME NEW p \in Seq(Movements), NEW n \in Nat \ {0}, NEW k
    PROVE  ToRelease(p, n, k) \in Nat /\ ToReserve(p, n, k) \in Int
  <1> DEFINE l == Len(p)
  <1>1. l \in Nat
    OBVIOUS
  <1>2. \A i \in 1..l : ReleaseOn(p, k)[i] \in Nat /\ ReservedOn(p, k)[i] \in Int
    BY ReleasesTyped
  <1> HIDE DEF l
  <1>3. IsFiniteSet(n..l) /\ \A i \in n..l : i \in 1..l
    BY <1>1, FS_Interval
  <1>4. \A i \in n..l : ReleaseOn(p, k)[i] \in Nat /\ ReservedOn(p, k)[i] \in Int
    BY <1>2, <1>3
  <1> QED
    BY <1>3, <1>4, SumNat, SumInt DEF ToRelease, ToReserve, l

\* One movement after the other.
LEMMA TotalsStep ==
    ASSUME NEW p \in Seq(Movements), NEW n \in 1..Len(p), NEW k
    PROVE  /\ ToRelease(p, n, k) = ReleaseOf(p[n], k) + ToRelease(p, n + 1, k)
           /\ ToReserve(p, n, k) = ChangeOf(p[n], k) + ToReserve(p, n + 1, k)
  <1> DEFINE l == Len(p)
  <1>1. l \in Nat /\ n \in 1..l
    OBVIOUS
  <1>2. \A i \in 1..l : /\ ReleaseOn(p, k)[i] = ReleaseOf(p[i], k) /\ ReleaseOn(p, k)[i] \in Int
                        /\ ReservedOn(p, k)[i] = ChangeOf(p[i], k) /\ ReservedOn(p, k)[i] \in Int
    BY ReleasesTyped
  <1> HIDE DEF l
  <1>3. /\ IsFiniteSet(n..l) /\ n \in n..l /\ (n..l) \ {n} = (n + 1)..l
        /\ \A i \in n..l : i \in 1..l
    <2>1. n \in Int /\ l \in Int
      BY <1>1
    <2>2. IsFiniteSet(n..l)
      BY <2>1, FS_Interval
    <2>3. n \in n..l /\ (n..l) \ {n} = (n + 1)..l
      BY <1>1
    <2>4. \A i \in n..l : i \in 1..l
      BY <1>1
    <2> QED
      BY <2>2, <2>3, <2>4
  <1>4. \A i \in n..l : ReleaseOn(p, k)[i] \in Int /\ ReservedOn(p, k)[i] \in Int
    BY <1>2, <1>3
  <1> DEFINE f == ReleaseOn(p, k)
             e == ReservedOn(p, k)
             X == n..l
  <1>5. /\ IsFiniteSet(X) /\ n \in X /\ \A i \in X : f[i] \in Int /\ e[i] \in Int
    BY <1>3, <1>4
  <1> HIDE DEF f, e, X
  <1>6. SumFunctionOnSet(f, X) = f[n] + SumFunctionOnSet(f, X \ {n})
    BY <1>5, SumRemove
  <1>7. SumFunctionOnSet(e, X) = e[n] + SumFunctionOnSet(e, X \ {n})
    BY <1>5, SumRemove
  <1> QED
    BY <1>1, <1>2, <1>3, <1>6, <1>7 DEF ToRelease, ToReserve, f, e, X, l

\* Nothing is left of a list that is done.
LEMMA NothingLeft ==
    ASSUME NEW p \in Seq(Movements), NEW n \in Nat, n > Len(p), NEW k
    PROVE  ToRelease(p, n, k) = 0 /\ ToReserve(p, n, k) = 0
  <1> DEFINE l == Len(p)
  <1>1. l \in Nat /\ n > l
    OBVIOUS
  <1> HIDE DEF l
  <1>2. n..l = {}
    BY <1>1
  <1> QED
    BY <1>2, SumEmpty DEF ToRelease, ToReserve, l

---------------------------------------------
(* The movement lists of a work order. *)

\* They are movements, and so are lists of them.
LEMMA OwnMovements ==
    ASSUME NEW w PROVE Own(w) \in SUBSET Movements /\ Seq(Own(w)) \subseteq Seq(Movements)
  <1>1. Own(w) \in SUBSET Movements
    BY DEF Own
  <1>2. ASSUME NEW s \in Seq(Own(w)) PROVE s \in Seq(Movements)
    <2>1. Len(s) \in Nat /\ s \in [1..Len(s) -> Own(w)]
      OBVIOUS
    <2>2. s \in [1..Len(s) -> Movements]
      BY <1>1, <2>1
    <2> QED
      BY <2>1, <2>2, SeqDef
  <1> QED
    BY <1>1, <1>2

\* A reservation or a release of w, and what it does.
LEMMA ReservationOwn ==
    ASSUME NEW type \in {"RESERVATION", "RESERVATION_RELEASE"}, NEW x \in Keys, NEW q \in Int,
           NEW w \in Docs
    PROVE  LET m == Movement(type, x, q, w, NoLine)
           IN  /\ <<m>> \in Seq(Own(w))
               /\ \A k \in Keys :
                     /\ Changed(<<m>>, k) = IF x = k THEN q ELSE 0
                     /\ Released(<<m>>, k) = IF x = k /\ q < 0 THEN -q ELSE 0
  <1> DEFINE m == Movement(type, x, q, w, NoLine)
  <1>1. /\ m \in Movements /\ m.key = x /\ m.doc = w /\ m.type = type /\ m.quantity = q
    BY DEF Movement, Movements, MovementTypes, InflowOnly
  <1>2. ReservedDelta(m) = q
    BY <1>1 DEF ReservedDelta
  <1>3. m \in Own(w)
    BY <1>1 DEF Own
  <1>4. \A k \in Keys : /\ ChangeOf(m, k) = (IF x = k THEN q ELSE 0)
                        /\ ReleaseOf(m, k) = (IF x = k /\ q < 0 THEN -q ELSE 0)
    BY <1>1, <1>2 DEF ChangeOf, ReleaseOf
  <1> HIDE DEF m
  <1>5. \A k \in Keys : Released(<<m>>, k) = ReleaseOf(m, k) /\ Changed(<<m>>, k) = ChangeOf(m, k)
    BY <1>1, OneTotal
  <1>6. <<m>> \in Seq(Own(w))
    BY <1>3
  <1> QED
    BY <1>4, <1>5, <1>6 DEF m

\* A movement on every key of a positive amount.
LEMMA KeyedTotals ==
    ASSUME NEW type \in {"RESERVATION", "RESERVATION_RELEASE"}, NEW sign \in {1, -1},
           NEW w \in Docs, NEW amount \in [Keys -> Int]
    PROVE  LET p == InKeyOrder(type, w, amount, sign)
           IN  /\ p \in Seq(Own(w))
               /\ \A k \in Keys :
                     /\ Changed(p, k) = sign * Larger(0, amount[k])
                     /\ Released(p, k) = IF sign = 1 THEN 0 ELSE Larger(0, amount[k])
  <1> USE WorkOrderStockAssumption
  <1> DEFINE n == Len(KeyOrder)
             x(i) == KeyOrder[i]
             piece(i) == IF amount[x(i)] > 0
                         THEN <<Movement(type, x(i), sign * amount[x(i)], w, NoLine)>>
                         ELSE <<>>
             f == [i \in 1..n |-> piece(i)]
             change(k) == sign * Larger(0, amount[k])
             release(k) == IF sign = 1 THEN 0 ELSE Larger(0, amount[k])
             S == Own(w)
             T == {z \in (0..n) \X Seq(S) : \A k \in Keys :
                      LET met == \E j \in 1..z[1] : x(j) = k
                      IN  /\ Changed(z[2], k) = (IF met THEN change(k) ELSE 0)
                          /\ Released(z[2], k) = (IF met THEN release(k) ELSE 0)}
  <1>1. n \in Nat /\ \A i \in 1..n : x(i) \in Keys /\ amount[x(i)] \in Int
    OBVIOUS
  <1>2. \A k \in Keys : /\ change(k) \in Int /\ release(k) \in Int /\ sign * amount[k] \in Int
                        /\ amount[k] > 0 => /\ sign * amount[k] = change(k)
                                            /\ release(k) = (IF change(k) < 0 THEN -change(k)
                                                                            ELSE 0)
                        /\ ~(amount[k] > 0) => change(k) = 0 /\ release(k) = 0
    BY DEF Larger
  <1>3. ASSUME NEW i \in 1..n
        PROVE  /\ f[i] \in Seq(S)
               /\ \A k \in Keys : /\ Changed(f[i], k) = (IF x(i) = k THEN change(k) ELSE 0)
                                  /\ Released(f[i], k) = (IF x(i) = k THEN release(k) ELSE 0)
    <2> DEFINE y == x(i)
               q == sign * amount[y]
    <2>1. y \in Keys /\ q \in Int
      BY <1>1, <1>2
    <2>2. CASE amount[y] > 0
      <3>1. f[i] = <<Movement(type, y, q, w, NoLine)>>
        BY <2>2
      <3>2. q = change(y) /\ release(y) = IF q < 0 THEN -q ELSE 0
        BY <1>2, <2>1, <2>2
      <3> HIDE DEF y, q, change, release
      <3>3. /\ <<Movement(type, y, q, w, NoLine)>> \in Seq(Own(w))
            /\ \A k \in Keys :
                  /\ Changed(<<Movement(type, y, q, w, NoLine)>>, k) = IF y = k THEN q ELSE 0
                  /\ Released(<<Movement(type, y, q, w, NoLine)>>, k) =
                        IF y = k /\ q < 0 THEN -q ELSE 0
        BY <2>1, ReservationOwn
      <3>4. \A k \in Keys : /\ Changed(f[i], k) = (IF y = k THEN change(k) ELSE 0)
                            /\ Released(f[i], k) = (IF y = k THEN release(k) ELSE 0)
        BY <3>1, <3>2, <3>3
      <3> QED
        BY <3>1, <3>3, <3>4 DEF y
    <2>3. CASE ~(amount[y] > 0)
      <3>1. f[i] = <<>> /\ change(y) = 0 /\ release(y) = 0
        BY <1>2, <2>1, <2>3
      <3>2. \A k : Changed(<<>>, k) = 0 /\ Released(<<>>, k) = 0
        BY NoTotals
      <3> HIDE DEF change, release, f
      <3> QED
        BY <3>1, <3>2
    <2> QED
      BY <2>2, <2>3
  <1>4. f \in [1..n -> Seq(S)]
    BY <1>3
  <1>5. Inherited(T, n, f, S)
    <2>1. <<0, <<>>>> \in T
      <3>1. <<0, <<>>>> \in (0..n) \X Seq(S)
        <4>1. 0 \in 0..n
          BY <1>1
        <4>2. <<>> \in Seq(S)
          OBVIOUS
        <4> HIDE DEF S, n
        <4> QED
          BY <4>1, <4>2
      <3>2. ASSUME NEW k \in Keys
            PROVE  ~(\E j \in 1..0 : x(j) = k) /\ Changed(<<>>, k) = 0 /\ Released(<<>>, k) = 0
        BY NoTotals
      <3> HIDE DEF change, release, x
      <3> QED
        BY <3>1, <3>2
    <2>2. ASSUME NEW i \in 0..(n - 1), NEW q \in Seq(S), <<i, q>> \in T
          PROVE  <<i + 1, q \o f[i + 1]>> \in T
      <3>1. i + 1 \in 1..n /\ i + 1 \in 0..n /\ i \in Nat
        BY <1>1
      <3>2. f[i + 1] \in Seq(S) /\ q \o f[i + 1] \in Seq(S)
        <4>1. f[i + 1] \in Seq(S)
          BY <1>3, <3>1
        <4> HIDE DEF S, f
        <4> QED
          BY <4>1
      <3>3. <<i + 1, q \o f[i + 1]>> \in (0..n) \X Seq(S)
        BY <3>1, <3>2
      <3>4. ASSUME NEW k \in Keys
            PROVE  LET met == \E j \in 1..(i + 1) : x(j) = k
                   IN  /\ Changed(q \o f[i + 1], k) = (IF met THEN change(k) ELSE 0)
                       /\ Released(q \o f[i + 1], k) = (IF met THEN release(k) ELSE 0)
        <4> DEFINE before == \E j \in 1..i : x(j) = k
                   now == x(i + 1) = k
        <4>1. /\ Changed(q, k) = (IF before THEN change(k) ELSE 0)
              /\ Released(q, k) = (IF before THEN release(k) ELSE 0)
          BY <2>2
        <4>2. /\ Changed(f[i + 1], k) = (IF now THEN change(k) ELSE 0)
              /\ Released(f[i + 1], k) = (IF now THEN release(k) ELSE 0)
          BY <1>3, <3>1
        <4>3. /\ Changed(q \o f[i + 1], k) = Changed(q, k) + Changed(f[i + 1], k)
              /\ Released(q \o f[i + 1], k) = Released(q, k) + Released(f[i + 1], k)
          <5>1. q \in Seq(Movements) /\ f[i + 1] \in Seq(Movements)
            BY <3>2, OwnMovements
          <5> HIDE DEF f
          <5> QED
            BY <5>1, BothTotals
        <4>4. ~(before /\ now)
          <5>1. \A j \in 1..i : j \in 1..n /\ j # i + 1
            BY <1>1, <3>1
          <5>2. \A a, b \in DOMAIN KeyOrder : KeyOrder[a] = KeyOrder[b] => a = b
            BY DEF IsInjective
          <5>3. DOMAIN KeyOrder = 1..n
            OBVIOUS
          <5> HIDE DEF n
          <5> QED
            BY <3>1, <5>1, <5>2, <5>3
        <4>5. (\E j \in 1..(i + 1) : x(j) = k) <=> (before \/ now)
          <5>1. 1..(i + 1) = (1..i) \cup {i + 1}
            BY <3>1
          <5> HIDE DEF x
          <5> QED
            BY <5>1
        <4>6. change(k) \in Int /\ release(k) \in Int
          BY <1>2
        <4> HIDE DEF change, release, before, now, f
        <4> QED
          BY <4>1, <4>2, <4>3, <4>4, <4>5, <4>6
      <3> HIDE DEF change, release, x, f
      <3> QED
        BY <3>3, <3>4
    <2> QED
      BY <2>1, <2>2 DEF Inherited
  <1>6. FlattenSeq(f) = InKeyOrder(type, w, amount, sign)
    BY DEF InKeyOrder
  <1>7. \A k \in Keys : \E j \in 1..n : x(j) = k
    <2>1. DOMAIN KeyOrder = 1..n
      OBVIOUS
    <2> QED
      BY <2>1 DEF Range
  <1> HIDE DEF T, f, n
  <1>8. FlattenSeq(f) \in Seq(S) /\ <<n, FlattenSeq(f)>> \in T
    BY <1>1, <1>4, <1>5, FlattenInduction
  <1>9. \A k \in Keys : /\ Changed(FlattenSeq(f), k) = change(k)
                        /\ Released(FlattenSeq(f), k) = release(k)
    <2> HIDE DEF change, release, x
    <2> QED
      BY <1>7, <1>8 DEF T
  <1> QED
    BY <1>6, <1>8, <1>9

\* The lines of w on row k; what they need in all.
LinesOn(w, k) == {l \in Lines : PartOwner[l] = w /\ PartKey[l] = k}

\* The need is a sum over them.
LEMMA NeedIsSum ==
    ASSUME NEW w, NEW k, NEW quantity \in [Lines -> Nat]
    PROVE  /\ IsFiniteSet(LinesOn(w, k)) /\ LinesOn(w, k) \in SUBSET Lines
           /\ Required(w, quantity, k) = SumFunctionOnSet(quantity, LinesOn(w, k))
           /\ Required(w, quantity, k) \in Nat
  <1> DEFINE X == LinesOn(w, k)
             f == [l \in X |-> quantity[l]]
  <1>1. IsFiniteSet(X) /\ X \in SUBSET Lines
    BY StockLedgerAssumption, FS_Subset DEF LinesOn
  <1>2. f \in [X -> Int] /\ \A l \in X : f[l] = quantity[l] /\ quantity[l] \in Nat
    BY <1>1
  <1>3. Required(w, quantity, k) = SumFunction(f)
    BY DEF Required, SumOf, LinesOn
  <1> HIDE DEF X, f
  <1>4. SumFunction(f) = SumFunctionOnSet(f, X)
    BY <1>1, <1>2, FunctionSum
  <1>5. SumFunctionOnSet(f, X) = SumFunctionOnSet(quantity, X)
    BY <1>1, <1>2, SumAgree
  <1>6. SumFunctionOnSet(quantity, X) \in Nat
    BY <1>1, <1>2, SumNat
  <1> QED
    BY <1>1, <1>3, <1>4, <1>5, <1>6 DEF X

\* What is needed depends on the lines of the order only.
LEMMA NeedAgrees ==
    ASSUME NEW w, NEW k, NEW q \in [Lines -> Nat], NEW r \in [Lines -> Nat],
           \A l \in Lines : PartOwner[l] = w => q[l] = r[l]
    PROVE  Required(w, q, k) = Required(w, r, k)
  <1>1. \A l \in LinesOn(w, k) : q[l] = r[l]
    BY DEF LinesOn
  <1>2. IsFiniteSet(LinesOn(w, k))
    BY NeedIsSum
  <1>3. SumFunctionOnSet(q, LinesOn(w, k)) = SumFunctionOnSet(r, LinesOn(w, k))
    BY <1>1, <1>2, SumAgree
  <1> QED
    BY <1>3, NeedIsSum

\* And grows with them.
LEMMA NeedGrows ==
    ASSUME NEW w, NEW k, NEW q \in [Lines -> Nat], NEW r \in [Lines -> Nat],
           \A l \in Lines : q[l] <= r[l]
    PROVE  Required(w, q, k) <= Required(w, r, k)
  <1>1. IsFiniteSet(LinesOn(w, k)) /\ LinesOn(w, k) \in SUBSET Lines
    BY NeedIsSum
  <1>2. \A l \in LinesOn(w, k) : q[l] \in Int /\ r[l] \in Int /\ q[l] <= r[l]
    BY <1>1
  <1>3. SumFunctionOnSet(q, LinesOn(w, k)) <= SumFunctionOnSet(r, LinesOn(w, k))
    BY <1>1, <1>2, SumMonotone
  <1> QED
    BY <1>3, NeedIsSum

\* The committed numbers of the rows.
LEMMA RowNumbers ==
    ASSUME TypeOK, NEW k \in Keys
    PROVE  /\ committed[k].quantity \in Int /\ committed[k].reserved \in Int
           /\ \A d \in Docs \cup {NoDoc} : committed[k].held[d] \in Int
           /\ \A w \in Docs : Net(w, k) \in Int
           /\ Free(committed[k]) \in Nat
           /\ live[k].quantity \in Int /\ live[k].reserved \in Int
           /\ \A d \in Docs \cup {NoDoc} : live[k].held[d] \in Int
           /\ Free(live[k]) \in Nat
  <1>1. committed[k] \in Rows /\ live[k] \in Rows
    BY DEF TypeOK
  <1> DEFINE r == committed[k]
             v == live[k]
  <1>2. r \in Rows /\ v \in Rows
    BY <1>1
  <1> HIDE DEF r, v
  <1>3. /\ r.quantity \in Int /\ r.reserved \in Int /\ r.held \in [Docs \cup {NoDoc} -> Int]
        /\ v.quantity \in Int /\ v.reserved \in Int /\ v.held \in [Docs \cup {NoDoc} -> Int]
    BY <1>2 DEF Rows
  <1>4. Free(r) \in Nat /\ Free(v) \in Nat
    BY <1>3 DEF Free, Larger
  <1>5. /\ \A d \in Docs \cup {NoDoc} : r.held[d] \in Int
        /\ \A d \in Docs \cup {NoDoc} : v.held[d] \in Int
    BY <1>3
  <1> QED
    BY <1>3, <1>4, <1>5 DEF Net, r, v

\* releaseExcess: what the order holds above what it keeps, as far as it is reserved.
LEMMA ReleaseTotals ==
    ASSUME TypeOK, NEW w \in Docs, NEW keep \in [Keys -> Int]
    PROVE  LET p == ReleaseProgram(w, keep)
           IN  /\ p \in Seq(Own(w))
               /\ \A k \in Keys :
                     LET n == Larger(0, Smaller(Net(w, k) - keep[k], committed[k].reserved))
                     IN  Changed(p, k) = -n /\ Released(p, k) = n
  <1> DEFINE amount == [k \in Keys |-> Smaller(Net(w, k) - keep[k], committed[k].reserved)]
  <1>1. \A k \in Keys : amount[k] \in Int
    <2> SUFFICES ASSUME NEW k \in Keys
                 PROVE  Smaller(Net(w, k) - keep[k], committed[k].reserved) \in Int
      OBVIOUS
    <2>1. Net(w, k) \in Int /\ keep[k] \in Int /\ committed[k].reserved \in Int
      BY RowNumbers
    <2> QED
      BY <2>1 DEF Smaller
  <1>2. PICK a : a = amount
    OBVIOUS
  <1>3. a \in [Keys -> Int]
    BY <1>1, <1>2
  <1>4. PICK type \in {"RESERVATION", "RESERVATION_RELEASE"} : type = "RESERVATION_RELEASE"
    OBVIOUS
  <1>5. PICK sign \in {1, -1} : sign = -1
    OBVIOUS
  <1>6. LET p == InKeyOrder(type, w, a, sign)
        IN  /\ p \in Seq(Own(w))
            /\ \A k \in Keys : /\ Changed(p, k) = sign * Larger(0, a[k])
                               /\ Released(p, k) = IF sign = 1 THEN 0 ELSE Larger(0, a[k])
    BY <1>3, KeyedTotals
  <1>7. InKeyOrder(type, w, a, sign) = ReleaseProgram(w, keep)
    BY <1>2, <1>4, <1>5 DEF ReleaseProgram
  <1>8. \A k \in Keys : /\ a[k] = Smaller(Net(w, k) - keep[k], committed[k].reserved)
                        /\ sign * Larger(0, a[k]) = -Larger(0, a[k])
                        /\ (IF sign = 1 THEN 0 ELSE Larger(0, a[k])) = Larger(0, a[k])
    <2>1. \A k \in Keys : a[k] = Smaller(Net(w, k) - keep[k], committed[k].reserved)
      BY <1>2
    <2>2. \A k \in Keys : Larger(0, a[k]) \in Int
      BY <1>3 DEF Larger
    <2> QED
      BY <1>5, <2>1, <2>2
  <1> QED
    BY <1>6, <1>7, <1>8

\* reserveParts: what is missing, as far as there are free goods.
LEMMA ReserveTotals ==
    ASSUME TypeOK, NEW w \in Docs, part \in [Lines -> Nat]
    PROVE  LET p == ReserveProgram(w)
           IN  /\ p \in Seq(Own(w))
               /\ \A k \in Keys :
                     /\ Changed(p, k) = Larger(0, Smaller(Required(w, part, k) - Larger(0, Net(w, k)),
                                                          Free(committed[k])))
                     /\ Released(p, k) = 0
  <1> DEFINE n(k) == Smaller(Required(w, part, k) - Larger(0, Net(w, k)), Free(committed[k]))
             amount == [k \in Keys |-> n(k)]
  <1>1. \A k \in Keys : n(k) \in Int
    <2> SUFFICES ASSUME NEW k \in Keys PROVE n(k) \in Int
      OBVIOUS
    <2>1. Net(w, k) \in Int /\ Required(w, part, k) \in Nat /\ Free(committed[k]) \in Nat
      BY RowNumbers, NeedIsSum
    <2> QED
      BY <2>1 DEF Smaller, Larger
  <1>2. PICK a : a = amount
    OBVIOUS
  <1>3. a \in [Keys -> Int]
    BY <1>1, <1>2
  <1>4. PICK type \in {"RESERVATION", "RESERVATION_RELEASE"} : type = "RESERVATION"
    OBVIOUS
  <1>5. PICK sign \in {1, -1} : sign = 1
    OBVIOUS
  <1>6. LET p == InKeyOrder(type, w, a, sign)
        IN  /\ p \in Seq(Own(w))
            /\ \A k \in Keys : /\ Changed(p, k) = sign * Larger(0, a[k])
                               /\ Released(p, k) = IF sign = 1 THEN 0 ELSE Larger(0, a[k])
    BY <1>3, KeyedTotals
  <1>7. InKeyOrder(type, w, a, sign) = ReserveProgram(w)
    BY <1>2, <1>4, <1>5 DEF ReserveProgram
  <1>8. \A k \in Keys : /\ a[k] = n(k)
                        /\ sign * Larger(0, a[k]) = Larger(0, a[k])
                        /\ (IF sign = 1 THEN 0 ELSE Larger(0, a[k])) = 0
    <2>1. \A k \in Keys : a[k] = n(k)
      BY <1>2
    <2>2. \A k \in Keys : Larger(0, a[k]) \in Int
      BY <1>3 DEF Larger
    <2> HIDE DEF n
    <2> QED
      BY <1>5, <2>1, <2>2
  <1> QED
    BY <1>6, <1>7, <1>8

---------------------------------------------
(* Completion: release and write-off part by part. *)

\* The parts of the listing on row k up to the i-th, and what they need.
UpTo(s, i, k) == {j \in 1..i : PartKey[s[j]] = k}
ListedQuantity(s) == [j \in 1..Len(s) |-> part[s[j]]]
Asked(s, i, k) == SumFunctionOnSet(ListedQuantity(s), UpTo(s, i, k))

\* A listing names each part of the order once.
LEMMA ListingTyped ==
    ASSUME NEW w \in Docs, part \in [Lines -> Nat], NEW s \in Listings(w)
    PROVE  /\ Len(s) \in Nat /\ DOMAIN s = 1..Len(s)
           /\ \A i \in 1..Len(s) : s[i] \in Lines /\ PartOwner[s[i]] = w /\ part[s[i]] \in Nat
                                   /\ PartKey[s[i]] \in Keys
           /\ \A i, j \in 1..Len(s) : s[i] = s[j] => i = j
           /\ \A l \in Lines : PartOwner[l] = w /\ part[l] > 0 => \E i \in 1..Len(s) : s[i] = l
  <1> DEFINE P == PartsOf(w)
             n == Cardinality(P)
  <1>1. P \in SUBSET Lines /\ IsFiniteSet(P)
    BY StockLedgerAssumption, FS_Subset DEF PartsOf
  <1>2. n \in Nat
    BY <1>1, FS_CardinalityType
  <1>3. s \in [1..n -> P] /\ \A i, j \in DOMAIN s : s[i] = s[j] => i = j
    BY DEF Listings
  <1>4. \A l \in P : l \in Lines /\ PartOwner[l] = w
    BY DEF PartsOf
  <1>5. \A l \in Lines : PartOwner[l] = w /\ part[l] > 0 => l \in P
    BY DEF PartsOf
  <1> HIDE DEF P
  <1>6. IsFiniteSet(1..n) /\ Cardinality(1..n) = n
    <2>1. n \in Int /\ 1 \in Int /\ (IF 1 > n THEN 0 ELSE n - 1 + 1) = n
      BY <1>2
    <2> HIDE DEF n
    <2> QED
      BY <2>1, FS_Interval
  <1>7. s \in Injection(1..n, P)
    <2>1. DOMAIN s = 1..n
      BY <1>3
    <2> HIDE DEF n
    <2> QED
      BY <1>3, <2>1 DEF Injection, IsInjective
  <1>8. s \in Surjection(1..n, P)
    <2> DEFINE X == 1..n
    <2>1. s \in Injection(X, P) /\ IsFiniteSet(P) /\ Cardinality(X) = Cardinality(P)
      BY <1>1, <1>6, <1>7
    <2> HIDE DEF X
    <2>2. s \in Surjection(X, P)
      BY <2>1, FS_Injection
    <2> QED
      BY <2>2 DEF X
  <1>9. \A l \in P : \E i \in 1..n : s[i] = l
    BY <1>8 DEF Surjection
  <1>10. Len(s) = n /\ DOMAIN s = 1..n
    BY <1>2, <1>3
  <1> HIDE DEF n
  <1>11. \A i \in 1..n : s[i] \in P
    BY <1>3
  <1>12. \A l \in Lines : PartKey[l] \in Keys /\ part[l] \in Nat
    BY WorkOrderStockAssumption
  <1>13. \A i \in 1..n : s[i] \in Lines /\ PartOwner[s[i]] = w
    BY <1>4, <1>11
  <1>14. \A i \in 1..n : PartKey[s[i]] \in Keys /\ part[s[i]] \in Nat
    BY <1>12, <1>13
  <1> QED
    BY <1>2, <1>3, <1>5, <1>9, <1>10, <1>13, <1>14

\* What they need, one part after the other.
LEMMA AskedStep ==
    ASSUME NEW w \in Docs, part \in [Lines -> Nat], NEW s \in Listings(w), NEW k,
           NEW i \in Nat, i + 1 <= Len(s)
    PROVE  /\ Asked(s, i, k) \in Nat
           /\ Asked(s, i + 1, k) =
                 Asked(s, i, k) + (IF PartKey[s[i + 1]] = k THEN part[s[i + 1]] ELSE 0)
  <1> DEFINE n == Len(s)
             q == ListedQuantity(s)
             X == UpTo(s, i, k)
  <1>1. n \in Nat /\ i + 1 <= n
    BY ListingTyped
  <1>2. \A j \in 1..n : q[j] = part[s[j]] /\ q[j] \in Nat
    BY ListingTyped DEF ListedQuantity
  <1> HIDE DEF n, q
  <1>3. i + 1 \in 1..n /\ (\A j \in 1..i : j \in 1..n) /\ i + 1 \notin 1..i
    BY <1>1
  <1>4. IsFiniteSet(X) /\ i + 1 \notin X /\ \A j \in X : q[j] \in Nat
    <2>1. IsFiniteSet(1..i) /\ X \in SUBSET (1..i)
      BY FS_Interval DEF UpTo
    <2>2. IsFiniteSet(X)
      BY <2>1, FS_Subset
    <2> QED
      BY <1>2, <1>3, <2>1, <2>2
  <1>5. UpTo(s, i + 1, k) = IF PartKey[s[i + 1]] = k THEN X \cup {i + 1} ELSE X
    <2>1. 1..(i + 1) = (1..i) \cup {i + 1}
      OBVIOUS
    <2> QED
      BY <2>1 DEF UpTo
  <1>6. Asked(s, i, k) = SumFunctionOnSet(q, X)
    BY DEF Asked, q
  <1> DEFINE z == i + 1
  <1>7. Asked(s, z, k) = SumFunctionOnSet(q, UpTo(s, z, k)) /\ z \notin X /\ z \in 1..n
        /\ q[z] = part[s[z]] /\ q[z] \in Nat
    BY <1>2, <1>3, <1>4 DEF Asked, q
  <1>8. UpTo(s, z, k) = IF PartKey[s[z]] = k THEN X \cup {z} ELSE X
    BY <1>5
  <1> HIDE DEF X, z
  <1>9. SumFunctionOnSet(q, X) \in Nat
    BY <1>4, SumNat
  <1>10. SumFunctionOnSet(q, X \cup {z}) = SumFunctionOnSet(q, X) + q[z]
    <2>1. Summable(q, X \cup {z})
      BY <1>4, <1>7 DEF Summable
    <2>2. PICK f, A, y : f = q /\ A = X /\ y = z
      OBVIOUS
    <2>3. IsFiniteSet(A) /\ y \notin A /\ Summable(f, A \cup {y})
      BY <1>4, <1>7, <2>1, <2>2
    <2>4. SumFunctionOnSet(f, A \cup {y}) = SumFunctionOnSet(f, A) + f[y]
      BY <2>3, SumExtends
    <2> QED
      BY <2>2, <2>4
  <1> QED
    BY <1>6, <1>7, <1>8, <1>9, <1>10 DEF z

\* All of them need what the order needs.
LEMMA AskedAll ==
    ASSUME NEW w \in Docs, part \in [Lines -> Nat], NEW s \in Listings(w), NEW k
    PROVE  Asked(s, 0, k) = 0 /\ Asked(s, Len(s), k) = Required(w, part, k)
  <1> DEFINE n == Len(s)
             Met(i) == {s[j] : j \in UpTo(s, i, k)}
             T == {i \in Nat : i <= n => Asked(s, i, k) = SumFunctionOnSet(part, Met(i))}
  <1>1. /\ n \in Nat /\ \A i \in 1..n : s[i] \in Lines /\ PartOwner[s[i]] = w
        /\ \A i, j \in 1..n : s[i] = s[j] => i = j
        /\ \A l \in Lines : PartOwner[l] = w /\ part[l] > 0 => \E i \in 1..n : s[i] = l
    BY ListingTyped
  <1> HIDE DEF n
  <1>2. UpTo(s, 0, k) = {} /\ Met(0) = {}
    <2>1. 1..0 = {}
      OBVIOUS
    <2> QED
      BY <2>1 DEF UpTo
  <1>3. Asked(s, 0, k) = 0
    BY <1>2, SumEmpty DEF Asked
  <1>4. SumFunctionOnSet(part, Met(0)) = 0
    BY <1>2, SumEmpty
  <1>5. 0 \in T
    <2> HIDE DEF Met
    <2> QED
      BY <1>3, <1>4
  <1>6. ASSUME NEW i \in T PROVE i + 1 \in T
    <2> SUFFICES ASSUME i + 1 <= n PROVE Asked(s, i + 1, k) = SumFunctionOnSet(part, Met(i + 1))
      OBVIOUS
    <2> DEFINE z == i + 1
               M == Met(i)
    <2>1. i \in Nat /\ i <= n /\ z \in 1..n /\ z \notin 1..i /\ (\A j \in 1..i : j \in 1..n)
          /\ 1..z = (1..i) \cup {z}
      BY <1>1
    <2>2. Asked(s, i, k) = SumFunctionOnSet(part, M)
      BY <2>1
    <2>3. /\ Asked(s, i, k) \in Nat
          /\ Asked(s, i + 1, k) = Asked(s, i, k) + (IF PartKey[s[i + 1]] = k THEN part[s[i + 1]] ELSE 0)
      BY <2>1, AskedStep DEF n
    <2>4. M \in SUBSET Lines /\ s[z] \notin M /\ s[z] \in Lines
      BY <1>1, <2>1 DEF UpTo
    <2>5. Met(z) = IF PartKey[s[z]] = k THEN M \cup {s[z]} ELSE M
      BY <2>1 DEF UpTo
    <2> HIDE DEF M, Met
    <2>6. IsFiniteSet(M)
      BY <2>4, StockLedgerAssumption, FS_Subset
    <2>7. Summable(part, M \cup {s[z]})
      BY <2>4 DEF Summable
    <2> DEFINE y == s[z]
    <2>8. IsFiniteSet(M) /\ y \notin M /\ Summable(part, M \cup {y})
      BY <2>4, <2>6, <2>7
    <2> HIDE DEF y
    <2>9. SumFunctionOnSet(part, M \cup {y}) = SumFunctionOnSet(part, M) + part[y]
      <3>1. PICK f, A, x : f = part /\ A = M /\ x = y
        OBVIOUS
      <3>2. IsFiniteSet(A) /\ x \notin A /\ Summable(f, A \cup {x})
        BY <2>8, <3>1
      <3> HIDE DEF T, z
      <3>3. SumFunctionOnSet(f, A \cup {x}) = SumFunctionOnSet(f, A) + f[x]
        BY <3>2, SumExtends
      <3> QED
        BY <3>1, <3>3
    <2> QED
      BY <2>2, <2>3, <2>5, <2>9 DEF y
  <1>7. T = Nat
    <2>1. T \in SUBSET Nat
      OBVIOUS
    <2> HIDE DEF T
    <2> QED
      BY <1>5, <1>6, <2>1, NatSetInduction
  <1>8. Asked(s, n, k) = SumFunctionOnSet(part, Met(n))
    <2>1. n \in T
      BY <1>1, <1>7
    <2> QED
      BY <1>1, <2>1
  <1>9. /\ Met(n) \in SUBSET LinesOn(w, k)
        /\ \A l \in LinesOn(w, k) \ Met(n) : part[l] = 0
    <2>1. Met(n) \in SUBSET LinesOn(w, k)
      BY <1>1 DEF UpTo, LinesOn
    <2>2. ASSUME NEW l \in LinesOn(w, k), part[l] # 0 PROVE l \in Met(n)
      <3>1. l \in Lines /\ PartOwner[l] = w /\ PartKey[l] = k
        BY DEF LinesOn
      <3>2. part[l] \in Nat
        BY <3>1
      <3>3. part[l] > 0
        BY <2>2, <3>2
      <3>4. PICK i \in 1..n : s[i] = l
        BY <1>1, <3>1, <3>3
      <3>5. i \in UpTo(s, n, k)
        BY <3>1, <3>4 DEF UpTo
      <3> QED
        BY <3>4, <3>5
    <2> QED
      BY <2>1, <2>2
  <1> HIDE DEF Met
  <1>10. /\ IsFiniteSet(LinesOn(w, k)) /\ \A l \in LinesOn(w, k) : part[l] \in Int
         /\ Required(w, part, k) = SumFunctionOnSet(part, LinesOn(w, k))
    <2>1. LinesOn(w, k) \in SUBSET Lines
      BY NeedIsSum
    <2> QED
      BY <2>1, NeedIsSum
  <1>11. SumFunctionOnSet(part, Met(n)) = SumFunctionOnSet(part, LinesOn(w, k))
    BY <1>9, <1>10, SumZerosElsewhere
  <1> QED
    BY <1>3, <1>8, <1>10, <1>11 DEF n

\* The release of the i-th part: its share of what is left of the reservation.
LEMMA OwnReleaseIs ==
    ASSUME NEW w \in Docs, part \in [Lines -> Nat], NEW s \in Listings(w), NEW i \in Nat,
           i + 1 <= Len(s)
    PROVE  LET k == PartKey[s[i + 1]]
           IN  OwnRelease(w, s, i + 1) =
                  Larger(0, Smaller(part[s[i + 1]], Larger(0, Net(w, k)) - Asked(s, i, k)))
  <1> DEFINE z == i + 1
             k == PartKey[s[z]]
             X == UpTo(s, i, k)
             n == Len(s)
             q == ListedQuantity(s)
             f == [j \in X |-> part[s[j]]]
  <1>1. z - 1 = i
    OBVIOUS
  <1>2. n \in Nat /\ z <= n /\ \A j \in 1..n : q[j] = part[s[j]] /\ part[s[j]] \in Nat
    BY ListingTyped DEF ListedQuantity
  <1>3. OwnRelease(w, s, z) = Larger(0, Smaller(part[s[z]], Larger(0, Net(w, k)) - SumFunction(f)))
    BY <1>1 DEF OwnRelease, UpTo
  <1>4. IsFiniteSet(X) /\ X \in SUBSET (1..n)
    <2>1. IsFiniteSet(1..i) /\ X \in SUBSET (1..i)
      BY FS_Interval DEF UpTo
    <2>2. IsFiniteSet(X)
      BY <2>1, FS_Subset
    <2> HIDE DEF n, X
    <2>3. \A j \in 1..i : j \in 1..n
      BY <1>2
    <2> QED
      BY <2>1, <2>2, <2>3
  <1>5. f \in [X -> Int] /\ \A j \in X : f[j] = q[j]
    <2> HIDE DEF q, n
    <2> QED
      BY <1>2, <1>4
  <1>6. SumFunction(f) = Asked(s, i, k)
    <2> HIDE DEF f, X, q
    <2>1. SumFunction(f) = SumFunctionOnSet(f, X)
      BY <1>4, <1>5, FunctionSum
    <2>2. SumFunctionOnSet(f, X) = SumFunctionOnSet(q, X)
      BY <1>4, <1>5, SumAgree
    <2> QED
      BY <2>1, <2>2 DEF Asked, X, q
  <1> QED
    BY <1>3, <1>6

\* What completion does to one part, and to the reservation.
LEMMA PartTotals ==
    ASSUME TypeOK, NEW w \in Docs, part \in [Lines -> Nat], NEW s \in Listings(w), NEW i \in Nat,
           i + 1 <= Len(s), NEW q \in Nat, q = OwnRelease(w, s, i + 1)
    PROVE  LET p == PartWriteOff(w, s, i + 1)
           IN  /\ p \in Seq(Own(w))
               /\ \A k \in Keys :
                     /\ Changed(p, k) = IF PartKey[s[i + 1]] = k THEN -q ELSE 0
                     /\ Released(p, k) = IF PartKey[s[i + 1]] = k THEN q ELSE 0
  <1> DEFINE x == PartKey[s[i + 1]]
             l == s[i + 1]
             m == Movement("WRITEOFF", x, -part[l], w, l)
             release == Movement("RESERVATION_RELEASE", x, -q, w, NoLine)
  <1>1. x \in Keys /\ l \in Lines /\ part[l] \in Nat
    <2>1. i + 1 \in 1..Len(s)
      BY ListingTyped
    <2> QED
      BY <2>1, ListingTyped
  <1>2. m \in Movements /\ ReservedDelta(m) = 0
    <2>1. m \in Movements /\ m.type = "WRITEOFF"
      BY <1>1 DEF Movement, Movements, MovementTypes, OutflowOnly
    <2> QED
      BY <2>1 DEF ReservedDelta
  <1>3. m \in Own(w) /\ \A k : ReleaseOf(m, k) = 0 /\ ChangeOf(m, k) = 0
    BY <1>2 DEF Own, ReleaseOf, ChangeOf
  <1> HIDE DEF m
  <1>4. <<m>> \in Seq(Own(w)) /\ \A k : Released(<<m>>, k) = 0 /\ Changed(<<m>>, k) = 0
    <2>1. \A k : Released(<<m>>, k) = ReleaseOf(m, k) /\ Changed(<<m>>, k) = ChangeOf(m, k)
      BY <1>2, OneTotal
    <2> QED
      BY <1>3, <2>1
  <1>5. PartWriteOff(w, s, i + 1) = (IF q = 0 THEN <<>> ELSE <<release>>) \o <<m>>
    BY DEF PartWriteOff, m
  <1>6. CASE q = 0
    <2>1. PartWriteOff(w, s, i + 1) = <<>> \o <<m>>
      BY <1>5, <1>6
    <2>2. <<>> \o <<m>> = <<m>>
      OBVIOUS
    <2>3. -q = 0
      BY <1>6
    <2> HIDE DEF x, release
    <2> QED
      BY <1>4, <1>6, <2>1, <2>2, <2>3 DEF x
  <1>7. CASE q # 0
    <2>1. PartWriteOff(w, s, i + 1) = <<release>> \o <<m>>
      BY <1>5, <1>7
    <2>2. PICK type \in {"RESERVATION", "RESERVATION_RELEASE"} : type = "RESERVATION_RELEASE"
      OBVIOUS
    <2>3. PICK n \in Int : n = -q
      OBVIOUS
    <2> HIDE DEF x
    <2>4. /\ <<Movement(type, x, n, w, NoLine)>> \in Seq(Own(w))
          /\ \A k \in Keys :
                /\ Changed(<<Movement(type, x, n, w, NoLine)>>, k) = IF x = k THEN n ELSE 0
                /\ Released(<<Movement(type, x, n, w, NoLine)>>, k) = IF x = k /\ n < 0 THEN -n ELSE 0
      BY <1>1, ReservationOwn
    <2>5. release = Movement(type, x, n, w, NoLine)
      BY <2>2, <2>3
    <2> HIDE DEF release
    <2>6. n < 0 /\ -n = q
      BY <1>7, <2>3
    <2>7. <<release>> \in Seq(Own(w)) /\ \A k \in Keys :
             /\ Changed(<<release>>, k) = (IF x = k THEN n ELSE 0)
             /\ Released(<<release>>, k) = (IF x = k THEN q ELSE 0)
      BY <2>4, <2>5, <2>6
    <2>8. <<release>> \in Seq(Movements) /\ <<m>> \in Seq(Movements)
      BY <1>4, <2>7, OwnMovements
    <2>9. \A k : /\ Changed(<<release>> \o <<m>>, k) = Changed(<<release>>, k) + Changed(<<m>>, k)
                 /\ Released(<<release>> \o <<m>>, k) = Released(<<release>>, k) + Released(<<m>>, k)
      <3>1. PICK a \in Seq(Movements), b \in Seq(Movements) : a = <<release>> /\ b = <<m>>
        BY <2>8
      <3>2. \A k : /\ Changed(a \o b, k) = Changed(a, k) + Changed(b, k)
                   /\ Released(a \o b, k) = Released(a, k) + Released(b, k)
        BY BothTotals
      <3> QED
        BY <3>1, <3>2
    <2>10. <<release>> \o <<m>> \in Seq(Own(w))
      <3>1. PICK a \in Seq(Own(w)), b \in Seq(Own(w)) : a = <<release>> /\ b = <<m>>
        BY <1>4, <2>7
      <3>2. a \o b \in Seq(Own(w))
        OBVIOUS
      <3> QED
        BY <3>1, <3>2
    <2>11. \A k \in Keys :
              /\ Changed(<<release>> \o <<m>>, k) = (IF x = k THEN -q ELSE 0)
              /\ Released(<<release>> \o <<m>>, k) = (IF x = k THEN q ELSE 0)
      <3> SUFFICES ASSUME NEW k \in Keys
                   PROVE  /\ Changed(<<release>> \o <<m>>, k) = (IF x = k THEN -q ELSE 0)
                          /\ Released(<<release>> \o <<m>>, k) = (IF x = k THEN q ELSE 0)
        OBVIOUS
      <3>1. /\ Changed(<<release>> \o <<m>>, k) = (IF x = k THEN n ELSE 0) + 0
            /\ Released(<<release>> \o <<m>>, k) = (IF x = k THEN q ELSE 0) + 0
        BY <1>4, <2>7, <2>9
      <3> QED
        BY <2>3, <3>1
    <2> QED
      BY <2>1, <2>10, <2>11 DEF x
  <1> QED
    BY <1>6, <1>7

\* The parts together release what they need, as far as the order holds it.
LEMMA PartsTotals ==
    ASSUME TypeOK, NEW w \in Docs, part \in [Lines -> Nat], NEW s \in Listings(w)
    PROVE  LET p == FlattenSeq([i \in 1..Len(s) |-> PartWriteOff(w, s, i)])
           IN  /\ p \in Seq(Own(w))
               /\ \A k \in Keys :
                     LET n == Smaller(Larger(0, Net(w, k)), Required(w, part, k))
                     IN  Changed(p, k) = -n /\ Released(p, k) = n
  <1> DEFINE n == Len(s)
             f == [i \in 1..n |-> PartWriteOff(w, s, i)]
             S == Own(w)
             held(k) == Larger(0, Net(w, k))
             T == {z \in (0..n) \X Seq(S) : \A k \in Keys :
                      /\ Changed(z[2], k) = -Smaller(held(k), Asked(s, z[1], k))
                      /\ Released(z[2], k) = Smaller(held(k), Asked(s, z[1], k))}
  <1>1. n \in Nat
    BY ListingTyped
  <1>2. \A k \in Keys : held(k) \in Nat
    <2> SUFFICES ASSUME NEW k \in Keys PROVE held(k) \in Nat
      OBVIOUS
    <2>1. Net(w, k) \in Int
      BY RowNumbers
    <2> QED
      BY <2>1 DEF Larger
  <1> HIDE DEF held
  <1>3. ASSUME NEW i \in Nat, i + 1 <= n
        PROVE  /\ f[i + 1] \in Seq(S)
               /\ \A k \in Keys :
                     LET a == Asked(s, i, k)
                         b == Asked(s, i + 1, k)
                     IN  /\ a \in Nat /\ b \in Nat
                         /\ Changed(f[i + 1], k) = Smaller(held(k), a) - Smaller(held(k), b)
                         /\ Released(f[i + 1], k) = Smaller(held(k), b) - Smaller(held(k), a)
    <2> DEFINE x == PartKey[s[i + 1]]
               u == part[s[i + 1]]
    <2>1. x \in Keys /\ u \in Nat /\ i + 1 \in 1..n
      <3>1. i + 1 \in 1..n
        BY <1>1, <1>3
      <3> QED
        BY <3>1, ListingTyped
    <2>2. \A k \in Keys : /\ Asked(s, i, k) \in Nat
                          /\ Asked(s, i + 1, k) = Asked(s, i, k) + (IF x = k THEN u ELSE 0)
      BY <1>3, AskedStep
    <2>3. OwnRelease(w, s, i + 1) = Larger(0, Smaller(u, held(x) - Asked(s, i, x)))
      BY <1>3, OwnReleaseIs DEF held
    <2>4. PICK q \in Nat : q = OwnRelease(w, s, i + 1)
      <3>1. Larger(0, Smaller(u, held(x) - Asked(s, i, x))) \in Nat
        <4>1. held(x) \in Nat /\ Asked(s, i, x) \in Nat /\ u \in Nat
          BY <1>2, <2>1, <2>2
        <4> HIDE DEF x, u
        <4> QED
          BY <4>1 DEF Larger, Smaller
      <3> QED
        BY <2>3, <3>1
    <2>5. /\ PartWriteOff(w, s, i + 1) \in Seq(S)
          /\ \A k \in Keys : /\ Changed(PartWriteOff(w, s, i + 1), k) = (IF x = k THEN -q ELSE 0)
                             /\ Released(PartWriteOff(w, s, i + 1), k) = (IF x = k THEN q ELSE 0)
      <3>1. i + 1 <= Len(s)
        BY <1>3
      <3> HIDE DEF f, n, T
      <3>2. /\ PartWriteOff(w, s, i + 1) \in Seq(Own(w))
            /\ \A k \in Keys :
                  /\ Changed(PartWriteOff(w, s, i + 1), k) = (IF PartKey[s[i + 1]] = k THEN -q ELSE 0)
                  /\ Released(PartWriteOff(w, s, i + 1), k) = (IF PartKey[s[i + 1]] = k THEN q ELSE 0)
        BY <2>4, <3>1, PartTotals
      <3> QED
        BY <3>2
    <2>6. f[i + 1] = PartWriteOff(w, s, i + 1)
      BY <2>1
    <2> HIDE DEF f, n, x, u
    <2>7. ASSUME NEW k \in Keys
          PROVE  LET a == Asked(s, i, k)
                     b == Asked(s, i + 1, k)
                 IN  /\ a \in Nat /\ b \in Nat
                     /\ Changed(f[i + 1], k) = Smaller(held(k), a) - Smaller(held(k), b)
                     /\ Released(f[i + 1], k) = Smaller(held(k), b) - Smaller(held(k), a)
      <3>1. held(k) \in Nat /\ u \in Nat /\ Asked(s, i, k) \in Nat
        BY <1>2, <2>1, <2>2
      <3>2. CASE x = k
        <4>1. Asked(s, i + 1, k) = Asked(s, i, k) + u
          BY <2>2, <3>2
        <4>2. q = Larger(0, Smaller(u, held(k) - Asked(s, i, k)))
          BY <2>3, <2>4, <3>2
        <4>3. Changed(f[i + 1], k) = -q /\ Released(f[i + 1], k) = q
          BY <2>5, <2>6, <3>2
        <4>4. q = Smaller(held(k), Asked(s, i, k) + u) - Smaller(held(k), Asked(s, i, k))
          BY <3>1, <4>2 DEF Larger, Smaller
        <4>5. Smaller(held(k), Asked(s, i, k) + u) \in Nat /\ Smaller(held(k), Asked(s, i, k)) \in Nat
          BY <3>1 DEF Smaller
        <4> QED
          BY <3>1, <4>1, <4>3, <4>4, <4>5
      <3>3. CASE x # k
        <4>1. Asked(s, i + 1, k) = Asked(s, i, k)
          BY <2>2, <3>1, <3>3
        <4>2. Changed(f[i + 1], k) = 0 /\ Released(f[i + 1], k) = 0
          BY <2>5, <2>6, <3>3
        <4>3. Smaller(held(k), Asked(s, i, k)) \in Nat
          BY <3>1 DEF Smaller
        <4> QED
          BY <3>1, <4>1, <4>2, <4>3
      <3> QED
        BY <3>2, <3>3
    <2> QED
      BY <2>5, <2>6, <2>7
  <1>4. f \in [1..n -> Seq(S)]
    <2> SUFFICES ASSUME NEW j \in 1..n PROVE f[j] \in Seq(S)
      OBVIOUS
    <2>1. j - 1 \in Nat /\ (j - 1) + 1 = j /\ (j - 1) + 1 <= n
      BY <1>1
    <2>2. f[(j - 1) + 1] \in Seq(S)
      BY <1>3, <2>1
    <2> HIDE DEF f, S, n
    <2> QED
      BY <2>1, <2>2
  <1>5. Inherited(T, n, f, S)
    <2>1. <<0, <<>>>> \in T
      <3>1. <<0, <<>>>> \in (0..n) \X Seq(S)
        <4>1. 0 \in 0..n
          BY <1>1
        <4>2. <<>> \in Seq(S)
          OBVIOUS
        <4> HIDE DEF S, n
        <4> QED
          BY <4>1, <4>2
      <3>2. ASSUME NEW k \in Keys
            PROVE  /\ Changed(<<>>, k) = -Smaller(held(k), Asked(s, 0, k))
                   /\ Released(<<>>, k) = Smaller(held(k), Asked(s, 0, k))
        <4>1. Changed(<<>>, k) = 0 /\ Released(<<>>, k) = 0 /\ Asked(s, 0, k) = 0
          BY NoTotals, AskedAll
        <4>2. Smaller(held(k), 0) = 0
          BY <1>2 DEF Smaller
        <4> QED
          BY <4>1, <4>2
      <3> HIDE DEF n, S
      <3> QED
        BY <3>1, <3>2
    <2>2. ASSUME NEW i \in 0..(n - 1), NEW p \in Seq(S), <<i, p>> \in T
          PROVE  <<i + 1, p \o f[i + 1]>> \in T
      <3>1. i \in Nat /\ i + 1 <= n /\ i + 1 \in 0..n
        BY <1>1
      <3>2. f[i + 1] \in Seq(S) /\ p \o f[i + 1] \in Seq(S)
        <4>1. f[i + 1] \in Seq(S)
          BY <1>3, <3>1
        <4> HIDE DEF S, f
        <4> QED
          BY <4>1
      <3>3. <<i + 1, p \o f[i + 1]>> \in (0..n) \X Seq(S)
        <4> HIDE DEF S, f, n
        <4> QED
          BY <3>1, <3>2
      <3>4. ASSUME NEW k \in Keys
            PROVE  /\ Changed(p \o f[i + 1], k) = -Smaller(held(k), Asked(s, i + 1, k))
                   /\ Released(p \o f[i + 1], k) = Smaller(held(k), Asked(s, i + 1, k))
        <4>1. /\ Changed(p, k) = -Smaller(held(k), Asked(s, i, k))
              /\ Released(p, k) = Smaller(held(k), Asked(s, i, k))
          BY <2>2
        <4>2. /\ Asked(s, i, k) \in Nat /\ Asked(s, i + 1, k) \in Nat
              /\ Changed(f[i + 1], k) =
                    Smaller(held(k), Asked(s, i, k)) - Smaller(held(k), Asked(s, i + 1, k))
              /\ Released(f[i + 1], k) =
                    Smaller(held(k), Asked(s, i + 1, k)) - Smaller(held(k), Asked(s, i, k))
          BY <1>3, <3>1
        <4>3. /\ Changed(p \o f[i + 1], k) = Changed(p, k) + Changed(f[i + 1], k)
              /\ Released(p \o f[i + 1], k) = Released(p, k) + Released(f[i + 1], k)
          <5>1. p \in Seq(Movements) /\ f[i + 1] \in Seq(Movements)
            BY <3>2, OwnMovements
          <5> HIDE DEF f
          <5> QED
            BY <5>1, BothTotals
        <4>4. Smaller(held(k), Asked(s, i, k)) \in Int /\ Smaller(held(k), Asked(s, i + 1, k)) \in Int
          BY <1>2, <4>2 DEF Smaller
        <4> HIDE DEF f
        <4> QED
          BY <4>1, <4>2, <4>3, <4>4
      <3> HIDE DEF f
      <3> QED
        BY <3>3, <3>4
    <2> QED
      BY <2>1, <2>2 DEF Inherited
  <1>6. FlattenSeq(f) = FlattenSeq([i \in 1..Len(s) |-> PartWriteOff(w, s, i)])
    OBVIOUS
  <1> HIDE DEF T, f, n
  <1>7. FlattenSeq(f) \in Seq(S) /\ <<n, FlattenSeq(f)>> \in T
    BY <1>1, <1>4, <1>5, FlattenInduction
  <1>8. \A k \in Keys : Asked(s, n, k) = Required(w, part, k)
    BY AskedAll DEF n
  <1>9. \A k \in Keys :
           /\ Changed(FlattenSeq(f), k) = -Smaller(held(k), Required(w, part, k))
           /\ Released(FlattenSeq(f), k) = Smaller(held(k), Required(w, part, k))
    BY <1>7, <1>8 DEF T
  <1> QED
    BY <1>6, <1>7, <1>9 DEF held

\* Completion releases what the parts need and then what is left above it.
LEMMA WriteOffTotals ==
    ASSUME TypeOK, NEW w \in Docs, part \in [Lines -> Nat], NEW s \in Listings(w)
    PROVE  LET p == WriteOffProgram(w, s)
           IN  /\ p \in Seq(Own(w))
               /\ \A k \in Keys :
                     LET need == Required(w, part, k)
                         n == Smaller(Larger(0, Net(w, k)), need)
                                  + Larger(0, Smaller(Net(w, k) - need, committed[k].reserved))
                     IN  Changed(p, k) = -n /\ Released(p, k) = n
  <1> DEFINE a == FlattenSeq([i \in 1..Len(s) |-> PartWriteOff(w, s, i)])
             need == [k \in Keys |-> Required(w, part, k)]
             b == ReleaseProgram(w, need)
             m(k) == Smaller(Larger(0, Net(w, k)), Required(w, part, k))
             n(k) == Larger(0, Smaller(Net(w, k) - Required(w, part, k), committed[k].reserved))
  <1>1. a \in Seq(Own(w)) /\ \A k \in Keys : Changed(a, k) = -m(k) /\ Released(a, k) = m(k)
    BY PartsTotals
  <1>2. need \in [Keys -> Int] /\ \A k \in Keys : need[k] = Required(w, part, k)
    BY NeedIsSum
  <1>3. b \in Seq(Own(w)) /\ \A k \in Keys : Changed(b, k) = -n(k) /\ Released(b, k) = n(k)
    <2>1. PICK keep \in [Keys -> Int] : keep = need
      BY <1>2
    <2>2. /\ ReleaseProgram(w, keep) \in Seq(Own(w))
          /\ \A k \in Keys :
                LET c == Larger(0, Smaller(Net(w, k) - keep[k], committed[k].reserved))
                IN  Changed(ReleaseProgram(w, keep), k) = -c /\ Released(ReleaseProgram(w, keep), k) = c
      BY ReleaseTotals
    <2> QED
      BY <1>2, <2>1, <2>2
  <1>4. WriteOffProgram(w, s) = a \o b
    BY DEF WriteOffProgram
  <1>5. \A k \in Keys : m(k) \in Int /\ n(k) \in Int
    <2> SUFFICES ASSUME NEW k \in Keys PROVE m(k) \in Int /\ n(k) \in Int
      OBVIOUS
    <2>1. Net(w, k) \in Int /\ Required(w, part, k) \in Nat /\ committed[k].reserved \in Int
      BY RowNumbers, NeedIsSum
    <2> QED
      BY <2>1 DEF Smaller, Larger
  <1> HIDE DEF a, b
  <1>6. a \o b \in Seq(Own(w)) /\ a \in Seq(Movements) /\ b \in Seq(Movements)
    BY <1>1, <1>3, OwnMovements
  <1>7. \A k \in Keys : /\ Changed(a \o b, k) = Changed(a, k) + Changed(b, k)
                        /\ Released(a \o b, k) = Released(a, k) + Released(b, k)
    BY <1>6, BothTotals
  <1>8. \A k \in Keys : Changed(a \o b, k) = -(m(k) + n(k)) /\ Released(a \o b, k) = m(k) + n(k)
    <2> HIDE DEF m, n
    <2> QED
      BY <1>1, <1>3, <1>5, <1>7
  <1> QED
    BY <1>4, <1>6, <1>8

\* Movements that reserve nothing and release nothing.
LEMMA QuietTotals ==
    ASSUME NEW p \in Seq(Movements), \A i \in 1..Len(p) : ReservedDelta(p[i]) = 0, NEW w
    PROVE  p \in Seq(Own(w)) /\ \A k : Released(p, k) = 0 /\ Changed(p, k) = 0
  <1> DEFINE l == Len(p)
  <1>1. l \in Nat /\ \A i \in 1..l : p[i] \in Movements
    OBVIOUS
  <1>2. \A i \in 1..l : p[i] \in Own(w)
    BY <1>1 DEF Own
  <1>3. p \in Seq(Own(w))
    <2>1. p \in [1..l -> Own(w)]
      BY <1>2
    <2> QED
      BY <1>1, <2>1, SeqDef
  <1>4. ASSUME NEW k PROVE Released(p, k) = 0 /\ Changed(p, k) = 0
    <2>1. \A i \in 1..l : ReleaseOn(p, k)[i] = 0 /\ ReservedOn(p, k)[i] = 0
      BY DEF ReleaseOn, ReservedOn
    <2>2. IsFiniteSet(1..l)
      BY <1>1, FS_Interval
    <2> HIDE DEF l
    <2> QED
      BY <2>1, <2>2, SumZero DEF Released, Changed, ToRelease, ToReserve, l
  <1> QED
    BY <1>3, <1>4

\* What has been written off is a number.
LEMMA WrittenTyped ==
    ASSUME TypeOK, NEW w \in Docs, NEW l \in Lines
    PROVE  WrittenByLine(w, l) \in Int
  <1>1. PartKey[l] \in Keys
    BY WorkOrderStockAssumption
  <1>2. PICK b : b = committed[PartKey[l]].batches
    OBVIOUS
  <1>3. b \in Seq(Batches)
    BY <1>1, <1>2 DEF TypeOK, Rows
  <1>4. <<w, l>> \in Sources
    BY DEF Sources
  <1>5. Total(b, <<w, l>>) \in Int
    BY <1>3, <1>4, BatchSums
  <1> QED
    BY <1>2, <1>5 DEF WrittenByLine, Written, Total

\* Cancellation returns goods and leaves the reservation as it is.
LEMMA ReturnTotals ==
    ASSUME TypeOK, NEW w \in Docs, part \in [Lines -> Nat], NEW s \in Listings(w)
    PROVE  LET p == ReturnProgram(w, s)
           IN  /\ p \in Seq(Movements)
               /\ \A i \in 1..Len(p) : ReservedDelta(p[i]) = 0
  <1> DEFINE p == ReturnProgram(w, s)
             n == Len(s)
             m(i) == Movement("RETURN", PartKey[s[i]], ReturnedQuantity(w, s[i]), w, s[i])
  <1>1. n \in Nat /\ \A i \in 1..n : s[i] \in Lines /\ PartKey[s[i]] \in Keys /\ part[s[i]] \in Nat
    BY ListingTyped
  <1>2. \A i \in 1..n : ReturnedQuantity(w, s[i]) \in Int
    BY <1>1, WrittenTyped DEF ReturnedQuantity
  <1>3. \A i \in 1..n : m(i) \in Movements /\ m(i).type = "RETURN"
    BY <1>1, <1>2 DEF Movement, Movements, MovementTypes
  <1>4. p = [i \in 1..n |-> m(i)]
    BY DEF ReturnProgram
  <1> HIDE DEF p, m, n
  <1>5. p \in Seq(Movements) /\ Len(p) = n
    <2>1. p \in [1..n -> Movements]
      BY <1>3, <1>4
    <2> QED
      BY <1>1, <2>1, SeqDef
  <1>6. \A i \in 1..Len(p) : ReservedDelta(p[i]) = 0
    BY <1>3, <1>4, <1>5 DEF ReservedDelta
  <1> QED
    BY <1>5, <1>6 DEF p

---------------------------------------------
(* What a request starts. *)

\* A movement list that moves the reservation of w only, and releases no more than w holds.
Fits(w, p) ==
    /\ p \in Seq(Own(w))
    /\ \A k \in Keys : Released(p, k) <= Net(w, k)

\* What is known of the state when a request arrives.
Reading(w) ==
    /\ TypeOK /\ part \in [Lines -> Nat]
    /\ \A k \in Keys : 0 <= Net(w, k) /\ Net(w, k) <= committed[k].reserved

\* An order holds no more than the row has reserved.
LEMMA HeldIsReserved ==
    ASSUME TypeOK, NEW k \in Keys, RowOwned(committed[k]), NEW w \in Docs
    PROVE  Net(w, k) \in Nat /\ Net(w, k) <= committed[k].reserved
  <1> DEFINE D == Docs \cup {NoDoc}
             h == committed[k].held
  <1>1. IsFiniteSet(D)
    BY StockLedgerAssumption, FS_AddElement
  <1>2. h \in [D -> Int] /\ \A d \in D : h[d] \in Nat
    <2>1. \A d \in D : h[d] \in Int /\ h[d] >= 0
      BY RowNumbers DEF RowOwned
    <2>2. h \in [D -> Int]
      BY DEF TypeOK, Rows
    <2> QED
      BY <2>1, <2>2
  <1>3. SumFunction(h) = committed[k].reserved
    BY DEF RowOwned
  <1> HIDE DEF D, h
  <1>4. SumFunction(h) = SumFunctionOnSet(h, D)
    BY <1>1, <1>2, FunctionSum
  <1>5. \A d \in D : h[d] <= SumFunctionOnSet(h, D)
    BY <1>1, <1>2, SumNat
  <1>6. w \in D /\ h[w] = Net(w, k)
    BY DEF D, h, Net
  <1> QED
    BY <1>2, <1>3, <1>4, <1>5, <1>6

\* An order that is set to work releases nothing, and reserves no more than it lacks.
LEMMA ReserveFits ==
    ASSUME NEW w \in Docs, Reading(w), NEW p, p = ReserveProgram(w)
    PROVE  /\ Fits(w, p)
           /\ \A k \in Keys : Net(w, k) <= Required(w, part, k) =>
                 Net(w, k) + Changed(p, k) <= Required(w, part, k)
  <1> USE DEF Reading
  <1>1. /\ p \in Seq(Own(w))
        /\ \A k \in Keys :
              /\ Released(p, k) = 0
              /\ Changed(p, k) = Larger(0, Smaller(Required(w, part, k) - Larger(0, Net(w, k)),
                                                   Free(committed[k])))
    BY ReserveTotals
  <1>2. ASSUME NEW k \in Keys, Net(w, k) <= Required(w, part, k)
        PROVE  Net(w, k) + Changed(p, k) <= Required(w, part, k)
    <2>1. /\ Net(w, k) \in Int /\ Free(committed[k]) \in Nat /\ Required(w, part, k) \in Nat
          /\ 0 <= Net(w, k)
      BY RowNumbers, NeedIsSum
    <2>2. Net(w, k) + Larger(0, Smaller(Required(w, part, k) - Larger(0, Net(w, k)),
                                        Free(committed[k]))) <= Required(w, part, k)
      BY <1>2, <2>1 DEF Larger, Smaller
    <2> QED
      BY <1>1, <2>2
  <1> QED
    BY <1>1, <1>2 DEF Fits

\* A trimmed reservation, or one given up, is the order's own, down to what it keeps.
LEMMA ReleaseFits ==
    ASSUME NEW w \in Docs, Reading(w), NEW keep \in [Keys -> Int], \A k \in Keys : keep[k] >= 0,
           NEW p, p = ReleaseProgram(w, keep)
    PROVE  /\ Fits(w, p)
           /\ \A k \in Keys : /\ Net(w, k) + Changed(p, k) <= keep[k]
                             /\ Net(w, k) + Changed(p, k) <= Net(w, k)
  <1> USE DEF Reading
  <1> DEFINE n(k) == Larger(0, Smaller(Net(w, k) - keep[k], committed[k].reserved))
  <1>1. p \in Seq(Own(w)) /\ \A k \in Keys : Released(p, k) = n(k) /\ Changed(p, k) = -n(k)
    BY ReleaseTotals
  <1>2. ASSUME NEW k \in Keys
        PROVE  /\ Released(p, k) <= Net(w, k)
               /\ Net(w, k) + Changed(p, k) <= keep[k] /\ Net(w, k) + Changed(p, k) <= Net(w, k)
    <2>1. Net(w, k) \in Int /\ committed[k].reserved \in Int /\ keep[k] \in Int /\ keep[k] >= 0
          /\ 0 <= Net(w, k) /\ Net(w, k) <= committed[k].reserved
      BY RowNumbers
    <2>2. n(k) <= Net(w, k) /\ Net(w, k) - keep[k] <= n(k) /\ n(k) \in Nat
      BY <2>1 DEF Larger, Smaller
    <2> HIDE DEF n
    <2> QED
      BY <1>1, <2>1, <2>2
  <1> QED
    BY <1>1, <1>2 DEF Fits

\* Completion releases the order's own reservation, and all of it.
LEMMA WriteOffFits ==
    ASSUME NEW w \in Docs, Reading(w), NEW s \in Listings(w), NEW p, p = WriteOffProgram(w, s)
    PROVE  Fits(w, p) /\ \A k \in Keys : Net(w, k) + Changed(p, k) = 0
  <1> USE DEF Reading
  <1> DEFINE n(k) == Smaller(Larger(0, Net(w, k)), Required(w, part, k))
                        + Larger(0, Smaller(Net(w, k) - Required(w, part, k), committed[k].reserved))
  <1>1. p \in Seq(Own(w)) /\ \A k \in Keys : Released(p, k) = n(k) /\ Changed(p, k) = -n(k)
    BY WriteOffTotals
  <1>2. ASSUME NEW k \in Keys PROVE Released(p, k) <= Net(w, k) /\ Net(w, k) + Changed(p, k) = 0
    <2>1. Net(w, k) \in Int /\ committed[k].reserved \in Int /\ Required(w, part, k) \in Nat
          /\ 0 <= Net(w, k) /\ Net(w, k) <= committed[k].reserved
      BY RowNumbers, NeedIsSum
    <2>2. n(k) = Net(w, k)
      BY <2>1 DEF Larger, Smaller
    <2> HIDE DEF n
    <2> QED
      BY <1>1, <2>1, <2>2
  <1> QED
    BY <1>1, <1>2 DEF Fits

\* A list that leaves the reservation alone.
LEMMA QuietFits ==
    ASSUME NEW w \in Docs, Reading(w), NEW p \in Seq(Movements),
           \A i \in 1..Len(p) : ReservedDelta(p[i]) = 0
    PROVE  Fits(w, p) /\ \A k \in Keys : Changed(p, k) = 0
  <1>1. p \in Seq(Own(w)) /\ \A k : Released(p, k) = 0 /\ Changed(p, k) = 0
    BY QuietTotals
  <1> QED
    BY <1>1 DEF Fits, Reading

\* An order goes to work before it is closed, and is closed, whichever way, by a completion
\* or a cancellation first.
LEMMA StatusSteps ==
    ASSUME NEW s \in Statuses, NEW to,
           to \in Transitions[s] \/ (to = "DELETED" /\ s \in Deletable)
    PROVE  /\ to = "IN_PROGRESS" => s \notin Closed
           /\ to = "DELETED" => s \notin Charged
           /\ to \in Closed => s \in Closed \/ to \in {"COMPLETED", "CANCELLED", "DELETED"}
  BY DEF Statuses, Transitions, Deletable, Closed, Charged

\* Run from its start, the list p does not bring w above what it may hold at the end of j.
EndsWithin(w, p, j) == \A k \in Keys : Net(w, k) + Changed(p, k) <= EndGoal(w, j, k)

\* Every list a transition may run.
LEMMA TransitionFits ==
    ASSUME NEW w \in Docs, Reading(w), status[w] \in Statuses, NEW to,
           to \in Transitions[status[w]] \/ (to = "DELETED" /\ status[w] \in Deletable),
           NEW p \in TransitionPrograms(w, status[w], to),
           NEW j, j = [kind |-> "transition", order |-> w, to |-> to]
    PROVE  Fits(w, p) /\ (HeldWithinNeed => EndsWithin(w, p, j))
  <1> DEFINE from == status[w]
  <1>1. \A k \in Keys : /\ EndGoal(w, j, k) = IF from \in Closed \/ to \in Closed THEN 0
                                             ELSE Required(w, part, k)
                       /\ Net(w, k) \in Int /\ 0 <= Net(w, k) /\ Required(w, part, k) \in Nat
    BY RowNumbers, NeedIsSum DEF EndGoal, Reading
  <1>2. HeldWithinNeed => \A k \in Keys :
           Net(w, k) <= (IF from \in Closed THEN 0 ELSE Required(w, part, k))
    BY DEF HeldWithinNeed
  <1>3. /\ to = "IN_PROGRESS" => from \notin Closed
        /\ to = "DELETED" => from \notin Charged
        /\ to \in Closed => from \in Closed \/ to \in {"COMPLETED", "CANCELLED", "DELETED"}
    BY StatusSteps
  <1>4. "IN_PROGRESS" \notin Closed /\ Charged \subseteq Closed
    BY DEF Closed, Charged
  <1> HIDE DEF from
  <1>5. CASE to = "IN_PROGRESS" /\ p = ReserveProgram(w)
    <2>1. /\ Fits(w, p)
          /\ \A k \in Keys : Net(w, k) <= Required(w, part, k) =>
                Net(w, k) + Changed(p, k) <= Required(w, part, k)
      BY <1>5, ReserveFits
    <2>2. HeldWithinNeed => EndsWithin(w, p, j)
      BY <1>1, <1>2, <1>3, <1>4, <1>5, <2>1 DEF EndsWithin
    <2> QED
      BY <2>1, <2>2
  <1>6. CASE \E s \in Listings(w) : p = WriteOffProgram(w, s)
    <2>1. Fits(w, p) /\ \A k \in Keys : Net(w, k) + Changed(p, k) = 0
      BY <1>6, WriteOffFits
    <2> QED
      BY <1>1, <2>1 DEF EndsWithin
  <1>7. CASE from \in Charged /\ \E s \in Listings(w) : p = ReturnProgram(w, s)
    <2>1. p \in Seq(Movements) /\ \A i \in 1..Len(p) : ReservedDelta(p[i]) = 0
      BY <1>7, ReturnTotals DEF Reading
    <2>2. Fits(w, p) /\ \A k \in Keys : Changed(p, k) = 0
      BY <2>1, QuietFits
    <2> QED
      BY <1>1, <1>2, <1>4, <1>7, <2>2 DEF EndsWithin
  <1>8. CASE p = ReleaseProgram(w, KeepNothing)
    <2>1. KeepNothing \in [Keys -> Int] /\ \A k \in Keys : KeepNothing[k] = 0
      BY DEF KeepNothing
    <2>2. Fits(w, p) /\ \A k \in Keys : Net(w, k) + Changed(p, k) <= KeepNothing[k]
      BY <1>8, <2>1, ReleaseFits
    <2>3. \A k \in Keys : Net(w, k) + Changed(p, k) <= 0
      BY <2>1, <2>2
    <2>4. \A k \in Keys : EndGoal(w, j, k) \in Nat /\ Changed(p, k) \in Int
      <3>1. p \in Seq(Movements)
        BY <2>2, OwnMovements DEF Fits
      <3>2. \A k \in Keys : Changed(p, k) \in Int
        BY <3>1, TotalsTyped DEF Changed
      <3>3. \A k \in Keys : EndGoal(w, j, k) \in Nat
        BY <1>1
      <3> QED
        BY <3>2, <3>3
    <2>5. EndsWithin(w, p, j)
      BY <1>1, <2>3, <2>4 DEF EndsWithin
    <2> QED
      BY <2>2, <2>5
  <1>9. CASE to \notin {"COMPLETED", "CANCELLED", "DELETED"} /\ p = <<>>
    <2>1. p \in Seq(Movements) /\ Len(p) = 0
      BY <1>9
    <2>2. 1..0 = {}
      OBVIOUS
    <2>3. Fits(w, p) /\ \A k \in Keys : Changed(p, k) = 0
      BY <2>1, <2>2, QuietFits
    <2> QED
      BY <1>1, <1>2, <1>3, <1>9, <2>3 DEF EndsWithin
  <1>10. \/ to = "IN_PROGRESS" /\ p = ReserveProgram(w)
         \/ \E s \in Listings(w) : p = WriteOffProgram(w, s)
         \/ from \in Charged /\ \E s \in Listings(w) : p = ReturnProgram(w, s)
         \/ p = ReleaseProgram(w, KeepNothing)
         \/ to \notin {"COMPLETED", "CANCELLED", "DELETED"} /\ p = <<>>
    BY <1>3 DEF TransitionPrograms, from
  <1> QED
    BY <1>5, <1>6, <1>7, <1>8, <1>9, <1>10

\* The goods of a receipt.
LEMMA ReceiptQuiet ==
    ASSUME NEW k \in Keys, NEW q \in Int
    PROVE  LET p == <<Movement("RECEIPT", k, q, NoDoc, NoLine)>>
           IN  p \in Seq(Movements) /\ \A i \in 1..Len(p) : ReservedDelta(p[i]) = 0
  <1> DEFINE m == Movement("RECEIPT", k, q, NoDoc, NoLine)
  <1>1. m \in Movements /\ m.type = "RECEIPT"
    BY DEF Movement, Movements, MovementTypes, InflowOnly
  <1>2. ReservedDelta(m) = 0
    BY <1>1 DEF ReservedDelta
  <1> HIDE DEF m
  <1> QED
    BY <1>1, <1>2 DEF m

\* A part of the reservation of a purchase list item.
LEMMA ItemReleaseFits ==
    ASSUME NEW w \in Docs, Reading(w), NEW x \in Keys, NEW q \in Nat \ {0}, q <= Net(w, x)
    PROVE  LET p == <<Movement("RESERVATION_RELEASE", x, -q, w, NoLine)>>
           IN  Fits(w, p) /\ \A k \in Keys : Changed(p, k) = IF x = k THEN -q ELSE 0
  <1> DEFINE p == <<Movement("RESERVATION_RELEASE", x, -q, w, NoLine)>>
  <1>1. PICK type \in {"RESERVATION", "RESERVATION_RELEASE"} : type = "RESERVATION_RELEASE"
    OBVIOUS
  <1>2. PICK n \in Int : n = -q
    OBVIOUS
  <1>3. /\ <<Movement(type, x, n, w, NoLine)>> \in Seq(Own(w))
        /\ \A k \in Keys :
              /\ Changed(<<Movement(type, x, n, w, NoLine)>>, k) = IF x = k THEN n ELSE 0
              /\ Released(<<Movement(type, x, n, w, NoLine)>>, k) = IF x = k /\ n < 0 THEN -n ELSE 0
    BY ReservationOwn
  <1>4. p = <<Movement(type, x, n, w, NoLine)>>
    BY <1>1, <1>2
  <1> HIDE DEF p
  <1>5. n < 0 /\ -n = q
    BY <1>2
  <1>6. p \in Seq(Own(w)) /\ \A k \in Keys :
           /\ Changed(p, k) = (IF x = k THEN n ELSE 0)
           /\ Released(p, k) = (IF x = k THEN q ELSE 0)
    BY <1>3, <1>4, <1>5
  <1>7. \A k \in Keys : Released(p, k) <= Net(w, k)
    BY <1>6 DEF Reading
  <1> QED
    BY <1>2, <1>6, <1>7 DEF Fits, p

---------------------------------------------
(* The steps of an order, and the ledger below it. *)

\* A transaction that works has an order.
LEMMA JobTyped ==
    ASSUME OrderTyped, NEW t \in Txns
    PROVE  /\ job[t] \in Jobs
           /\ Working(t) => job[t].order \in Docs
  BY DEF OrderTyped, Jobs, Working

\* What a request opens.
Opening(t, w, p, j) ==
    /\ Fits(w, p)
    /\ j \in Jobs /\ j # NoJob /\ j.order = w
    /\ j.kind = "edit" => w = PartOwner[j.part]
    /\ j.kind = "receipt" => \A i \in 1..Len(p) : ReservedDelta(p[i]) = 0
    /\ HeldWithinNeed => EndsWithin(w, p, j)
    /\ Open(t, w, p, j)
    /\ UNCHANGED <<status, part>>

\* Nothing stands in the way of the readers.
LEMMA OrdersReading ==
    ASSUME OrderInvariant, NEW w \in Docs
    PROVE  Reading(w)
  <1>1. TypeOK /\ part \in [Lines -> Nat]
    BY DEF OrderInvariant, LedgerInvariant, OrderTyped
  <1>2. \A k \in Keys : Net(w, k) \in Nat /\ Net(w, k) <= committed[k].reserved
    BY <1>1, HeldIsReserved DEF OrderInvariant, RowsOwned
  <1> QED
    BY <1>1, <1>2 DEF Reading

\* A list that does not touch the reservation, or only gives some of it back, ends within
\* the need when the order is within it.
LEMMA NeedNotTouched ==
    ASSUME OrderTyped, NEW w \in Docs, Reading(w), NEW p, NEW j,
           j.kind \notin {"transition", "edit"},
           \A k \in Keys : Changed(p, k) \in Int /\ Changed(p, k) <= 0
    PROVE  HeldWithinNeed => EndsWithin(w, p, j)
  <1> SUFFICES ASSUME HeldWithinNeed, NEW k \in Keys
               PROVE  Net(w, k) + Changed(p, k) <= EndGoal(w, j, k)
    BY DEF EndsWithin
  <1>1. Net(w, k) <= EndGoal(w, j, k)
    BY DEF HeldWithinNeed, EndGoal
  <1>2. Net(w, k) \in Int /\ EndGoal(w, j, k) \in Nat
    BY RowNumbers, NeedIsSum DEF Reading, EndGoal
  <1> QED
    BY <1>1, <1>2

\* A change of status opens a transaction for its order.
LEMMA TransitionOpens ==
    ASSUME OrderInvariant, NEW t \in Txns, NEW w \in Docs, NEW to \in Statuses,
           BeginTransition(t, w, to)
    PROVE  \E p, j : Opening(t, w, p, j)
  <1> DEFINE j == [kind |-> "transition", order |-> w, to |-> to]
  <1>1. PICK p \in TransitionPrograms(w, status[w], to) : Open(t, w, p, j)
    BY DEF BeginTransition
  <1>2. status[w] \in Statuses /\ UNCHANGED <<status, part>>
        /\ (to \in Transitions[status[w]] \/ (to = "DELETED" /\ status[w] \in Deletable))
    BY DEF OrderInvariant, OrderTyped, BeginTransition
  <1>3. Fits(w, p) /\ (HeldWithinNeed => EndsWithin(w, p, j))
    BY <1>2, OrdersReading, TransitionFits
  <1>4. j \in Jobs /\ j.kind = "transition" /\ j.order = w
    BY DEF Jobs
  <1>5. j # NoJob
    BY <1>4 DEF NoJob
  <1> HIDE DEF j
  <1> QED
    BY <1>1, <1>2, <1>3, <1>4, <1>5 DEF Opening

\* So does an edit of a part.
LEMMA EditOpens ==
    ASSUME OrderInvariant, NEW t \in Txns, NEW e \in checked, BeginChangePart(t, e)
    PROVE  /\ \E w \in Docs : \E p, j : Opening(t, w, p, j)
           /\ job'[t].part = e.part
  <1> DEFINE w == PartOwner[e.part]
             q == IF part[e.part] = 0 THEN 0 ELSE e.quantity
             after == [part EXCEPT ![e.part] = q]
             keep == [k \in Keys |-> Required(w, after, k)]
             p == ReleaseProgram(w, keep)
             j == [kind |-> "edit", order |-> w, part |-> e.part, quantity |-> q]
  <1>1. Open(t, w, p, j) /\ UNCHANGED <<status, part>>
    BY DEF BeginChangePart
  <1>2. e.part \in Lines /\ e.quantity \in Nat /\ w \in Docs
    BY WorkOrderStockAssumption DEF OrderInvariant, OrderTyped
  <1>3. q \in Nat /\ after \in [Lines -> Nat]
    BY <1>2 DEF OrderInvariant, OrderTyped
  <1>4. /\ j \in Jobs /\ j.kind = "edit" /\ j.order = w /\ j.part = e.part /\ w = PartOwner[j.part]
        /\ after = [part EXCEPT ![j.part] = j.quantity]
    BY <1>2, <1>3 DEF Jobs
  <1>5. j # NoJob /\ j.kind \notin {"transition", "receipt"}
    BY <1>4 DEF NoJob
  <1> HIDE DEF w, q, j
  <1>6. \A k \in Keys : EndGoal(w, j, k) = IF status[w] \in Closed THEN 0 ELSE Required(w, after, k)
    BY <1>4, <1>5 DEF EndGoal
  <1> HIDE DEF after
  <1>7. /\ keep \in [Keys -> Int]
        /\ \A k \in Keys : keep[k] = Required(w, after, k) /\ keep[k] >= 0
    <2>1. \A k \in Keys : Required(w, after, k) \in Nat
      BY <1>3, NeedIsSum
    <2> QED
      BY <2>1
  <1> HIDE DEF keep
  <1>8. /\ Fits(w, p)
        /\ \A k \in Keys : /\ Net(w, k) + Changed(p, k) <= keep[k]
                           /\ Net(w, k) + Changed(p, k) <= Net(w, k)
    BY <1>2, <1>7, OrdersReading, ReleaseFits
  <1>9. HeldWithinNeed => EndsWithin(w, p, j)
    <2> SUFFICES ASSUME HeldWithinNeed, NEW k \in Keys
                 PROVE  Net(w, k) + Changed(p, k) <= EndGoal(w, j, k)
      BY DEF EndsWithin
    <2>1. Net(w, k) <= (IF status[w] \in Closed THEN 0 ELSE Required(w, part, k))
      BY <1>2 DEF HeldWithinNeed
    <2>2. Net(w, k) \in Int /\ Changed(p, k) \in Int
      <3>1. p \in Seq(Movements)
        BY <1>8, OwnMovements DEF Fits
      <3>2. Net(w, k) \in Int
        BY <1>2, RowNumbers DEF OrderInvariant, LedgerInvariant
      <3> QED
        BY <3>1, <3>2, TotalsTyped DEF Changed
    <2> QED
      BY <1>6, <1>7, <1>8, <2>1, <2>2
  <1> HIDE DEF p
  <1>10. Opening(t, w, p, j)
    BY <1>1, <1>4, <1>5, <1>8, <1>9 DEF Opening
  <1>11. job'[t] = j
    BY <1>1 DEF Open, OrderInvariant, OrderTyped
  <1> QED
    BY <1>2, <1>4, <1>10, <1>11

\* So do a receipt and the release of an item.
LEMMA ReceiptOpens ==
    ASSUME OrderInvariant, NEW t \in Txns, NEW w \in Docs, NEW k \in Keys, NEW q \in Quantities,
           BeginReceipt(t, w, k, q)
    PROVE  \E p, j : Opening(t, w, p, j)
  <1> DEFINE p == <<Movement("RECEIPT", k, q, NoDoc, NoLine)>>
             j == [kind |-> "receipt", order |-> w, key |-> k, quantity |-> q, allocated |-> FALSE]
  <1>1. Open(t, w, p, j) /\ UNCHANGED <<status, part>>
    BY DEF BeginReceipt
  <1>2. q \in Nat
    BY WorkOrderStockAssumption DEF Quantities
  <1>3. p \in Seq(Movements) /\ \A i \in 1..Len(p) : ReservedDelta(p[i]) = 0
    BY <1>2, ReceiptQuiet
  <1>4. j \in Jobs /\ j.kind = "receipt" /\ j.order = w
    BY <1>2 DEF Jobs
  <1>5. j # NoJob /\ j.kind \notin {"transition", "edit"}
    BY <1>4 DEF NoJob
  <1> HIDE DEF j, p
  <1>6. Fits(w, p) /\ \A x \in Keys : Changed(p, x) = 0
    BY <1>3, OrdersReading, QuietFits
  <1>7. HeldWithinNeed => EndsWithin(w, p, j)
    BY <1>5, <1>6, OrdersReading, NeedNotTouched DEF OrderInvariant
  <1> QED
    BY <1>1, <1>3, <1>4, <1>5, <1>6, <1>7 DEF Opening

\* The release of an item.
LEMMA ItemReleaseOpens ==
    ASSUME OrderInvariant, NEW t \in Txns, NEW w \in Docs, NEW k \in Keys, NEW q \in Quantities,
           BeginReleaseReservation(t, w, k, q)
    PROVE  \E p, j : Opening(t, w, p, j)
  <1> DEFINE p == <<Movement("RESERVATION_RELEASE", k, -q, w, NoLine)>>
             j == [kind |-> "release", order |-> w]
  <1>1. Open(t, w, p, j) /\ q <= Net(w, k) /\ UNCHANGED <<status, part>>
    BY DEF BeginReleaseReservation
  <1>2. q \in Nat \ {0}
    BY WorkOrderStockAssumption DEF Quantities
  <1>3. Fits(w, p) /\ \A x \in Keys : Changed(p, x) = IF k = x THEN -q ELSE 0
    BY <1>1, <1>2, OrdersReading, ItemReleaseFits
  <1>4. j \in Jobs /\ j.kind = "release" /\ j.order = w
    BY DEF Jobs
  <1>5. j # NoJob /\ j.kind \notin {"transition", "edit", "receipt"}
    BY <1>4 DEF NoJob
  <1> HIDE DEF j, p
  <1>6. \A x \in Keys : Changed(p, x) \in Int /\ Changed(p, x) <= 0
    BY <1>2, <1>3
  <1>7. HeldWithinNeed => EndsWithin(w, p, j)
    BY <1>5, <1>6, OrdersReading, NeedNotTouched DEF OrderInvariant
  <1> QED
    BY <1>1, <1>3, <1>4, <1>5, <1>7 DEF Opening

\* Every request opens a transaction for one order, with a list that fits it.
LEMMA RequestOpens ==
    ASSUME OrderInvariant, NEW t \in Txns, Request(t)
    PROVE  \E w \in Docs : \E p, j : Opening(t, w, p, j)
  <1>1. ASSUME NEW w \in Docs, NEW to \in Statuses, BeginTransition(t, w, to)
        PROVE  \E p, j : Opening(t, w, p, j)
    BY <1>1, TransitionOpens
  <1>2. ASSUME NEW e \in checked, BeginChangePart(t, e)
        PROVE  \E w \in Docs : \E p, j : Opening(t, w, p, j)
    BY <1>2, EditOpens
  <1>3. ASSUME NEW w \in Docs, NEW k \in Keys, NEW q \in Quantities, BeginReceipt(t, w, k, q)
        PROVE  \E p, j : Opening(t, w, p, j)
    BY <1>3, ReceiptOpens
  <1>4. ASSUME NEW w \in Docs, NEW k \in Keys, NEW q \in Quantities,
               BeginReleaseReservation(t, w, k, q)
        PROVE  \E p, j : Opening(t, w, p, j)
    BY <1>4, ItemReleaseOpens
  <1> QED
    BY <1>1, <1>2, <1>3, <1>4 DEF Request

\* A step that only changes the orders.
OrdersOnly == UNCHANGED <<live, committed, lock, txn, job>>

\* The steps, one kind after the other.
LEMMA OrderSteps ==
    ASSUME OrderInvariant, [OrderNext]_allVars
    PROVE  \/ OrdersOnly
           \/ \E t \in Txns : \/ \E w \in Docs : \E p, j : Opening(t, w, p, j)
                              \/ CheckMovement(t) /\ UNCHANGED orderVars
                              \/ ApplyMovement(t) /\ UNCHANGED orderVars
                              \/ Rollback(t) /\ EndJob(t)
                              \/ AllocateReceived(t)
                              \/ CommitJob(t)
  <1>1. ASSUME NEW t \in Txns, Request(t) PROVE \E w \in Docs : \E p, j : Opening(t, w, p, j)
    BY <1>1, RequestOpens
  <1>2. ASSUME NEW t \in Txns, GiveUp(t) PROVE Rollback(t) /\ EndJob(t)
    BY <1>2 DEF GiveUp, RefuseMovement, FailMovement, DeadlockVictim, Interrupt
  <1>3. ASSUME NEW l \in Lines, NEW q, CheckEdit(l, q) PROVE OrdersOnly
    BY <1>3 DEF CheckEdit, OrdersOnly, vars
  <1>4. ASSUME NEW e \in checked, AddPart(e) PROVE OrdersOnly
    BY <1>4 DEF AddPart, OrdersOnly, vars
  <1>5. ASSUME NEW l \in Lines, NEW q, ChangeUnit(l, q) PROVE OrdersOnly
    BY <1>5 DEF ChangeUnit, OrdersOnly, vars
  <1>6. UNCHANGED allVars => OrdersOnly
    BY DEF allVars, vars, orderVars, OrdersOnly
  <1>7. ASSUME NEW t \in Txns, MoveOn(t)
        PROVE  (CheckMovement(t) \/ ApplyMovement(t)) /\ UNCHANGED orderVars
    BY <1>7 DEF MoveOn
  <1> QED
    BY <1>1, <1>2, <1>3, <1>4, <1>5, <1>6, <1>7 DEF OrderNext

\* Opening a transaction touches no row.
LEMMA OpenKeepsLedger ==
    ASSUME LedgerInvariant, NEW t \in Txns, NEW p \in Seq(Movements), NEW w, NEW j, Open(t, w, p, j)
    PROVE  LedgerInvariant'
  <1> USE DEF LedgerInvariant, Open
  <1>1. TypeOK'
    BY DEF TypeOK
  <1>2. CheckedIsWellFormed'
    BY DEF TypeOK, CheckedIsWellFormed, Unfinished, Running, Current
  <1>3. RowsSound'
    BY DEF RowsSound
  <1> QED
    BY <1>1, <1>2, <1>3

\* What sharing the goods of a receipt adds to the list of the transaction.
Shared(t) ==
    LET w == job[t].order
        k == job[t].key
    IN  Smaller(Smaller(job[t].quantity, Required(w, part, k) - Larger(0, Net(w, k))), Free(live[k]))

\* It is a reservation of the order of the receipt, or nothing.
LEMMA SharedTyped ==
    ASSUME TypeOK, OrderTyped, NEW t \in Txns, AllocateReceived(t)
    PROVE  /\ job[t] \in [kind : {"receipt"}, order : Docs, key : Keys, quantity : Nat,
                          allocated : BOOLEAN]
           /\ Shared(t) \in Int
           /\ Net(job[t].order, job[t].key) \in Int
           /\ Required(job[t].order, part, job[t].key) \in Nat
  <1>1. job[t] \in [kind : {"receipt"}, order : Docs, key : Keys, quantity : Nat,
                    allocated : BOOLEAN]
    BY DEF OrderTyped, AllocateReceived, Jobs, NoJob
  <1> DEFINE w == job[t].order
             k == job[t].key
             q == job[t].quantity
  <1>2. w \in Docs /\ k \in Keys /\ q \in Nat
    BY <1>1
  <1>3. Shared(t) = Smaller(Smaller(q, Required(w, part, k) - Larger(0, Net(w, k))), Free(live[k]))
    BY DEF Shared
  <1> HIDE DEF w, k, q
  <1>4. Required(w, part, k) \in Nat /\ Net(w, k) \in Int /\ Free(live[k]) \in Nat
    BY <1>2, NeedIsSum, RowNumbers DEF OrderTyped
  <1>5. Shared(t) \in Int
    BY <1>2, <1>3, <1>4 DEF Smaller, Larger
  <1> QED
    BY <1>1, <1>4, <1>5 DEF w, k

\* The list of a receipt, once the goods are shared.
LEMMA SharedProgram ==
    ASSUME TypeOK, OrderTyped, NEW t \in Txns, AllocateReceived(t)
    PROVE  LET p == txn[t].program
               k == job[t].key
               w == job[t].order
               r == Movement("RESERVATION", k, Shared(t), w, NoLine)
               q == txn'[t].program
           IN  /\ q = p \/ (Shared(t) > 0 /\ status[w] \in ProcurementActive /\ q = p \o <<r>>)
               /\ txn' = [txn EXCEPT ![t].program = q]
               /\ q \in Seq(Movements) /\ q # <<>>
  <1> DEFINE p == txn[t].program
             k == job[t].key
             w == job[t].order
             m == Shared(t)
             r == Movement("RESERVATION", k, m, w, NoLine)
             q == txn'[t].program
  <1>1. k \in Keys /\ w \in Docs /\ m \in Int
    BY SharedTyped
  <1>2. r \in Movements
    BY <1>1 DEF Movement, Movements, MovementTypes, InflowOnly
  <1>3. p \in Seq(Movements) /\ p # <<>>
    BY DEF TypeOK, AllocateReceived, Running
  <1>4. txn' = [txn EXCEPT ![t].program =
                   IF status[w] \in ProcurementActive /\ m > 0 THEN Append(@, r) ELSE @]
    BY DEF AllocateReceived, Shared
  <1> HIDE DEF r, m
  <1>5. q = IF status[w] \in ProcurementActive /\ m > 0 THEN Append(p, r) ELSE p
    BY <1>4 DEF TypeOK
  <1> DEFINE x == IF status[w] \in ProcurementActive /\ m > 0 THEN Append(p, r) ELSE p
  <1>6. txn' = [txn EXCEPT ![t].program = x]
    BY <1>4
  <1>7. Append(p, r) = p \o <<r>> /\ p \o <<r>> \in Seq(Movements) /\ p \o <<r>> # <<>>
    <2> HIDE DEF p
    <2> QED
      BY <1>2, <1>3
  <1>8. txn' = [txn EXCEPT ![t].program = q]
    BY <1>5, <1>6
  <1> HIDE DEF p, q, x
  <1>9. /\ q = p \/ (m > 0 /\ status[w] \in ProcurementActive /\ q = p \o <<r>>)
        /\ q \in Seq(Movements) /\ q # <<>>
    BY <1>3, <1>5, <1>7
  <1> QED
    BY <1>8, <1>9 DEF p, q, r, m

\* Sharing the goods touches no row.
LEMMA AllocateKeepsLedger ==
    ASSUME LedgerInvariant, OrderTyped, NEW t \in Txns, AllocateReceived(t)
    PROVE  LedgerInvariant'
  <1> USE DEF LedgerInvariant
  <1> DEFINE q == txn'[t].program
  <1>1. txn' = [txn EXCEPT ![t].program = q] /\ q \in Seq(Movements)
    BY SharedProgram
  <1>2. live' = live /\ committed' = committed /\ lock' = lock /\ ~Unfinished(t)
    BY DEF AllocateReceived
  <1> HIDE DEF q
  <1>3. TypeOK'
    BY <1>1, <1>2 DEF TypeOK
  <1>4. CheckedIsWellFormed'
    <2> SUFFICES ASSUME NEW u \in Txns, txn'[u].checked
                 PROVE  (Unfinished(u) /\ WellFormed(Current(u)))'
      BY DEF CheckedIsWellFormed
    <2>1. txn[u].checked
      BY <1>1 DEF TypeOK
    <2>2. u # t
      BY <1>2, <2>1 DEF CheckedIsWellFormed
    <2>3. txn'[u] = txn[u]
      BY <1>1, <2>2 DEF TypeOK
    <2> QED
      BY <2>1, <2>3 DEF CheckedIsWellFormed, Unfinished, Running, Current, WellFormed
  <1>5. RowsSound'
    BY <1>2 DEF RowsSound
  <1> QED
    BY <1>3, <1>4, <1>5

\* Nor does a commit, which publishes sound rows.
LEMMA CommitJobKeepsLedger ==
    ASSUME LedgerInvariant, NEW t \in Txns, CommitJob(t)
    PROVE  LedgerInvariant'
  <1> USE DEF LedgerInvariant, CommitJob
  <1>1. TypeOK'
    <2>1. Idle \in [program : Seq(Movements), next : Nat \ {0}, checked : BOOLEAN]
      BY DEF Idle
    <2> QED
      BY <2>1 DEF TypeOK
  <1>2. CheckedIsWellFormed'
    BY DEF TypeOK, CheckedIsWellFormed, Unfinished, Running, Current, Idle
  <1>3. RowsSound'
    BY DEF TypeOK, RowsSound
  <1> QED
    BY <1>1, <1>2, <1>3

\* Every step of the orders keeps the ledger typed and sound.
LEMMA LedgerKept ==
    ASSUME OrderInvariant, [OrderNext]_allVars
    PROVE  LedgerInvariant'
  <1>1. LedgerInvariant /\ OrderTyped
    BY DEF OrderInvariant
  <1>2. CASE OrdersOnly
    BY <1>1, <1>2, StutterKeeps DEF OrdersOnly, vars
  <1>3. ASSUME NEW t \in Txns, NEW w, NEW p, NEW j, Opening(t, w, p, j) PROVE LedgerInvariant'
    BY <1>1, <1>3, OwnMovements, OpenKeepsLedger DEF Opening, Fits
  <1>4. ASSUME NEW t \in Txns, CheckMovement(t) PROVE LedgerInvariant'
    BY <1>1, <1>4, CheckMovementKeeps
  <1>5. ASSUME NEW t \in Txns, ApplyMovement(t) PROVE LedgerInvariant'
    BY <1>1, <1>5, ApplyMovementKeeps
  <1>6. ASSUME NEW t \in Txns, Rollback(t) PROVE LedgerInvariant'
    BY <1>1, <1>6, RollbackKeeps
  <1>7. ASSUME NEW t \in Txns, AllocateReceived(t) PROVE LedgerInvariant'
    BY <1>1, <1>7, AllocateKeepsLedger
  <1>8. ASSUME NEW t \in Txns, CommitJob(t) PROVE LedgerInvariant'
    BY <1>1, <1>8, CommitJobKeepsLedger
  <1> QED
    BY <1>2, <1>3, <1>4, <1>5, <1>6, <1>7, <1>8, OrderSteps

\* The state of the orders keeps its types.
LEMMA OrderTypedKept ==
    ASSUME OrderInvariant, [OrderNext]_allVars
    PROVE  OrderTyped'
  <1> USE DEF OrderTyped
  <1>1. OrderTyped /\ TypeOK
    BY DEF OrderInvariant, LedgerInvariant
  <1>2. NoJob \in Jobs /\ \A q \in Quantities : q \in Nat
    BY WorkOrderStockAssumption DEF Jobs, Quantities
  <1>3. ASSUME NEW t \in Txns, NEW w \in Docs, NEW to \in Statuses, BeginTransition(t, w, to)
        PROVE  OrderTyped'
    <2>1. [kind |-> "transition", order |-> w, to |-> to] \in Jobs
      BY DEF Jobs
    <2>2. job' = [job EXCEPT ![t] = [kind |-> "transition", order |-> w, to |-> to]]
      BY <1>3 DEF BeginTransition, Open
    <2> QED
      BY <1>1, <1>3, <2>1, <2>2 DEF BeginTransition
  <1>4. ASSUME NEW t \in Txns, NEW e \in checked, BeginChangePart(t, e) PROVE OrderTyped'
    <2> DEFINE q == IF part[e.part] = 0 THEN 0 ELSE e.quantity
               j == [kind |-> "edit", order |-> PartOwner[e.part], part |-> e.part, quantity |-> q]
    <2>1. e.part \in Lines /\ e.quantity \in Nat /\ PartOwner[e.part] \in Docs
      BY <1>1, WorkOrderStockAssumption
    <2>2. j \in Jobs
      BY <2>1 DEF Jobs
    <2>3. job' = [job EXCEPT ![t] = j]
      BY <1>4 DEF BeginChangePart, Open
    <2> HIDE DEF j
    <2> QED
      BY <1>1, <1>4, <2>2, <2>3 DEF BeginChangePart
  <1>5. ASSUME NEW t \in Txns, NEW w \in Docs, NEW k \in Keys, NEW q \in Quantities,
               BeginReceipt(t, w, k, q)
        PROVE  OrderTyped'
    <2> DEFINE j == [kind |-> "receipt", order |-> w, key |-> k, quantity |-> q,
                     allocated |-> FALSE]
    <2>1. j \in Jobs
      BY <1>2 DEF Jobs
    <2>2. job' = [job EXCEPT ![t] = j]
      BY <1>5 DEF BeginReceipt, Open
    <2> HIDE DEF j
    <2> QED
      BY <1>1, <1>5, <2>1, <2>2 DEF BeginReceipt
  <1>6. ASSUME NEW t \in Txns, NEW w \in Docs, NEW k \in Keys, NEW q \in Quantities,
               BeginReleaseReservation(t, w, k, q)
        PROVE  OrderTyped'
    <2>1. [kind |-> "release", order |-> w] \in Jobs
      BY DEF Jobs
    <2>2. job' = [job EXCEPT ![t] = [kind |-> "release", order |-> w]]
      BY <1>6 DEF BeginReleaseReservation, Open
    <2> QED
      BY <1>1, <1>6, <2>1, <2>2 DEF BeginReleaseReservation
  <1>7. ASSUME NEW t \in Txns, Request(t) PROVE OrderTyped'
    BY <1>3, <1>4, <1>5, <1>6, <1>7 DEF Request
  <1>8. ASSUME NEW t \in Txns, MoveOn(t) PROVE OrderTyped'
    BY <1>1, <1>8 DEF MoveOn, orderVars
  <1>9. ASSUME NEW t \in Txns, GiveUp(t) PROVE OrderTyped'
    BY <1>1, <1>2, <1>9 DEF GiveUp, EndJob
  <1>10. ASSUME NEW t \in Txns, AllocateReceived(t) PROVE OrderTyped'
    <2>1. job[t] \in [kind : {"receipt"}, order : Docs, key : Keys, quantity : Nat,
                      allocated : BOOLEAN]
      BY <1>1, <1>10, SharedTyped
    <2>2. [job[t] EXCEPT !.allocated = TRUE] \in Jobs
      BY <2>1 DEF Jobs
    <2>3. job' = [job EXCEPT ![t] = [job[t] EXCEPT !.allocated = TRUE]]
      BY <1>1, <1>10 DEF AllocateReceived
    <2> QED
      BY <1>1, <1>10, <2>2, <2>3 DEF AllocateReceived
  <1>11. ASSUME NEW t \in Txns, CommitJob(t) PROVE OrderTyped'
    <2>1. job[t] \in Jobs
      BY <1>1
    <2>2. status' \in [Docs -> Statuses]
      <3>1. job[t].kind = "transition" => job[t].to \in Statuses
        BY <2>1 DEF Jobs, NoJob
      <3> QED
        BY <1>1, <1>11, <3>1 DEF CommitJob
    <2>3. part' \in [Lines -> Nat]
      <3>1. job[t].kind = "edit" => job[t].quantity \in Nat
        BY <2>1 DEF Jobs, NoJob
      <3> QED
        BY <1>1, <1>11, <3>1 DEF CommitJob
    <2>4. job' \in [Txns -> Jobs]
      BY <1>1, <1>2, <1>11 DEF CommitJob, EndJob
    <2> QED
      BY <1>1, <1>11, <2>2, <2>3, <2>4 DEF CommitJob
  <1>12. ASSUME NEW l \in Lines, NEW q \in 0..MaxPart, CheckEdit(l, q) PROVE OrderTyped'
    <2>1. q \in Nat
      BY WorkOrderStockAssumption
    <2> DEFINE e == [part |-> l, quantity |-> q, add |-> l \in fresh]
    <2>2. PICK a \in BOOLEAN : a = (l \in fresh)
      <3>1. CASE l \in fresh
        <4>1. TRUE = (l \in fresh) /\ TRUE \in BOOLEAN
          BY <3>1
        <4> QED
          BY <4>1, Zenon
      <3>2. CASE l \notin fresh
        <4>1. FALSE = (l \in fresh) /\ FALSE \in BOOLEAN
          BY <3>2
        <4> QED
          BY <4>1, Zenon
      <3> QED
        BY <3>1, <3>2
    <2>3. [part |-> l, quantity |-> q, add |-> a]
              \in [part : Lines, quantity : Nat, add : BOOLEAN]
      BY <2>1
    <2>4. e \in [part : Lines, quantity : Nat, add : BOOLEAN]
      BY <2>2, <2>3
    <2>5. checked' = checked \cup {e}
      BY <1>12 DEF CheckEdit
    <2> HIDE DEF e
    <2>6. checked' \in SUBSET [part : Lines, quantity : Nat, add : BOOLEAN]
      BY <1>1, <2>4, <2>5
    <2> QED
      BY <1>1, <1>12, <2>6 DEF CheckEdit
  <1>13. ASSUME NEW e \in checked, AddPart(e) PROVE OrderTyped'
    BY <1>1, <1>13 DEF AddPart
  <1>14. ASSUME NEW l \in Lines, NEW q \in Quantities, ChangeUnit(l, q) PROVE OrderTyped'
    BY <1>1, <1>2, <1>14 DEF ChangeUnit
  <1>15. CASE UNCHANGED allVars
    BY <1>1, <1>15 DEF allVars, orderVars
  <1> QED
    BY <1>7, <1>8, <1>9, <1>10, <1>11, <1>12, <1>13, <1>14, <1>15 DEF OrderNext

---------------------------------------------
(* Reservations stay owned, step by step. *)

Orderly == Apart /\ OwnMoves /\ ReleasesCovered /\ RowsOwned

\* A request.
LEMMA OpeningKeepsOrderly ==
    ASSUME OrderInvariant, NEW t \in Txns, NEW w, NEW p, NEW j, Opening(t, w, p, j)
    PROVE  Orderly'
  <1> USE DEF OrderInvariant, LedgerInvariant
  <1>1. /\ p \in Seq(Own(w)) /\ (\A k \in Keys : Released(p, k) <= Net(w, k))
        /\ j # NoJob /\ j.order = w
        /\ ~Running(t) /\ job[t] = NoJob /\ ~Locked(w)
        /\ txn' = [txn EXCEPT ![t] = [program |-> p, next |-> 1, checked |-> FALSE]]
        /\ job' = [job EXCEPT ![t] = j]
        /\ live' = live /\ committed' = committed /\ lock' = lock
    BY DEF Opening, Fits, Open
  <1>2. /\ txn'[t] = [program |-> p, next |-> 1, checked |-> FALSE] /\ job'[t] = j
        /\ \A u \in Txns \ {t} : txn'[u] = txn[u] /\ job'[u] = job[u]
    BY <1>1 DEF TypeOK, OrderTyped
  <1>3. \A k \in Keys : lock[k] # t
    BY <1>1 DEF Apart, Working
  <1>4. Apart'
    <2>1. \A u \in Txns : Running(u)' => Working(u)'
      BY <1>1, <1>2 DEF Apart, Running, Working
    <2>2. \A u, v \in Txns : (Working(u) /\ Working(v) /\ job[u].order = job[v].order)' => u = v
      BY <1>1, <1>2 DEF Apart, Working, Locked
    <2>3. \A k \in Keys : lock'[k] = NoTxn => live'[k] = committed'[k]
      BY <1>1 DEF Apart
    <2>4. \A k \in Keys, u \in Txns : lock'[k] = u =>
             /\ Working(u)'
             /\ \A d \in Docs \cup {NoDoc} :
                   d # job'[u].order => live'[k].held[d] = committed'[k].held[d]
      BY <1>1, <1>2, <1>3 DEF Apart, Working
    <2> QED
      BY <2>1, <2>2, <2>3, <2>4 DEF Apart
  <1>5. OwnMoves'
    BY <1>1, <1>2 DEF OwnMoves, Working
  <1>6. ReleasesCovered'
    <2> SUFFICES ASSUME NEW u \in Txns, NEW k \in Keys, Working(u)'
                 PROVE  ToRelease(txn'[u].program, txn'[u].next, k)
                            <= Visible(u, k)'.held[job'[u].order]
      BY DEF ReleasesCovered
    <2>1. Visible(u, k)' = Visible(u, k)
      BY <1>1 DEF Visible
    <2>2. CASE u = t
      <3>1. Visible(t, k) = committed[k]
        BY <1>3 DEF Visible
      <3> QED
        BY <1>1, <1>2, <2>1, <2>2, <3>1 DEF Released, Net
    <2>3. CASE u # t
      BY <1>2, <2>1, <2>3 DEF ReleasesCovered, Working
    <2> QED
      BY <2>2, <2>3
  <1>7. RowsOwned'
    BY <1>1 DEF RowsOwned, RowOwned
  <1> QED
    BY <1>4, <1>5, <1>6, <1>7 DEF Orderly

\* A step of the orders alone, and a check that passes.
LEMMA QuietKeepsOrderly ==
    ASSUME OrderInvariant, UNCHANGED <<live, committed, lock, job>>,
           \A t \in Txns : txn'[t].program = txn[t].program /\ txn'[t].next = txn[t].next
    PROVE  Orderly'
  <1> USE DEF OrderInvariant
  <1>1. Apart'
    BY DEF Apart, Working, Running
  <1>2. OwnMoves'
    BY DEF OwnMoves, Working
  <1>3. ReleasesCovered'
    BY DEF ReleasesCovered, Visible, Working
  <1>4. RowsOwned'
    BY DEF RowsOwned, RowOwned
  <1> QED
    BY <1>1, <1>2, <1>3, <1>4 DEF Orderly

\* A transaction that gives up leaves the rows as they were committed.
LEMMA RollbackKeepsOrderly ==
    ASSUME OrderInvariant, NEW t \in Txns, Rollback(t), EndJob(t)
    PROVE  Orderly'
  <1> USE DEF OrderInvariant, LedgerInvariant
  <1>1. /\ \A k \in Keys : /\ live'[k] = IF lock[k] = t THEN committed[k] ELSE live[k]
                           /\ lock'[k] = IF lock[k] = t THEN NoTxn ELSE lock[k]
        /\ committed' = committed
        /\ txn'[t] = Idle /\ job'[t] = NoJob
        /\ \A u \in Txns \ {t} : txn'[u] = txn[u] /\ job'[u] = job[u]
        /\ t # NoTxn
    BY StockLedgerAssumption DEF Rollback, EndJob, TypeOK, OrderTyped
  <1>2. Apart'
    <2>1. \A u \in Txns : Running(u)' => Working(u)'
      BY <1>1 DEF Apart, Running, Working, Idle
    <2>2. \A u, v \in Txns : (Working(u) /\ Working(v) /\ job[u].order = job[v].order)' => u = v
      BY <1>1 DEF Apart, Working
    <2>3. \A k \in Keys : lock'[k] = NoTxn => live'[k] = committed'[k]
      BY <1>1 DEF Apart
    <2>4. \A k \in Keys, u \in Txns : lock'[k] = u =>
             /\ Working(u)'
             /\ \A d \in Docs \cup {NoDoc} :
                   d # job'[u].order => live'[k].held[d] = committed'[k].held[d]
      <3> SUFFICES ASSUME NEW k \in Keys, NEW u \in Txns, lock'[k] = u
                   PROVE  /\ Working(u)'
                          /\ \A d \in Docs \cup {NoDoc} :
                                d # job'[u].order => live'[k].held[d] = committed'[k].held[d]
        OBVIOUS
      <3>1. u # NoTxn
        BY StockLedgerAssumption
      <3>2. u # t /\ lock[k] = u /\ live'[k] = live[k] /\ committed'[k] = committed[k]
        BY <1>1, <3>1
      <3> QED
        BY <1>1, <3>2 DEF Apart, Working
    <2> QED
      BY <2>1, <2>2, <2>3, <2>4 DEF Apart
  <1>3. OwnMoves'
    BY <1>1 DEF OwnMoves, Working
  <1>4. ReleasesCovered'
    <2> SUFFICES ASSUME NEW u \in Txns, NEW k \in Keys, Working(u)'
                 PROVE  ToRelease(txn'[u].program, txn'[u].next, k)
                            <= Visible(u, k)'.held[job'[u].order]
      BY DEF ReleasesCovered
    <2>1. u # t /\ txn'[u] = txn[u] /\ job'[u] = job[u]
      BY <1>1 DEF Working
    <2>2. u # NoTxn
      BY StockLedgerAssumption
    <2>3. Visible(u, k)' = Visible(u, k)
      BY <1>1, <2>1, <2>2 DEF Visible
    <2> QED
      BY <2>1, <2>3 DEF ReleasesCovered, Working
  <1>5. RowsOwned'
    BY <1>1 DEF RowsOwned, RowOwned
  <1> QED
    BY <1>2, <1>3, <1>4, <1>5 DEF Orderly

\* A transaction that commits publishes what its order holds, and nothing of the others.
LEMMA CommitKeepsOrderly ==
    ASSUME OrderInvariant, NEW t \in Txns, CommitJob(t)
    PROVE  Orderly'
  <1> USE DEF OrderInvariant, LedgerInvariant
  <1>1. /\ \A k \in Keys : /\ committed'[k] = IF lock[k] = t THEN live[k] ELSE committed[k]
                           /\ lock'[k] = IF lock[k] = t THEN NoTxn ELSE lock[k]
        /\ live' = live
        /\ txn'[t] = Idle /\ job'[t] = NoJob /\ Working(t)
        /\ \A u \in Txns \ {t} : txn'[u] = txn[u] /\ job'[u] = job[u]
        /\ t # NoTxn
    BY StockLedgerAssumption DEF CommitJob, EndJob, TypeOK, OrderTyped, Working
  <1>2. Apart'
    <2>1. \A u \in Txns : Running(u)' => Working(u)'
      BY <1>1 DEF Apart, Running, Working, Idle
    <2>2. \A u, v \in Txns : (Working(u) /\ Working(v) /\ job[u].order = job[v].order)' => u = v
      BY <1>1 DEF Apart, Working
    <2>3. \A k \in Keys : lock'[k] = NoTxn => live'[k] = committed'[k]
      BY <1>1 DEF Apart
    <2>4. \A k \in Keys, u \in Txns : lock'[k] = u =>
             /\ Working(u)'
             /\ \A d \in Docs \cup {NoDoc} :
                   d # job'[u].order => live'[k].held[d] = committed'[k].held[d]
      <3> SUFFICES ASSUME NEW k \in Keys, NEW u \in Txns, lock'[k] = u
                   PROVE  /\ Working(u)'
                          /\ \A d \in Docs \cup {NoDoc} :
                                d # job'[u].order => live'[k].held[d] = committed'[k].held[d]
        OBVIOUS
      <3>1. u # NoTxn
        BY StockLedgerAssumption
      <3>2. u # t /\ lock[k] = u /\ live'[k] = live[k] /\ committed'[k] = committed[k]
        BY <1>1, <3>1
      <3> QED
        BY <1>1, <3>2 DEF Apart, Working
    <2> QED
      BY <2>1, <2>2, <2>3, <2>4 DEF Apart
  <1>3. OwnMoves'
    BY <1>1 DEF OwnMoves, Working
  <1>4. ReleasesCovered'
    <2> SUFFICES ASSUME NEW u \in Txns, NEW k \in Keys, Working(u)'
                 PROVE  ToRelease(txn'[u].program, txn'[u].next, k)
                            <= Visible(u, k)'.held[job'[u].order]
      BY DEF ReleasesCovered
    <2>1. u # t /\ txn'[u] = txn[u] /\ job'[u] = job[u] /\ Working(u)
      BY <1>1 DEF Working
    <2>2. u # NoTxn
      BY StockLedgerAssumption
    <2>3. job[u].order # job[t].order /\ job[u].order \in Docs
      BY <1>1, <2>1, JobTyped DEF Apart
    <2>4. Visible(u, k)'.held[job[u].order] = Visible(u, k).held[job[u].order]
      <3>1. CASE lock[k] = u
        <4>1. Visible(u, k)' = Visible(u, k)
          BY <1>1, <2>1, <3>1 DEF Visible
        <4> QED
          BY <4>1
      <3>2. CASE lock[k] # u
        <4>1. Visible(u, k) = committed[k] /\ Visible(u, k)' = committed'[k]
          BY <1>1, <2>2, <3>2 DEF Visible
        <4>2. lock[k] = t => live[k].held[job[u].order] = committed[k].held[job[u].order]
          BY <2>3 DEF Apart
        <4> QED
          BY <1>1, <4>1, <4>2
      <3> QED
        BY <3>1, <3>2
    <2> QED
      BY <2>1, <2>4 DEF ReleasesCovered
  <1>5. RowsOwned'
    BY <1>1 DEF RowsOwned, RowOwned
  <1> QED
    BY <1>2, <1>3, <1>4, <1>5 DEF Orderly

\* What a movement of w does to the row it writes.
LEMMA AppliedRow ==
    ASSUME NEW m \in Movements, NEW row \in Rows, NEW r \in RowsAfter(m, row), NEW w \in Docs,
           ReservedDelta(m) # 0 => m.doc = w
    PROVE  /\ r.held \in [Docs \cup {NoDoc} -> Int] /\ r.reserved = row.reserved + ReservedDelta(m)
           /\ r.held[w] = row.held[w] + ReservedDelta(m)
           /\ \A d \in Docs \cup {NoDoc} : d # w => r.held[d] = row.held[d]
           /\ SumFunction(r.held) = SumFunction(row.held) + ReservedDelta(m)
  <1> DEFINE D == Docs \cup {NoDoc}
             h == row.held
             g == [h EXCEPT ![m.doc] = @ + ReservedDelta(m)]
  <1>1. r.held = g /\ r.reserved = row.reserved + ReservedDelta(m)
    BY DEF RowsAfter
  <1>2. h \in [D -> Int] /\ m.doc \in D /\ w \in D
    BY DEF Rows, Movements
  <1>3. PICK delta \in Int : delta = ReservedDelta(m)
    BY DeltasTyped
  <1>4. g = [h EXCEPT ![m.doc] = @ + delta]
    BY <1>3
  <1>5. IsFiniteSet(D)
    BY StockLedgerAssumption, FS_AddElement
  <1> HIDE DEF D, h, g
  <1>6. g \in [D -> Int] /\ g[m.doc] = h[m.doc] + delta /\ \A d \in D \ {m.doc} : g[d] = h[d]
    BY <1>2, <1>4
  <1>7. SumFunction(g) = SumFunction(h) - h[m.doc] + g[m.doc]
    BY <1>2, <1>5, <1>6, FunctionChanged
  <1>8. SumFunction(h) \in Int /\ h[m.doc] \in Int
    BY <1>2, <1>5, FunctionSum
  <1>9. SumFunction(g) = SumFunction(h) + delta
    BY <1>6, <1>7, <1>8
  <1>10. g[w] = h[w] + delta /\ \A d \in D : d # w => g[d] = h[d]
    <2>1. CASE delta = 0
      BY <1>2, <1>6, <2>1
    <2>2. CASE delta # 0
      BY <1>2, <1>3, <1>6, <2>2
    <2> QED
      BY <2>1, <2>2
  <1> QED
    BY <1>1, <1>3, <1>6, <1>9, <1>10 DEF D, h

\* The movement a transaction applies, and the row it writes.
Applying(t, m, row) ==
    /\ txn[t].next \in 1..Len(txn[t].program) /\ m = txn[t].program[txn[t].next]
    /\ m \in Own(job[t].order) /\ m.key \in Keys
    /\ Working(t) /\ job[t].order \in Docs
    /\ lock[m.key] \in {t, NoTxn}
    /\ live[m.key] \in Rows /\ row \in RowsAfter(m, live[m.key])
    /\ live' = [live EXCEPT ![m.key] = row] /\ lock' = [lock EXCEPT ![m.key] = t]
    /\ committed' = committed
    /\ txn' = [txn EXCEPT ![t].next = @ + 1, ![t].checked = FALSE]
    /\ UNCHANGED orderVars

\* It is one of its order.
LEMMA ApplyMovementIs ==
    ASSUME OrderInvariant, NEW t \in Txns, ApplyMovement(t), UNCHANGED orderVars
    PROVE  \E m, row : Applying(t, m, row)
  <1> USE DEF OrderInvariant, LedgerInvariant
  <1> DEFINE p == txn[t].program
             n == txn[t].next
             m == p[n]
  <1>1. p \in Seq(Movements) /\ n \in Nat \ {0} /\ n <= Len(p) /\ Running(t)
    BY DEF TypeOK, ApplyMovement, Unfinished
  <1>2. n \in 1..Len(p)
    BY <1>1
  <1>3. Working(t) /\ job[t].order \in Docs
    BY <1>1, JobTyped DEF Apart
  <1>4. p \in Seq(Own(job[t].order))
    BY <1>3 DEF OwnMoves
  <1>5. m \in Own(job[t].order)
    <2> HIDE DEF p, n
    <2> QED
      BY <1>2, <1>4
  <1>6. m \in Movements /\ m.key \in Keys
    BY <1>5 DEF Own, Movements
  <1>7. m = Current(t)
    BY DEF Current
  <1>8. PICK row \in RowsAfter(m, live[m.key]) : live' = [live EXCEPT ![m.key] = row]
    BY <1>7 DEF ApplyMovement
  <1>9. /\ lock[m.key] \in {t, NoTxn} /\ lock' = [lock EXCEPT ![m.key] = t]
        /\ committed' = committed
        /\ txn' = [txn EXCEPT ![t].next = @ + 1, ![t].checked = FALSE]
    BY <1>7 DEF ApplyMovement, OwnsOrFree
  <1>10. live[m.key] \in Rows
    BY <1>6 DEF TypeOK
  <1> HIDE DEF m
  <1>11. Applying(t, m, row)
    BY <1>2, <1>3, <1>5, <1>6, <1>8, <1>9, <1>10 DEF Applying, m, n, p
  <1> QED
    BY <1>11

\* What its order has reserved after it.
LEMMA AppliedVisible ==
    ASSUME OrderInvariant, NEW t \in Txns, NEW m, NEW row, Applying(t, m, row), NEW k \in Keys
    PROVE  LET w == job[t].order
               p == txn[t].program
               n == txn[t].next
           IN  /\ Visible(t, k)'.held[w] = Visible(t, k).held[w] + ChangeOf(m, k)
               /\ Visible(t, k).held[w] \in Int /\ ChangeOf(m, k) \in Int
               /\ ReleaseOf(m, k) = (IF ChangeOf(m, k) < 0 THEN -ChangeOf(m, k) ELSE 0)
               /\ p \in Seq(Movements) /\ n \in 1..Len(p)
               /\ ToRelease(p, n, k) = ReleaseOf(m, k) + ToRelease(p, n + 1, k)
               /\ ToReserve(p, n, k) = ChangeOf(m, k) + ToReserve(p, n + 1, k)
               /\ ToRelease(p, n + 1, k) \in Nat /\ ToReserve(p, n + 1, k) \in Int
  <1> USE DEF OrderInvariant, LedgerInvariant
  <1> DEFINE w == job[t].order
             p == txn[t].program
             n == txn[t].next
  <1>1. p \in Seq(Movements) /\ n \in 1..Len(p) /\ m = p[n]
    BY DEF TypeOK, Applying
  <1>2. m \in Movements /\ (ReservedDelta(m) # 0 => m.doc = w) /\ w \in Docs /\ m.key \in Keys
    BY DEF Applying, Own
  <1>3. /\ ToRelease(p, n, k) = ReleaseOf(m, k) + ToRelease(p, n + 1, k)
        /\ ToReserve(p, n, k) = ChangeOf(m, k) + ToReserve(p, n + 1, k)
        /\ ToRelease(p, n + 1, k) \in Nat /\ ToReserve(p, n + 1, k) \in Int
    <2> HIDE DEF p, n
    <2>1. n + 1 \in Nat \ {0}
      BY <1>1
    <2> QED
      BY <1>1, <2>1, TotalsStep, TotalsTyped
  <1>4. ReservedDelta(m) \in Int
    BY <1>2, DeltasTyped
  <1>5. /\ ChangeOf(m, k) \in Int
        /\ ReleaseOf(m, k) = (IF ChangeOf(m, k) < 0 THEN -ChangeOf(m, k) ELSE 0)
    BY <1>4 DEF ChangeOf, ReleaseOf
  <1>6. Visible(t, k).held[w] \in Int
    BY <1>2, RowNumbers DEF Visible
  <1>7. Visible(t, k)'.held[w] = Visible(t, k).held[w] + ChangeOf(m, k)
    <2>1. CASE k = m.key
      <3>1. Visible(t, k)' = row
        <4>1. live'[k] = row /\ lock'[k] = t
          BY <1>2, <2>1 DEF Applying, TypeOK
        <4> QED
          BY <4>1 DEF Visible
      <3>2. Visible(t, k) = live[k]
        BY <2>1 DEF Visible, Applying, Apart
      <3>3. row.held[w] = live[k].held[w] + ReservedDelta(m)
        <4>1. live[m.key] \in Rows /\ row \in RowsAfter(m, live[m.key])
          BY DEF Applying
        <4>2. row.held[w] = live[m.key].held[w] + ReservedDelta(m)
          BY <1>2, <4>1, AppliedRow
        <4> QED
          BY <2>1, <4>2
      <3>4. ChangeOf(m, k) = ReservedDelta(m)
        BY <2>1 DEF ChangeOf
      <3> QED
        BY <3>1, <3>2, <3>3, <3>4
    <2>2. CASE k # m.key
      <3>1. Visible(t, k)' = Visible(t, k)
        BY <2>2 DEF Visible, Applying, TypeOK
      <3>2. ChangeOf(m, k) = 0
        BY <2>2 DEF ChangeOf
      <3> QED
        BY <1>6, <3>1, <3>2
    <2> QED
      BY <2>1, <2>2
  <1> QED
    BY <1>1, <1>3, <1>5, <1>6, <1>7

\* What the others see does not change.
LEMMA AppliedAside ==
    ASSUME OrderInvariant, NEW t \in Txns, NEW m, NEW row, Applying(t, m, row)
    PROVE  /\ job' = job
           /\ txn'[t].program = txn[t].program /\ txn'[t].next = txn[t].next + 1
           /\ \A u \in Txns \ {t} :
                 txn'[u] = txn[u] /\ \A k \in Keys : Visible(u, k)' = Visible(u, k)
  <1> USE DEF OrderInvariant, LedgerInvariant
  <1>1. job' = job
    BY DEF Applying, orderVars
  <1>2. /\ txn'[t].program = txn[t].program /\ txn'[t].next = txn[t].next + 1
        /\ \A u \in Txns \ {t} : txn'[u] = txn[u]
    BY DEF Applying, TypeOK
  <1>3. ASSUME NEW u \in Txns \ {t}, NEW k \in Keys PROVE Visible(u, k)' = Visible(u, k)
    <2>1. u # NoTxn
      BY StockLedgerAssumption
    <2>2. lock'[k] = u <=> lock[k] = u
      BY <2>1 DEF Applying, TypeOK
    <2>3. lock[k] = u => live'[k] = live[k]
      BY <2>1 DEF Applying, TypeOK
    <2>4. committed' = committed
      BY DEF Applying
    <2> QED
      BY <2>2, <2>3, <2>4 DEF Visible
  <1> QED
    BY <1>1, <1>2, <1>3

\* A movement under the row lock: this is where the releases must be covered.
LEMMA ApplyKeepsOrderly ==
    ASSUME OrderInvariant, NEW t \in Txns, ApplyMovement(t), UNCHANGED orderVars
    PROVE  Orderly'
  <1> USE DEF OrderInvariant, LedgerInvariant
  <1>1. PICK m, row : Applying(t, m, row)
    BY ApplyMovementIs
  <1> DEFINE w == job[t].order
  <1>2. /\ m \in Movements /\ (ReservedDelta(m) # 0 => m.doc = w) /\ m.key \in Keys
        /\ Working(t) /\ w \in Docs /\ lock[m.key] \in {t, NoTxn} /\ live[m.key] \in Rows
        /\ row \in RowsAfter(m, live[m.key])
    BY <1>1 DEF Applying, Own
  <1>3. /\ live'[m.key] = row /\ lock'[m.key] = t /\ committed' = committed
        /\ \A k \in Keys \ {m.key} : live'[k] = live[k] /\ lock'[k] = lock[k]
    BY <1>1, <1>2 DEF Applying, TypeOK
  <1>4. /\ row.held \in [Docs \cup {NoDoc} -> Int]
        /\ row.reserved = live[m.key].reserved + ReservedDelta(m)
        /\ row.held[w] = live[m.key].held[w] + ReservedDelta(m)
        /\ \A d \in Docs \cup {NoDoc} : d # w => row.held[d] = live[m.key].held[d]
        /\ SumFunction(row.held) = SumFunction(live[m.key].held) + ReservedDelta(m)
    BY <1>2, AppliedRow
  <1>5. /\ job' = job
        /\ txn'[t].program = txn[t].program /\ txn'[t].next = txn[t].next + 1
        /\ \A u \in Txns \ {t} :
              txn'[u] = txn[u] /\ \A k \in Keys : Visible(u, k)' = Visible(u, k)
    BY <1>1, AppliedAside
  <1> HIDE DEF w
  <1>6. Apart'
    <2>1. \A u \in Txns : Running(u)' => Working(u)'
      <3> SUFFICES ASSUME NEW u \in Txns, Running(u)' PROVE Working(u)'
        OBVIOUS
      <3>1. txn'[u].program = txn[u].program
        BY <1>5
      <3> QED
        BY <1>5, <3>1 DEF Apart, Running, Working
    <2>2. \A u, v \in Txns : (Working(u) /\ Working(v) /\ job[u].order = job[v].order)' => u = v
      BY <1>5 DEF Apart, Working
    <2>3. \A k \in Keys : lock'[k] = NoTxn => live'[k] = committed'[k]
      BY <1>3, StockLedgerAssumption DEF Apart
    <2>4. \A k \in Keys, u \in Txns : lock'[k] = u =>
             /\ Working(u)'
             /\ \A d \in Docs \cup {NoDoc} :
                   d # job'[u].order => live'[k].held[d] = committed'[k].held[d]
      <3> SUFFICES ASSUME NEW k \in Keys, NEW u \in Txns, lock'[k] = u
                   PROVE  /\ Working(u)'
                          /\ \A d \in Docs \cup {NoDoc} :
                                d # job'[u].order => live'[k].held[d] = committed'[k].held[d]
        OBVIOUS
      <3>1. CASE k # m.key
        BY <1>3, <1>5, <3>1 DEF Apart, Working
      <3>2. CASE k = m.key
        <4>1. u = t /\ live'[k] = row
          BY <1>3, <3>2
        <4>2. \A d \in Docs \cup {NoDoc} : d # w => live[k].held[d] = committed[k].held[d]
          BY <1>2, <3>2 DEF Apart, w
        <4> QED
          BY <1>2, <1>3, <1>4, <1>5, <3>2, <4>1, <4>2 DEF Working, w
      <3> QED
        BY <3>1, <3>2
    <2> QED
      BY <2>1, <2>2, <2>3, <2>4 DEF Apart
  <1>7. OwnMoves'
    <2> SUFFICES ASSUME NEW u \in Txns, Working(u)'
                 PROVE  txn'[u].program \in Seq(Own(job'[u].order))
      BY DEF OwnMoves
    <2>1. txn'[u].program = txn[u].program /\ Working(u)
      BY <1>5 DEF Working
    <2> QED
      BY <1>5, <2>1 DEF OwnMoves
  <1>8. ReleasesCovered'
    <2> SUFFICES ASSUME NEW u \in Txns, NEW k \in Keys, Working(u)'
                 PROVE  ToRelease(txn'[u].program, txn'[u].next, k)
                            <= Visible(u, k)'.held[job'[u].order]
      BY DEF ReleasesCovered
    <2>1. Working(u) /\ job'[u] = job[u]
      BY <1>5 DEF Working
    <2>2. ToRelease(txn[u].program, txn[u].next, k) <= Visible(u, k).held[job[u].order]
      BY <2>1 DEF ReleasesCovered
    <2>3. CASE u # t
      BY <1>5, <2>1, <2>2, <2>3
    <2>4. CASE u = t
      <3>1. /\ Visible(t, k)'.held[w] = Visible(t, k).held[w] + ChangeOf(m, k)
            /\ Visible(t, k).held[w] \in Int /\ ChangeOf(m, k) \in Int
            /\ ReleaseOf(m, k) = (IF ChangeOf(m, k) < 0 THEN -ChangeOf(m, k) ELSE 0)
            /\ ToRelease(txn[t].program, txn[t].next, k) =
                  ReleaseOf(m, k) + ToRelease(txn[t].program, txn[t].next + 1, k)
            /\ ToRelease(txn[t].program, txn[t].next + 1, k) \in Nat
        BY <1>1, AppliedVisible DEF w
      <3>2. ToRelease(txn[t].program, txn[t].next + 1, k) <= Visible(t, k)'.held[w]
        BY <2>2, <2>4, <3>1 DEF w
      <3> QED
        BY <1>5, <2>4, <3>2 DEF w
    <2> QED
      BY <2>3, <2>4
  <1>9. RowsOwned'
    <2>1. RowOwned(row)
      <3>1. RowOwned(live[m.key])
        BY <1>2 DEF RowsOwned
      <3>2. row.held[w] >= 0
        <4> DEFINE k == m.key
        <4>1. /\ ChangeOf(m, k) \in Int
              /\ ReleaseOf(m, k) = (IF ChangeOf(m, k) < 0 THEN -ChangeOf(m, k) ELSE 0)
              /\ ToRelease(txn[t].program, txn[t].next, k) =
                    ReleaseOf(m, k) + ToRelease(txn[t].program, txn[t].next + 1, k)
              /\ ToRelease(txn[t].program, txn[t].next + 1, k) \in Nat
          BY <1>1, <1>2, AppliedVisible
        <4>2. Visible(t, k) = live[k]
          BY <1>2 DEF Visible, Apart
        <4>3. ToRelease(txn[t].program, txn[t].next, k) <= live[k].held[w]
          BY <1>2, <4>2 DEF ReleasesCovered, w
        <4>4. ChangeOf(m, k) = ReservedDelta(m)
          BY DEF ChangeOf
        <4>5. live[k].held[w] \in Int /\ live[k].held[w] >= 0
          BY <1>2, <3>1, RowNumbers DEF RowOwned
        <4> HIDE DEF k
        <4>6. live[k].held[w] + ChangeOf(m, k) >= 0
          BY <4>1, <4>3, <4>5
        <4> QED
          BY <1>4, <4>4, <4>6 DEF k
      <3>3. \A d \in Docs \cup {NoDoc} : row.held[d] >= 0
        BY <1>4, <3>1, <3>2 DEF RowOwned
      <3>4. SumFunction(row.held) = row.reserved
        BY <1>4, <3>1 DEF RowOwned
      <3> QED
        BY <3>3, <3>4 DEF RowOwned
    <2> SUFFICES ASSUME NEW k \in Keys PROVE RowOwned(live'[k]) /\ RowOwned(committed'[k])
      BY DEF RowsOwned, RowOwned
    <2>2. RowOwned(live[k]) /\ RowOwned(committed[k])
      BY DEF RowsOwned
    <2> QED
      BY <1>3, <2>1, <2>2
  <1> QED
    BY <1>6, <1>7, <1>8, <1>9 DEF Orderly

\* A list with a movement at its end, read from a place behind the list.
LEMMA TailTotals ==
    ASSUME NEW p \in Seq(Movements), NEW r \in Movements, NEW n \in Nat, n > Len(p), NEW k
    PROVE  /\ ToRelease(p \o <<r>>, n, k) <= ReleaseOf(r, k)
           /\ ToReserve(p \o <<r>>, n, k) = ChangeOf(r, k) \/ ToReserve(p \o <<r>>, n, k) = 0
           /\ ReleaseOf(r, k) \in Nat /\ ToRelease(p \o <<r>>, n, k) \in Nat
  <1> DEFINE q == p \o <<r>>
             l == Len(p)
  <1>1. q \in Seq(Movements) /\ l \in Nat /\ Len(q) = l + 1 /\ q[l + 1] = r
    OBVIOUS
  <1>2. ReleaseOf(r, k) \in Nat /\ ChangeOf(r, k) \in Int
    BY DeltasTyped DEF ReleaseOf, ChangeOf
  <1> HIDE DEF q
  <1>3. CASE n > l + 1
    <2>1. ToRelease(q, n, k) = 0 /\ ToReserve(q, n, k) = 0
      BY <1>1, <1>3, NothingLeft
    <2> QED
      BY <1>2, <2>1 DEF q
  <1>4. CASE n = l + 1
    <2>1. n \in 1..Len(q) /\ n + 1 \in Nat /\ n + 1 > Len(q)
      BY <1>1, <1>4
    <2>2. ToRelease(q, n + 1, k) = 0 /\ ToReserve(q, n + 1, k) = 0
      BY <1>1, <2>1, NothingLeft
    <2>3. /\ ToRelease(q, n, k) = ReleaseOf(q[n], k) + ToRelease(q, n + 1, k)
          /\ ToReserve(q, n, k) = ChangeOf(q[n], k) + ToReserve(q, n + 1, k)
      BY <1>1, <2>1, TotalsStep
    <2>4. ToRelease(q, n, k) = ReleaseOf(r, k) /\ ToReserve(q, n, k) = ChangeOf(r, k)
      BY <1>1, <1>2, <1>4, <2>2, <2>3
    <2> QED
      BY <1>2, <2>4 DEF q
  <1> QED
    BY <1>1, <1>3, <1>4

\* What is left to do of a receipt after its goods are shared.
LEMMA SharedTotals ==
    ASSUME OrderInvariant, NEW t \in Txns, AllocateReceived(t)
    PROVE  LET w == job[t].order
               q == txn'[t].program
               n == txn'[t].next
           IN  /\ q \in Seq(Own(w)) /\ q # <<>> /\ w \in Docs /\ Working(t)
               /\ \A k \in Keys :
                     /\ ToRelease(q, n, k) = 0
                     /\ ToReserve(q, n, k) = 0
                        \/ (ToReserve(q, n, k) = Shared(t) /\ k = job[t].key /\ Shared(t) > 0
                            /\ status[w] \in ProcurementActive)
  <1> USE DEF OrderInvariant, LedgerInvariant
  <1> DEFINE w == job[t].order
             p == txn[t].program
             q == txn'[t].program
             n == txn[t].next
             x == job[t].key
             m == Shared(t)
             r == Movement("RESERVATION", x, m, w, NoLine)
  <1>1. w \in Docs /\ x \in Keys /\ m \in Int
    BY SharedTyped
  <1>2. Working(t) /\ p \in Seq(Own(w)) /\ p \in Seq(Movements) /\ n \in Nat
    <2>1. Running(t)
      BY DEF AllocateReceived
    <2>2. Working(t)
      BY <2>1 DEF Apart
    <2> QED
      BY <2>2 DEF OwnMoves, TypeOK
  <1>3. n > Len(p)
    <2>1. ~(n <= Len(p))
      BY DEF AllocateReceived, Unfinished
    <2>2. Len(p) \in Nat
      BY <1>2
    <2> HIDE DEF n, p
    <2> QED
      BY <1>2, <2>1, <2>2
  <1>4. txn'[t].next = n
    <2>1. txn' = [txn EXCEPT ![t].program = q]
      BY SharedProgram
    <2> HIDE DEF q
    <2> QED
      BY <2>1 DEF TypeOK
  <1>5. (q = p \/ (m > 0 /\ status[w] \in ProcurementActive /\ q = p \o <<r>>)) /\ q # <<>>
    BY SharedProgram
  <1>6. r \in Movements /\ r.key = x /\ ReservedDelta(r) = m /\ r.doc = w
    BY <1>1 DEF Movement, Movements, MovementTypes, InflowOnly, ReservedDelta
  <1>7. r \in Own(w)
    BY <1>6 DEF Own
  <1> HIDE DEF r, p, q, n, w, x, m
  <1>8. CASE q = p
    <2>1. \A k \in Keys : ToRelease(p, n, k) = 0 /\ ToReserve(p, n, k) = 0
      BY <1>2, <1>3, NothingLeft
    <2> QED
      BY <1>1, <1>2, <1>4, <1>5, <1>8, <2>1 DEF w, q
  <1>9. CASE m > 0 /\ status[w] \in ProcurementActive /\ q = p \o <<r>>
    <2>1. q \in Seq(Own(w))
      BY <1>2, <1>7, <1>9
    <2>2. ASSUME NEW k \in Keys
          PROVE  /\ ToRelease(q, n, k) = 0
                 /\ ToReserve(q, n, k) = 0 \/ (ToReserve(q, n, k) = m /\ k = x)
      <3>1. /\ ToRelease(p \o <<r>>, n, k) <= ReleaseOf(r, k) /\ ToRelease(p \o <<r>>, n, k) \in Nat
            /\ ToReserve(p \o <<r>>, n, k) = ChangeOf(r, k) \/ ToReserve(p \o <<r>>, n, k) = 0
        BY <1>2, <1>3, <1>6, TailTotals
      <3>2. ReleaseOf(r, k) = 0 /\ ChangeOf(r, k) = (IF k = x THEN m ELSE 0)
        BY <1>1, <1>6, <1>9 DEF ReleaseOf, ChangeOf
      <3> QED
        BY <1>9, <3>1, <3>2
    <2> QED
      BY <1>1, <1>2, <1>4, <1>5, <1>9, <2>1, <2>2 DEF w, q, x, m
  <1> QED
    BY <1>5, <1>8, <1>9

\* Sharing the goods of a receipt.
LEMMA AllocateKeepsOrderly ==
    ASSUME OrderInvariant, NEW t \in Txns, AllocateReceived(t)
    PROVE  Orderly'
  <1> USE DEF OrderInvariant, LedgerInvariant
  <1> DEFINE w == job[t].order
             q == txn'[t].program
             n == txn'[t].next
  <1>1. /\ q \in Seq(Own(w)) /\ q # <<>> /\ w \in Docs /\ Working(t)
        /\ \A k \in Keys : ToRelease(q, n, k) = 0
    BY SharedTotals
  <1>2. /\ live' = live /\ committed' = committed /\ lock' = lock
        /\ job' = [job EXCEPT ![t].allocated = TRUE]
    BY DEF AllocateReceived
  <1>3. txn' = [txn EXCEPT ![t].program = q]
    BY SharedProgram
  <1>4. \A u \in Txns \ {t} : txn'[u] = txn[u] /\ job'[u] = job[u]
    BY <1>2, <1>3 DEF TypeOK, OrderTyped
  <1>5. job'[t].order = w /\ Working(t)'
    <2>1. job[t] \in [kind : {"receipt"}, order : Docs, key : Keys, quantity : Nat,
                      allocated : BOOLEAN]
      BY SharedTyped
    <2>2. job'[t] = [job[t] EXCEPT !.allocated = TRUE]
      BY <1>2 DEF OrderTyped
    <2>3. job'[t].order = w /\ job'[t].kind = "receipt"
      BY <2>1, <2>2
    <2> QED
      BY <2>3 DEF Working, NoJob
  <1> HIDE DEF w, q, n
  <1>6. \A u \in Txns : Working(u)' => Working(u) /\ job'[u].order = job[u].order
    <2> SUFFICES ASSUME NEW u \in Txns, Working(u)'
                 PROVE  Working(u) /\ job'[u].order = job[u].order
      OBVIOUS
    <2>1. CASE u = t
      BY <1>1, <1>5, <2>1 DEF w
    <2>2. CASE u # t
      BY <1>4, <2>2 DEF Working
    <2> QED
      BY <2>1, <2>2
  <1>7. Apart'
    <2>1. \A u \in Txns : Running(u)' => Working(u)'
      BY <1>4, <1>5 DEF Apart, Running, Working
    <2>2. \A u, v \in Txns : (Working(u) /\ Working(v) /\ job[u].order = job[v].order)' => u = v
      BY <1>6 DEF Apart
    <2>3. \A k \in Keys : lock'[k] = NoTxn => live'[k] = committed'[k]
      BY <1>2 DEF Apart
    <2>4. \A k \in Keys, u \in Txns : lock'[k] = u =>
             /\ Working(u)'
             /\ \A d \in Docs \cup {NoDoc} :
                   d # job'[u].order => live'[k].held[d] = committed'[k].held[d]
      <3> SUFFICES ASSUME NEW k \in Keys, NEW u \in Txns, lock'[k] = u
                   PROVE  /\ Working(u)'
                          /\ \A d \in Docs \cup {NoDoc} :
                                d # job'[u].order => live'[k].held[d] = committed'[k].held[d]
        OBVIOUS
      <3>1. Working(u) /\ \A d \in Docs \cup {NoDoc} :
               d # job[u].order => live[k].held[d] = committed[k].held[d]
        BY <1>2 DEF Apart
      <3>2. Working(u)'
        BY <1>4, <1>5, <3>1 DEF Working
      <3> QED
        BY <1>2, <1>6, <3>1, <3>2
    <2> QED
      BY <2>1, <2>2, <2>3, <2>4 DEF Apart
  <1>8. OwnMoves'
    <2> SUFFICES ASSUME NEW u \in Txns, Working(u)'
                 PROVE  txn'[u].program \in Seq(Own(job'[u].order))
      BY DEF OwnMoves
    <2>1. CASE u = t
      BY <1>1, <1>5, <2>1 DEF q
    <2>2. CASE u # t
      BY <1>4, <1>6, <2>2 DEF OwnMoves
    <2> QED
      BY <2>1, <2>2
  <1>9. ReleasesCovered'
    <2> SUFFICES ASSUME NEW u \in Txns, NEW k \in Keys, Working(u)'
                 PROVE  ToRelease(txn'[u].program, txn'[u].next, k)
                            <= Visible(u, k)'.held[job'[u].order]
      BY DEF ReleasesCovered
    <2>1. Visible(u, k)' = Visible(u, k)
      BY <1>2 DEF Visible
    <2>2. CASE u = t
      <3>1. ToRelease(txn'[u].program, txn'[u].next, k) = 0
        BY <1>1, <2>2 DEF q, n
      <3>2. Visible(t, k).held[w] >= 0
        BY <1>1 DEF Visible, RowsOwned, RowOwned
      <3> QED
        BY <1>5, <2>1, <2>2, <3>1, <3>2
    <2>3. CASE u # t
      BY <1>4, <1>6, <2>1, <2>3 DEF ReleasesCovered
    <2> QED
      BY <2>2, <2>3
  <1>10. RowsOwned'
    BY <1>2 DEF RowsOwned, RowOwned
  <1> QED
    BY <1>7, <1>8, <1>9, <1>10 DEF Orderly

\* At the start nobody works and nothing is reserved.
LEMMA OrderInitEstablishes == OrderInit => OrderInvariant
  <1> SUFFICES ASSUME OrderInit PROVE OrderInvariant
    OBVIOUS
  <1> USE DEF OrderInit
  <1>1. LedgerInvariant
    BY InitEstablishes
  <1>2. OrderTyped
    <2>1. NoJob \in Jobs
      BY DEF Jobs
    <2>2. "APPROVED" \in Statuses
      BY DEF Statuses, Transitions
    <2>3. InitialParts \in [Lines -> Nat]
      BY WorkOrderStockAssumption
    <2> QED
      BY <2>1, <2>2, <2>3 DEF OrderTyped
  <1>3. Apart
    BY StockLedgerAssumption DEF Init, Apart, Running, Working, Idle
  <1>4. OwnMoves /\ ReleasesCovered
    BY DEF OwnMoves, ReleasesCovered, Working
  <1>5. RowsOwned
    <2> DEFINE D == Docs \cup {NoDoc}
               h == [d \in D |-> 0]
    <2>1. IsFiniteSet(D)
      BY StockLedgerAssumption, FS_AddElement
    <2>2. h \in [D -> Int] /\ \A d \in D : h[d] = 0
      OBVIOUS
    <2>3. InitialRow.held = h /\ InitialRow.reserved = 0
      BY DEF InitialRow
    <2>4. RowOwned(InitialRow)
      <3> HIDE DEF D, h
      <3>1. SumFunction(h) = 0
        BY <2>1, <2>2, FunctionZero
      <3> QED
        BY <2>2, <2>3, <3>1 DEF RowOwned, D
    <2> QED
      BY <2>4 DEF Init, RowsOwned
  <1> QED
    BY <1>1, <1>2, <1>3, <1>4, <1>5 DEF OrderInvariant

\* Every step keeps the invariant.
LEMMA OrderNextKeeps == OrderInvariant /\ [OrderNext]_allVars => OrderInvariant'
  <1> SUFFICES ASSUME OrderInvariant, [OrderNext]_allVars PROVE OrderInvariant'
    OBVIOUS
  <1>1. ASSUME NEW t \in Txns, NEW w, NEW p, NEW j, Opening(t, w, p, j) PROVE Orderly'
    BY <1>1, OpeningKeepsOrderly
  <1>2. ASSUME OrdersOnly PROVE Orderly'
    <2>1. UNCHANGED <<live, committed, lock, job>>
      BY <1>2 DEF OrdersOnly
    <2>2. \A t \in Txns : txn'[t].program = txn[t].program /\ txn'[t].next = txn[t].next
      BY <1>2 DEF OrdersOnly
    <2> QED
      BY <2>1, <2>2, QuietKeepsOrderly
  <1>3. ASSUME NEW t \in Txns, CheckMovement(t), UNCHANGED orderVars PROVE Orderly'
    <2>1. UNCHANGED <<live, committed, lock, job>>
      BY <1>3 DEF CheckMovement, orderVars
    <2>2. \A u \in Txns : txn'[u].program = txn[u].program /\ txn'[u].next = txn[u].next
      BY <1>3 DEF CheckMovement, OrderInvariant, LedgerInvariant, TypeOK
    <2> QED
      BY <2>1, <2>2, QuietKeepsOrderly
  <1>4. ASSUME NEW t \in Txns, ApplyMovement(t), UNCHANGED orderVars PROVE Orderly'
    BY <1>4, ApplyKeepsOrderly
  <1>5. ASSUME NEW t \in Txns, Rollback(t), EndJob(t) PROVE Orderly'
    BY <1>5, RollbackKeepsOrderly
  <1>6. ASSUME NEW t \in Txns, AllocateReceived(t) PROVE Orderly'
    BY <1>6, AllocateKeepsOrderly
  <1>7. ASSUME NEW t \in Txns, CommitJob(t) PROVE Orderly'
    BY <1>7, CommitKeepsOrderly
  <1>8. Orderly'
    <2>1. \/ OrdersOnly
          \/ \E t \in Txns : \/ \E w \in Docs : \E p, j : Opening(t, w, p, j)
                             \/ CheckMovement(t) /\ UNCHANGED orderVars
                             \/ ApplyMovement(t) /\ UNCHANGED orderVars
                             \/ Rollback(t) /\ EndJob(t)
                             \/ AllocateReceived(t)
                             \/ CommitJob(t)
      BY OrderSteps
    <2> QED
      BY <1>1, <1>2, <1>3, <1>4, <1>5, <1>6, <1>7, <2>1
  <1> QED
    BY <1>8, LedgerKept, OrderTypedKept DEF OrderInvariant, Orderly

\* The invariant of the orders holds in every state.
THEOREM OrderInvariantHolds == OrderSpec => []OrderInvariant
  BY OrderInitEstablishes, OrderNextKeeps, PTL DEF OrderSpec

\* Whatever transitions, edits, receipts and releases interleave, the reservation of
\* every stock row is what the orders hold of it, and no order holds less than nothing
\* (Bug #780, BR-INVT-018).
THEOREM ReservationsAlwaysOwned == OrderSpec => []ReservationsOwned
  <1>1. OrderInvariant => ReservationsOwned
    BY DEF OrderInvariant, RowsOwned, RowOwned, ReservationsOwned
  <1> QED
    BY <1>1, OrderInvariantHolds, PTL

---------------------------------------------
(* No order holds more than it needs. *)

NeedKept == JobsMatch /\ EndsWithinNeed /\ HeldWithinNeed

\* An entry for a transaction that works.
LEMMA WorkingTyped ==
    ASSUME OrderInvariant, NEW t \in Txns, Working(t), NEW k \in Keys
    PROVE  /\ job[t].order \in Docs /\ job[t] \in Jobs
           /\ txn[t].program \in Seq(Movements) /\ txn[t].next \in Nat \ {0}
           /\ Visible(t, k).held[job[t].order] \in Int
           /\ ToReserve(txn[t].program, txn[t].next, k) \in Int
  <1>1. job[t].order \in Docs /\ job[t] \in Jobs
    BY JobTyped DEF OrderInvariant
  <1>2. txn[t].program \in Seq(Movements) /\ txn[t].next \in Nat \ {0}
    BY DEF OrderInvariant, LedgerInvariant, TypeOK
  <1>3. Visible(t, k).held[job[t].order] \in Int
    BY <1>1, RowNumbers DEF OrderInvariant, LedgerInvariant, Visible
  <1> QED
    BY <1>1, <1>2, <1>3, TotalsTyped

\* A request starts from what the order holds and needs.
LEMMA OpeningKeepsNeed ==
    ASSUME NeedInvariant, NEW t \in Txns, NEW w, NEW p, NEW j, Opening(t, w, p, j)
    PROVE  NeedKept'
  <1> USE DEF NeedInvariant, OrderInvariant, LedgerInvariant
  <1>1. /\ EndsWithin(w, p, j) /\ j # NoJob /\ j.order = w
        /\ (j.kind = "edit" => w = PartOwner[j.part])
        /\ (j.kind = "receipt" => \A i \in 1..Len(p) : ReservedDelta(p[i]) = 0)
        /\ job[t] = NoJob
        /\ live' = live /\ committed' = committed /\ lock' = lock
        /\ status' = status /\ part' = part
    BY DEF Opening, Open
  <1>2. /\ txn'[t] = [program |-> p, next |-> 1, checked |-> FALSE] /\ job'[t] = j
        /\ \A u \in Txns \ {t} : txn'[u] = txn[u] /\ job'[u] = job[u]
    BY DEF TypeOK, OrderTyped, Opening, Open
  <1>3. \A k \in Keys : Visible(t, k) = committed[k]
    BY <1>1 DEF Apart, Working, Visible
  <1>4. /\ \A u \in Txns, k \in Keys : Visible(u, k)' = Visible(u, k)
        /\ \A u \in Txns, k \in Keys : job'[u] = job[u] =>
              /\ Net(job[u].order, k)' = Net(job[u].order, k)
              /\ EndGoal(job[u].order, job[u], k)' = EndGoal(job[u].order, job[u], k)
    BY <1>1 DEF Visible, Net, EndGoal
  <1>5. JobsMatch'
    <2> SUFFICES ASSUME NEW u \in Txns
                 PROVE  /\ job'[u].kind = "edit" => job'[u].order = PartOwner[job'[u].part]
                        /\ job'[u].kind = "receipt" /\ ~job'[u].allocated =>
                              /\ \A k \in Keys :
                                    Visible(u, k)'.held[job'[u].order] = Net(job[u].order, k)'
                              /\ \A i \in 1..Len(txn'[u].program) :
                                    ReservedDelta(txn'[u].program[i]) = 0
      BY DEF JobsMatch
    <2>1. CASE u = t
      BY <1>1, <1>2, <1>3, <1>4, <2>1 DEF Net
    <2>2. CASE u # t
      BY <1>2, <1>4, <2>2 DEF JobsMatch
    <2> QED
      BY <2>1, <2>2
  <1>6. EndsWithinNeed'
    <2> SUFFICES ASSUME NEW u \in Txns, NEW k \in Keys, Working(u)'
                 PROVE  Visible(u, k)'.held[job'[u].order]
                            + ToReserve(txn'[u].program, txn'[u].next, k)
                            <= EndGoal(job[u].order, job[u], k)'
      BY DEF EndsWithinNeed
    <2>1. CASE u = t
      <3>1. Net(w, k) + Changed(p, k) <= EndGoal(w, j, k)
        BY <1>1 DEF EndsWithin
      <3>2. EndGoal(job[t].order, job[t], k)' = EndGoal(w, j, k)
        BY <1>1, <1>2 DEF EndGoal
      <3>3. Visible(u, k)'.held[job'[u].order] = Net(w, k)
        BY <1>1, <1>2, <1>3, <1>4, <2>1 DEF Net
      <3>4. ToReserve(txn'[u].program, txn'[u].next, k) = Changed(p, k)
        BY <1>2, <2>1 DEF Changed
      <3> QED
        BY <2>1, <3>1, <3>2, <3>3, <3>4
    <2>2. CASE u # t
      <3>1. Working(u)
        BY <1>2, <2>2 DEF Working
      <3>2. EndGoal(job[u].order, job[u], k)' = EndGoal(job[u].order, job[u], k)
        BY <1>2, <1>4, <2>2
      <3> QED
        BY <1>2, <1>4, <2>2, <3>1, <3>2 DEF EndsWithinNeed
    <2> QED
      BY <2>1, <2>2
  <1>7. HeldWithinNeed'
    BY <1>1 DEF HeldWithinNeed, Net
  <1> QED
    BY <1>5, <1>6, <1>7 DEF NeedKept

\* A step that changes no row, no job, and no order.
LEMMA QuietKeepsNeed ==
    ASSUME NeedInvariant, UNCHANGED <<live, committed, lock, job, status, part>>,
           \A t \in Txns : txn'[t].program = txn[t].program /\ txn'[t].next = txn[t].next
    PROVE  NeedKept'
  <1> USE DEF NeedInvariant
  <1>1. JobsMatch'
    BY DEF JobsMatch, Visible, Net
  <1>2. EndsWithinNeed'
    BY DEF EndsWithinNeed, Visible, Working, EndGoal
  <1>3. HeldWithinNeed'
    BY DEF HeldWithinNeed, Net
  <1> QED
    BY <1>1, <1>2, <1>3 DEF NeedKept

\* A movement moves what is left to do into the row.
LEMMA ApplyKeepsNeed ==
    ASSUME NeedInvariant, NEW t \in Txns, ApplyMovement(t), UNCHANGED orderVars
    PROVE  NeedKept'
  <1> USE DEF NeedInvariant
  <1>1. PICK m, row : Applying(t, m, row)
    BY ApplyMovementIs
  <1>2. /\ job' = job
        /\ txn'[t].program = txn[t].program /\ txn'[t].next = txn[t].next + 1
        /\ \A u \in Txns \ {t} :
              txn'[u] = txn[u] /\ \A k \in Keys : Visible(u, k)' = Visible(u, k)
    BY <1>1, AppliedAside
  <1>3. /\ committed' = committed /\ status' = status /\ part' = part
        /\ m = txn[t].program[txn[t].next] /\ txn[t].next \in 1..Len(txn[t].program)
    BY <1>1 DEF Applying, orderVars
  <1>4. /\ \A u \in Txns, k \in Keys : job'[u] = job[u] =>
              /\ Net(job[u].order, k)' = Net(job[u].order, k)
              /\ EndGoal(job[u].order, job[u], k)' = EndGoal(job[u].order, job[u], k)
    BY <1>3 DEF Net, EndGoal
  <1>5. \A k \in Keys :
           /\ Visible(t, k)'.held[job[t].order] = Visible(t, k).held[job[t].order] + ChangeOf(m, k)
           /\ Visible(t, k).held[job[t].order] \in Int /\ ChangeOf(m, k) \in Int
           /\ ToReserve(txn[t].program, txn[t].next, k) =
                 ChangeOf(m, k) + ToReserve(txn[t].program, txn[t].next + 1, k)
           /\ ToReserve(txn[t].program, txn[t].next + 1, k) \in Int
    BY <1>1, AppliedVisible
  <1>6. JobsMatch'
    <2> SUFFICES ASSUME NEW u \in Txns
                 PROVE  /\ job'[u].kind = "edit" => job'[u].order = PartOwner[job'[u].part]
                        /\ job'[u].kind = "receipt" /\ ~job'[u].allocated =>
                              /\ \A k \in Keys :
                                    Visible(u, k)'.held[job'[u].order] = Net(job[u].order, k)'
                              /\ \A i \in 1..Len(txn'[u].program) :
                                    ReservedDelta(txn'[u].program[i]) = 0
      BY DEF JobsMatch
    <2>1. CASE u # t
      BY <1>2, <1>4, <2>1 DEF JobsMatch
    <2>2. CASE u = t
      <3>1. job[t].kind = "receipt" /\ ~job[t].allocated => \A k \in Keys : ChangeOf(m, k) = 0
        BY <1>3 DEF JobsMatch, ChangeOf
      <3> QED
        BY <1>2, <1>4, <1>5, <2>2, <3>1 DEF JobsMatch
    <2> QED
      BY <2>1, <2>2
  <1>7. EndsWithinNeed'
    <2> SUFFICES ASSUME NEW u \in Txns, NEW k \in Keys, Working(u)'
                 PROVE  Visible(u, k)'.held[job'[u].order]
                            + ToReserve(txn'[u].program, txn'[u].next, k)
                            <= EndGoal(job[u].order, job[u], k)'
      BY DEF EndsWithinNeed
    <2>1. Visible(u, k).held[job[u].order] + ToReserve(txn[u].program, txn[u].next, k)
              <= EndGoal(job[u].order, job[u], k)
      BY <1>2 DEF EndsWithinNeed, Working
    <2>2. Visible(u, k)'.held[job[u].order] + ToReserve(txn'[u].program, txn'[u].next, k)
              <= EndGoal(job[u].order, job[u], k)
      <3>1. CASE u # t
        BY <1>2, <2>1, <3>1
      <3>2. CASE u = t
        <4>1. Visible(t, k)'.held[job[t].order] + ToReserve(txn'[t].program, txn'[t].next, k)
                  = Visible(t, k).held[job[t].order] + ToReserve(txn[t].program, txn[t].next, k)
          BY <1>2, <1>5
        <4> QED
          BY <2>1, <3>2, <4>1
      <3> QED
        BY <3>1, <3>2
    <2> QED
      BY <1>2, <1>4, <2>2
  <1>8. HeldWithinNeed'
    BY <1>3 DEF HeldWithinNeed, Net
  <1> QED
    BY <1>6, <1>7, <1>8 DEF NeedKept

\* A transaction that gives up.
LEMMA RollbackKeepsNeed ==
    ASSUME NeedInvariant, NEW t \in Txns, Rollback(t), EndJob(t), UNCHANGED <<status, part>>
    PROVE  NeedKept'
  <1> USE DEF NeedInvariant, OrderInvariant, LedgerInvariant
  <1>1. /\ \A k \in Keys : /\ live'[k] = IF lock[k] = t THEN committed[k] ELSE live[k]
                           /\ lock'[k] = IF lock[k] = t THEN NoTxn ELSE lock[k]
        /\ committed' = committed
        /\ txn'[t] = Idle /\ job'[t] = NoJob
        /\ \A u \in Txns \ {t} : txn'[u] = txn[u] /\ job'[u] = job[u]
        /\ \A u \in Txns : u # NoTxn
    BY StockLedgerAssumption DEF Rollback, EndJob, TypeOK, OrderTyped
  <1>2. \A u \in Txns \ {t}, k \in Keys : Visible(u, k)' = Visible(u, k)
    BY <1>1 DEF Visible
  <1>3. /\ \A u \in Txns, k \in Keys : job'[u] = job[u] =>
              /\ Net(job[u].order, k)' = Net(job[u].order, k)
              /\ EndGoal(job[u].order, job[u], k)' = EndGoal(job[u].order, job[u], k)
    BY <1>1 DEF Net, EndGoal
  <1>4. job'[t].kind = "none"
    BY <1>1 DEF NoJob
  <1>5. JobsMatch'
    BY <1>1, <1>2, <1>3, <1>4 DEF JobsMatch
  <1>6. EndsWithinNeed'
    <2> SUFFICES ASSUME NEW u \in Txns, NEW k \in Keys, Working(u)'
                 PROVE  Visible(u, k)'.held[job'[u].order]
                            + ToReserve(txn'[u].program, txn'[u].next, k)
                            <= EndGoal(job[u].order, job[u], k)'
      BY DEF EndsWithinNeed
    <2>1. u # t /\ txn'[u] = txn[u] /\ job'[u] = job[u] /\ Working(u)
      BY <1>1 DEF Working
    <2> QED
      BY <1>2, <1>3, <2>1 DEF EndsWithinNeed
  <1>7. HeldWithinNeed'
    BY <1>1 DEF HeldWithinNeed, Net
  <1> QED
    BY <1>5, <1>6, <1>7 DEF NeedKept

\* Sharing the goods of a receipt reserves no more than the order still lacks, and nothing
\* for an order that is closed.
LEMMA AllocateKeepsNeed ==
    ASSUME NeedInvariant, NEW t \in Txns, AllocateReceived(t)
    PROVE  NeedKept'
  <1> USE DEF NeedInvariant, OrderInvariant, LedgerInvariant
  <1> DEFINE w == job[t].order
             x == job[t].key
             q == txn'[t].program
             n == txn'[t].next
  <1>1. /\ w \in Docs /\ Working(t)
        /\ \A k \in Keys : ToReserve(q, n, k) = 0
              \/ (ToReserve(q, n, k) = Shared(t) /\ k = x /\ Shared(t) > 0
                  /\ status[w] \in ProcurementActive)
    BY SharedTotals
  <1>2. /\ live' = live /\ committed' = committed /\ lock' = lock /\ status' = status /\ part' = part
        /\ job' = [job EXCEPT ![t].allocated = TRUE]
        /\ job[t].kind = "receipt" /\ ~job[t].allocated
    BY DEF AllocateReceived
  <1>3. txn' = [txn EXCEPT ![t].program = q]
    BY SharedProgram
  <1>4. \A u \in Txns \ {t} : txn'[u] = txn[u] /\ job'[u] = job[u]
    BY <1>2, <1>3 DEF TypeOK, OrderTyped
  <1>5. /\ job'[t].order = w /\ job'[t].kind = "receipt" /\ job'[t].allocated
        /\ Shared(t) \in Int /\ Net(w, x) \in Int /\ Required(w, part, x) \in Nat
        /\ x \in Keys /\ job[t].quantity \in Nat
    <2>1. /\ job[t] \in [kind : {"receipt"}, order : Docs, key : Keys, quantity : Nat,
                         allocated : BOOLEAN]
          /\ Shared(t) \in Int /\ Net(w, x) \in Int /\ Required(w, part, x) \in Nat
      BY SharedTyped
    <2>2. job'[t] = [job[t] EXCEPT !.allocated = TRUE]
      BY <1>2 DEF OrderTyped
    <2> HIDE DEF w, x
    <2>3. /\ job'[t].order = job[t].order /\ job'[t].kind = "receipt" /\ job'[t].allocated
          /\ job[t].key \in Keys /\ job[t].quantity \in Nat
      BY <2>1, <2>2
    <2> QED
      BY <2>1, <2>3 DEF w, x
  <1>6. /\ \A u \in Txns, k \in Keys : Visible(u, k)' = Visible(u, k)
        /\ \A u \in Txns, k \in Keys : job'[u] = job[u] =>
              /\ Net(job[u].order, k)' = Net(job[u].order, k)
              /\ EndGoal(job[u].order, job[u], k)' = EndGoal(job[u].order, job[u], k)
    BY <1>2 DEF Visible, Net, EndGoal
  <1>7. JobsMatch'
    <2> SUFFICES ASSUME NEW u \in Txns
                 PROVE  /\ job'[u].kind = "edit" => job'[u].order = PartOwner[job'[u].part]
                        /\ job'[u].kind = "receipt" /\ ~job'[u].allocated =>
                              /\ \A k \in Keys :
                                    Visible(u, k)'.held[job'[u].order] = Net(job[u].order, k)'
                              /\ \A i \in 1..Len(txn'[u].program) :
                                    ReservedDelta(txn'[u].program[i]) = 0
      BY DEF JobsMatch
    <2>1. CASE u = t
      BY <1>5, <2>1
    <2>2. CASE u # t
      BY <1>4, <1>6, <2>2 DEF JobsMatch
    <2> QED
      BY <2>1, <2>2
  <1>8. Shared(t) <= Required(w, part, x) - Larger(0, Net(w, x))
    <2> DEFINE lacking == Required(w, part, x) - Larger(0, Net(w, x))
    <2>1. lacking \in Int /\ Free(live[x]) \in Nat
      BY <1>5, RowNumbers DEF Larger
    <2>2. Shared(t) = Smaller(Smaller(job[t].quantity, lacking), Free(live[x]))
      BY DEF Shared
    <2> HIDE DEF lacking, x
    <2>3. Shared(t) <= lacking
      BY <1>5, <2>1, <2>2 DEF Smaller
    <2> QED
      BY <2>3 DEF lacking, x
  <1>9. EndsWithinNeed'
    <2> SUFFICES ASSUME NEW u \in Txns, NEW k \in Keys, Working(u)'
                 PROVE  Visible(u, k)'.held[job'[u].order]
                            + ToReserve(txn'[u].program, txn'[u].next, k)
                            <= EndGoal(job[u].order, job[u], k)'
      BY DEF EndsWithinNeed
    <2>1. CASE u = t
      <3>1. Visible(t, k)'.held[w] = Net(w, k)
        BY <1>2, <1>6 DEF JobsMatch
      <3>2. EndGoal(job[t].order, job[t], k)' = (IF status[w] \in Closed THEN 0 ELSE Required(w, part, k))
        BY <1>2, <1>5 DEF EndGoal
      <3>3. Net(w, k) <= (IF status[w] \in Closed THEN 0 ELSE Required(w, part, k))
        BY <1>1 DEF HeldWithinNeed
      <3>4. Net(w, k) \in Int
        BY <1>1, RowNumbers
      <3>5. status[w] \in ProcurementActive => status[w] \notin Closed
        BY DEF ProcurementActive, Editable, Closed
      <3>6. Net(w, k) + ToReserve(q, n, k) <= EndGoal(job[t].order, job[t], k)'
        <4>1. CASE ToReserve(q, n, k) = 0
          BY <3>2, <3>3, <3>4, <4>1
        <4>2. CASE ToReserve(q, n, k) = Shared(t) /\ k = x /\ status[w] \in ProcurementActive
          <5>1. Net(w, x) + Shared(t) <= Required(w, part, x)
            BY <1>5, <1>8 DEF Larger
          <5> QED
            BY <3>2, <3>5, <4>2, <5>1
        <4> QED
          BY <1>1, <4>1, <4>2
      <3> QED
        BY <1>5, <2>1, <3>1, <3>6
    <2>2. CASE u # t
      <3>1. Working(u)
        BY <1>4, <2>2 DEF Working
      <3>2. EndGoal(job[u].order, job[u], k)' = EndGoal(job[u].order, job[u], k)
        BY <1>4, <1>6, <2>2
      <3> QED
        BY <1>4, <1>6, <2>2, <3>1, <3>2 DEF EndsWithinNeed
    <2> QED
      BY <2>1, <2>2
  <1>10. HeldWithinNeed'
    BY <1>2 DEF HeldWithinNeed, Net
  <1> QED
    BY <1>7, <1>9, <1>10 DEF NeedKept

\* An order's goal depends on its status and its own parts only.
LEMMA GoalAgrees ==
    ASSUME NEW w, NEW j \in Jobs, NEW k, status'[w] = status[w],
           part \in [Lines -> Nat], part' \in [Lines -> Nat],
           \A l \in Lines : PartOwner[l] = w => part'[l] = part[l]
    PROVE  EndGoal(w, j, k)' = EndGoal(w, j, k) /\ Required(w, part', k) = Required(w, part, k)
  <1>1. PICK a \in [Lines -> Nat], b \in [Lines -> Nat] : a = part /\ b = part'
    OBVIOUS
  <1>2. \A l \in Lines : PartOwner[l] = w => b[l] = a[l]
    BY <1>1
  <1>3. Required(w, b, k) = Required(w, a, k)
    BY <1>2, NeedAgrees
  <1>4. CASE j.kind = "edit"
    <2>1. j.part \in Lines /\ j.quantity \in Nat
      BY <1>4 DEF Jobs, NoJob
    <2> DEFINE c == [a EXCEPT ![j.part] = j.quantity]
               d == [b EXCEPT ![j.part] = j.quantity]
    <2>2. c \in [Lines -> Nat] /\ d \in [Lines -> Nat]
          /\ \A l \in Lines : PartOwner[l] = w => d[l] = c[l]
      BY <1>2, <2>1
    <2> HIDE DEF c, d
    <2>3. Required(w, d, k) = Required(w, c, k)
      BY <2>2, NeedAgrees
    <2>4. Required(w, [part' EXCEPT ![j.part] = j.quantity], k) =
              Required(w, [part EXCEPT ![j.part] = j.quantity], k)
      BY <1>1, <2>3 DEF c, d
    <2> QED
      BY <1>1, <1>3, <1>4, <2>4 DEF EndGoal
  <1>5. CASE j.kind # "edit"
    BY <1>1, <1>3, <1>5 DEF EndGoal
  <1> QED
    BY <1>4, <1>5

\* The same for the order a transaction works for.
LEMMA GoalsAgree ==
    ASSUME NEW u \in Txns, NEW k, job[u] \in Jobs, job'[u] = job[u],
           status'[job[u].order] = status[job[u].order],
           part \in [Lines -> Nat], part' \in [Lines -> Nat],
           \A l \in Lines : PartOwner[l] = job[u].order => part'[l] = part[l]
    PROVE  EndGoal(job[u].order, job[u], k)' = EndGoal(job[u].order, job[u], k)
  <1>1. PICK j, w : j \in Jobs /\ j = job[u] /\ w = job[u].order
    OBVIOUS
  <1>2. EndGoal(w, j, k)' = EndGoal(w, j, k)
    BY <1>1, GoalAgrees
  <1>3. EndGoal(job[u].order, job[u], k) = EndGoal(w, j, k)
    BY <1>1
  <1>4. EndGoal(job[u].order, job[u], k)' = EndGoal(w, j, k)'
    BY <1>1 DEF EndGoal
  <1> QED
    BY <1>2, <1>3, <1>4

\* What a commit publishes: what its order holds, and for the others nothing new.
LEMMA CommitPublishes ==
    ASSUME OrderInvariant, NEW t \in Txns, CommitJob(t), NEW k \in Keys
    PROVE  /\ committed'[k].held[job[t].order] = Visible(t, k).held[job[t].order]
           /\ \A d \in Docs : d # job[t].order => committed'[k].held[d] = committed[k].held[d]
           /\ \A u \in Txns : u # t /\ Working(u) =>
                 /\ job[u].order # job[t].order /\ job[u].order \in Docs
                 /\ Visible(u, k)'.held[job[u].order] = Visible(u, k).held[job[u].order]
  <1> USE DEF OrderInvariant, LedgerInvariant
  <1>1. /\ committed'[k] = IF lock[k] = t THEN live[k] ELSE committed[k]
        /\ lock'[k] = IF lock[k] = t THEN NoTxn ELSE lock[k]
        /\ live' = live /\ Working(t)
    BY DEF CommitJob, Working
  <1>2. lock[k] = t => \A d \in Docs : d # job[t].order => live[k].held[d] = committed[k].held[d]
    BY DEF Apart
  <1>3. ASSUME NEW u \in Txns, u # t, Working(u)
        PROVE  /\ job[u].order # job[t].order /\ job[u].order \in Docs
               /\ Visible(u, k)'.held[job[u].order] = Visible(u, k).held[job[u].order]
    <2>1. job[u].order # job[t].order /\ job[u].order \in Docs
      BY <1>1, <1>3, JobTyped DEF Apart
    <2>2. u # NoTxn
      BY StockLedgerAssumption
    <2>3. CASE lock[k] = u
      <3>1. Visible(u, k)' = Visible(u, k)
        BY <1>1, <1>3, <2>3 DEF Visible
      <3> QED
        BY <2>1, <3>1
    <2>4. CASE lock[k] # u
      <3>1. Visible(u, k) = committed[k] /\ Visible(u, k)' = committed'[k]
        BY <1>1, <2>2, <2>4 DEF Visible
      <3> QED
        BY <1>1, <1>2, <2>1, <3>1
    <2> QED
      BY <2>3, <2>4
  <1>4. committed'[k] = Visible(t, k)
    BY <1>1 DEF Visible
  <1> QED
    BY <1>1, <1>2, <1>3, <1>4

\* A transaction that commits has nothing left to reserve.
LEMMA CommitEnds ==
    ASSUME OrderInvariant, EndsWithinNeed, NEW t \in Txns, CommitJob(t), NEW k \in Keys
    PROVE  Visible(t, k).held[job[t].order] <= EndGoal(job[t].order, job[t], k)
  <1>1. Working(t) /\ ~Unfinished(t)
    BY DEF CommitJob, Working
  <1>2. /\ txn[t].program \in Seq(Movements) /\ txn[t].next \in Nat \ {0}
        /\ Visible(t, k).held[job[t].order] \in Int
    BY <1>1, WorkingTyped
  <1>3. txn[t].next > Len(txn[t].program)
    <2>1. CASE Running(t)
      <3> DEFINE l == Len(txn[t].program)
                 n == txn[t].next
      <3>1. l \in Nat /\ n \in Nat /\ ~(n <= l)
        BY <1>1, <1>2, <2>1 DEF Unfinished
      <3> HIDE DEF l, n
      <3>2. n > l
        BY <3>1
      <3> QED
        BY <3>2 DEF l, n
    <2>2. CASE ~Running(t)
      BY <1>2, <2>2 DEF Running
    <2> QED
      BY <2>1, <2>2
  <1>4. ToReserve(txn[t].program, txn[t].next, k) = 0
    BY <1>2, <1>3, NothingLeft
  <1>5. Visible(t, k).held[job[t].order] + ToReserve(txn[t].program, txn[t].next, k)
            <= EndGoal(job[t].order, job[t], k)
    BY <1>1 DEF EndsWithinNeed
  <1> QED
    BY <1>2, <1>4, <1>5

\* A commit: its order holds what it was to end with.
LEMMA CommitKeepsNeed ==
    ASSUME NeedInvariant, NEW t \in Txns, CommitJob(t)
    PROVE  NeedKept'
  <1> USE DEF NeedInvariant, OrderInvariant, LedgerInvariant
  <1> DEFINE w == job[t].order
  <1>1. /\ txn'[t] = Idle /\ job'[t] = NoJob /\ Working(t)
        /\ \A u \in Txns : u # t => txn'[u] = txn[u] /\ job'[u] = job[u]
    BY DEF CommitJob, EndJob, TypeOK, OrderTyped, Working
  <1>2. w \in Docs /\ job[t] \in Jobs
    BY <1>1, JobTyped
  <1>3. /\ status' = IF job[t].kind = "transition" THEN [status EXCEPT ![w] = job[t].to] ELSE status
        /\ part' = IF job[t].kind = "edit"
                   THEN [part EXCEPT ![job[t].part] = job[t].quantity] ELSE part
        /\ part \in [Lines -> Nat] /\ status \in [Docs -> Statuses]
        /\ job[t].kind = "edit" => w = PartOwner[job[t].part]
    BY DEF CommitJob, OrderTyped, JobsMatch
  <1>4. part' \in [Lines -> Nat]
    BY <1>2, <1>3 DEF Jobs, NoJob
  <1>5. \A l \in Lines : PartOwner[l] # w => part'[l] = part[l]
    BY <1>3
  <1>6. \A d \in Docs : d # w => status'[d] = status[d]
    BY <1>3
  <1>7. \A k \in Keys :
           /\ committed'[k].held[w] = Visible(t, k).held[w]
           /\ \A d \in Docs : d # w => committed'[k].held[d] = committed[k].held[d]
           /\ \A u \in Txns : u # t /\ Working(u) =>
                 /\ job[u].order # w /\ job[u].order \in Docs
                 /\ Visible(u, k)'.held[job[u].order] = Visible(u, k).held[job[u].order]
    BY CommitPublishes
  <1>8. \A k \in Keys : Visible(t, k).held[w] <= EndGoal(w, job[t], k)
    BY CommitEnds
  <1>9. \A u \in Txns : (Working(u))' => u # t /\ Working(u)
    BY <1>1 DEF Working
  <1> HIDE DEF w
  <1>10. JobsMatch'
    <2> SUFFICES ASSUME NEW u \in Txns
                 PROVE  /\ job'[u].kind = "edit" => job'[u].order = PartOwner[job'[u].part]
                        /\ job'[u].kind = "receipt" /\ ~job'[u].allocated =>
                              /\ \A k \in Keys :
                                    Visible(u, k)'.held[job'[u].order] = Net(job[u].order, k)'
                              /\ \A i \in 1..Len(txn'[u].program) :
                                    ReservedDelta(txn'[u].program[i]) = 0
      BY DEF JobsMatch
    <2>1. CASE u = t
      BY <1>1, <2>1 DEF NoJob
    <2>2. CASE u # t
      <3>1. CASE ~Working(u)
        BY <1>1, <2>2, <3>1 DEF Working, NoJob
      <3>2. CASE Working(u)
        <4>1. \A k \in Keys : Net(job[u].order, k)' = Net(job[u].order, k)
          BY <1>1, <1>7, <2>2, <3>2 DEF Net
        <4> QED
          BY <1>1, <1>7, <2>2, <3>2, <4>1 DEF JobsMatch
      <3> QED
        BY <3>1, <3>2
    <2> QED
      BY <2>1, <2>2
  <1>11. EndsWithinNeed'
    <2> SUFFICES ASSUME NEW u \in Txns, NEW k \in Keys, (Working(u))'
                 PROVE  Visible(u, k)'.held[job'[u].order]
                            + ToReserve(txn'[u].program, txn'[u].next, k)
                            <= EndGoal(job[u].order, job[u], k)'
      BY DEF EndsWithinNeed
    <2>1. u # t /\ Working(u) /\ txn'[u] = txn[u] /\ job'[u] = job[u]
      BY <1>1, <1>9
    <2>2. /\ job[u].order # w /\ job[u].order \in Docs /\ job[u] \in Jobs
          /\ Visible(u, k)'.held[job[u].order] = Visible(u, k).held[job[u].order]
      BY <1>7, <2>1, JobTyped
    <2>3. /\ status'[job[u].order] = status[job[u].order]
          /\ \A l \in Lines : PartOwner[l] = job[u].order => part'[l] = part[l]
      BY <1>5, <1>6, <2>2
    <2>4. EndGoal(job[u].order, job[u], k)' = EndGoal(job[u].order, job[u], k)
      BY <1>3, <1>4, <2>1, <2>2, <2>3, GoalsAgree
    <2> QED
      BY <2>1, <2>2, <2>4 DEF EndsWithinNeed
  <1>12. HeldWithinNeed'
    <2> SUFFICES ASSUME NEW d \in Docs, NEW k \in Keys
                 PROVE  committed'[k].held[d]
                            <= (IF status'[d] \in Closed THEN 0 ELSE Required(d, part', k))
      BY DEF HeldWithinNeed, Net, Required, SumOf
    <2>1. CASE d = w
      <3>1. committed'[k].held[w] <= EndGoal(w, job[t], k)
        BY <1>7, <1>8
      <3>2. Required(w, part', k) \in Nat
        BY <1>4, NeedIsSum
      <3>3. EndGoal(w, job[t], k) = IF \/ status[w] \in Closed
                                       \/ job[t].kind = "transition" /\ job[t].to \in Closed
                                    THEN 0 ELSE Required(w, part', k)
        BY <1>3 DEF EndGoal
      <3>4. committed'[k].held[w] \in Int
        <4>1. Visible(t, k).held[w] \in Int
          BY <1>1, WorkingTyped DEF w
        <4> QED
          BY <1>7, <4>1
      <3>5. status'[w] = IF job[t].kind = "transition" THEN job[t].to ELSE status[w]
        BY <1>2, <1>3
      <3> QED
        BY <2>1, <3>1, <3>2, <3>3, <3>4, <3>5
    <2>2. CASE d # w
      <3>1. Required(d, part', k) = Required(d, part, k)
        <4>1. PICK a \in [Lines -> Nat], b \in [Lines -> Nat] : a = part /\ b = part'
          BY <1>3, <1>4
        <4>2. \A l \in Lines : PartOwner[l] = d => b[l] = a[l]
          BY <1>5, <2>2, <4>1
        <4> QED
          BY <4>1, <4>2, NeedAgrees
      <3>2. committed[k].held[d] <= (IF status[d] \in Closed THEN 0 ELSE Required(d, part, k))
        BY DEF HeldWithinNeed, Net
      <3> QED
        BY <1>6, <1>7, <2>2, <3>1, <3>2
    <2> QED
      BY <2>1, <2>2
  <1> QED
    BY <1>10, <1>11, <1>12 DEF NeedKept

\* AddPart only lets its order need more, and waits while a transaction works for it.
LEMMA AddPartKeepsNeed ==
    ASSUME NeedInvariant, NEW e \in checked, AddPart(e)
    PROVE  NeedKept'
  <1> USE DEF NeedInvariant, OrderInvariant, LedgerInvariant
  <1>1. /\ live' = live /\ committed' = committed /\ lock' = lock /\ txn' = txn
        /\ status' = status /\ job' = job
        /\ part' = [part EXCEPT ![e.part] = e.quantity]
        /\ e.add /\ ~Locked(PartOwner[e.part])
    BY DEF AddPart, vars
  <1>2. /\ e.part \in Lines /\ e.quantity \in Nat
        /\ part \in [Lines -> Nat] /\ part' \in [Lines -> Nat]
        /\ \A l \in Lines : PartOwner[l] # PartOwner[e.part] => part'[l] = part[l]
    BY <1>1 DEF OrderTyped
  <1>3. part[e.part] = 0
    BY <1>1, <1>2 DEF PartsAreAddedOnce, Unborn
  <1>4. \A u \in Txns : Working(u) => job[u].order # PartOwner[e.part]
    BY <1>1 DEF Locked, Working
  <1>5. \A u \in Txns, k \in Keys : Working(u) =>
           EndGoal(job[u].order, job[u], k)' = EndGoal(job[u].order, job[u], k)
    <2> SUFFICES ASSUME NEW u \in Txns, NEW k \in Keys, Working(u)
                 PROVE  EndGoal(job[u].order, job[u], k)' = EndGoal(job[u].order, job[u], k)
      OBVIOUS
    <2>1. job[u] \in Jobs /\ job'[u] = job[u] /\ status'[job[u].order] = status[job[u].order]
      BY <1>1, JobTyped
    <2>2. \A l \in Lines : PartOwner[l] = job[u].order => part'[l] = part[l]
      BY <1>2, <1>4
    <2> QED
      BY <1>2, <2>1, <2>2, GoalsAgree
  <1>6. JobsMatch'
    BY <1>1 DEF JobsMatch, Visible, Net
  <1>7. EndsWithinNeed'
    <2> SUFFICES ASSUME NEW u \in Txns, NEW k \in Keys, (Working(u))'
                 PROVE  Visible(u, k)'.held[job'[u].order]
                            + ToReserve(txn'[u].program, txn'[u].next, k)
                            <= EndGoal(job[u].order, job[u], k)'
      BY DEF EndsWithinNeed
    <2>1. Working(u) /\ txn'[u] = txn[u] /\ job'[u] = job[u] /\ Visible(u, k)' = Visible(u, k)
      BY <1>1 DEF Working, Visible
    <2> QED
      BY <1>5, <2>1 DEF EndsWithinNeed
  <1>8. HeldWithinNeed'
    <2> SUFFICES ASSUME NEW d \in Docs, NEW k \in Keys
                 PROVE  Net(d, k) <= (IF status[d] \in Closed THEN 0 ELSE Required(d, part', k))
      BY <1>1 DEF HeldWithinNeed, Net, Required, SumOf
    <2>1. PICK a \in [Lines -> Nat], b \in [Lines -> Nat] : a = part /\ b = part'
      BY <1>2
    <2>2. \A l \in Lines : a[l] <= b[l]
      BY <1>1, <1>2, <1>3, <2>1
    <2>3. Required(d, part, k) <= Required(d, part', k)
      BY <2>1, <2>2, NeedGrows
    <2>4. Required(d, part, k) \in Nat /\ Required(d, part', k) \in Nat /\ Net(d, k) \in Int
      BY <1>2, NeedIsSum, RowNumbers
    <2>5. Net(d, k) <= (IF status[d] \in Closed THEN 0 ELSE Required(d, part, k))
      BY DEF HeldWithinNeed
    <2> QED
      BY <2>3, <2>4, <2>5
  <1> QED
    BY <1>6, <1>7, <1>8 DEF NeedKept

\* Steps that leave the parts alone and start no edit.
LEMMA OthersKeepBirths ==
    ASSUME PartsAreAddedOnce, UNCHANGED <<fresh, checked, part>>,
           \A t \in Txns : job'[t].kind = "edit" =>
              job[t].kind = "edit" /\ job'[t].part = job[t].part
    PROVE  PartsAreAddedOnce'
  BY DEF PartsAreAddedOnce, Unborn

\* CheckEdit takes an id that was not used, or a part that is there.
LEMMA CheckEditKeepsBirths ==
    ASSUME PartsAreAddedOnce, NEW l \in Lines, NEW q, CheckEdit(l, q)
    PROVE  PartsAreAddedOnce'
  <1> DEFINE g == [part |-> l, quantity |-> q, add |-> l \in fresh]
  <1>1. /\ checked' = checked \cup {g} /\ fresh' = fresh \ {l}
        /\ part' = part /\ job' = job
        /\ (IF l \in fresh THEN q > 0 ELSE part[l] > 0 /\ q # part[l])
    BY DEF CheckEdit
  <1>2. g.part = l /\ (g.add <=> l \in fresh)
    OBVIOUS
  <1> HIDE DEF g
  <1>3. \A m \in Lines : Unborn(m)' => Unborn(m)
    BY <1>1, <1>2 DEF Unborn
  <1>4. l \notin fresh => ~Unborn(l)
    <2>1. l \notin fresh => part[l] # 0
      <3>1. l \notin fresh => part[l] > 0
        BY <1>1
      <3> QED
        BY <3>1
    <2> QED
      BY <2>1 DEF PartsAreAddedOnce
  <1>5. \A e \in checked : e.part \notin fresh
    BY DEF PartsAreAddedOnce
  <1>6. \A m \in Lines : Unborn(m)' =>
           /\ part'[m] = 0
           /\ \A e \in checked' : e.part = m => e.add
           /\ \A t \in Txns : job'[t].kind = "edit" => job'[t].part # m
    <2> SUFFICES ASSUME NEW m \in Lines, Unborn(m)'
                 PROVE  /\ part'[m] = 0
                        /\ \A e \in checked' : e.part = m => e.add
                        /\ \A t \in Txns : job'[t].kind = "edit" => job'[t].part # m
      OBVIOUS
    <2>1. /\ Unborn(m) /\ part[m] = 0
          /\ \A e \in checked : e.part = m => e.add
          /\ \A t \in Txns : job[t].kind = "edit" => job[t].part # m
      BY <1>3 DEF PartsAreAddedOnce
    <2>2. g.part = m => g.add
      BY <1>2, <1>4, <2>1
    <2> QED
      BY <1>1, <2>1, <2>2
  <1>7. \A e, f \in checked' : e.add /\ f.add /\ e.part = f.part => e = f
    <2>1. \A e \in checked : g.add => e.part # g.part
      BY <1>2, <1>5
    <2> QED
      BY <1>1, <2>1 DEF PartsAreAddedOnce
  <1>8. \A e \in checked' : e.part \notin fresh'
    BY <1>1, <1>2, <1>5
  <1> QED
    BY <1>6, <1>7, <1>8 DEF PartsAreAddedOnce

\* AddPart uses up the only edit that adds its part.
LEMMA AddPartKeepsBirths ==
    ASSUME OrderTyped, PartsAreAddedOnce, NEW e \in checked, AddPart(e)
    PROVE  PartsAreAddedOnce'
  <1>1. /\ checked' = checked \ {e} /\ fresh' = fresh /\ job' = job /\ e.add
        /\ part' = [part EXCEPT ![e.part] = e.quantity]
        /\ part \in [Lines -> Nat] /\ e.part \in Lines
    BY DEF AddPart, OrderTyped
  <1>2. ~Unborn(e.part)'
    BY <1>1 DEF Unborn, PartsAreAddedOnce
  <1>3. \A m \in Lines : Unborn(m)' => Unborn(m) /\ m # e.part
    BY <1>1, <1>2 DEF Unborn
  <1>4. \A m \in Lines : m # e.part => part'[m] = part[m]
    BY <1>1
  <1> QED
    BY <1>1, <1>3, <1>4 DEF PartsAreAddedOnce

\* updatePart and removePart start on a part that was added long before.
LEMMA EditKeepsBirths ==
    ASSUME OrderInvariant, PartsAreAddedOnce, NEW t \in Txns, NEW e \in checked,
           BeginChangePart(t, e)
    PROVE  PartsAreAddedOnce'
  <1>1. /\ checked' = checked \ {e} /\ fresh' = fresh /\ part' = part /\ ~e.add
        /\ e.part \in Lines
    BY DEF BeginChangePart, OrderInvariant, OrderTyped
  <1>2. job'[t].part = e.part /\ \A u \in Txns : u # t => job'[u] = job[u]
    BY EditOpens DEF BeginChangePart, Open, OrderInvariant, OrderTyped
  <1>3. ~Unborn(e.part)
    BY <1>1 DEF PartsAreAddedOnce
  <1>4. \A m \in Lines : Unborn(m)' => Unborn(m)
    BY <1>1 DEF Unborn
  <1>5. \A m \in Lines, u \in Txns : Unborn(m)' /\ job'[u].kind = "edit" => job'[u].part # m
    BY <1>2, <1>3, <1>4 DEF PartsAreAddedOnce
  <1> QED
    BY <1>1, <1>4, <1>5 DEF PartsAreAddedOnce

\* The commit of an edit writes the part it was started on.
LEMMA CommitKeepsBirths ==
    ASSUME OrderTyped, PartsAreAddedOnce, NEW t \in Txns, CommitJob(t)
    PROVE  PartsAreAddedOnce'
  <1>1. /\ checked' = checked /\ fresh' = fresh
        /\ job'[t] = NoJob /\ \A u \in Txns : u # t => job'[u] = job[u]
        /\ part' = IF job[t].kind = "edit"
                   THEN [part EXCEPT ![job[t].part] = job[t].quantity] ELSE part
        /\ part \in [Lines -> Nat]
    BY DEF CommitJob, EndJob, OrderTyped
  <1>2. \A m \in Lines : (Unborn(m))' <=> Unborn(m)
    BY <1>1 DEF Unborn
  <1>3. \A m \in Lines : Unborn(m) => part'[m] = part[m]
    BY <1>1 DEF PartsAreAddedOnce
  <1>4. \A m \in Lines, u \in Txns : Unborn(m) /\ job'[u].kind = "edit" => job'[u].part # m
    BY <1>1 DEF PartsAreAddedOnce, NoJob
  <1> QED
    BY <1>1, <1>2, <1>3, <1>4 DEF PartsAreAddedOnce

\* Nobody opens anything but an edit under the name of one.
LEMMA BirthsKept ==
    ASSUME OrderInvariant, PartsAreAddedOnce, [OrderNext]_allVars, MaxUnitChanges = 0
    PROVE  PartsAreAddedOnce'
  <1> USE DEF OrderInvariant
  <1>1. ASSUME NEW t \in Txns, NEW j, j.kind # "edit", job' = [job EXCEPT ![t] = j],
               UNCHANGED <<fresh, checked, part>>
        PROVE  PartsAreAddedOnce'
    <2>1. \A u \in Txns : job'[u].kind = "edit" =>
             job[u].kind = "edit" /\ job'[u].part = job[u].part
      BY <1>1 DEF OrderTyped
    <2> QED
      BY <1>1, <2>1, OthersKeepBirths
  <1>2. ASSUME NEW t \in Txns, Request(t) PROVE PartsAreAddedOnce'
    <2>1. ASSUME NEW w \in Docs, NEW to \in Statuses, BeginTransition(t, w, to)
          PROVE  PartsAreAddedOnce'
      <3> DEFINE j == [kind |-> "transition", order |-> w, to |-> to]
      <3>1. job' = [job EXCEPT ![t] = j] /\ UNCHANGED <<fresh, checked, part>>
        BY <2>1 DEF BeginTransition, Open
      <3>2. j.kind # "edit"
        OBVIOUS
      <3> HIDE DEF j
      <3> QED
        BY <1>1, <3>1, <3>2
    <2>2. ASSUME NEW e \in checked, BeginChangePart(t, e) PROVE PartsAreAddedOnce'
      BY <2>2, EditKeepsBirths
    <2>3. ASSUME NEW w \in Docs, NEW k \in Keys, NEW q \in Quantities, BeginReceipt(t, w, k, q)
          PROVE  PartsAreAddedOnce'
      <3> DEFINE j == [kind |-> "receipt", order |-> w, key |-> k, quantity |-> q,
                       allocated |-> FALSE]
      <3>1. job' = [job EXCEPT ![t] = j] /\ UNCHANGED <<fresh, checked, part>>
        BY <2>3 DEF BeginReceipt, Open
      <3>2. j.kind # "edit"
        OBVIOUS
      <3> HIDE DEF j
      <3> QED
        BY <1>1, <3>1, <3>2
    <2>4. ASSUME NEW w \in Docs, NEW k \in Keys, NEW q \in Quantities,
                 BeginReleaseReservation(t, w, k, q)
          PROVE  PartsAreAddedOnce'
      <3> DEFINE j == [kind |-> "release", order |-> w]
      <3>1. job' = [job EXCEPT ![t] = j] /\ UNCHANGED <<fresh, checked, part>>
        BY <2>4 DEF BeginReleaseReservation, Open
      <3>2. j.kind # "edit"
        OBVIOUS
      <3> HIDE DEF j
      <3> QED
        BY <1>1, <3>1, <3>2
    <2> QED
      BY <1>2, <2>1, <2>2, <2>3, <2>4 DEF Request
  <1>3. ASSUME NEW t \in Txns, MoveOn(t) PROVE PartsAreAddedOnce'
    BY <1>3, OthersKeepBirths DEF MoveOn, orderVars
  <1>4. ASSUME NEW t \in Txns, GiveUp(t) PROVE PartsAreAddedOnce'
    <2>1. job' = [job EXCEPT ![t] = NoJob] /\ UNCHANGED <<fresh, checked, part>>
      BY <1>4 DEF GiveUp, EndJob
    <2>2. NoJob.kind # "edit"
      BY DEF NoJob
    <2> QED
      BY <1>1, <2>1, <2>2
  <1>5. ASSUME NEW t \in Txns, AllocateReceived(t) PROVE PartsAreAddedOnce'
    <2>1. job[t] \in [kind : {"receipt"}, order : Docs, key : Keys, quantity : Nat,
                      allocated : BOOLEAN]
      BY <1>5, SharedTyped DEF OrderInvariant, LedgerInvariant
    <2> DEFINE j == [job[t] EXCEPT !.allocated = TRUE]
    <2>2. j.kind # "edit"
      BY <2>1
    <2>3. job' = [job EXCEPT ![t] = j] /\ UNCHANGED <<fresh, checked, part>>
      BY <1>5 DEF AllocateReceived, OrderTyped
    <2> HIDE DEF j
    <2> QED
      BY <1>1, <2>2, <2>3
  <1>6. ASSUME NEW t \in Txns, CommitJob(t) PROVE PartsAreAddedOnce'
    BY <1>6, CommitKeepsBirths
  <1>7. ASSUME NEW l \in Lines, NEW q \in 0..MaxPart, CheckEdit(l, q) PROVE PartsAreAddedOnce'
    BY <1>7, CheckEditKeepsBirths
  <1>8. ASSUME NEW e \in checked, AddPart(e) PROVE PartsAreAddedOnce'
    BY <1>8, AddPartKeepsBirths
  <1>9. ASSUME NEW l \in Lines, NEW q \in Quantities, ChangeUnit(l, q) PROVE FALSE
    BY <1>9 DEF ChangeUnit, OrderTyped
  <1>10. CASE UNCHANGED allVars
    BY <1>10, OthersKeepBirths DEF allVars, orderVars
  <1> QED
    BY <1>2, <1>3, <1>4, <1>5, <1>6, <1>7, <1>8, <1>9, <1>10 DEF OrderNext

\* At the start nothing is reserved, and what is not there yet is still to be added.
LEMMA NeedInit == OrderInit => NeedInvariant
  <1> SUFFICES ASSUME OrderInit PROVE NeedInvariant
    OBVIOUS
  <1>1. OrderInvariant
    BY OrderInitEstablishes
  <1>2. JobsMatch /\ EndsWithinNeed
    BY DEF OrderInit, JobsMatch, EndsWithinNeed, Working, NoJob
  <1>3. PartsAreAddedOnce
    BY DEF OrderInit, PartsAreAddedOnce, Unborn, NoJob
  <1>4. HeldWithinNeed
    <2> SUFFICES ASSUME NEW w \in Docs, NEW k \in Keys
                 PROVE  Net(w, k) <= (IF status[w] \in Closed THEN 0 ELSE Required(w, part, k))
      BY DEF HeldWithinNeed
    <2>1. Net(w, k) = 0
      BY DEF OrderInit, Init, InitialRow, Net
    <2>2. Required(w, part, k) \in Nat
      BY <1>1, NeedIsSum DEF OrderInvariant, OrderTyped
    <2> QED
      BY <2>1, <2>2
  <1> QED
    BY <1>1, <1>2, <1>3, <1>4 DEF NeedInvariant

\* Every step keeps what the orders hold within their need.
LEMMA NeedNextKeeps ==
    ASSUME NeedInvariant, [OrderNext]_allVars, MaxUnitChanges = 0
    PROVE  NeedInvariant'
  <1>1. OrderInvariant /\ PartsAreAddedOnce
    BY DEF NeedInvariant
  <1>2. ASSUME NEW t \in Txns, Request(t) PROVE NeedKept'
    BY <1>1, <1>2, RequestOpens, OpeningKeepsNeed
  <1>3. ASSUME NEW t \in Txns, MoveOn(t) PROVE NeedKept'
    <2>1. CASE CheckMovement(t)
      <3>1. UNCHANGED <<live, committed, lock, job, status, part>>
        BY <1>3, <2>1 DEF MoveOn, CheckMovement, orderVars
      <3>2. \A u \in Txns : txn'[u].program = txn[u].program /\ txn'[u].next = txn[u].next
        BY <1>1, <2>1 DEF CheckMovement, OrderInvariant, LedgerInvariant, TypeOK
      <3> QED
        BY <3>1, <3>2, QuietKeepsNeed
    <2>2. CASE ApplyMovement(t)
      BY <1>3, <2>2, ApplyKeepsNeed DEF MoveOn
    <2> QED
      BY <1>3, <2>1, <2>2 DEF MoveOn
  <1>4. ASSUME NEW t \in Txns, GiveUp(t) PROVE NeedKept'
    <2>1. Rollback(t) /\ EndJob(t) /\ UNCHANGED <<status, part>>
      BY <1>4 DEF GiveUp, RefuseMovement, FailMovement, DeadlockVictim, Interrupt
    <2> QED
      BY <2>1, RollbackKeepsNeed
  <1>5. ASSUME NEW t \in Txns, AllocateReceived(t) PROVE NeedKept'
    BY <1>5, AllocateKeepsNeed
  <1>6. ASSUME NEW t \in Txns, CommitJob(t) PROVE NeedKept'
    BY <1>6, CommitKeepsNeed
  <1>7. ASSUME NEW l \in Lines, NEW q \in 0..MaxPart, CheckEdit(l, q) PROVE NeedKept'
    <2>1. UNCHANGED <<live, committed, lock, job, status, part>> /\ UNCHANGED txn
      BY <1>7 DEF CheckEdit, vars
    <2> QED
      BY <2>1, QuietKeepsNeed
  <1>8. ASSUME NEW e \in checked, AddPart(e) PROVE NeedKept'
    BY <1>8, AddPartKeepsNeed
  <1>9. ASSUME NEW l \in Lines, NEW q \in Quantities, ChangeUnit(l, q) PROVE FALSE
    BY <1>1, <1>9 DEF ChangeUnit, OrderInvariant, OrderTyped
  <1>10. ASSUME UNCHANGED allVars PROVE NeedKept'
    <2>1. UNCHANGED <<live, committed, lock, job, status, part>> /\ UNCHANGED txn
      BY <1>10 DEF allVars, vars, orderVars
    <2> QED
      BY <2>1, QuietKeepsNeed
  <1>11. NeedKept'
    <2>1. ASSUME NEW t \in Txns,
                 Request(t) \/ MoveOn(t) \/ GiveUp(t) \/ AllocateReceived(t) \/ CommitJob(t)
          PROVE  NeedKept'
      BY <1>2, <1>3, <1>4, <1>5, <1>6, <2>1
    <2> QED
      BY <1>7, <1>8, <1>9, <1>10, <2>1 DEF OrderNext
  <1> QED
    BY <1>1, <1>11, OrderNextKeeps, BirthsKept DEF NeedInvariant, NeedKept

\* While no unit changes its coefficient, no order ever holds more than its parts need, and
\* a closed one holds nothing (BR-WO-021).
THEOREM HeldAlwaysWithinNeed ==
    ASSUME MaxUnitChanges = 0
    PROVE  OrderSpec => []HeldWithinNeed
  <1>1. OrderInit => NeedInvariant
    BY NeedInit
  <1>2. NeedInvariant /\ [OrderNext]_allVars => NeedInvariant'
    BY NeedNextKeeps
  <1>3. NeedInvariant => HeldWithinNeed
    BY DEF NeedInvariant
  <1> QED
    BY <1>1, <1>2, <1>3, PTL DEF OrderSpec

---------------------------------------------
(* What a movement list takes from the batches. *)

\* What a movement takes from row k for source s, and what a list from n on does.
TakenFrom(m, k, s) == IF m.key = k /\ QuantityDelta(m) < 0 /\ Source(m) = s THEN -m.quantity ELSE 0
TakenOn(p, k, s) == [i \in 1..Len(p) |-> TakenFrom(p[i], k, s)]
ToTake(p, n, k, s) == SumFunctionOnSet(TakenOn(p, k, s), n..Len(p))
TakenBy(p, k, s) == ToTake(p, 1, k, s)

\* Its terms are numbers, and so are its sums.
LEMMA TakesTyped ==
    ASSUME NEW p \in Seq(Movements), NEW k, NEW s
    PROVE  /\ Len(p) \in Nat
           /\ \A i \in 1..Len(p) : /\ p[i] \in Movements
                                   /\ TakenOn(p, k, s)[i] = TakenFrom(p[i], k, s)
                                   /\ TakenFrom(p[i], k, s) \in Nat
           /\ \A n \in Nat \ {0} : ToTake(p, n, k, s) \in Nat
  <1>1. Len(p) \in Nat /\ \A i \in 1..Len(p) : p[i] \in Movements
    OBVIOUS
  <1>2. ASSUME NEW i \in 1..Len(p)
        PROVE  TakenOn(p, k, s)[i] = TakenFrom(p[i], k, s) /\ TakenFrom(p[i], k, s) \in Nat
    <2>1. p[i].quantity \in Int
      BY <1>1 DEF Movements
    <2> QED
      BY <2>1 DEF TakenOn, TakenFrom, QuantityDelta
  <1>3. ASSUME NEW n \in Nat \ {0} PROVE ToTake(p, n, k, s) \in Nat
    <2> DEFINE e == Len(p)
    <2>1. \A i \in 1..e : TakenOn(p, k, s)[i] \in Nat
      BY <1>2
    <2> HIDE DEF e
    <2>2. IsFiniteSet(n..e)
      BY <1>1, FS_Interval DEF e
    <2>3. \A i \in n..e : i \in 1..e
      BY <1>1 DEF e
    <2>4. \A i \in n..e : TakenOn(p, k, s)[i] \in Nat
      BY <2>1, <2>3
    <2> QED
      BY <2>2, <2>4, SumNat DEF ToTake, e
  <1> QED
    BY <1>1, <1>2, <1>3

\* Two lists, one after the other.
LEMMA TakesOfBoth ==
    ASSUME NEW p \in Seq(Movements), NEW q \in Seq(Movements), NEW k, NEW s
    PROVE  TakenBy(p \o q, k, s) = TakenBy(p, k, s) + TakenBy(q, k, s)
  <1> DEFINE m == Len(p)
             n == Len(q)
             r == p \o q
             f == TakenOn(p, k, s)
             e == TakenOn(q, k, s)
             h == TakenOn(r, k, s)
  <1>1. m \in Nat /\ n \in Nat /\ r \in Seq(Movements) /\ Len(r) = m + n
    OBVIOUS
  <1>2. (\A i \in 1..m : r[i] = p[i]) /\ (\A i \in 1..n : r[m + i] = q[i])
    OBVIOUS
  <1>3. /\ \A i \in 1..m : f[i] = TakenFrom(p[i], k, s) /\ f[i] \in Int
        /\ \A i \in 1..n : e[i] = TakenFrom(q[i], k, s) /\ e[i] \in Int
        /\ \A i \in 1..Len(r) : h[i] = TakenFrom(r[i], k, s)
    <2>1. \A i \in 1..Len(p) : f[i] = TakenFrom(p[i], k, s) /\ TakenFrom(p[i], k, s) \in Nat
      BY TakesTyped
    <2>2. \A i \in 1..Len(q) : e[i] = TakenFrom(q[i], k, s) /\ TakenFrom(q[i], k, s) \in Nat
      BY TakesTyped
    <2>3. \A i \in 1..Len(r) : h[i] = TakenFrom(r[i], k, s)
      <3> HIDE DEF r
      <3> QED
        BY DEF TakenOn
    <2> HIDE DEF f, e, h, r
    <2> QED
      BY <2>1, <2>2, <2>3
  <1> HIDE DEF m, n, r, f, e, h
  <1>4. (\A i \in 1..m : i \in 1..(m + n)) /\ (\A i \in 1..n : m + i \in 1..(m + n))
    BY <1>1
  <1>5. /\ Summable(f, 1..m) /\ Summable(e, 1..n)
        /\ (\A i \in 1..m : h[i] = f[i]) /\ (\A i \in 1..n : h[m + i] = e[i])
    BY <1>1, <1>2, <1>3, <1>4 DEF Summable
  <1>6. Joined(f, m, e, n, h)
    BY <1>5 DEF Joined
  <1>7. SumFunctionOnSet(h, 1..(m + n)) = SumFunctionOnSet(f, 1..m) + SumFunctionOnSet(e, 1..n)
    BY <1>1, <1>6, SumOfBoth
  <1> QED
    BY <1>1, <1>7 DEF TakenBy, ToTake, f, e, h, m, n, r

\* The first of what is left, then the others.
LEMMA TakesNext ==
    ASSUME NEW p \in Seq(Movements), NEW n \in 1..Len(p), NEW k, NEW s
    PROVE  ToTake(p, n, k, s) = TakenFrom(p[n], k, s) + ToTake(p, n + 1, k, s)
  <1> DEFINE e == Len(p)
             f == TakenOn(p, k, s)
             X == n..e
  <1>1. e \in Nat /\ n \in 1..e
    OBVIOUS
  <1>2. \A i \in 1..e : f[i] = TakenFrom(p[i], k, s) /\ f[i] \in Int
    BY TakesTyped
  <1> HIDE DEF e, f
  <1>3. IsFiniteSet(X)
    BY <1>1, FS_Interval
  <1>4. n \in X /\ X \ {n} = (n + 1)..e /\ \A i \in X : i \in 1..e
    BY <1>1
  <1>5. \A i \in X : f[i] \in Int
    BY <1>2, <1>4
  <1>6. SumFunctionOnSet(f, X) = f[n] + SumFunctionOnSet(f, X \ {n})
    <2> HIDE DEF X
    <2> QED
      BY <1>3, <1>4, <1>5, SumRemove
  <1> QED
    BY <1>1, <1>2, <1>4, <1>6 DEF ToTake, e, f

\* Where nothing left takes for s, nothing is left to take.
LEMMA TakesNothing ==
    ASSUME NEW p \in Seq(Movements), NEW n \in Nat \ {0}, NEW k, NEW s,
           \A i \in n..Len(p) : TakenFrom(p[i], k, s) = 0
    PROVE  ToTake(p, n, k, s) = 0
  <1> DEFINE e == Len(p)
             f == TakenOn(p, k, s)
  <1>1. e \in Nat
    OBVIOUS
  <1>2. \A i \in 1..e : f[i] = TakenFrom(p[i], k, s)
    BY TakesTyped
  <1>3. \A i \in n..e : TakenFrom(p[i], k, s) = 0
    OBVIOUS
  <1> HIDE DEF e, f
  <1>4. IsFiniteSet(n..e)
    BY <1>1, FS_Interval
  <1>5. \A i \in n..e : i \in 1..e
    BY <1>1
  <1>6. \A i \in n..e : f[i] = 0
    BY <1>2, <1>3, <1>5
  <1> QED
    BY <1>4, <1>6, SumZero DEF ToTake, e, f

\* A list of one movement.
LEMMA TakesOne ==
    ASSUME NEW m \in Movements, NEW k, NEW s
    PROVE  <<m>> \in Seq(Movements) /\ TakenBy(<<m>>, k, s) = TakenFrom(m, k, s)
  <1> DEFINE p == <<m>>
  <1>1. p \in Seq(Movements) /\ Len(p) = 1 /\ p[1] = m
    OBVIOUS
  <1> HIDE DEF p
  <1>2. TakenFrom(m, k, s) \in Nat /\ 1 \in 1..Len(p)
    <2>1. \A i \in 1..Len(p) : TakenFrom(p[i], k, s) \in Nat
      BY <1>1, TakesTyped
    <2> QED
      BY <1>1, <2>1
  <1>3. ToTake(p, 1, k, s) = TakenFrom(p[1], k, s) + ToTake(p, 1 + 1, k, s)
    BY <1>1, <1>2, TakesNext
  <1>4. ToTake(p, 2, k, s) = 0
    <2>1. \A i \in 2..Len(p) : TakenFrom(p[i], k, s) = 0
      BY <1>1
    <2> QED
      BY <1>1, <2>1, TakesNothing
  <1>5. TakenBy(p, k, s) = TakenFrom(m, k, s)
    BY <1>1, <1>2, <1>3, <1>4 DEF TakenBy
  <1> QED
    BY <1>1, <1>5 DEF p

\* Movements that reserve or release, and nothing else.
Reserving == {m \in Movements : m.type \in {"RESERVATION", "RESERVATION_RELEASE"}}

\* What InKeyOrder lists for the reservations is made of them.
LEMMA KeyedReserves ==
    ASSUME NEW type \in {"RESERVATION", "RESERVATION_RELEASE"}, NEW sign \in {1, -1},
           NEW w \in Docs, NEW amount \in [Keys -> Int]
    PROVE  InKeyOrder(type, w, amount, sign) \in Seq(Reserving)
  <1> DEFINE n == Len(KeyOrder)
             f == [i \in 1..n |->
                      IF amount[KeyOrder[i]] > 0
                      THEN <<Movement(type, KeyOrder[i], sign * amount[KeyOrder[i]], w, NoLine)>>
                      ELSE <<>>]
             T == (0..n) \X Seq(Reserving)
  <1>1. n \in Nat /\ \A i \in 1..n : KeyOrder[i] \in Keys
    BY WorkOrderStockAssumption
  <1>2. InKeyOrder(type, w, amount, sign) = FlattenSeq(f)
    BY DEF InKeyOrder
  <1>3. ASSUME NEW i \in 1..n PROVE f[i] \in Seq(Reserving)
    <2> DEFINE k == KeyOrder[i]
               m == Movement(type, k, sign * amount[k], w, NoLine)
    <2>1. k \in Keys /\ amount[k] \in Int
      BY <1>1
    <2>2. m \in Reserving
      BY <2>1 DEF Reserving, Movement, Movements, MovementTypes, InflowOnly
    <2>3. <<m>> \in Seq(Reserving) /\ <<>> \in Seq(Reserving)
      BY <2>2
    <2>4. f[i] = <<m>> \/ f[i] = <<>>
      OBVIOUS
    <2> HIDE DEF m, f
    <2> QED
      BY <2>3, <2>4
  <1> HIDE DEF f, n
  <1>4. f \in [1..n -> Seq(Reserving)]
    <2>1. f = [i \in 1..n |-> f[i]]
      BY DEF f
    <2> QED
      BY <1>3, <2>1
  <1>5. Inherited(T, n, f, Reserving)
    <2>1. <<0, <<>>>> \in T
      <3>1. 0 \in 0..n /\ <<>> \in Seq(Reserving)
        BY <1>1
      <3> QED
        BY <3>1
    <2>2. ASSUME NEW i \in 0..(n - 1), NEW q \in Seq(Reserving)
          PROVE  <<i + 1, q \o f[i + 1]>> \in T
      <3>1. i + 1 \in 1..n /\ i + 1 \in 0..n
        BY <1>1
      <3>2. f[i + 1] \in Seq(Reserving)
        BY <1>3, <3>1
      <3>3. q \o f[i + 1] \in Seq(Reserving)
        BY <3>2
      <3> QED
        BY <3>1, <3>3
    <2> HIDE DEF T
    <2> QED
      BY <2>1, <2>2 DEF Inherited
  <1> HIDE DEF T
  <1>6. FlattenSeq(f) \in Seq(Reserving)
    BY <1>1, <1>4, <1>5, FlattenInduction
  <1> QED
    BY <1>2, <1>6

\* They are movements of the batches' rows that take nothing and return nothing.
LEMMA ReservingTakesNothing ==
    ASSUME NEW p \in Seq(Reserving)
    PROVE  /\ p \in Seq(Movements)
           /\ \A i \in 1..Len(p) : QuantityDelta(p[i]) = 0 /\ p[i].type # "RETURN"
           /\ \A k, s : TakenBy(p, k, s) = 0
  <1>1. p \in Seq(Movements) /\ \A i \in 1..Len(p) : p[i] \in Reserving
    BY DEF Reserving
  <1>2. \A i \in 1..Len(p) : QuantityDelta(p[i]) = 0 /\ p[i].type # "RETURN"
    BY <1>1 DEF Reserving, QuantityDelta
  <1>3. ASSUME NEW k, NEW s PROVE TakenBy(p, k, s) = 0
    <2>1. \A i \in 1..Len(p) : TakenFrom(p[i], k, s) = 0
      BY <1>2 DEF TakenFrom
    <2> QED
      BY <1>1, <2>1, TakesNothing DEF TakenBy
  <1> QED
    BY <1>1, <1>2, <1>3

\* The movements of a completion: what is written off is of the order itself.
WritingOff(w) == Reserving \cup {m \in Movements : m.type = "WRITEOFF" /\ m.doc = w}

\* A part is written off in full, for its own line.
LEMMA PartTakes ==
    ASSUME NEW w \in Docs, NEW s, NEW i, NEW l \in Lines, l = s[i], part[l] \in Nat,
           OwnRelease(w, s, i) \in Nat
    PROVE  LET p == PartWriteOff(w, s, i)
           IN  /\ p \in Seq(WritingOff(w))
               /\ \A k \in Keys, x \in Lines :
                     TakenBy(p, k, <<w, x>>) = IF x = l /\ PartKey[l] = k THEN part[l] ELSE 0
  <1> DEFINE y == PartKey[l]
             q == OwnRelease(w, s, i)
             r == Movement("RESERVATION_RELEASE", y, -q, w, NoLine)
             m == Movement("WRITEOFF", y, -part[l], w, l)
             first == IF q = 0 THEN <<>> ELSE <<r>>
             p == PartWriteOff(w, s, i)
  <1>1. y \in Keys /\ q \in Nat
    BY WorkOrderStockAssumption
  <1>2. p = first \o <<m>>
    BY DEF PartWriteOff
  <1>3. r \in Reserving /\ r \in WritingOff(w)
    <2>1. r \in Movements
      BY <1>1 DEF Movement, Movements, MovementTypes
    <2> QED
      BY <2>1 DEF Reserving, WritingOff, Movement
  <1>4. m \in WritingOff(w)
    <2>1. m \in Movements
      BY <1>1 DEF Movement, Movements, MovementTypes, OutflowOnly
    <2> QED
      BY <2>1 DEF WritingOff, Movement
  <1>5. m.type = "WRITEOFF" /\ m.key = y /\ m.quantity = -part[l] /\ Source(m) = <<w, l>>
    BY DEF Movement, Source
  <1> HIDE DEF r, m, y, q
  <1>6. first \in Seq(Reserving) /\ first \in Seq(WritingOff(w)) /\ <<m>> \in Seq(WritingOff(w))
    <2>1. <<r>> \in Seq(Reserving) /\ <<r>> \in Seq(WritingOff(w)) /\ <<m>> \in Seq(WritingOff(w))
      BY <1>3, <1>4
    <2>2. <<>> \in Seq(Reserving) /\ <<>> \in Seq(WritingOff(w))
      OBVIOUS
    <2> QED
      BY <2>1, <2>2
  <1>7. p \in Seq(WritingOff(w))
    BY <1>2, <1>6
  <1>8. ASSUME NEW k \in Keys, NEW x \in Lines
        PROVE  TakenBy(p, k, <<w, x>>) = IF x = l /\ y = k THEN part[l] ELSE 0
    <2>1. TakenBy(first, k, <<w, x>>) = 0 /\ first \in Seq(Movements)
      <3> HIDE DEF first
      <3> QED
        BY <1>6, ReservingTakesNothing
    <2>2. m \in Movements
      BY <1>4 DEF WritingOff, Reserving
    <2>3. TakenBy(<<m>>, k, <<w, x>>) = TakenFrom(m, k, <<w, x>>) /\ <<m>> \in Seq(Movements)
      BY <2>2, TakesOne
    <2>4. TakenFrom(m, k, <<w, x>>) = IF x = l /\ y = k THEN part[l] ELSE 0
      <3>1. QuantityDelta(m) = -part[l]
        BY <1>5 DEF QuantityDelta
      <3>2. CASE part[l] = 0
        BY <1>5, <3>1, <3>2 DEF TakenFrom
      <3>3. CASE part[l] > 0
        <4>1. QuantityDelta(m) < 0 /\ -m.quantity = part[l]
          BY <1>5, <3>1, <3>3
        <4>2. Source(m) = <<w, x>> <=> x = l
          BY <1>5
        <4> QED
          BY <1>5, <4>1, <4>2 DEF TakenFrom
      <3> QED
        BY <3>2, <3>3
    <2>5. TakenBy(first \o <<m>>, k, <<w, x>>) =
             TakenBy(first, k, <<w, x>>) + TakenBy(<<m>>, k, <<w, x>>)
      <3> DEFINE last == <<m>>
      <3>1. first \in Seq(Movements) /\ last \in Seq(Movements)
        BY <2>1, <2>3
      <3> HIDE DEF first, last
      <3>2. TakenBy(first \o last, k, <<w, x>>) =
               TakenBy(first, k, <<w, x>>) + TakenBy(last, k, <<w, x>>)
        BY <3>1, TakesOfBoth
      <3> QED
        BY <3>2 DEF last
    <2>6. TakenBy(p, k, <<w, x>>) = TakenFrom(m, k, <<w, x>>)
      <3>1. TakenFrom(m, k, <<w, x>>) \in Nat
        BY <2>4
      <3> HIDE DEF first
      <3> QED
        BY <1>2, <2>1, <2>3, <2>5, <3>1
    <2> QED
      BY <2>4, <2>6
  <1> QED
    BY <1>7, <1>8 DEF y

\* The parts listed up to the i-th take each what it is.
LEMMA PartsTake ==
    ASSUME TypeOK, NEW w \in Docs, part \in [Lines -> Nat], NEW s \in Listings(w)
    PROVE  LET p == FlattenSeq([i \in 1..Len(s) |-> PartWriteOff(w, s, i)])
           IN  /\ p \in Seq(WritingOff(w))
               /\ \A k \in Keys, l \in Lines :
                     TakenBy(p, k, <<w, l>>) =
                        IF l \in PartsOf(w) /\ PartKey[l] = k THEN part[l] ELSE 0
  <1> DEFINE n == Len(s)
             f == [i \in 1..n |-> PartWriteOff(w, s, i)]
             S == WritingOff(w)
             listed(l, i) == \E j \in 1..i : s[j] = l
             T == {z \in (0..n) \X Seq(S) : \A k \in Keys, l \in Lines :
                      TakenBy(z[2], k, <<w, l>>) =
                         IF listed(l, z[1]) /\ PartKey[l] = k THEN part[l] ELSE 0}
  <1>1. n \in Nat /\ (\A i \in 1..n : s[i] \in Lines) /\ \A i, j \in 1..n : s[i] = s[j] => i = j
    BY ListingTyped
  <1>2. \A l \in Lines : l \in PartsOf(w) <=> (listed(l, n) /\ part[l] > 0)
    <2>1. \A i \in 1..n : s[i] \in Lines /\ PartOwner[s[i]] = w
      BY ListingTyped
    <2>2. \A l \in Lines : PartOwner[l] = w /\ part[l] > 0 => listed(l, n)
      BY ListingTyped
    <2> QED
      BY <2>1, <2>2 DEF PartsOf
  <1>3. ASSUME NEW i \in 1..n
        PROVE  /\ f[i] \in Seq(S)
               /\ \A k \in Keys, l \in Lines :
                     TakenBy(f[i], k, <<w, l>>) = IF l = s[i] /\ PartKey[l] = k THEN part[l] ELSE 0
    <2>1. s[i] \in Lines /\ part[s[i]] \in Nat
      BY <1>1
    <2>2. OwnRelease(w, s, i) \in Nat
      <3> DEFINE h == i - 1
                 k == PartKey[s[h + 1]]
      <3>1. h \in Nat /\ h + 1 <= n /\ h + 1 = i
        BY <1>1
      <3>2. Asked(s, h, k) \in Nat
        BY <3>1, AskedStep
      <3>3. OwnRelease(w, s, h + 1) =
               Larger(0, Smaller(part[s[h + 1]], Larger(0, Net(w, k)) - Asked(s, h, k)))
        <4> HIDE DEF h
        <4> QED
          BY <3>1, OwnReleaseIs
      <3>4. Net(w, k) \in Int
        <4>1. k \in Keys
          BY <2>1, <3>1, WorkOrderStockAssumption
        <4> QED
          BY <4>1, RowNumbers
      <3>5. part[s[h + 1]] \in Nat
        BY <2>1, <3>1
      <3> HIDE DEF h, k
      <3>6. OwnRelease(w, s, h + 1) \in Nat
        BY <3>2, <3>3, <3>4, <3>5 DEF Larger, Smaller
      <3> QED
        BY <3>1, <3>6
    <2>3. f[i] = PartWriteOff(w, s, i)
      OBVIOUS
    <2> HIDE DEF f, n
    <2> QED
      BY <2>1, <2>2, <2>3, PartTakes
  <1>4. f \in [1..n -> Seq(S)]
    <2>1. f = [i \in 1..n |-> f[i]]
      OBVIOUS
    <2> HIDE DEF f, n, S
    <2> QED
      BY <1>3, <2>1
  <1>5. Inherited(T, n, f, S)
    <2>1. <<0, <<>>>> \in T
      <3>1. 0 \in 0..n /\ <<>> \in Seq(S)
        BY <1>1
      <3>2. ASSUME NEW k \in Keys, NEW l \in Lines
            PROVE  TakenBy(<<>>, k, <<w, l>>) = 0 /\ ~listed(l, 0)
        <4>1. <<>> \in Seq(Reserving)
          OBVIOUS
        <4>2. TakenBy(<<>>, k, <<w, l>>) = 0
          BY <4>1, ReservingTakesNothing
        <4> QED
          BY <4>2
      <3> HIDE DEF n, S, listed
      <3> QED
        BY <3>1, <3>2
    <2>2. ASSUME NEW i \in 0..(n - 1), NEW p \in Seq(S), <<i, p>> \in T
          PROVE  <<i + 1, p \o f[i + 1]>> \in T
      <3>1. i + 1 \in 1..n /\ i + 1 \in 0..n /\ i \in Nat
        BY <1>1
      <3> HIDE DEF n, f
      <3>2. /\ f[i + 1] \in Seq(S)
            /\ \A k \in Keys, l \in Lines :
                  TakenBy(f[i + 1], k, <<w, l>>) =
                     IF l = s[i + 1] /\ PartKey[l] = k THEN part[l] ELSE 0
        BY <1>3, <3>1
      <3>3. p \in Seq(Movements) /\ f[i + 1] \in Seq(Movements) /\ p \o f[i + 1] \in Seq(S)
        BY <3>2 DEF WritingOff, Reserving
      <3>4. ASSUME NEW k \in Keys, NEW l \in Lines
            PROVE  TakenBy(p \o f[i + 1], k, <<w, l>>) =
                      IF listed(l, i + 1) /\ PartKey[l] = k THEN part[l] ELSE 0
        <4>1. TakenBy(p \o f[i + 1], k, <<w, l>>) =
                 TakenBy(p, k, <<w, l>>) + TakenBy(f[i + 1], k, <<w, l>>)
          BY <3>3, TakesOfBoth
        <4>2. TakenBy(p, k, <<w, l>>) = IF listed(l, i) /\ PartKey[l] = k THEN part[l] ELSE 0
          BY <2>2
        <4>3. TakenBy(f[i + 1], k, <<w, l>>) = IF l = s[i + 1] /\ PartKey[l] = k THEN part[l] ELSE 0
          BY <3>2
        <4>4. listed(l, i + 1) <=> (listed(l, i) \/ l = s[i + 1])
          <5>1. 1..(i + 1) = (1..i) \cup {i + 1}
            BY <3>1
          <5> QED
            BY <5>1
        <4>5. l = s[i + 1] => ~listed(l, i)
          <5>1. \A j \in 1..i : j \in 1..n /\ j # i + 1
            BY <3>1, <1>1
          <5> QED
            BY <1>1, <3>1, <5>1
        <4>6. part[l] \in Nat
          OBVIOUS
        <4> HIDE DEF listed
        <4> QED
          BY <4>1, <4>2, <4>3, <4>4, <4>5, <4>6
      <3>5. <<i + 1, p \o f[i + 1]>> \in (0..n) \X Seq(S)
        <4> HIDE DEF S
        <4> QED
          BY <3>1, <3>3
      <3> HIDE DEF listed, S
      <3> QED
        BY <3>4, <3>5
    <2> HIDE DEF T, f, n, S
    <2> QED
      BY <2>1, <2>2 DEF Inherited
  <1>6. FlattenSeq(f) = FlattenSeq([i \in 1..Len(s) |-> PartWriteOff(w, s, i)])
    OBVIOUS
  <1> HIDE DEF T, f, n
  <1>7. FlattenSeq(f) \in Seq(S) /\ <<n, FlattenSeq(f)>> \in T
    BY <1>1, <1>4, <1>5, FlattenInduction
  <1>8. \A k \in Keys, l \in Lines :
           TakenBy(FlattenSeq(f), k, <<w, l>>) =
              IF listed(l, n) /\ PartKey[l] = k THEN part[l] ELSE 0
    <2> HIDE DEF listed
    <2> QED
      BY <1>7 DEF T
  <1>9. ASSUME NEW k \in Keys, NEW l \in Lines
        PROVE  TakenBy(FlattenSeq(f), k, <<w, l>>) =
                  IF l \in PartsOf(w) /\ PartKey[l] = k THEN part[l] ELSE 0
    <2>1. part[l] \in Nat
      OBVIOUS
    <2> HIDE DEF listed
    <2> QED
      BY <1>2, <1>8, <2>1
  <1> QED
    BY <1>6, <1>7, <1>9

---------------------------------------------
(* What a request is told to take. *)

\* What the journal has for line l of order w on row k, as committed and as t sees it.
Recorded(k, w, l) == Total(committed[k].batches, <<w, l>>)
Taken(t, k, w, l) == Total(Visible(t, k).batches, <<w, l>>)

Completing(j) == j.kind = "transition" /\ j.to = "COMPLETED"
Allowed(s, to) == to \in Transitions[s] \/ (to = "DELETED" /\ s \in Deletable)

\* A list that takes nothing, and what a list is told to do for the job it is opened for.
TakesNone(p) == p \in Seq(Movements) /\ \A i \in 1..Len(p) : QuantityDelta(p[i]) >= 0
ToldToTake(w, p, j) ==
    /\ j.kind = "transition" => Allowed(status[w], j.to)
    /\ j.kind = "edit" => w = PartOwner[j.part]
    /\ \A i \in 1..Len(p) : QuantityDelta(p[i]) < 0 => Completing(j) /\ p[i].doc = w
    /\ Completing(j) => \A k \in Keys, l \in Lines :
          TakenBy(p, k, <<w, l>>) = IF l \in PartsOf(w) /\ PartKey[l] = k THEN part[l] ELSE 0

\* Reserving and releasing is no writing off.
LEMMA ReleaseReserves ==
    ASSUME TypeOK, NEW w \in Docs, NEW keep \in [Keys -> Int]
    PROVE  ReleaseProgram(w, keep) \in Seq(Reserving)
  <1> DEFINE amount == [k \in Keys |-> Smaller(Net(w, k) - keep[k], committed[k].reserved)]
  <1>1. \A k \in Keys : amount[k] \in Int
    <2> SUFFICES ASSUME NEW k \in Keys
                 PROVE  Smaller(Net(w, k) - keep[k], committed[k].reserved) \in Int
      OBVIOUS
    <2>1. Net(w, k) \in Int /\ keep[k] \in Int /\ committed[k].reserved \in Int
      BY RowNumbers
    <2> QED
      BY <2>1 DEF Smaller
  <1>2. PICK a : a = amount
    OBVIOUS
  <1>3. a \in [Keys -> Int]
    BY <1>1, <1>2
  <1>4. PICK type \in {"RESERVATION", "RESERVATION_RELEASE"} : type = "RESERVATION_RELEASE"
    OBVIOUS
  <1>5. PICK sign \in {1, -1} : sign = -1
    OBVIOUS
  <1>6. InKeyOrder(type, w, a, sign) \in Seq(Reserving)
    BY <1>3, KeyedReserves
  <1> QED
    BY <1>2, <1>4, <1>5, <1>6 DEF ReleaseProgram

\* The same of the list for the way to work.
LEMMA ReserveReserves ==
    ASSUME TypeOK, NEW w \in Docs, part \in [Lines -> Nat]
    PROVE  ReserveProgram(w) \in Seq(Reserving)
  <1> DEFINE n(k) == Smaller(Required(w, part, k) - Larger(0, Net(w, k)), Free(committed[k]))
             amount == [k \in Keys |-> n(k)]
  <1>1. \A k \in Keys : n(k) \in Int
    <2> SUFFICES ASSUME NEW k \in Keys PROVE n(k) \in Int
      OBVIOUS
    <2>1. Net(w, k) \in Int /\ Required(w, part, k) \in Nat /\ Free(committed[k]) \in Nat
      BY RowNumbers, NeedIsSum
    <2> QED
      BY <2>1 DEF Smaller, Larger
  <1>2. PICK a : a = amount
    OBVIOUS
  <1>3. a \in [Keys -> Int]
    BY <1>1, <1>2
  <1>4. PICK type \in {"RESERVATION", "RESERVATION_RELEASE"} : type = "RESERVATION"
    OBVIOUS
  <1>5. PICK sign \in {1, -1} : sign = 1
    OBVIOUS
  <1>6. InKeyOrder(type, w, a, sign) \in Seq(Reserving)
    BY <1>3, KeyedReserves
  <1> QED
    BY <1>2, <1>4, <1>5, <1>6 DEF ReserveProgram

\* Completion takes each part in full, and nothing else.
LEMMA CompletionTakes ==
    ASSUME TypeOK, NEW w \in Docs, part \in [Lines -> Nat], NEW s \in Listings(w),
           NEW p, p = WriteOffProgram(w, s)
    PROVE  /\ p \in Seq(WritingOff(w))
           /\ \A k \in Keys, l \in Lines :
                 TakenBy(p, k, <<w, l>>) = IF l \in PartsOf(w) /\ PartKey[l] = k THEN part[l] ELSE 0
  <1> DEFINE first == FlattenSeq([i \in 1..Len(s) |-> PartWriteOff(w, s, i)])
             keep == [k \in Keys |-> Required(w, part, k)]
             rest == ReleaseProgram(w, keep)
  <1>1. /\ first \in Seq(WritingOff(w))
        /\ \A k \in Keys, l \in Lines :
              TakenBy(first, k, <<w, l>>) = IF l \in PartsOf(w) /\ PartKey[l] = k THEN part[l] ELSE 0
    BY PartsTake
  <1>2. rest \in Seq(Reserving) /\ rest \in Seq(WritingOff(w))
    <2>1. keep \in [Keys -> Int]
      BY NeedIsSum
    <2>2. rest \in Seq(Own(w))
      <3> HIDE DEF keep
      <3> QED
        BY <2>1, ReleaseTotals
    <2>3. rest \in Seq(Reserving)
      <3> HIDE DEF keep
      <3> QED
        BY <2>1, ReleaseReserves
    <2> HIDE DEF rest
    <2> QED
      BY <2>3 DEF WritingOff
  <1>3. p = first \o rest
    BY DEF WriteOffProgram
  <1> HIDE DEF first, rest
  <1>4. p \in Seq(WritingOff(w))
    BY <1>1, <1>2, <1>3
  <1>5. first \in Seq(Movements) /\ rest \in Seq(Movements)
    BY <1>1, <1>2 DEF WritingOff, Reserving
  <1>6. ASSUME NEW k \in Keys, NEW l \in Lines
        PROVE  TakenBy(p, k, <<w, l>>) = IF l \in PartsOf(w) /\ PartKey[l] = k THEN part[l] ELSE 0
    <2>1. TakenBy(p, k, <<w, l>>) = TakenBy(first, k, <<w, l>>) + TakenBy(rest, k, <<w, l>>)
      BY <1>3, <1>5, TakesOfBoth
    <2>2. TakenBy(rest, k, <<w, l>>) = 0
      BY <1>2, ReservingTakesNothing
    <2>3. TakenBy(first, k, <<w, l>>) = IF l \in PartsOf(w) /\ PartKey[l] = k THEN part[l] ELSE 0
      BY <1>1
    <2>4. part[l] \in Nat
      OBVIOUS
    <2> QED
      BY <2>1, <2>2, <2>3, <2>4
  <1> QED
    BY <1>4, <1>6

\* A cancellation returns part by part, each for its line, and always something.
LEMMA ReturnProgramIs ==
    ASSUME TypeOK, NEW w \in Docs, part \in [Lines -> Nat], NEW s \in Listings(w),
           NEW p, p = ReturnProgram(w, s)
    PROVE  /\ p \in Seq(Movements) /\ Len(p) = Len(s)
           /\ \A i \in 1..Len(p) :
                 /\ s[i] \in PartsOf(w)
                 /\ p[i].type = "RETURN" /\ p[i].key = PartKey[s[i]] /\ p[i].doc = w /\ p[i].line = s[i]
                 /\ p[i].quantity = ReturnedQuantity(w, s[i]) /\ p[i].quantity > 0
                 /\ QuantityDelta(p[i]) > 0
  <1> DEFINE n == Len(s)
             m(i) == Movement("RETURN", PartKey[s[i]], ReturnedQuantity(w, s[i]), w, s[i])
  <1>1. n \in Nat /\ \A i \in 1..n : s[i] \in Lines /\ PartKey[s[i]] \in Keys /\ part[s[i]] \in Nat
    BY ListingTyped
  <1>2. \A i \in 1..n : s[i] \in PartsOf(w)
    <2>1. DOMAIN s = 1..n
      BY ListingTyped
    <2>2. \A i \in DOMAIN s : s[i] \in PartsOf(w)
      BY DEF Listings
    <2> QED
      BY <2>1, <2>2
  <1>3. ASSUME NEW i \in 1..n PROVE ReturnedQuantity(w, s[i]) \in Int /\ ReturnedQuantity(w, s[i]) > 0
    <2>1. part[s[i]] > 0
      BY <1>2 DEF PartsOf
    <2>2. WrittenByLine(w, s[i]) \in Int
      BY <1>1, WrittenTyped
    <2> QED
      BY <1>1, <2>1, <2>2 DEF ReturnedQuantity
  <1>4. p \in Seq(Movements)
    BY ReturnTotals
  <1>5. p = [i \in 1..n |-> m(i)]
    BY DEF ReturnProgram
  <1>6. Len(p) = n
    <2> HIDE DEF n, m
    <2> QED
      BY <1>1, <1>4, <1>5
  <1>7. ASSUME NEW i \in 1..Len(p)
        PROVE  /\ s[i] \in PartsOf(w)
               /\ p[i].type = "RETURN" /\ p[i].key = PartKey[s[i]] /\ p[i].doc = w /\ p[i].line = s[i]
               /\ p[i].quantity = ReturnedQuantity(w, s[i]) /\ p[i].quantity > 0
               /\ QuantityDelta(p[i]) > 0
    <2>1. i \in 1..n
      BY <1>6
    <2>2. p[i] = m(i)
      BY <1>5, <2>1
    <2>3. /\ p[i].type = "RETURN" /\ p[i].key = PartKey[s[i]] /\ p[i].doc = w /\ p[i].line = s[i]
          /\ p[i].quantity = ReturnedQuantity(w, s[i])
      BY <2>2 DEF Movement
    <2>4. ReturnedQuantity(w, s[i]) > 0
      BY <1>3, <2>1
    <2> QED
      BY <1>2, <2>1, <2>3, <2>4 DEF QuantityDelta
  <1> QED
    BY <1>4, <1>6, <1>7

\* A transition that is no completion takes nothing, and returns only on a cancellation.
LEMMA OtherTransitions ==
    ASSUME NEW w \in Docs, Reading(w), NEW to, to # "COMPLETED",
           NEW p \in TransitionPrograms(w, status[w], to)
    PROVE  /\ TakesNone(p)
           /\ IF to = "CANCELLED" /\ status[w] \in Charged
              THEN \E s \in Listings(w) : p = ReturnProgram(w, s)
              ELSE \A i \in 1..Len(p) : p[i].type # "RETURN"
  <1>1. TypeOK /\ part \in [Lines -> Nat]
    BY DEF Reading
  <1>2. ASSUME p \in Seq(Reserving) PROVE TakesNone(p) /\ \A i \in 1..Len(p) : p[i].type # "RETURN"
    BY <1>2, ReservingTakesNothing DEF TakesNone
  <1>3. CASE to = "CANCELLED" /\ status[w] \in Charged
    <2>1. PICK s \in Listings(w) : p = ReturnProgram(w, s)
      BY <1>3 DEF TransitionPrograms
    <2>2. p \in Seq(Movements) /\ \A i \in 1..Len(p) : QuantityDelta(p[i]) > 0 /\ p[i] \in Movements
      <3>1. p \in Seq(Movements) /\ \A i \in 1..Len(p) : QuantityDelta(p[i]) > 0
        BY <1>1, <2>1, ReturnProgramIs
      <3> QED
        BY <3>1
    <2>3. \A i \in 1..Len(p) : QuantityDelta(p[i]) >= 0
      BY <2>2 DEF QuantityDelta, Movements
    <2> QED
      BY <1>3, <2>1, <2>2, <2>3 DEF TakesNone
  <1>4. CASE ~(to = "CANCELLED" /\ status[w] \in Charged)
    <2>1. p \in {ReserveProgram(w), ReleaseProgram(w, KeepNothing), <<>>}
      BY <1>4 DEF TransitionPrograms
    <2>2. ReserveProgram(w) \in Seq(Reserving)
      BY <1>1, ReserveReserves
    <2>3. ReleaseProgram(w, KeepNothing) \in Seq(Reserving)
      <3>1. KeepNothing \in [Keys -> Int]
        BY DEF KeepNothing
      <3> QED
        BY <1>1, <3>1, ReleaseReserves
    <2>4. <<>> \in Seq(Reserving)
      OBVIOUS
    <2>5. p \in Seq(Reserving)
      BY <2>1, <2>2, <2>3, <2>4
    <2> QED
      BY <1>2, <1>4, <2>5
  <1> QED
    BY <1>3, <1>4

\* What a request opens is told to take what its order needs, and nothing of the others.
LEMMA RequestTold ==
    ASSUME OrderInvariant, NEW t \in Txns, Request(t)
    PROVE  ToldToTake(job'[t].order, txn'[t].program, job'[t])
  <1>1. TypeOK /\ OrderTyped /\ part \in [Lines -> Nat]
    BY DEF OrderInvariant, LedgerInvariant, OrderTyped
  <1>2. ASSUME NEW w, NEW p, NEW j, Open(t, w, p, j) PROVE txn'[t].program = p /\ job'[t] = j
    BY <1>1, <1>2 DEF Open, TypeOK, OrderTyped
  <1>3. ASSUME NEW w, NEW p, NEW j, TakesNone(p), ~Completing(j),
               j.kind = "transition" => Allowed(status[w], j.to),
               j.kind = "edit" => w = PartOwner[j.part]
        PROVE  ToldToTake(w, p, j)
    <2>1. ASSUME NEW i \in 1..Len(p) PROVE ~(QuantityDelta(p[i]) < 0)
      <3>1. QuantityDelta(p[i]) >= 0 /\ p[i] \in Movements
        BY <1>3 DEF TakesNone
      <3> QED
        BY <3>1 DEF QuantityDelta, Movements
    <2> QED
      BY <1>3, <2>1 DEF ToldToTake
  <1>4. ASSUME NEW p \in Seq(Reserving) PROVE TakesNone(p)
    BY ReservingTakesNothing DEF TakesNone
  <1>5. ASSUME NEW w \in Docs, NEW to \in Statuses, BeginTransition(t, w, to)
        PROVE  ToldToTake(job'[t].order, txn'[t].program, job'[t])
    <2> DEFINE j == [kind |-> "transition", order |-> w, to |-> to]
    <2>1. PICK p \in TransitionPrograms(w, status[w], to) : Open(t, w, p, j)
      BY <1>5 DEF BeginTransition
    <2>2. Allowed(status[w], to)
      BY <1>5 DEF BeginTransition, Allowed
    <2>3. j.kind = "transition" /\ j.order = w /\ j.to = to
      OBVIOUS
    <2> HIDE DEF j
    <2>4. Reading(w)
      BY OrdersReading
    <2>5. CASE to = "COMPLETED"
      <3>1. PICK s \in Listings(w) : p = WriteOffProgram(w, s)
        BY <2>5 DEF TransitionPrograms
      <3>2. /\ p \in Seq(WritingOff(w))
            /\ \A k \in Keys, l \in Lines :
                  TakenBy(p, k, <<w, l>>) = IF l \in PartsOf(w) /\ PartKey[l] = k THEN part[l] ELSE 0
        BY <1>1, <3>1, CompletionTakes
      <3>3. \A i \in 1..Len(p) : QuantityDelta(p[i]) < 0 => p[i].doc = w
        <4>1. \A i \in 1..Len(p) : p[i] \in WritingOff(w)
          BY <3>2
        <4> QED
          BY <4>1 DEF WritingOff, Reserving, QuantityDelta
      <3>4. ToldToTake(w, p, j)
        BY <2>2, <2>3, <2>5, <3>2, <3>3 DEF ToldToTake, Completing
      <3> QED
        BY <1>2, <2>1, <2>3, <3>4
    <2>6. CASE to # "COMPLETED"
      <3>1. TakesNone(p)
        BY <2>4, <2>6, OtherTransitions
      <3>2. ToldToTake(w, p, j)
        BY <1>3, <2>2, <2>3, <2>6, <3>1 DEF Completing
      <3> QED
        BY <1>2, <2>1, <2>3, <3>2
    <2> QED
      BY <2>5, <2>6
  <1>6. ASSUME NEW e \in checked, BeginChangePart(t, e)
        PROVE  ToldToTake(job'[t].order, txn'[t].program, job'[t])
    <2> DEFINE w == PartOwner[e.part]
               q == IF part[e.part] = 0 THEN 0 ELSE e.quantity
               after == [part EXCEPT ![e.part] = q]
               keep == [k \in Keys |-> Required(w, after, k)]
               p == ReleaseProgram(w, keep)
               j == [kind |-> "edit", order |-> w, part |-> e.part, quantity |-> q]
    <2>1. Open(t, w, p, j)
      BY <1>6 DEF BeginChangePart
    <2>2. e.part \in Lines /\ e.quantity \in Nat /\ w \in Docs
      BY <1>1, WorkOrderStockAssumption DEF OrderTyped
    <2>3. q \in Nat /\ after \in [Lines -> Nat]
      BY <1>1, <2>2
    <2>4. j.kind = "edit" /\ j.order = w /\ j.part = e.part
      OBVIOUS
    <2> HIDE DEF j, q, after
    <2>5. keep \in [Keys -> Int]
      BY <2>3, NeedIsSum
    <2> HIDE DEF keep
    <2>6. p \in Seq(Reserving)
      BY <1>1, <2>2, <2>5, ReleaseReserves
    <2> HIDE DEF p
    <2>7. ToldToTake(w, p, j)
      BY <1>3, <1>4, <2>4, <2>6 DEF Completing
    <2> QED
      BY <1>2, <2>1, <2>4, <2>7
  <1>7. ASSUME NEW w \in Docs, NEW k \in Keys, NEW q \in Quantities, BeginReceipt(t, w, k, q)
        PROVE  ToldToTake(job'[t].order, txn'[t].program, job'[t])
    <2> DEFINE m == Movement("RECEIPT", k, q, NoDoc, NoLine)
               j == [kind |-> "receipt", order |-> w, key |-> k, quantity |-> q, allocated |-> FALSE]
    <2>1. Open(t, w, <<m>>, j)
      BY <1>7 DEF BeginReceipt
    <2>2. q \in Nat
      BY WorkOrderStockAssumption DEF Quantities
    <2>3. m \in Movements /\ QuantityDelta(m) = q
      BY <2>2 DEF Movement, Movements, MovementTypes, InflowOnly, QuantityDelta
    <2>4. j.kind = "receipt" /\ j.order = w
      OBVIOUS
    <2> HIDE DEF m, j
    <2>5. TakesNone(<<m>>)
      BY <2>2, <2>3 DEF TakesNone
    <2>6. ToldToTake(w, <<m>>, j)
      BY <1>3, <2>4, <2>5 DEF Completing
    <2> QED
      BY <1>2, <2>1, <2>4, <2>6
  <1>8. ASSUME NEW w \in Docs, NEW k \in Keys, NEW q \in Quantities, BeginReleaseReservation(t, w, k, q)
        PROVE  ToldToTake(job'[t].order, txn'[t].program, job'[t])
    <2> DEFINE m == Movement("RESERVATION_RELEASE", k, -q, w, NoLine)
               j == [kind |-> "release", order |-> w]
    <2>1. Open(t, w, <<m>>, j)
      BY <1>8 DEF BeginReleaseReservation
    <2>2. q \in Nat
      BY WorkOrderStockAssumption DEF Quantities
    <2>3. m \in Reserving
      BY <2>2 DEF Movement, Movements, MovementTypes, Reserving
    <2>4. j.kind = "release" /\ j.order = w
      OBVIOUS
    <2> HIDE DEF m, j
    <2>5. <<m>> \in Seq(Reserving)
      BY <2>3
    <2>6. ToldToTake(w, <<m>>, j)
      BY <1>3, <1>4, <2>4, <2>5 DEF Completing
    <2> QED
      BY <1>2, <2>1, <2>4, <2>6
  <1> QED
    BY <1>5, <1>6, <1>7, <1>8 DEF Request

---------------------------------------------
(* What a movement writes to the journal of the batches. *)

\* What a source took is a number, and nothing only if it took from no batch.
LEMMA TotalTyped ==
    ASSUME NEW b \in Seq(Batches), NEW s \in Sources
    PROVE  /\ Total(b, s) \in Nat
           /\ Total(b, s) = 0 => \A i \in Indices(b) : b[i].taken[s] = 0
           /\ Total(b, s) = 0 => (NoneReturned(b, s) <=> AllReturned(b, s))
  <1> DEFINE D == Indices(b)
             f == [i \in D |-> b[i].taken[s]]
  <1>1. IsFiniteSet(D) /\ f \in [D -> Int]
    BY BatchNumbers
  <1>2. \A i \in D : f[i] = b[i].taken[s] /\ f[i] \in Nat
    BY BatchNumbers
  <1>3. Total(b, s) = SumFunction(f)
    BY DEF Total
  <1> HIDE DEF D, f
  <1>4. SumFunction(f) = SumFunctionOnSet(f, D)
    BY <1>1, FunctionSum
  <1>5. SumFunctionOnSet(f, D) \in Nat /\ \A i \in D : f[i] <= SumFunctionOnSet(f, D)
    BY <1>1, <1>2, SumNat
  <1>6. Total(b, s) = 0 => \A i \in Indices(b) : b[i].taken[s] = 0
    <2>1. Total(b, s) = 0 => \A i \in D : f[i] = 0
      BY <1>2, <1>3, <1>4, <1>5
    <2> QED
      BY <1>2, <2>1 DEF D
  <1>7. Total(b, s) = 0 => (NoneReturned(b, s) <=> AllReturned(b, s))
    BY <1>6 DEF NoneReturned, AllReturned
  <1> QED
    BY <1>3, <1>4, <1>5, <1>6, <1>7

\* What the journal of b has for a source, c has too.
SameReturns(b, c, s) ==
    (NoneReturned(b, s) => NoneReturned(c, s)) /\ (AllReturned(b, s) => AllReturned(c, s))
SameJournal(b, c, s) == Total(c, s) = Total(b, s) /\ SameReturns(b, c, s)

\* Lists of batches that agree on a source.
LEMMA JournalAgrees ==
    ASSUME NEW b, NEW c, Indices(c) = Indices(b), NEW s,
           \A i \in Indices(b) : c[i].taken[s] = b[i].taken[s] /\ c[i].returned[s] = b[i].returned[s]
    PROVE  SameJournal(b, c, s)
  <1>1. [i \in Indices(b) |-> c[i].taken[s]] = [i \in Indices(b) |-> b[i].taken[s]]
    OBVIOUS
  <1>2. Total(c, s) = Total(b, s)
    BY <1>1 DEF Total
  <1>3. SameReturns(b, c, s)
    BY DEF SameReturns, NoneReturned, AllReturned
  <1> QED
    BY <1>2, <1>3 DEF SameJournal

\* A new batch has an empty journal.
LEMMA AppendJournals ==
    ASSUME NEW b \in Seq(Batches), NEW q, NEW c, c = Append(b, NewBatch(q)), NEW s \in Sources
    PROVE  SameJournal(b, c, s)
  <1> DEFINE n == Len(b)
             new == NewBatch(q)
  <1>1. n \in Nat /\ Indices(b) = 1..n /\ Len(c) = n + 1 /\ c[n + 1] = new /\ \A i \in 1..n : c[i] = b[i]
    BY DEF Indices
  <1>2. new.taken[s] = 0 /\ new.returned[s] = 0
    BY DEF NewBatch
  <1> HIDE DEF n, new
  <1>3. Indices(c) = 1..(n + 1)
    BY <1>1 DEF Indices
  <1>4. \A i \in 1..(n + 1) : i \in 1..n \/ i = n + 1
    BY <1>1
  <1>5. \A i \in 1..n : i \in 1..(n + 1)
    BY <1>1
  <1>6. n + 1 \in 1..(n + 1)
    BY <1>1
  <1> DEFINE f == [i \in 1..n |-> b[i].taken[s]]
             e == [i \in 1..(n + 1) |-> c[i].taken[s]]
  <1>7. f \in [1..n -> Int]
    BY <1>1, BatchNumbers
  <1>8. (\A i \in 1..n : e[i] = f[i]) /\ e[n + 1] = 0
    BY <1>1, <1>2, <1>5, <1>6
  <1>9. e \in [1..(n + 1) -> Int]
    <2>1. \A i \in 1..(n + 1) : e[i] \in Int
      <3> HIDE DEF e, f
      <3> QED
        BY <1>4, <1>7, <1>8
    <2> QED
      BY <2>1
  <1>10. Total(b, s) = SumFunction(f) /\ Total(c, s) = SumFunction(e)
    BY <1>1, <1>3 DEF Total
  <1>11. NoneReturned(b, s) => NoneReturned(c, s)
    BY <1>1, <1>2, <1>3, <1>4 DEF NoneReturned
  <1>12. AllReturned(b, s) => AllReturned(c, s)
    BY <1>1, <1>2, <1>3, <1>4 DEF AllReturned
  <1> HIDE DEF f, e
  <1>13. SumFunction(e) = SumFunction(f) + e[n + 1]
    BY <1>1, <1>7, <1>8, <1>9, SequenceSum
  <1>14. SumFunction(f) \in Int
    <2>1. IsFiniteSet(1..n)
      BY <1>1, FS_Interval
    <2> QED
      BY <1>7, <2>1, FunctionSum
  <1>15. Total(c, s) = Total(b, s)
    BY <1>8, <1>10, <1>13, <1>14
  <1> QED
    BY <1>11, <1>12, <1>15 DEF SameJournal, SameReturns

\* What is consumed is journalled for its source.
LEMMA ConsumeJournals ==
    ASSUME NEW b \in Seq(Batches), NEW q, NEW src \in Sources, NEW c \in Consumed(b, q, src)
    PROVE  /\ Total(c, src) = Total(b, src) + q
           /\ NoneReturned(b, src) => NoneReturned(c, src)
           /\ \A s \in Sources \ {src} : SameJournal(b, c, s)
  <1> DEFINE D == Indices(b)
             amount == [i \in D |-> b[i].remaining]
             drawn(w) == [i \in D |-> [b[i] EXCEPT !.remaining = @ - w[i], !.taken[src] = @ + w[i]]]
  <1>1. PICK w \in Walks(amount, q) : c = drawn(w)
    BY DEF Consumed
  <1>2. IsFiniteSet(D) /\ w \in [D -> Int] /\ SumFunction(w) = q
    <2>1. w \in [D -> 0..q] /\ SumFunction(w) = q
      BY DEF Walks
    <2> QED
      BY <2>1, BatchNumbers
  <1>3. c \in Seq(Batches) /\ Indices(c) = D
    <2>1. c \in Seq(Batches)
      BY ConsumedTyped
    <2>2. DOMAIN c = D
      BY <1>1
    <2> QED
      BY <2>1, <2>2 DEF Indices
  <1>4. ASSUME NEW i \in D
        PROVE  /\ c[i].taken[src] = b[i].taken[src] + w[i]
               /\ c[i].returned = b[i].returned
               /\ \A s \in Sources \ {src} : c[i].taken[s] = b[i].taken[s]
    <2>1. b[i] \in Batches /\ b[i].taken \in [Sources -> Nat]
      BY BatchNumbers
    <2>2. c[i] = [b[i] EXCEPT !.remaining = @ - w[i], !.taken[src] = @ + w[i]]
      BY <1>1
    <2>3. PICK x, n : x = b[i] /\ n = w[i]
      OBVIOUS
    <2>4. /\ x \in [received : Nat, remaining : Nat,
                    taken : [Sources -> Nat], returned : [Sources -> Nat]]
          /\ c[i] = [x EXCEPT !.remaining = @ - n, !.taken[src] = @ + n]
      BY <2>1, <2>2, <2>3 DEF Batches
    <2> HIDE DEF drawn, amount, D
    <2>5. c[i].taken = [x.taken EXCEPT ![src] = @ + n] /\ c[i].returned = x.returned
      BY <2>4
    <2>6. x.taken \in [Sources -> Nat]
      BY <2>1, <2>3
    <2> QED
      BY <2>3, <2>5, <2>6
  <1> HIDE DEF drawn, amount
  <1>5. Total(c, src) = Total(b, src) + q
    <2> DEFINE f == [i \in D |-> b[i].taken[src]]
               e == [i \in D |-> c[i].taken[src]]
    <2>1. f \in [D -> Int] /\ e \in [D -> Int]
      <3>1. f \in [D -> Int]
        BY BatchNumbers
      <3>2. [i \in Indices(c) |-> c[i].taken[src]] \in [Indices(c) -> Int]
        BY <1>3, BatchNumbers
      <3> QED
        BY <1>3, <3>1, <3>2
    <2>2. \A i \in D : e[i] = f[i] + w[i]
      BY <1>4
    <2>3. Total(b, src) = SumFunction(f) /\ Total(c, src) = SumFunction(e)
      BY <1>3 DEF Total
    <2> HIDE DEF f, e, D
    <2>4. PointwiseSum(D, f, w, e)
      BY <1>2, <2>1, <2>2 DEF PointwiseSum
    <2>5. SumFunction(e) = SumFunction(f) + SumFunction(w)
      BY <2>4, FunctionsAdd
    <2> QED
      BY <1>2, <2>3, <2>5
  <1>6. NoneReturned(b, src) => NoneReturned(c, src)
    BY <1>3, <1>4 DEF NoneReturned
  <1>7. ASSUME NEW s \in Sources \ {src} PROVE SameJournal(b, c, s)
    BY <1>3, <1>4, JournalAgrees
  <1> QED
    BY <1>5, <1>6, <1>7

\* What comes back is journalled for its source, and the journal of what was taken stays.
LEMMA PutBackJournals ==
    ASSUME NEW b \in Seq(Batches), NEW src \in Sources, NEW back, back \in [Indices(b) -> Nat],
           NEW c, c = PutBack(b, back, src)
    PROVE  /\ Indices(c) = Indices(b) => Total(c, src) = Total(b, src)
           /\ Indices(c) = Indices(b) => \A s \in Sources \ {src} : SameJournal(b, c, s)
           /\ Indices(c) = Indices(b) /\ NoneReturned(b, src) =>
                \A i \in Indices(b) : c[i].taken[src] = b[i].taken[src] /\ c[i].returned[src] = back[i]
  <1> DEFINE D == Indices(b)
  <1>1. ASSUME NEW i \in D
        PROVE  /\ c[i].taken = b[i].taken
               /\ b[i].returned[src] = 0 => c[i].returned[src] = back[i]
               /\ \A s \in Sources \ {src} : c[i].returned[s] = b[i].returned[s]
    <2>1. b[i] \in Batches /\ b[i].returned \in [Sources -> Nat] /\ back[i] \in Nat
      BY BatchNumbers
    <2>2. c[i] = IF back[i] = 0 \/ AlreadyReturned(b[i], src) THEN b[i]
                 ELSE [b[i] EXCEPT !.remaining = @ + back[i], !.returned[src] = @ + back[i]]
      BY DEF PutBack
    <2>3. PICK x, y, n : x = b[i] /\ y = c[i] /\ n = back[i]
      OBVIOUS
    <2>4. /\ x \in [received : Nat, remaining : Nat,
                    taken : [Sources -> Nat], returned : [Sources -> Nat]]
          /\ x.returned \in [Sources -> Nat] /\ n \in Nat
          /\ y = IF n = 0 \/ x.returned[src] > 0 THEN x
                 ELSE [x EXCEPT !.remaining = @ + n, !.returned[src] = @ + n]
      BY <2>1, <2>2, <2>3 DEF Batches, AlreadyReturned
    <2> HIDE DEF D
    <2>5. CASE n = 0 \/ x.returned[src] > 0
      <3>1. y = x
        BY <2>4, <2>5
      <3> QED
        BY <2>3, <2>4, <2>5, <3>1
    <2>6. CASE ~(n = 0 \/ x.returned[src] > 0)
      <3>1. y.taken = x.taken /\ y.returned = [x.returned EXCEPT ![src] = @ + n]
        BY <2>4, <2>6
      <3> QED
        BY <2>3, <2>4, <3>1
    <2> QED
      BY <2>5, <2>6
  <1>2. ASSUME Indices(c) = D, NEW s \in Sources, s # src PROVE SameJournal(b, c, s)
    BY <1>1, <1>2, JournalAgrees
  <1>3. ASSUME Indices(c) = D PROVE Total(c, src) = Total(b, src)
    <2>1. [i \in D |-> c[i].taken[src]] = [i \in D |-> b[i].taken[src]]
      BY <1>1
    <2> QED
      BY <1>3, <2>1 DEF Total
  <1>4. ASSUME NoneReturned(b, src), NEW i \in D
        PROVE  c[i].taken[src] = b[i].taken[src] /\ c[i].returned[src] = back[i]
    BY <1>1, <1>4 DEF NoneReturned
  <1> QED
    BY <1>2, <1>3, <1>4

\* What a movement does to the journal of every source.
JournalEffect(m, b, c) ==
    /\ \A s \in Sources : Total(c, s) = Total(b, s) + TakenFrom(m, m.key, s)
    /\ \A s \in Sources : m.type # "RETURN" \/ s # Source(m) =>
          /\ NoneReturned(b, s) => NoneReturned(c, s)
          /\ TakenFrom(m, m.key, s) = 0 => SameReturns(b, c, s)
    /\ m.type = "RETURN" /\ m.line \in Lines /\ NoneReturned(b, Source(m))
          /\ Total(b, Source(m)) = m.quantity => AllReturned(c, Source(m))

\* The return of what a line took comes back into the batches it was taken from.
LEMMA LineComesBack ==
    ASSUME NEW b \in Seq(Batches), NEW m \in Movements, m.line \in Lines, m.quantity > 0,
           NoneReturned(b, Source(m)), Total(b, Source(m)) = m.quantity,
           NEW back \in ReturnWalks(b, m), NEW c, c = PutBack(b, back, Source(m)),
           back \in [Indices(b) -> Nat], Indices(c) = Indices(b)
    PROVE  AllReturned(c, Source(m))
  <1> DEFINE D == Indices(b)
             src == Source(m)
             q == m.quantity
             taken == [i \in D |-> b[i].taken[src]]
  <1>1. IsFiniteSet(D) /\ src \in Sources /\ taken \in [D -> Int] /\ SumFunction(taken) = q /\ q \in Int
    BY BatchNumbers, SourceTyped DEF Total
  <1>2. \E i \in D : taken[i] > 0
    <2>1. (\A i \in D : taken[i] = 0) => SumFunction(taken) = 0
      <3> HIDE DEF D, taken
      <3> QED
        BY <1>1, FunctionZero
    <2>2. \A i \in D : taken[i] \in Nat
      BY <1>1, BatchNumbers
    <2> HIDE DEF taken, D
    <2>3. \A i \in D : taken[i] = 0 \/ taken[i] > 0
      BY <2>2
    <2> QED
      BY <1>1, <2>1, <2>3
  <1>3. ReturnPool(b, m.doc, m.line) = taken
    <2>1. m.line \in LinesWithOwn(b, m.doc)
      BY <1>2 DEF LinesWithOwn, Source
    <2> QED
      BY <2>1 DEF ReturnPool, Source
  <1>4. (\A i \in D : back[i] <= taken[i]) /\ SumFunction(back) = q
    <2>1. back \in Walks(taken, Smaller(SumFunction(taken), q))
      BY <1>3 DEF ReturnWalks
    <2>2. Smaller(SumFunction(taken), q) = q
      <3> HIDE DEF taken, q, D, src
      <3> QED
        BY <1>1 DEF Smaller
    <2>3. back \in Walks(taken, q) /\ DOMAIN taken = D
      BY <2>1, <2>2
    <2> HIDE DEF taken, D
    <2> QED
      BY <2>3 DEF Walks
  <1>5. \A i \in D : back[i] = taken[i]
    <2> HIDE DEF taken, D, q
    <2>1. back \in [D -> Int]
      BY DEF D
    <2>2. PointwiseBelow(D, back, taken)
      BY <1>1, <1>4, <2>1 DEF PointwiseBelow
    <2> QED
      BY <1>1, <1>4, <2>2, FunctionsMeet
  <1>6. \A i \in D : c[i].taken[src] = b[i].taken[src] /\ c[i].returned[src] = back[i]
    BY <1>1, PutBackJournals
  <1>7. \A i \in D : c[i].returned[src] = c[i].taken[src]
    BY <1>5, <1>6
  <1> QED
    BY <1>7 DEF AllReturned

\* createMovement with its batch step.
LEMMA MovementJournals ==
    ASSUME NEW m \in Movements, WellFormed(m), NEW b \in Seq(Batches), NEW c \in BatchOutcomes(m, b)
    PROVE  JournalEffect(m, b, c)
  <1> DEFINE src == Source(m)
  <1>1. src \in Sources /\ src = <<m.doc, m.line>> /\ m.quantity \in Int
    BY SourceTyped DEF Source
  <1>2. \A s \in Sources : Total(b, s) \in Nat
    BY TotalTyped
  <1>3. CASE m.type \in BatchCreatingInflow
    <2>1. m.quantity > 0
      BY <1>3 DEF WellFormed, BatchCreatingInflow, InflowOnly
    <2>2. ~(QuantityDelta(m) < 0) /\ m.type # "RETURN"
      BY <1>1, <1>3, <2>1 DEF QuantityDelta, BatchCreatingInflow
    <2>3. c = Append(b, NewBatch(m.quantity))
      BY <1>3, <2>2 DEF BatchOutcomes
    <2>4. \A s \in Sources : SameJournal(b, c, s)
      BY <2>3, AppendJournals
    <2>5. \A s \in Sources : TakenFrom(m, m.key, s) = 0
      BY <2>2 DEF TakenFrom
    <2> HIDE DEF src
    <2> QED
      BY <1>2, <2>2, <2>4, <2>5 DEF JournalEffect, SameJournal, SameReturns
  <1>4. CASE m.type \notin BatchCreatingInflow /\ QuantityDelta(m) < 0
    <2>1. m.type # "RETURN" /\ QuantityDelta(m) = m.quantity
      BY <1>1, <1>4 DEF WellFormed, QuantityDelta
    <2>2. c \in Consumed(b, -m.quantity, src)
      BY <1>1, <1>4, <2>1 DEF BatchOutcomes
    <2>3. /\ Total(c, src) = Total(b, src) + -m.quantity
          /\ NoneReturned(b, src) => NoneReturned(c, src)
          /\ \A s \in Sources \ {src} : SameJournal(b, c, s)
      BY <1>1, <2>2, ConsumeJournals
    <2>4. \A s \in Sources : TakenFrom(m, m.key, s) = IF s = src THEN -m.quantity ELSE 0
      BY <1>4 DEF TakenFrom
    <2>5. -m.quantity # 0
      BY <1>1, <1>4, <2>1
    <2> HIDE DEF src
    <2>6. ASSUME NEW s \in Sources
          PROVE  /\ Total(c, s) = Total(b, s) + TakenFrom(m, m.key, s)
                 /\ NoneReturned(b, s) => NoneReturned(c, s)
                 /\ TakenFrom(m, m.key, s) = 0 => SameReturns(b, c, s)
      <3>1. CASE s = src
        BY <2>3, <2>4, <2>5, <3>1
      <3>2. CASE s # src
        <4>1. SameJournal(b, c, s) /\ TakenFrom(m, m.key, s) = 0
          BY <2>3, <2>4, <3>2
        <4> QED
          BY <1>2, <4>1 DEF SameJournal, SameReturns
      <3> QED
        BY <3>1, <3>2
    <2> QED
      BY <2>1, <2>6 DEF JournalEffect
  <1>5. CASE m.type \notin BatchCreatingInflow /\ ~(QuantityDelta(m) < 0) /\ m.type = "RETURN"
    <2>1. PICK back \in ReturnWalks(b, m) : c = PutBack(b, back, src)
      BY <1>1, <1>5 DEF BatchOutcomes
    <2>2. back \in [Indices(b) -> Nat]
      <3>1. DOMAIN ReturnPool(b, m.doc, m.line) = Indices(b)
        BY DEF ReturnPool
      <3>2. \E n : back \in [Indices(b) -> 0..n]
        BY <3>1 DEF ReturnWalks, Walks
      <3> QED
        BY <3>2
    <2>3. Indices(c) = Indices(b)
      <3>1. c \in Seq(Batches)
        BY <1>5, OutcomesTyped
      <3>2. DOMAIN c = Indices(b)
        BY <2>1 DEF PutBack
      <3> QED
        BY <3>1, <3>2 DEF Indices
    <2>4. Total(c, src) = Total(b, src) /\ \A s \in Sources \ {src} : SameJournal(b, c, s)
      BY <1>1, <2>1, <2>2, <2>3, PutBackJournals
    <2>5. \A s \in Sources : TakenFrom(m, m.key, s) = 0
      BY <1>5 DEF TakenFrom
    <2>6. m.quantity > 0
      BY <1>5 DEF WellFormed
    <2>7. m.line \in Lines /\ NoneReturned(b, src) /\ Total(b, src) = m.quantity => AllReturned(c, src)
      BY <2>1, <2>2, <2>3, <2>6, LineComesBack
    <2>8. \A s \in Sources : Total(c, s) = Total(b, s) + TakenFrom(m, m.key, s)
      <3> SUFFICES ASSUME NEW s \in Sources PROVE Total(c, s) = Total(b, s)
        BY <1>2, <2>5
      <3> HIDE DEF src
      <3> QED
        BY <2>4 DEF SameJournal
    <2>9. \A s \in Sources : s # src => SameReturns(b, c, s)
      <3> HIDE DEF src
      <3> QED
        BY <2>4 DEF SameJournal
    <2> QED
      BY <1>5, <2>7, <2>8, <2>9 DEF JournalEffect, SameReturns
  <1>6. CASE m.type \notin BatchCreatingInflow /\ ~(QuantityDelta(m) < 0) /\ m.type # "RETURN"
    <2>1. c = b
      BY <1>6 DEF BatchOutcomes
    <2>2. \A s \in Sources : TakenFrom(m, m.key, s) = 0
      BY <1>6 DEF TakenFrom
    <2>3. \A s \in Sources : Total(b, s) = Total(b, s) + TakenFrom(m, m.key, s)
      BY <1>2, <2>2
    <2> QED
      BY <1>6, <2>1, <2>3 DEF JournalEffect, SameReturns
  <1> QED
    BY <1>3, <1>4, <1>5, <1>6

---------------------------------------------
(* What a step leaves alone. *)

\* The work of u is as before: its order in the same status, its list at the same place,
\* and each row either as before or one that u has not written.
Undisturbed(u) ==
    /\ job'[u] = job[u] /\ txn'[u].program = txn[u].program /\ txn'[u].next = txn[u].next
    /\ status'[job[u].order] = status[job[u].order]
    /\ \A k \in Keys : \/ Visible(u, k)' = Visible(u, k) /\ committed'[k] = committed[k]
                       \/ lock[k] # u /\ lock'[k] # u

\* The parts of its order are the same, though a unit may have changed.
PartsStand(w) ==
    \A l \in Lines : PartOwner[l] = w =>
        (part'[l] > 0 <=> part[l] > 0) /\ (MaxUnitChanges = 0 => part'[l] = part[l])

EditsOwn == \A t \in Txns : job[t].kind = "edit" => job[t].order = PartOwner[job[t].part]

\* A commit publishes what its transaction sees.
LEMMA CommitShows ==
    ASSUME OrderInvariant, NEW t \in Txns, CommitJob(t)
    PROVE  /\ Working(t) /\ ~Unfinished(t) /\ job[t] \in Jobs /\ job[t].order \in Docs
           /\ \A k \in Keys : /\ committed'[k] = Visible(t, k)
                             /\ live'[k] = live[k]
                             /\ lock'[k] = IF lock[k] = t THEN NoTxn ELSE lock[k]
           /\ job'[t] = NoJob /\ \A u \in Txns \ {t} : job'[u] = job[u] /\ txn'[u] = txn[u]
           /\ status' = IF job[t].kind = "transition"
                        THEN [status EXCEPT ![job[t].order] = job[t].to] ELSE status
           /\ part' = IF job[t].kind = "edit"
                      THEN [part EXCEPT ![job[t].part] = job[t].quantity] ELSE part
  <1>1. TypeOK /\ OrderTyped
    BY DEF OrderInvariant, LedgerInvariant
  <1>2. Working(t) /\ ~Unfinished(t)
    BY DEF CommitJob, Working
  <1>3. job[t] \in Jobs /\ job[t].order \in Docs
    BY <1>1, <1>2, JobTyped
  <1>4. \A k \in Keys : /\ committed'[k] = Visible(t, k) /\ live'[k] = live[k]
                        /\ lock'[k] = IF lock[k] = t THEN NoTxn ELSE lock[k]
    BY DEF CommitJob, Visible
  <1>5. job'[t] = NoJob /\ \A u \in Txns \ {t} : job'[u] = job[u] /\ txn'[u] = txn[u]
    BY <1>1 DEF CommitJob, EndJob, TypeOK, OrderTyped
  <1> QED
    BY <1>2, <1>3, <1>4, <1>5 DEF CommitJob

\* A step of one transaction does not disturb the work of another.
LEMMA OthersUndisturbed ==
    ASSUME OrderInvariant, EditsOwn, NEW t \in Txns,
           Request(t) \/ MoveOn(t) \/ GiveUp(t) \/ AllocateReceived(t) \/ CommitJob(t),
           NEW u \in Txns, u # t, Working(u)
    PROVE  Undisturbed(u) /\ PartsStand(job[u].order)
  <1>1. TypeOK /\ OrderTyped /\ Apart /\ u # NoTxn /\ job[u].order \in Docs
    BY JobTyped, StockLedgerAssumption DEF OrderInvariant, LedgerInvariant
  <1>2. part' = part => PartsStand(job[u].order)
    BY DEF PartsStand
  <1>3. CASE Request(t)
    <2>1. PICK w, p, j : Opening(t, w, p, j)
      BY <1>3, RequestOpens
    <2>2. UNCHANGED <<live, committed, lock, status, part>> /\ job'[u] = job[u] /\ txn'[u] = txn[u]
      BY <1>1, <2>1 DEF Opening, Open, TypeOK, OrderTyped
    <2>3. \A k \in Keys : Visible(u, k)' = Visible(u, k) /\ committed'[k] = committed[k]
      BY <2>2 DEF Visible
    <2> QED
      BY <1>2, <2>2, <2>3 DEF Undisturbed
  <1>4. CASE MoveOn(t)
    <2>1. UNCHANGED orderVars /\ committed' = committed
      BY <1>4 DEF MoveOn, CheckMovement, ApplyMovement
    <2>2. CASE CheckMovement(t)
      <3>1. UNCHANGED <<live, lock>> /\ txn'[u] = txn[u]
        BY <1>1, <2>2 DEF CheckMovement, TypeOK
      <3>2. \A k \in Keys : Visible(u, k)' = Visible(u, k) /\ committed'[k] = committed[k]
        BY <2>1, <3>1 DEF Visible
      <3> QED
        BY <1>2, <2>1, <3>1, <3>2 DEF Undisturbed, orderVars
    <2>3. CASE ApplyMovement(t)
      <3>1. PICK m, row : Applying(t, m, row)
        BY <2>1, <2>3, ApplyMovementIs
      <3>2. txn'[u] = txn[u] /\ \A k \in Keys : Visible(u, k)' = Visible(u, k)
        BY <3>1, AppliedAside
      <3> QED
        BY <1>2, <2>1, <3>2 DEF Undisturbed, orderVars
    <2> QED
      BY <1>4, <2>2, <2>3 DEF MoveOn
  <1>5. CASE GiveUp(t)
    <2>1. Rollback(t) /\ EndJob(t) /\ UNCHANGED <<status, part>>
      BY <1>5 DEF GiveUp, RefuseMovement, FailMovement, DeadlockVictim, Interrupt
    <2>2. /\ \A k \in Keys : /\ live'[k] = IF lock[k] = t THEN committed[k] ELSE live[k]
                             /\ lock'[k] = IF lock[k] = t THEN NoTxn ELSE lock[k]
          /\ committed' = committed /\ txn'[u] = txn[u] /\ job'[u] = job[u]
      BY <1>1, <2>1 DEF Rollback, EndJob, TypeOK, OrderTyped
    <2>3. \A k \in Keys : Visible(u, k)' = Visible(u, k) /\ committed'[k] = committed[k]
      BY <1>1, <2>2 DEF Visible
    <2> QED
      BY <1>2, <2>1, <2>2, <2>3 DEF Undisturbed
  <1>6. CASE AllocateReceived(t)
    <2>1. UNCHANGED <<live, committed, lock, status, part>> /\ job'[u] = job[u] /\ txn'[u] = txn[u]
      BY <1>1, <1>6 DEF AllocateReceived, TypeOK, OrderTyped
    <2>2. \A k \in Keys : Visible(u, k)' = Visible(u, k) /\ committed'[k] = committed[k]
      BY <2>1 DEF Visible
    <2> QED
      BY <1>2, <2>1, <2>2 DEF Undisturbed
  <1>7. CASE CommitJob(t)
    <2>1. /\ job[t] \in Jobs /\ Working(t)
          /\ job'[u] = job[u] /\ txn'[u] = txn[u]
          /\ \A k \in Keys : /\ committed'[k] = Visible(t, k) /\ live'[k] = live[k]
                             /\ lock'[k] = IF lock[k] = t THEN NoTxn ELSE lock[k]
          /\ status' = IF job[t].kind = "transition"
                       THEN [status EXCEPT ![job[t].order] = job[t].to] ELSE status
          /\ part' = IF job[t].kind = "edit"
                     THEN [part EXCEPT ![job[t].part] = job[t].quantity] ELSE part
      BY <1>7, CommitShows
    <2>2. job[u].order # job[t].order
      BY <1>1, <2>1 DEF Apart
    <2>3. status'[job[u].order] = status[job[u].order]
      BY <2>1, <2>2
    <2>4. \A l \in Lines : PartOwner[l] = job[u].order => part'[l] = part[l]
      <3>1. job[t].kind = "edit" => PartOwner[job[t].part] # job[u].order
        BY <2>2 DEF EditsOwn
      <3> QED
        BY <2>1, <3>1
    <2>5. ASSUME NEW k \in Keys
          PROVE  \/ Visible(u, k)' = Visible(u, k) /\ committed'[k] = committed[k]
                 \/ lock[k] # u /\ lock'[k] # u
      <3>1. CASE lock[k] = u
        BY <2>1, <3>1 DEF Visible
      <3>2. CASE lock[k] # u
        BY <1>1, <2>1, <3>2
      <3> QED
        BY <3>1, <3>2
    <2> QED
      BY <2>1, <2>3, <2>4, <2>5 DEF Undisturbed, PartsStand
  <1> QED
    BY <1>3, <1>4, <1>5, <1>6, <1>7

\* An edit that is only checked, a part added and a unit changed disturb nobody.
LEMMA OrdersUndisturbed ==
    ASSUME OrderInvariant,
           \/ \E l \in Lines : \E q \in 0..MaxPart : CheckEdit(l, q)
           \/ \E e \in checked : AddPart(e)
           \/ \E l \in Lines : \E q \in Quantities : ChangeUnit(l, q)
           \/ UNCHANGED allVars
    PROVE  /\ UNCHANGED <<vars, status, job>>
           /\ \A u \in Txns : Working(u) => Undisturbed(u) /\ PartsStand(job[u].order)
  <1>1. OrderTyped
    BY DEF OrderInvariant
  <1>2. UNCHANGED <<live, committed, lock, txn, status, job>>
    BY DEF CheckEdit, AddPart, ChangeUnit, allVars, vars, orderVars
  <1>3. ASSUME NEW u \in Txns, Working(u) PROVE Undisturbed(u)
    <2>1. \A k \in Keys : Visible(u, k)' = Visible(u, k) /\ committed'[k] = committed[k]
      BY <1>2 DEF Visible
    <2> QED
      BY <1>2, <2>1 DEF Undisturbed
  <1>4. ASSUME NEW u \in Txns, Working(u) PROVE PartsStand(job[u].order)
    <2>1. CASE part' = part
      BY <2>1 DEF PartsStand
    <2>2. ASSUME NEW e \in checked, AddPart(e) PROVE PartsStand(job[u].order)
      <3>1. PartOwner[e.part] # job[u].order /\ part' = [part EXCEPT ![e.part] = e.quantity]
        BY <1>4, <2>2 DEF AddPart, Locked, Working
      <3>2. \A l \in Lines : PartOwner[l] = job[u].order => part'[l] = part[l]
        BY <1>1, <3>1 DEF OrderTyped
      <3> QED
        BY <3>2 DEF PartsStand
    <2>3. ASSUME NEW x \in Lines, NEW q \in Quantities, ChangeUnit(x, q) PROVE PartsStand(job[u].order)
      <3>1. part[x] > 0 /\ part' = [part EXCEPT ![x] = q] /\ q > 0
        BY <2>3 DEF ChangeUnit, Quantities
      <3>2. MaxUnitChanges # 0
        BY <1>1, <2>3 DEF ChangeUnit, OrderTyped
      <3>3. \A l \in Lines : part'[l] > 0 <=> part[l] > 0
        BY <1>1, <3>1 DEF OrderTyped
      <3> QED
        BY <3>2, <3>3 DEF PartsStand
    <2>4. (\E l \in Lines : \E q \in 0..MaxPart : CheckEdit(l, q)) \/ UNCHANGED allVars => part' = part
      BY DEF CheckEdit, allVars, orderVars
    <2> QED
      BY <2>1, <2>2, <2>3, <2>4
  <1> QED
    BY <1>2, <1>3, <1>4 DEF vars
---------------------------------------------
(* Completion writes the parts off. *)

\* A transaction works within the transitions of its order as it stands.
JobAllowed(t) ==
    /\ job[t].kind = "transition" => Allowed(status[job[t].order], job[t].to)
    /\ job[t].kind = "edit" => job[t].order = PartOwner[job[t].part]

\* Only a completion takes goods, and only for its own order.
TakesForOrder(t) ==
    /\ \A i \in 1..Len(txn[t].program) :
          QuantityDelta(txn[t].program[i]) < 0 =>
              Completing(job[t]) /\ txn[t].program[i].doc = job[t].order
    /\ \A k \in Keys, w \in Docs, l \in Lines :
          w # job[t].order \/ ~Completing(job[t]) => Taken(t, k, w, l) = Recorded(k, w, l)

\* n is what completion takes from row k for line l of order w.
InFull(w, l, k, n) ==
    IF l \in PartsOf(w) /\ PartKey[l] = k THEN n > 0 /\ (MaxUnitChanges = 0 => n = part[l])
                                          ELSE n = 0

\* What a completion has taken and what it still takes are its parts in full.
TakesParts(t) ==
    LET w == job[t].order IN
    Completing(job[t]) =>
        \A k \in Keys, l \in Lines :
            InFull(w, l, k, Taken(t, k, w, l) + ToTake(txn[t].program, txn[t].next, k, <<w, l>>))

TakesAsTold(t) == JobAllowed(t) /\ TakesForOrder(t) /\ TakesParts(t)
AllAsTold == \A t \in Txns : Working(t) => TakesAsTold(t)

\* Before it is closed, an order has taken nothing.
OpenUntaken ==
    \A w \in Docs, l \in Lines, k \in Keys : status[w] \notin Closed => Recorded(k, w, l) = 0

TakenInvariant == OrderInvariant /\ AllAsTold /\ OpenUntaken

\* The numbers of the journal.
LEMMA JournalNumbers ==
    ASSUME OrderInvariant, NEW t, NEW k \in Keys, NEW w \in Docs, NEW l \in Lines
    PROVE  /\ <<w, l>> \in Sources
           /\ Recorded(k, w, l) \in Nat /\ Taken(t, k, w, l) \in Nat
           /\ \A p \in Seq(Movements), n \in Nat \ {0} : ToTake(p, n, k, <<w, l>>) \in Nat
  <1>1. TypeOK
    BY DEF OrderInvariant, LedgerInvariant
  <1>2. live[k].batches \in Seq(Batches) /\ committed[k].batches \in Seq(Batches)
    BY <1>1, LiveBatches
  <1>3. Visible(t, k).batches \in Seq(Batches)
    BY <1>2 DEF Visible
  <1>4. <<w, l>> \in Sources
    BY DEF Sources
  <1> QED
    BY <1>2, <1>3, <1>4, TotalTyped, TakesTyped DEF Recorded, Taken

\* A transaction that is not disturbed, and for whose order nothing is recorded anew,
\* goes on as told.
LEMMA UndisturbedAsTold ==
    ASSUME NEW u \in Txns, job[u].order \in Docs, Undisturbed(u), PartsStand(job[u].order), TakesAsTold(u),
           \A k \in Keys, l \in Lines : Recorded(k, job[u].order, l)' = Recorded(k, job[u].order, l)
    PROVE  TakesAsTold(u)'
  <1> DEFINE w == job[u].order
  <1>1. /\ job'[u] = job[u] /\ txn'[u].program = txn[u].program /\ txn'[u].next = txn[u].next
        /\ status'[w] = status[w]
    BY DEF Undisturbed
  <1>2. JobAllowed(u)'
    BY <1>1 DEF TakesAsTold, JobAllowed
  <1>3. ASSUME NEW k \in Keys
        PROVE  \/ \A x, l : /\ Taken(u, k, x, l)' = Taken(u, k, x, l)
                            /\ Recorded(k, x, l)' = Recorded(k, x, l)
               \/ \A x, l : /\ Taken(u, k, x, l)' = Recorded(k, x, l)'
                            /\ Taken(u, k, x, l) = Recorded(k, x, l)
    <2>1. CASE Visible(u, k)' = Visible(u, k) /\ committed'[k] = committed[k]
      BY <2>1 DEF Taken, Recorded
    <2>2. CASE lock[k] # u /\ lock'[k] # u
      BY <2>2 DEF Taken, Recorded, Visible
    <2> QED
      BY <2>1, <2>2 DEF Undisturbed
  <1>4. TakesForOrder(u)'
    <2>1. ASSUME NEW k \in Keys, NEW x \in Docs, NEW l \in Lines, x # job[u].order \/ ~Completing(job[u])
          PROVE  Taken(u, k, x, l)' = Recorded(k, x, l)'
      <3>1. Taken(u, k, x, l) = Recorded(k, x, l)
        BY <2>1 DEF TakesAsTold, TakesForOrder
      <3> QED
        BY <1>3, <3>1
    <2>2. \A i \in 1..Len(txn[u].program) :
            QuantityDelta(txn[u].program[i]) < 0 =>
               Completing(job[u]) /\ txn[u].program[i].doc = job[u].order
      BY DEF TakesAsTold, TakesForOrder
    <2> QED
      BY <1>1, <2>1, <2>2 DEF TakesForOrder
  <1>5. TakesParts(u)'
    <2> SUFFICES ASSUME Completing(job[u]), NEW k \in Keys, NEW l \in Lines
                 PROVE  InFull(job[u].order, l, k,
                            Taken(u, k, job[u].order, l)
                                + ToTake(txn[u].program, txn[u].next, k, <<job[u].order, l>>))'
      BY <1>1 DEF TakesParts
    <2> DEFINE n == Taken(u, k, w, l) + ToTake(txn[u].program, txn[u].next, k, <<w, l>>)
    <2>1. InFull(w, l, k, n)
      BY DEF TakesAsTold, TakesParts
    <2>2. Taken(u, k, w, l)' = Taken(u, k, w, l)
      <3>1. PICK x : x = w
        OBVIOUS
      <3>2. w' = x
        BY <1>1, <3>1
      <3>3. Taken(u, k, x, l)' = Taken(u, k, x, l)
        <4>1. Recorded(k, x, l)' = Recorded(k, x, l)
          BY <3>1, <3>2
        <4> QED
          BY <1>3, <4>1
      <3> HIDE DEF w
      <3>4. Taken(u, k, w, l)' = Taken(u, k, x, l)' /\ Taken(u, k, w, l) = Taken(u, k, x, l)
        BY <3>1, <3>2
      <3> QED
        BY <3>3, <3>4
    <2>3. n' = n
      BY <1>1, <2>2
    <2>4. l \in PartsOf(w)' <=> l \in PartsOf(w)
      BY <1>1 DEF PartsStand, PartsOf
    <2>5. MaxUnitChanges = 0 /\ l \in PartsOf(w) => part'[l] = part[l]
      BY DEF PartsStand, PartsOf
    <2> HIDE DEF n
    <2>6. InFull(w, l, k, n)'
      BY <1>1, <2>1, <2>3, <2>4, <2>5 DEF InFull
    <2> QED
      BY <2>6 DEF n
  <1> QED
    BY <1>2, <1>4, <1>5 DEF TakesAsTold

\* The transaction that is opened is told what to take.
LEMMA RequestAsTold ==
    ASSUME TakenInvariant, NEW t \in Txns, Request(t)
    PROVE  TakesAsTold(t)'
  <1>1. OrderInvariant /\ TypeOK /\ OrderTyped /\ Apart
    BY DEF TakenInvariant, OrderInvariant, LedgerInvariant
  <1>2. PICK w \in Docs : \E p, j : Opening(t, w, p, j)
    BY <1>1, RequestOpens
  <1>3. PICK p, j : Opening(t, w, p, j)
    BY <1>2
  <1>4. /\ txn'[t].program = p /\ txn'[t].next = 1 /\ job'[t] = j /\ j.order = w
        /\ UNCHANGED <<committed, lock, status, part>> /\ ~Working(t) /\ p \in Seq(Own(w))
    BY <1>1, <1>3 DEF Opening, Open, TypeOK, OrderTyped, Working, Fits
  <1>5. ToldToTake(w, p, j)
    BY <1>1, <1>4, RequestTold
  <1>6. \A k \in Keys : lock[k] # t
    BY <1>1, <1>4 DEF Apart
  <1>7. \A k, x, l : k \in Keys =>
                              /\ Taken(t, k, x, l)' = Recorded(k, x, l)
                              /\ Recorded(k, x, l)' = Recorded(k, x, l)
    BY <1>4, <1>6 DEF Taken, Recorded, Visible
  <1>8. JobAllowed(t)'
    BY <1>4, <1>5 DEF JobAllowed, ToldToTake
  <1>9. TakesForOrder(t)'
    BY <1>4, <1>5, <1>7 DEF TakesForOrder, ToldToTake
  <1>10. TakesParts(t)'
    <2> SUFFICES ASSUME Completing(j), NEW k \in Keys, NEW l \in Lines
                 PROVE  InFull(w, l, k, Taken(t, k, w, l)' + ToTake(p, 1, k, <<w, l>>))
      BY <1>4 DEF TakesParts, InFull, PartsOf
    <2>1. Recorded(k, w, l) = 0
      <3>1. status[w] \in Statuses /\ Allowed(status[w], "COMPLETED")
        BY <1>1, <1>5 DEF ToldToTake, OrderTyped, Completing
      <3>2. status[w] \notin Closed
        BY <3>1 DEF Allowed, Statuses, Transitions, Closed
      <3> QED
        BY <3>2 DEF TakenInvariant, OpenUntaken
    <2>2. TakenBy(p, k, <<w, l>>) = IF l \in PartsOf(w) /\ PartKey[l] = k THEN part[l] ELSE 0
      BY <1>5 DEF ToldToTake
    <2>3. part[l] \in Nat
      BY <1>1 DEF OrderTyped
    <2> QED
      BY <1>7, <2>1, <2>2, <2>3 DEF InFull, TakenBy, PartsOf
  <1> QED
    BY <1>8, <1>9, <1>10 DEF TakesAsTold

\* What a movement takes, its transaction sees taken and need not take again.
LEMMA AppliedTakes ==
    ASSUME OrderInvariant, NEW t \in Txns, NEW m, NEW row, ApplyMovement(t), Applying(t, m, row),
           NEW k \in Keys, NEW s \in Sources
    PROVE  /\ Total(Visible(t, k)'.batches, s) = Total(Visible(t, k).batches, s) + TakenFrom(m, k, s)
           /\ k = m.key => JournalEffect(m, Visible(t, k).batches, Visible(t, k)'.batches)
           /\ k # m.key => Visible(t, k)' = Visible(t, k)
  <1> USE DEF OrderInvariant, LedgerInvariant
  <1>1. m \in Movements /\ m.key \in Keys /\ m = Current(t)
    BY DEF Applying, Own, Current
  <1>2. WellFormed(m)
    BY <1>1 DEF CheckedIsWellFormed, ApplyMovement
  <1>3. CASE k = m.key
    <2>1. Visible(t, k)' = row
      <3>1. live'[k] = row /\ lock'[k] = t
        BY <1>1, <1>3 DEF Applying, TypeOK
      <3> QED
        BY <3>1 DEF Visible
    <2>2. Visible(t, k) = live[k]
      BY <1>3 DEF Visible, Applying, Apart
    <2>3. row.batches \in BatchOutcomes(m, live[k].batches)
      <3>1. row \in RowsAfter(m, live[k])
        BY <1>3 DEF Applying
      <3>2. PICK b \in BatchOutcomes(m, live[k].batches) : row.batches = b
        BY <3>1 DEF RowsAfter
      <3> QED
        BY <3>2
    <2>4. live[k].batches \in Seq(Batches)
      BY LiveBatches
    <2>5. JournalEffect(m, live[k].batches, row.batches)
      BY <1>1, <1>2, <2>3, <2>4, MovementJournals
    <2> QED
      BY <1>3, <2>1, <2>2, <2>5 DEF JournalEffect
  <1>4. CASE k # m.key
    <2>1. Visible(t, k)' = Visible(t, k)
      BY <1>4 DEF Visible, Applying, TypeOK
    <2>2. TakenFrom(m, k, s) = 0
      BY <1>4 DEF TakenFrom
    <2>3. Total(Visible(t, k).batches, s) \in Nat
      BY LiveBatches, TotalTyped DEF Visible
    <2> QED
      BY <1>4, <2>1, <2>2, <2>3
  <1> QED
    BY <1>3, <1>4

\* So it goes on as told.
LEMMA ApplyAsTold ==
    ASSUME TakenInvariant, NEW t \in Txns, ApplyMovement(t), UNCHANGED orderVars
    PROVE  TakesAsTold(t)'
  <1>1. OrderInvariant /\ TypeOK
    BY DEF TakenInvariant, OrderInvariant, LedgerInvariant
  <1>2. PICK m, row : Applying(t, m, row)
    BY <1>1, ApplyMovementIs
  <1> DEFINE p == txn[t].program
             n == txn[t].next
             w == job[t].order
  <1>3. /\ UNCHANGED <<committed, status, part, job>> /\ txn'[t].program = p /\ txn'[t].next = n + 1
        /\ p \in Seq(Movements) /\ n \in 1..Len(p) /\ m = p[n] /\ Working(t) /\ w \in Docs
    BY <1>1, <1>2 DEF Applying, orderVars, TypeOK
  <1>4. TakesAsTold(t)
    BY <1>3 DEF TakenInvariant, AllAsTold
  <1>5. ASSUME NEW k \in Keys, NEW x \in Docs, NEW l \in Lines
        PROVE  /\ Taken(t, k, x, l)' = Taken(t, k, x, l) + TakenFrom(m, k, <<x, l>>)
               /\ Taken(t, k, x, l) \in Nat
               /\ Recorded(k, x, l)' = Recorded(k, x, l)
               /\ x # w \/ ~Completing(job[t]) => TakenFrom(m, k, <<x, l>>) = 0
    <2>1. <<x, l>> \in Sources /\ Taken(t, k, x, l) \in Nat
      BY <1>1, JournalNumbers
    <2>2. Taken(t, k, x, l)' = Taken(t, k, x, l) + TakenFrom(m, k, <<x, l>>)
      BY <1>1, <1>2, <2>1, AppliedTakes DEF Taken
    <2>3. x # w \/ ~Completing(job[t]) => TakenFrom(m, k, <<x, l>>) = 0
      <3>1. QuantityDelta(m) < 0 => Completing(job[t]) /\ m.doc = w
        BY <1>3, <1>4 DEF TakesAsTold, TakesForOrder
      <3> QED
        BY <3>1 DEF TakenFrom, Source
    <2> QED
      BY <1>3, <2>1, <2>2, <2>3 DEF Recorded
  <1>6. JobAllowed(t)'
    BY <1>3, <1>4 DEF TakesAsTold, JobAllowed
  <1>7. TakesForOrder(t)'
    <2>1. \A k \in Keys, x \in Docs, l \in Lines :
             x # w \/ ~Completing(job[t]) => Taken(t, k, x, l)' = Recorded(k, x, l)'
      <3> SUFFICES ASSUME NEW k \in Keys, NEW x \in Docs, NEW l \in Lines, x # w \/ ~Completing(job[t])
                   PROVE  Taken(t, k, x, l)' = Recorded(k, x, l)'
        OBVIOUS
      <3>1. Taken(t, k, x, l) = Recorded(k, x, l)
        BY <1>4 DEF TakesAsTold, TakesForOrder
      <3>2. TakenFrom(m, k, <<x, l>>) = 0 /\ Taken(t, k, x, l) \in Nat
        BY <1>5
      <3>3. /\ Taken(t, k, x, l)' = Taken(t, k, x, l) + TakenFrom(m, k, <<x, l>>)
            /\ Recorded(k, x, l)' = Recorded(k, x, l)
        BY <1>5
      <3> QED
        BY <3>1, <3>2, <3>3
    <2>2. \A i \in 1..Len(p) : QuantityDelta(p[i]) < 0 => Completing(job[t]) /\ p[i].doc = w
      BY <1>4 DEF TakesAsTold, TakesForOrder
    <2> QED
      BY <1>3, <2>1, <2>2 DEF TakesForOrder
  <1>8. TakesParts(t)'
    <2> SUFFICES ASSUME Completing(job[t]), NEW k \in Keys, NEW l \in Lines
                 PROVE  InFull(w, l, k, Taken(t, k, w, l)' + ToTake(p, n + 1, k, <<w, l>>))
      BY <1>3 DEF TakesParts, InFull, PartsOf
    <2>1. InFull(w, l, k, Taken(t, k, w, l) + ToTake(p, n, k, <<w, l>>))
      BY <1>4 DEF TakesAsTold, TakesParts
    <2>2. ToTake(p, n, k, <<w, l>>) = TakenFrom(m, k, <<w, l>>) + ToTake(p, n + 1, k, <<w, l>>)
      <3> HIDE DEF p, n
      <3> QED
        BY <1>3, TakesNext
    <2>3. TakenFrom(m, k, <<w, l>>) \in Nat /\ ToTake(p, n + 1, k, <<w, l>>) \in Nat
      <3> HIDE DEF p, n
      <3>1. n + 1 \in Nat \ {0}
        BY <1>3
      <3> QED
        BY <1>3, <3>1, TakesTyped
    <2>4. /\ Taken(t, k, w, l)' = Taken(t, k, w, l) + TakenFrom(m, k, <<w, l>>)
          /\ Taken(t, k, w, l) \in Nat
      BY <1>3, <1>5
    <2>5. Taken(t, k, w, l)' + ToTake(p, n + 1, k, <<w, l>>) = Taken(t, k, w, l) + ToTake(p, n, k, <<w, l>>)
      BY <2>2, <2>3, <2>4
    <2> QED
      BY <2>1, <2>5
  <1> QED
    BY <1>6, <1>7, <1>8 DEF TakesAsTold

\* Reserving what came in takes nothing.
LEMMA AllocateAsTold ==
    ASSUME TakenInvariant, NEW t \in Txns, AllocateReceived(t)
    PROVE  TakesAsTold(t)'
  <1>1. OrderInvariant /\ TypeOK /\ OrderTyped
    BY DEF TakenInvariant, OrderInvariant, LedgerInvariant
  <1>2. /\ job[t] \in [kind : {"receipt"}, order : Docs, key : Keys, quantity : Nat, allocated : BOOLEAN]
        /\ Shared(t) \in Int
    BY <1>1, SharedTyped
  <1>3. /\ job'[t].kind = "receipt" /\ job[t].kind = "receipt" /\ job'[t].order = job[t].order
        /\ Working(t) /\ UNCHANGED <<live, committed, lock, status, part>>
    BY <1>1, <1>2 DEF AllocateReceived, OrderTyped, Working, NoJob
  <1> DEFINE p == txn[t].program
             q == txn'[t].program
             r == Movement("RESERVATION", job[t].key, Shared(t), job[t].order, NoLine)
  <1>4. TakesAsTold(t)
    BY <1>3 DEF TakenInvariant, AllAsTold
  <1>5. (q = p \/ q = p \o <<r>>) /\ p \in Seq(Movements)
    BY <1>1, SharedProgram DEF TypeOK
  <1>6. ~Completing(job[t]) /\ ~Completing(job'[t])
    BY <1>3 DEF Completing
  <1>7. \A i \in 1..Len(q) : ~(QuantityDelta(q[i]) < 0)
    <2>1. \A i \in 1..Len(p) : ~(QuantityDelta(p[i]) < 0)
      BY <1>4, <1>6 DEF TakesAsTold, TakesForOrder
    <2>2. ~(QuantityDelta(r) < 0)
      BY DEF Movement, QuantityDelta
    <2> HIDE DEF p, q, r
    <2> QED
      BY <1>5, <2>1, <2>2
  <1>8. TakesForOrder(t)'
    <2>1. \A k \in Keys, x \in Docs, l \in Lines : Taken(t, k, x, l) = Recorded(k, x, l)
      BY <1>4, <1>6 DEF TakesAsTold, TakesForOrder
    <2>2. \A k \in Keys, x \in Docs, l \in Lines : Taken(t, k, x, l)' = Recorded(k, x, l)'
      BY <1>3, <2>1 DEF Taken, Recorded, Visible
    <2> QED
      BY <1>7, <2>2 DEF TakesForOrder
  <1>9. JobAllowed(t)'
    BY <1>3 DEF JobAllowed
  <1>10. TakesParts(t)'
    BY <1>6 DEF TakesParts
  <1> QED
    BY <1>8, <1>9, <1>10 DEF TakesAsTold

\* What a commit publishes: for its order what it has taken, for the others nothing new.
LEMMA CommitRecords ==
    ASSUME TakenInvariant, NEW t \in Txns, CommitJob(t), NEW k \in Keys, NEW x \in Docs, NEW l \in Lines
    PROVE  /\ Recorded(k, x, l)' = Taken(t, k, x, l)
           /\ x # job[t].order \/ ~Completing(job[t]) => Recorded(k, x, l)' = Recorded(k, x, l)
  <1>1. OrderInvariant
    BY DEF TakenInvariant
  <1>2. Working(t) /\ committed'[k] = Visible(t, k)
    BY <1>1, CommitShows
  <1>3. Recorded(k, x, l)' = Taken(t, k, x, l)
    BY <1>2 DEF Recorded, Taken
  <1>4. TakesForOrder(t)
    BY <1>2 DEF TakenInvariant, AllAsTold, TakesAsTold
  <1> QED
    BY <1>3, <1>4 DEF TakesForOrder

\* A completion that commits has taken its parts in full.
LEMMA CompletionCommits ==
    ASSUME TakenInvariant, NEW t \in Txns, CommitJob(t), Completing(job[t]), NEW w \in Docs, w = job[t].order,
           NEW k \in Keys, NEW l \in Lines
    PROVE  InFull(w, l, k, Recorded(k, w, l)')
  <1> DEFINE p == txn[t].program
             n == txn[t].next
  <1>1. OrderInvariant /\ TypeOK
    BY DEF TakenInvariant, OrderInvariant, LedgerInvariant
  <1>2. Working(t) /\ ~Unfinished(t)
    BY <1>1, CommitShows
  <1>3. InFull(w, l, k, Taken(t, k, w, l) + ToTake(p, n, k, <<w, l>>))
    BY <1>2 DEF TakenInvariant, AllAsTold, TakesAsTold, TakesParts
  <1>4. p \in Seq(Movements) /\ n \in Nat \ {0} /\ n > Len(p)
    <2>1. p \in Seq(Movements) /\ n \in Nat \ {0}
      BY <1>1, <1>2, WorkingTyped
    <2>2. ~(p # <<>> /\ n <= Len(p))
      BY <1>2 DEF Unfinished, Running
    <2> HIDE DEF p, n
    <2> QED
      BY <2>1, <2>2
  <1>5. ToTake(p, n, k, <<w, l>>) = 0
    <2> HIDE DEF p, n
    <2>1. \A i \in n..Len(p) : TakenFrom(p[i], k, <<w, l>>) = 0
      BY <1>4
    <2> QED
      BY <1>4, <2>1, TakesNothing
  <1>6. Taken(t, k, w, l) \in Nat
    BY <1>1, JournalNumbers
  <1>7. Recorded(k, w, l)' = Taken(t, k, w, l)
    BY CommitRecords
  <1> QED
    BY <1>3, <1>5, <1>6, <1>7

\* Only a completion records anything, and it closes its order.
LEMMA CommitKeepsOpen ==
    ASSUME TakenInvariant, NEW t \in Txns, CommitJob(t)
    PROVE  OpenUntaken'
  <1>1. OrderInvariant /\ OrderTyped
    BY DEF TakenInvariant, OrderInvariant
  <1>2. /\ Working(t) /\ job[t] \in Jobs /\ job[t].order \in Docs
        /\ status' = IF job[t].kind = "transition"
                     THEN [status EXCEPT ![job[t].order] = job[t].to] ELSE status
    BY <1>1, CommitShows
  <1> SUFFICES ASSUME NEW x \in Docs, NEW l \in Lines, NEW k \in Keys, status'[x] \notin Closed
               PROVE  Recorded(k, x, l)' = 0
    BY DEF OpenUntaken
  <1>3. JobAllowed(t)
    BY <1>2 DEF TakenInvariant, AllAsTold, TakesAsTold
  <1>4. status[x] \notin Closed /\ (x # job[t].order \/ ~Completing(job[t]))
    <2>1. CASE x = job[t].order /\ job[t].kind = "transition"
      <3>1. status'[x] = job[t].to /\ Allowed(status[x], job[t].to) /\ status[x] \in Statuses
        BY <1>1, <1>2, <1>3, <2>1 DEF OrderTyped, JobAllowed
      <3>2. job[t].to \notin Closed
        BY <3>1
      <3> QED
        BY <3>1, <3>2, StatusSteps DEF Allowed, Completing, Statuses, Transitions, Closed, Deletable
    <2>2. CASE ~(x = job[t].order /\ job[t].kind = "transition")
      BY <1>1, <1>2, <2>2 DEF OrderTyped, Completing
    <2> QED
      BY <2>1, <2>2
  <1>5. Recorded(k, x, l) = 0
    BY <1>4 DEF TakenInvariant, OpenUntaken
  <1> QED
    BY <1>4, <1>5, CommitRecords

\* At the start nobody works and nothing is taken.
LEMMA TakenInit == OrderInit => TakenInvariant
  <1> SUFFICES ASSUME OrderInit PROVE TakenInvariant
    OBVIOUS
  <1>1. OrderInvariant
    BY OrderInitEstablishes
  <1>2. AllAsTold
    BY DEF OrderInit, AllAsTold, Working
  <1>3. OpenUntaken
    <2> SUFFICES ASSUME NEW w \in Docs, NEW l \in Lines, NEW k \in Keys PROVE Recorded(k, w, l) = 0
      BY DEF OpenUntaken
    <2> DEFINE b == committed[k].batches
               s == <<w, l>>
               f == [i \in Indices(b) |-> b[i].taken[s]]
    <2>1. s \in Sources /\ InitialQty \in Nat
      BY StockLedgerAssumption DEF Sources
    <2>2. b = IF InitialQty > 0 THEN <<NewBatch(InitialQty)>> ELSE <<>>
      BY DEF OrderInit, Init, InitialRow
    <2>3. \A i \in Indices(b) : b[i].taken[s] = 0
      BY <2>1, <2>2 DEF Indices, NewBatch
    <2>4. b \in Seq(Batches)
      BY <1>1, LiveBatches DEF OrderInvariant, LedgerInvariant
    <2>5. IsFiniteSet(Indices(b)) /\ f \in [Indices(b) -> Int]
      BY <2>1, <2>4, BatchNumbers
    <2>6. \A i \in Indices(b) : f[i] = 0
      BY <2>3
    <2> HIDE DEF f
    <2>7. SumFunction(f) = 0
      BY <2>5, <2>6, FunctionZero
    <2> QED
      BY <2>7 DEF f, Recorded, Total
  <1> QED
    BY <1>1, <1>2, <1>3 DEF TakenInvariant

\* Every step keeps what the orders take as told.
LEMMA TakenNextKeeps ==
    ASSUME TakenInvariant, [OrderNext]_allVars
    PROVE  TakenInvariant'
  <1>1. OrderInvariant /\ AllAsTold /\ OpenUntaken /\ OrderTyped /\ TypeOK
    BY DEF TakenInvariant, OrderInvariant, LedgerInvariant
  <1>2. EditsOwn
    <2> SUFFICES ASSUME NEW t \in Txns, job[t].kind = "edit" PROVE job[t].order = PartOwner[job[t].part]
      BY DEF EditsOwn
    <2>1. Working(t)
      BY DEF Working, NoJob
    <2> QED
      BY <1>1, <2>1 DEF AllAsTold, TakesAsTold, JobAllowed
  <1>3. ASSUME NEW u \in Txns, Working(u), Undisturbed(u), PartsStand(job[u].order),
               \A k \in Keys, l \in Lines : Recorded(k, job[u].order, l)' = Recorded(k, job[u].order, l)
        PROVE  TakesAsTold(u)'
    <2>1. job[u].order \in Docs /\ TakesAsTold(u)
      BY <1>1, <1>3, JobTyped DEF AllAsTold
    <2> QED
      BY <1>3, <2>1, UndisturbedAsTold
  <1>4. ASSUME committed' = committed
        PROVE  \A k, x, l : Recorded(k, x, l)' = Recorded(k, x, l)
    BY <1>4 DEF Recorded
  <1>5. ASSUME NEW t \in Txns,
               Request(t) \/ MoveOn(t) \/ GiveUp(t) \/ AllocateReceived(t) \/ CommitJob(t)
        PROVE  AllAsTold' /\ OpenUntaken'
    <2>1. ASSUME NEW u \in Txns, u # t, Working(u)'
          PROVE  Working(u) /\ Undisturbed(u) /\ PartsStand(job[u].order)
      <3>1. job'[u] = job[u]
        BY <1>1, <1>5, <2>1 DEF Request, BeginTransition, BeginChangePart, BeginReceipt,
              BeginReleaseReservation, Open, MoveOn, GiveUp, EndJob, AllocateReceived, CommitJob,
              orderVars, OrderTyped
      <3>2. Working(u)
        BY <2>1, <3>1 DEF Working
      <3> QED
        BY <1>1, <1>2, <1>5, <2>1, <3>2, OthersUndisturbed
    <2>2. CASE CommitJob(t)
      <3>1. ASSUME NEW u \in Txns, Working(u)' PROVE TakesAsTold(u)'
        <4>1. Working(t) /\ job'[t] = NoJob
          BY <1>1, <2>2, CommitShows
        <4>2. u # t
          BY <3>1, <4>1 DEF Working
        <4>3. Working(u) /\ Undisturbed(u) /\ PartsStand(job[u].order)
          BY <2>1, <3>1, <4>2
        <4>4. PICK x \in Docs : x = job[u].order
          BY <1>1, <4>3, JobTyped
        <4>5. x # job[t].order /\ job'[u].order = x
          BY <1>1, <4>1, <4>2, <4>3, <4>4 DEF OrderInvariant, Apart, Undisturbed
        <4>6. \A k \in Keys, l \in Lines : Recorded(k, x, l)' = Recorded(k, x, l)
          BY <2>2, <4>5, CommitRecords
        <4>7. \A k \in Keys, l \in Lines :
                 Recorded(k, job[u].order, l)' = Recorded(k, job[u].order, l)
          BY <4>4, <4>5, <4>6
        <4> QED
          BY <1>3, <4>3, <4>7
      <3> QED
        BY <2>2, <3>1, CommitKeepsOpen DEF AllAsTold
    <2>3. CASE Request(t) \/ MoveOn(t) \/ GiveUp(t) \/ AllocateReceived(t)
      <3>1. committed' = committed /\ status' = status
        BY <2>3 DEF Request, BeginTransition, BeginChangePart, BeginReceipt, BeginReleaseReservation, Open,
              MoveOn, CheckMovement, ApplyMovement, GiveUp, RefuseMovement, FailMovement, DeadlockVictim,
              Interrupt, Rollback, AllocateReceived, orderVars
      <3>2. \A k, x, l : Recorded(k, x, l)' = Recorded(k, x, l)
        BY <1>4, <3>1
      <3>3. OpenUntaken'
        BY <1>1, <3>1, <3>2 DEF OpenUntaken
      <3>4. ASSUME Working(t)' PROVE TakesAsTold(t)'
        <4>1. CASE Request(t)
          BY <4>1, RequestAsTold
        <4>2. CASE MoveOn(t)
          <5>1. CASE ApplyMovement(t)
            BY <4>2, <5>1, ApplyAsTold DEF MoveOn
          <5>2. CASE CheckMovement(t)
            <6>1. /\ UNCHANGED <<live, committed, lock, status, part, job>>
                  /\ txn'[t].program = txn[t].program /\ txn'[t].next = txn[t].next
              BY <1>1, <4>2, <5>2 DEF MoveOn, CheckMovement, orderVars, TypeOK
            <6>2. Undisturbed(t) /\ PartsStand(job[t].order) /\ Working(t)
              BY <3>4, <6>1 DEF Undisturbed, PartsStand, Visible, Working
            <6>3. \A k \in Keys, l \in Lines :
                     Recorded(k, job[t].order, l)' = Recorded(k, job[t].order, l)
              BY <6>1 DEF Recorded
            <6> QED
              BY <1>3, <6>2, <6>3
          <5> QED
            BY <4>2, <5>1, <5>2 DEF MoveOn
        <4>3. CASE GiveUp(t)
          BY <1>1, <3>4, <4>3 DEF GiveUp, EndJob, OrderTyped, Working
        <4>4. CASE AllocateReceived(t)
          BY <4>4, AllocateAsTold
        <4> QED
          BY <2>3, <4>1, <4>2, <4>3, <4>4
      <3>5. ASSUME NEW u \in Txns, u # t, Working(u)' PROVE TakesAsTold(u)'
        <4>1. Working(u) /\ Undisturbed(u) /\ PartsStand(job[u].order)
          BY <2>1, <3>5
        <4>2. \A k \in Keys, l \in Lines :
                 Recorded(k, job[u].order, l)' = Recorded(k, job[u].order, l)
          <5>1. job'[u] = job[u]
            BY <4>1 DEF Undisturbed
          <5> QED
            BY <3>1, <5>1 DEF Recorded
        <4> QED
          BY <1>3, <4>1, <4>2
      <3> QED
        BY <3>3, <3>4, <3>5 DEF AllAsTold
    <2> QED
      BY <1>5, <2>2, <2>3
  <1>6. ASSUME \/ \E l \in Lines : \E q \in 0..MaxPart : CheckEdit(l, q)
               \/ \E e \in checked : AddPart(e)
               \/ \E l \in Lines : \E q \in Quantities : ChangeUnit(l, q)
               \/ UNCHANGED allVars
        PROVE  AllAsTold' /\ OpenUntaken'
    <2>1. /\ UNCHANGED <<vars, status, job>>
          /\ \A u \in Txns : Working(u) => Undisturbed(u) /\ PartsStand(job[u].order)
      BY <1>1, <1>6, OrdersUndisturbed
    <2>2. \A k, x, l : Recorded(k, x, l)' = Recorded(k, x, l)
      BY <1>4, <2>1 DEF vars
    <2>3. OpenUntaken'
      BY <1>1, <2>1, <2>2 DEF OpenUntaken
    <2>4. ASSUME NEW u \in Txns, Working(u)' PROVE TakesAsTold(u)'
      <3>1. Working(u) /\ Undisturbed(u) /\ PartsStand(job[u].order)
        BY <2>1, <2>4 DEF Working
      <3>2. \A k \in Keys, l \in Lines :
               Recorded(k, job[u].order, l)' = Recorded(k, job[u].order, l)
        BY <2>1 DEF Recorded, vars
      <3> QED
        BY <1>3, <3>1, <3>2
    <2> QED
      BY <2>3, <2>4 DEF AllAsTold
  <1>7. AllAsTold' /\ OpenUntaken'
    BY <1>5, <1>6 DEF OrderNext
  <1> QED
    BY <1>1, <1>7, OrderNextKeeps DEF TakenInvariant

\* Whatever an order takes, only its completion takes it, and it takes every part (the
\* invariant behind the write-off on completion).
THEOREM TakenInvariantHolds == OrderSpec => []TakenInvariant
  <1> QED
    BY TakenInit, TakenNextKeeps, PTL DEF OrderSpec

\* Completing an order writes off each of its parts in full, reserved or not, while no unit
\* changes its coefficient during the completion.
THEOREM CompletionAlwaysWritesOff ==
    ASSUME MaxUnitChanges = 0
    PROVE  OrderSpec => CompletionWritesOffParts
  <1> DEFINE Completes(w) ==
                status[w] # "COMPLETED" /\ status'[w] = "COMPLETED" =>
                    \A l \in PartsOf(w) : WrittenByLine(w, l)' = part[l]
  <1>1. ASSUME TakenInvariant, [OrderNext]_allVars, NEW w \in Docs
        PROVE  Completes(w)
    <2> SUFFICES ASSUME status[w] # "COMPLETED", status'[w] = "COMPLETED", NEW l \in PartsOf(w)
                 PROVE  WrittenByLine(w, l)' = part[l]
      OBVIOUS
    <2>1. OrderInvariant /\ OrderTyped
      BY <1>1 DEF TakenInvariant, OrderInvariant
    <2>2. status' # status
      OBVIOUS
    <2>3. PICK t \in Txns : CommitJob(t)
      BY <1>1, <2>2 DEF OrderNext, Request, BeginTransition, BeginChangePart, BeginReceipt,
            BeginReleaseReservation, MoveOn, GiveUp, AllocateReceived, CheckEdit, AddPart, ChangeUnit,
            allVars, orderVars
    <2>4. Completing(job[t]) /\ job[t].order = w
      BY <2>1, <2>3 DEF CommitJob, OrderTyped, Completing
    <2>5. l \in Lines /\ PartKey[l] \in Keys
      BY WorkOrderStockAssumption DEF PartsOf
    <2>6. InFull(w, l, PartKey[l], Recorded(PartKey[l], w, l)')
      BY <1>1, <2>3, <2>4, <2>5, CompletionCommits
    <2>7. Recorded(PartKey[l], w, l)' = part[l]
      BY <2>6 DEF InFull
    <2> QED
      BY <2>7 DEF WrittenByLine, Written, Recorded, Total
  <1>2. TakenInvariant /\ [OrderNext]_allVars => [\A w \in Docs : Completes(w)]_allVars
    BY <1>1
  <1> QED
    BY <1>2, TakenInvariantHolds, PTL DEF OrderSpec, CompletionWritesOffParts
---------------------------------------------
(* Cancellation returns what was written off. *)

Kept == {"COMPLETED", "INVOICED", "PAID", "ARCHIVED"}
Gone == {"CANCELLED", "DELETED"}
ReturningJob(j) == j.kind = "transition" /\ j.to = "CANCELLED" /\ status[j.order] \in Charged
Returning(t) == ReturningJob(job[t])

NoEdits == checked = {} /\ \A t \in Txns : job[t].kind # "edit"

\* What is recorded for a line while its order is kept, and after it is gone.
LineBalanced(w, l, k) ==
    LET b == committed[k].batches
    IN  /\ status[w] \in Kept => (l \in PartsOf(w) /\ PartKey[l] = k <=> Total(b, <<w, l>>) > 0)
        /\ status[w] \in Gone => AllReturned(b, <<w, l>>)
        /\ status[w] \notin Gone => NoneReturned(b, <<w, l>>)
LinesBalanced == \A w \in Docs, l \in Lines, k \in Keys : LineBalanced(w, l, k)

\* A return of w is for a line of w, and in full.
ReturnsLine(m, w) ==
    /\ m.doc = w /\ m.line \in Lines /\ m.key \in Keys /\ m.quantity > 0
    /\ m.quantity = Total(committed[m.key].batches, <<w, m.line>>)

\* Only a cancellation returns goods, and only for its own order; the rest stays as returned
\* as it was, but for what a completion takes anew.
ReturnsForOrder(t) ==
    /\ \A i \in 1..Len(txn[t].program) :
          txn[t].program[i].type = "RETURN" =>
              Returning(t) /\ ReturnsLine(txn[t].program[i], job[t].order)
    /\ \A k \in Keys, w \in Docs, l \in Lines :
          LET b == Visible(t, k).batches
              c == committed[k].batches
          IN  w # job[t].order \/ ~Returning(t) =>
                 /\ NoneReturned(c, <<w, l>>) => NoneReturned(b, <<w, l>>)
                 /\ w # job[t].order \/ ~Completing(job[t]) =>
                       (AllReturned(c, <<w, l>>) => AllReturned(b, <<w, l>>))

\* What a cancellation has returned, and what it still returns: one movement per line that
\* took anything.
ReturnsInFull(t) ==
    LET p == txn[t].program
        w == job[t].order
        b(k) == Visible(t, k).batches
    IN  Returning(t) =>
        /\ \A i \in 1..Len(p) : /\ p[i].type = "RETURN"
                                /\ i < txn[t].next => AllReturned(b(p[i].key), <<w, p[i].line>>)
                                /\ ~(i < txn[t].next) => NoneReturned(b(p[i].key), <<w, p[i].line>>)
        /\ \A i, j \in 1..Len(p) : p[i].line = p[j].line => i = j
        /\ \A k \in Keys, l \in Lines :
              /\ Recorded(k, w, l) > 0 => \E i \in 1..Len(p) : p[i].key = k /\ p[i].line = l
              /\ Recorded(k, w, l) = 0 => NoneReturned(b(k), <<w, l>>)

ReturnsAsTold(t) == ReturnsForOrder(t) /\ ReturnsInFull(t)
AllReturnAsTold == \A t \in Txns : Working(t) => ReturnsAsTold(t)

CancelInvariant == TakenInvariant /\ NoEdits /\ LinesBalanced /\ AllReturnAsTold

\* A transaction that is not disturbed, and whose order has the journal it had, goes on as
\* told.
UndisturbedReturn(u, w) ==
    /\ Undisturbed(u) /\ job[u].order = w
    /\ \A k \in Keys, l \in Lines : SameJournal(committed[k].batches, committed'[k].batches, <<w, l>>)
LEMMA UndisturbedReturns ==
    ASSUME NEW u \in Txns, NEW w \in Docs, UndisturbedReturn(u, w), ReturnsAsTold(u)
    PROVE  ReturnsAsTold(u)'
  <1> DEFINE p == txn[u].program
             n == txn[u].next
  <1>1. /\ job'[u] = job[u] /\ job[u].order = w /\ txn'[u].program = p /\ txn'[u].next = n
        /\ status'[w] = status[w]
    BY DEF UndisturbedReturn, Undisturbed
  <1>2. Returning(u)' <=> Returning(u)
    BY <1>1 DEF Returning, ReturningJob
  <1>3. ASSUME NEW k \in Keys
        PROVE  \/ Visible(u, k)' = Visible(u, k) /\ committed'[k] = committed[k]
               \/ Visible(u, k)' = committed'[k] /\ Visible(u, k) = committed[k]
    BY DEF UndisturbedReturn, Undisturbed, Visible
  <1>4. ASSUME NEW k \in Keys, NEW l \in Lines
        PROVE  /\ Recorded(k, w, l)' = Recorded(k, w, l)
               /\ SameReturns(Visible(u, k).batches, Visible(u, k)'.batches, <<w, l>>)
    <2>1. SameJournal(committed[k].batches, committed'[k].batches, <<w, l>>)
      BY DEF UndisturbedReturn
    <2>2. Recorded(k, w, l)' = Recorded(k, w, l)
      BY <2>1 DEF SameJournal, Recorded
    <2>3. SameReturns(committed[k].batches, committed'[k].batches, <<w, l>>)
      BY <2>1 DEF SameJournal
    <2> QED
      BY <1>3, <2>2, <2>3 DEF SameReturns
  <1>5. ReturnsForOrder(u)'
    <2>1. ASSUME NEW i \in 1..Len(p), p[i].type = "RETURN"
          PROVE  Returning(u) /\ ReturnsLine(p[i], w) /\ ReturnsLine(p[i], w)'
      <3>1. Returning(u) /\ ReturnsLine(p[i], w)
        BY <1>1, <2>1 DEF ReturnsAsTold, ReturnsForOrder
      <3>2. Recorded(p[i].key, w, p[i].line)' = Recorded(p[i].key, w, p[i].line)
        BY <1>1, <1>4, <3>1 DEF ReturnsLine
      <3> QED
        BY <1>1, <3>1, <3>2 DEF ReturnsLine, Recorded
    <2>2. ASSUME NEW k \in Keys, NEW x \in Docs, NEW l \in Lines, x # w \/ ~Returning(u)
          PROVE  /\ NoneReturned(committed'[k].batches, <<x, l>>) =>
                        NoneReturned(Visible(u, k)'.batches, <<x, l>>)
                 /\ x # w \/ ~Completing(job[u]) =>
                       (AllReturned(committed'[k].batches, <<x, l>>) =>
                           AllReturned(Visible(u, k)'.batches, <<x, l>>))
      <3>1. /\ NoneReturned(committed[k].batches, <<x, l>>) => NoneReturned(Visible(u, k).batches, <<x, l>>)
            /\ x # w \/ ~Completing(job[u]) =>
                  (AllReturned(committed[k].batches, <<x, l>>) =>
                      AllReturned(Visible(u, k).batches, <<x, l>>))
        BY <1>1, <2>2 DEF ReturnsAsTold, ReturnsForOrder
      <3> QED
        BY <1>3, <3>1
    <2> QED
      BY <1>1, <1>2, <2>1, <2>2 DEF ReturnsForOrder
  <1>6. ReturnsInFull(u)'
    <2> SUFFICES ASSUME Returning(u)
                 PROVE  /\ \A i \in 1..Len(p) :
                              /\ p[i].type = "RETURN"
                              /\ i < n => AllReturned(Visible(u, p[i].key)'.batches, <<w, p[i].line>>)
                              /\ ~(i < n) => NoneReturned(Visible(u, p[i].key)'.batches, <<w, p[i].line>>)
                        /\ \A i, j \in 1..Len(p) : p[i].line = p[j].line => i = j
                        /\ \A k \in Keys, l \in Lines :
                              /\ Recorded(k, w, l)' > 0 => \E i \in 1..Len(p) : p[i].key = k /\ p[i].line = l
                              /\ Recorded(k, w, l)' = 0 => NoneReturned(Visible(u, k)'.batches, <<w, l>>)
      BY <1>1, <1>2 DEF ReturnsInFull
    <2>1. /\ \A i \in 1..Len(p) : /\ p[i].type = "RETURN"
                                  /\ i < n => AllReturned(Visible(u, p[i].key).batches, <<w, p[i].line>>)
                                  /\ ~(i < n) => NoneReturned(Visible(u, p[i].key).batches, <<w, p[i].line>>)
          /\ \A i, j \in 1..Len(p) : p[i].line = p[j].line => i = j
          /\ \A k \in Keys, l \in Lines :
                /\ Recorded(k, w, l) > 0 => \E i \in 1..Len(p) : p[i].key = k /\ p[i].line = l
                /\ Recorded(k, w, l) = 0 => NoneReturned(Visible(u, k).batches, <<w, l>>)
      BY <1>1 DEF ReturnsAsTold, ReturnsInFull
    <2>2. \A i \in 1..Len(p) : p[i].key \in Keys /\ p[i].line \in Lines
      BY <1>1, <2>1 DEF ReturnsAsTold, ReturnsForOrder, ReturnsLine
    <2> HIDE DEF p, n
    <2>3. ASSUME NEW i \in 1..Len(p)
          PROVE  /\ p[i].type = "RETURN"
                 /\ i < n => AllReturned(Visible(u, p[i].key)'.batches, <<w, p[i].line>>)
                 /\ ~(i < n) => NoneReturned(Visible(u, p[i].key)'.batches, <<w, p[i].line>>)
      <3>1. PICK k \in Keys, l \in Lines : k = p[i].key /\ l = p[i].line
        BY <2>2
      <3>2. SameReturns(Visible(u, k).batches, Visible(u, k)'.batches, <<w, l>>)
        BY <1>4
      <3>3. p' = p
        BY <1>1 DEF p
      <3> QED
        BY <2>1, <3>1, <3>2, <3>3 DEF SameReturns
    <2>4. ASSUME NEW k \in Keys, NEW l \in Lines
          PROVE  /\ Recorded(k, w, l)' > 0 => \E i \in 1..Len(p) : p[i].key = k /\ p[i].line = l
                 /\ Recorded(k, w, l)' = 0 => NoneReturned(Visible(u, k)'.batches, <<w, l>>)
      BY <1>4, <2>1 DEF SameReturns
    <2> QED
      BY <2>1, <2>3, <2>4
  <1> QED
    BY <1>5, <1>6 DEF ReturnsAsTold

\* What a list is told to return: everything on a cancellation, else nothing.
ToldToReturn(w, p, j) ==
    /\ j.order = w
    /\ ReturningJob(j) => \E s \in Listings(w) : p = ReturnProgram(w, s)
    /\ ~ReturningJob(j) => \A i \in 1..Len(p) : p[i].type # "RETURN"
LEMMA RequestToldToReturn ==
    ASSUME OrderInvariant, NoEdits, NEW t \in Txns, Request(t)
    PROVE  /\ ~Working(t)
           /\ \E w \in Docs : \E p, j : /\ txn'[t].program = p /\ txn'[t].next = 1 /\ job'[t] = j
                                        /\ j.kind # "edit" /\ ToldToReturn(w, p, j)
  <1>1. TypeOK /\ OrderTyped /\ part \in [Lines -> Nat]
    BY DEF OrderInvariant, LedgerInvariant, OrderTyped
  <1>2. ASSUME NEW w, NEW p, NEW j, Open(t, w, p, j)
        PROVE  ~Working(t) /\ txn'[t].program = p /\ txn'[t].next = 1 /\ job'[t] = j
    BY <1>1, <1>2 DEF Open, TypeOK, OrderTyped, Working
  <1>3. ASSUME NEW w \in Docs, NEW to \in Statuses, BeginTransition(t, w, to)
        PROVE  \E p, j : Open(t, w, p, j) /\ j.kind # "edit" /\ ToldToReturn(w, p, j)
    <2> DEFINE j == [kind |-> "transition", order |-> w, to |-> to]
    <2>1. PICK p \in TransitionPrograms(w, status[w], to) : Open(t, w, p, j)
      BY <1>3 DEF BeginTransition
    <2>2. j.kind = "transition" /\ j.order = w /\ j.to = to
      OBVIOUS
    <2> HIDE DEF j
    <2>3. Reading(w)
      BY OrdersReading
    <2>4. CASE to = "COMPLETED"
      <3>1. PICK s \in Listings(w) : p = WriteOffProgram(w, s)
        BY <2>4 DEF TransitionPrograms
      <3>2. p \in Seq(WritingOff(w))
        BY <1>1, <3>1, CompletionTakes
      <3>3. \A i \in 1..Len(p) : p[i] \in WritingOff(w)
        BY <3>2
      <3>4. \A i \in 1..Len(p) : p[i].type # "RETURN"
        BY <3>3 DEF WritingOff, Reserving
      <3> QED
        BY <2>1, <2>2, <2>4, <3>4 DEF ToldToReturn, ReturningJob
    <2>5. CASE to # "COMPLETED"
      <3>1. IF to = "CANCELLED" /\ status[w] \in Charged
            THEN \E s \in Listings(w) : p = ReturnProgram(w, s)
            ELSE \A i \in 1..Len(p) : p[i].type # "RETURN"
        BY <2>3, <2>5, OtherTransitions
      <3> QED
        BY <2>1, <2>2, <3>1 DEF ToldToReturn, ReturningJob
    <2> QED
      BY <2>4, <2>5
  <1>4. ASSUME NEW w \in Docs, NEW k \in Keys, NEW q \in Quantities,
               BeginReceipt(t, w, k, q) \/ BeginReleaseReservation(t, w, k, q)
        PROVE  \E p, j : Open(t, w, p, j) /\ j.kind # "edit" /\ ToldToReturn(w, p, j)
    <2>1. PICK m, j : Open(t, w, <<m>>, j)
                        /\ j.order = w /\ j.kind \in {"receipt", "release"} /\ m.type # "RETURN"
      <3>1. CASE BeginReceipt(t, w, k, q)
        <4> DEFINE m == Movement("RECEIPT", k, q, NoDoc, NoLine)
                   j == [kind |-> "receipt", order |-> w, key |-> k, quantity |-> q, allocated |-> FALSE]
        <4>1. Open(t, w, <<m>>, j) /\ j.order = w /\ j.kind = "receipt"
          BY <3>1 DEF BeginReceipt
        <4>2. m.type # "RETURN"
          BY DEF Movement
        <4> QED
          BY <4>1, <4>2
      <3>2. CASE BeginReleaseReservation(t, w, k, q)
        <4> DEFINE m == Movement("RESERVATION_RELEASE", k, -q, w, NoLine)
                   j == [kind |-> "release", order |-> w]
        <4>1. Open(t, w, <<m>>, j) /\ j.order = w /\ j.kind = "release"
          BY <3>2 DEF BeginReleaseReservation
        <4>2. m.type # "RETURN"
          BY DEF Movement
        <4> QED
          BY <4>1, <4>2
      <3> QED
        BY <1>4, <3>1, <3>2
    <2>2. PICK p : p = <<m>>
      OBVIOUS
    <2>3. \A i \in 1..Len(p) : p[i].type # "RETURN"
      BY <2>1, <2>2
    <2>4. ToldToReturn(w, p, j)
      BY <2>1, <2>3 DEF ToldToReturn, ReturningJob
    <2> QED
      BY <2>1, <2>2, <2>4
  <1>5. \E w \in Docs : \E p, j : Open(t, w, p, j) /\ j.kind # "edit" /\ ToldToReturn(w, p, j)
    BY <1>3, <1>4 DEF Request, NoEdits
  <1>6. PICK w \in Docs : \E p, j : Open(t, w, p, j) /\ j.kind # "edit" /\ ToldToReturn(w, p, j)
    BY <1>5
  <1>7. PICK p, j : Open(t, w, p, j) /\ j.kind # "edit" /\ ToldToReturn(w, p, j)
    BY <1>6
  <1> QED
    BY <1>2, <1>7

\* A cancellation of a kept order lists every line that took anything, for what it took.
LEMMA ReturnListed ==
    ASSUME CancelInvariant, NEW w \in Docs, status[w] \in Charged, NEW s \in Listings(w),
           NEW p, p = ReturnProgram(w, s)
    PROVE  /\ p \in Seq(Movements)
           /\ \A i \in 1..Len(p) : p[i].type = "RETURN" /\ ReturnsLine(p[i], w)
           /\ \A i, j \in 1..Len(p) : p[i].line = p[j].line => i = j
           /\ \A k \in Keys, l \in Lines :
                 Recorded(k, w, l) > 0 => \E i \in 1..Len(p) : p[i].key = k /\ p[i].line = l
  <1>1. TypeOK /\ part \in [Lines -> Nat] /\ LinesBalanced
    BY DEF CancelInvariant, TakenInvariant, OrderInvariant, LedgerInvariant, OrderTyped
  <1>2. /\ p \in Seq(Movements) /\ Len(p) = Len(s)
        /\ \A i \in 1..Len(p) :
              /\ s[i] \in PartsOf(w)
              /\ p[i].type = "RETURN" /\ p[i].key = PartKey[s[i]] /\ p[i].doc = w /\ p[i].line = s[i]
              /\ p[i].quantity = ReturnedQuantity(w, s[i]) /\ p[i].quantity > 0
    BY <1>1, ReturnProgramIs
  <1>3. /\ \A i, j \in 1..Len(s) : s[i] = s[j] => i = j
        /\ \A l \in Lines : PartOwner[l] = w /\ part[l] > 0 => \E i \in 1..Len(s) : s[i] = l
    BY <1>1, ListingTyped
  <1>4. status[w] \in Kept
    BY DEF Charged, Kept
  <1>5. \A k \in Keys, l \in Lines : l \in PartsOf(w) /\ PartKey[l] = k <=> Recorded(k, w, l) > 0
    BY <1>1, <1>4 DEF LinesBalanced, LineBalanced, Recorded
  <1>6. ASSUME NEW i \in 1..Len(p) PROVE ReturnsLine(p[i], w)
    <2>1. s[i] \in Lines /\ PartKey[s[i]] \in Keys
      BY <1>2, WorkOrderStockAssumption DEF PartsOf
    <2>2. Recorded(PartKey[s[i]], w, s[i]) > 0
      BY <1>2, <1>5, <2>1
    <2>3. WrittenByLine(w, s[i]) = Recorded(PartKey[s[i]], w, s[i])
      BY DEF WrittenByLine, Written, Recorded, Total
    <2>4. p[i].quantity = Recorded(PartKey[s[i]], w, s[i])
      BY <1>2, <2>2, <2>3 DEF ReturnedQuantity
    <2> QED
      BY <1>2, <2>1, <2>4 DEF ReturnsLine, Recorded
  <1>7. ASSUME NEW k \in Keys, NEW l \in Lines, Recorded(k, w, l) > 0
        PROVE  \E i \in 1..Len(p) : p[i].key = k /\ p[i].line = l
    <2>1. l \in PartsOf(w) /\ PartKey[l] = k
      BY <1>5, <1>7
    <2>2. PICK i \in 1..Len(s) : s[i] = l
      BY <1>3, <2>1 DEF PartsOf
    <2> QED
      BY <1>2, <2>1, <2>2
  <1> QED
    BY <1>2, <1>3, <1>6, <1>7

\* So a request is opened as told.
LEMMA RequestReturns ==
    ASSUME CancelInvariant, NEW t \in Txns, Request(t)
    PROVE  ReturnsAsTold(t)' /\ job'[t].kind # "edit"
  <1>1. OrderInvariant /\ Apart /\ NoEdits /\ LinesBalanced
    BY DEF CancelInvariant, TakenInvariant, OrderInvariant
  <1>2. PICK w \in Docs : \E p, j : /\ txn'[t].program = p /\ txn'[t].next = 1 /\ job'[t] = j
                                    /\ j.kind # "edit" /\ ToldToReturn(w, p, j)
    BY <1>1, RequestToldToReturn
  <1>3. PICK p, j : /\ txn'[t].program = p /\ txn'[t].next = 1 /\ job'[t] = j
                    /\ j.kind # "edit" /\ ToldToReturn(w, p, j)
    BY <1>2
  <1>4. UNCHANGED <<live, committed, lock, status, part>>
    BY DEF Request, BeginTransition, BeginChangePart, BeginReceipt, BeginReleaseReservation, Open
  <1>5. \A k \in Keys : lock[k] # t
    BY <1>1, RequestToldToReturn DEF Apart
  <1>6. \A k \in Keys : Visible(t, k)' = committed[k] /\ committed'[k] = committed[k]
    BY <1>4, <1>5 DEF Visible
  <1>7. j.order = w /\ (Returning(t)' <=> ReturningJob(j))
    BY <1>3, <1>4 DEF Returning, ReturningJob, ToldToReturn
  <1>8. ReturningJob(j) =>
           /\ status[w] \in Charged /\ p \in Seq(Movements)
           /\ \A i \in 1..Len(p) : p[i].type = "RETURN" /\ ReturnsLine(p[i], w)
           /\ \A i, m \in 1..Len(p) : p[i].line = p[m].line => i = m
           /\ \A k \in Keys, l \in Lines :
                 Recorded(k, w, l) > 0 => \E i \in 1..Len(p) : p[i].key = k /\ p[i].line = l
    <2> SUFFICES ASSUME ReturningJob(j)
                 PROVE  /\ status[w] \in Charged /\ p \in Seq(Movements)
                        /\ \A i \in 1..Len(p) : p[i].type = "RETURN" /\ ReturnsLine(p[i], w)
                        /\ \A i, m \in 1..Len(p) : p[i].line = p[m].line => i = m
                        /\ \A k \in Keys, l \in Lines :
                              Recorded(k, w, l) > 0 => \E i \in 1..Len(p) : p[i].key = k /\ p[i].line = l
      OBVIOUS
    <2>1. status[w] \in Charged
      BY <1>7 DEF ReturningJob
    <2>2. PICK s \in Listings(w) : p = ReturnProgram(w, s)
      BY <1>3 DEF ToldToReturn
    <2> QED
      BY <2>1, <2>2, ReturnListed
  <1>9. ReturnsForOrder(t)'
    <2>1. ASSUME NEW i \in 1..Len(p), p[i].type = "RETURN"
          PROVE  ReturningJob(j) /\ ReturnsLine(p[i], w)'
      <3>1. ReturningJob(j)
        BY <1>3, <2>1 DEF ToldToReturn
      <3>2. ReturnsLine(p[i], w)
        BY <1>8, <3>1
      <3> QED
        BY <1>4, <3>1, <3>2 DEF ReturnsLine
    <2> QED
      BY <1>3, <1>6, <1>7, <2>1 DEF ReturnsForOrder
  <1>10. ReturnsInFull(t)'
    <2> SUFFICES ASSUME ReturningJob(j)
                 PROVE  /\ \A i \in 1..Len(p) :
                              /\ p[i].type = "RETURN"
                              /\ i < 1 => AllReturned(Visible(t, p[i].key)'.batches, <<w, p[i].line>>)
                              /\ ~(i < 1) => NoneReturned(Visible(t, p[i].key)'.batches, <<w, p[i].line>>)
                        /\ \A i, m \in 1..Len(p) : p[i].line = p[m].line => i = m
                        /\ \A k \in Keys, l \in Lines :
                              /\ Recorded(k, w, l)' > 0 => \E i \in 1..Len(p) : p[i].key = k /\ p[i].line = l
                              /\ Recorded(k, w, l)' = 0 => NoneReturned(Visible(t, k)'.batches, <<w, l>>)
      BY <1>3, <1>7 DEF ReturnsInFull
    <2>1. \A k \in Keys, l \in Lines : NoneReturned(committed[k].batches, <<w, l>>)
      <3>1. status[w] \notin Gone
        BY <1>8 DEF Charged, Gone
      <3> QED
        BY <1>1, <3>1 DEF LinesBalanced, LineBalanced
    <2>2. \A i \in 1..Len(p) : p[i].key \in Keys /\ p[i].line \in Lines /\ ~(i < 1) /\ p[i].type = "RETURN"
      <3>1. Len(p) \in Nat
        BY <1>8
      <3>2. \A i \in 1..Len(p) : ~(i < 1)
        BY <3>1
      <3>3. \A i \in 1..Len(p) : p[i].type = "RETURN" /\ ReturnsLine(p[i], w)
        BY <1>8
      <3> QED
        BY <3>2, <3>3 DEF ReturnsLine
    <2>3. \A i \in 1..Len(p) : NoneReturned(Visible(t, p[i].key)'.batches, <<w, p[i].line>>)
      <3> SUFFICES ASSUME NEW i \in 1..Len(p)
                   PROVE  NoneReturned(Visible(t, p[i].key)'.batches, <<w, p[i].line>>)
        OBVIOUS
      <3>1. PICK k \in Keys, l \in Lines : k = p[i].key /\ l = p[i].line
        BY <2>2
      <3> QED
        BY <1>6, <2>1, <3>1
    <2>4. \A k \in Keys, l \in Lines : Recorded(k, w, l)' = Recorded(k, w, l)
      BY <1>4 DEF Recorded
    <2> QED
      BY <1>6, <1>8, <2>1, <2>2, <2>3, <2>4
  <1> QED
    BY <1>3, <1>9, <1>10 DEF ReturnsAsTold

\* A movement of a cancellation brings back what its line took, and nothing else.
LEMMA ApplyReturns ==
    ASSUME CancelInvariant, NEW t \in Txns, ApplyMovement(t), UNCHANGED orderVars
    PROVE  ReturnsAsTold(t)'
  <1>1. OrderInvariant /\ TypeOK
    BY DEF CancelInvariant, TakenInvariant, OrderInvariant, LedgerInvariant
  <1>2. PICK m, row : Applying(t, m, row)
    BY <1>1, ApplyMovementIs
  <1> DEFINE p == txn[t].program
             n == txn[t].next
             w == job[t].order
             b(k) == Visible(t, k).batches
  <1>3. /\ UNCHANGED <<committed, status, part, job>> /\ txn'[t].program = p /\ txn'[t].next = n + 1
        /\ p \in Seq(Movements) /\ n \in 1..Len(p) /\ m = p[n] /\ Working(t) /\ w \in Docs
        /\ m \in Movements
    BY <1>1, <1>2 DEF Applying, orderVars, TypeOK, Own
  <1>4. TakesForOrder(t) /\ ReturnsForOrder(t) /\ ReturnsInFull(t)
    BY <1>3 DEF CancelInvariant, TakenInvariant, AllAsTold, TakesAsTold, AllReturnAsTold, ReturnsAsTold
  <1>5. Returning(t)' <=> Returning(t)
    BY <1>3 DEF Returning, ReturningJob
  <1>6. \A k \in Keys : /\ k = m.key => JournalEffect(m, b(k), Visible(t, k)'.batches)
                        /\ k # m.key => Visible(t, k)' = Visible(t, k)
    <2>1. <<NoDoc, NoLine>> \in Sources
      BY DEF Sources
    <2> QED
      BY <1>1, <1>2, <2>1, AppliedTakes
  <1>7. m.type = "RETURN" => Returning(t) /\ ReturnsLine(m, w)
    BY <1>3, <1>4 DEF ReturnsForOrder
  <1>8. ASSUME NEW k \in Keys, NEW x \in Docs, NEW l \in Lines,
               ~(m.type = "RETURN" /\ k = m.key /\ x = w /\ l = m.line)
        PROVE  /\ NoneReturned(b(k), <<x, l>>) => NoneReturned(Visible(t, k)'.batches, <<x, l>>)
               /\ x # w \/ ~Completing(job[t]) =>
                     SameReturns(b(k), Visible(t, k)'.batches, <<x, l>>)
    <2>1. CASE k # m.key
      BY <1>6, <2>1 DEF SameReturns
    <2>2. CASE k = m.key
      <3>1. JournalEffect(m, b(k), Visible(t, k)'.batches) /\ <<x, l>> \in Sources
        BY <1>6, <2>2 DEF Sources
      <3>2. m.type # "RETURN" \/ <<x, l>> # Source(m)
        BY <1>7, <1>8, <2>2 DEF Source, ReturnsLine
      <3>3. x # w \/ ~Completing(job[t]) => TakenFrom(m, m.key, <<x, l>>) = 0
        <4>1. QuantityDelta(m) < 0 => Completing(job[t]) /\ m.doc = w
          BY <1>3, <1>4 DEF TakesForOrder
        <4> QED
          BY <4>1 DEF TakenFrom, Source
      <3> QED
        BY <3>1, <3>2, <3>3 DEF JournalEffect
    <2> QED
      BY <2>1, <2>2
  <1>9. ReturnsForOrder(t)'
    <2>1. ASSUME NEW i \in 1..Len(p), p[i].type = "RETURN"
          PROVE  Returning(t) /\ ReturnsLine(p[i], w) /\ ReturnsLine(p[i], w)'
      BY <1>3, <1>4, <2>1 DEF ReturnsForOrder, ReturnsLine
    <2>2. ASSUME NEW k \in Keys, NEW x \in Docs, NEW l \in Lines, x # w \/ ~Returning(t)
          PROVE  /\ NoneReturned(committed[k].batches, <<x, l>>) =>
                        NoneReturned(Visible(t, k)'.batches, <<x, l>>)
                 /\ x # w \/ ~Completing(job[t]) =>
                       (AllReturned(committed[k].batches, <<x, l>>) =>
                           AllReturned(Visible(t, k)'.batches, <<x, l>>))
      <3>1. /\ NoneReturned(committed[k].batches, <<x, l>>) => NoneReturned(b(k), <<x, l>>)
            /\ x # w \/ ~Completing(job[t]) =>
                  (AllReturned(committed[k].batches, <<x, l>>) => AllReturned(b(k), <<x, l>>))
        BY <1>4, <2>2 DEF ReturnsForOrder
      <3>2. ~(m.type = "RETURN" /\ k = m.key /\ x = w /\ l = m.line)
        BY <1>7, <2>2
      <3> HIDE DEF b
      <3> QED
        BY <1>8, <3>1, <3>2 DEF SameReturns
    <2> QED
      BY <1>3, <1>5, <2>1, <2>2 DEF ReturnsForOrder
  <1>10. ReturnsInFull(t)'
    <2> SUFFICES ASSUME Returning(t)
                 PROVE  /\ \A i \in 1..Len(p) :
                              /\ p[i].type = "RETURN"
                              /\ i < n + 1 => AllReturned(Visible(t, p[i].key)'.batches, <<w, p[i].line>>)
                              /\ ~(i < n + 1) => NoneReturned(Visible(t, p[i].key)'.batches, <<w, p[i].line>>)
                        /\ \A i, j \in 1..Len(p) : p[i].line = p[j].line => i = j
                        /\ \A k \in Keys, l \in Lines :
                              /\ Recorded(k, w, l)' > 0 => \E i \in 1..Len(p) : p[i].key = k /\ p[i].line = l
                              /\ Recorded(k, w, l)' = 0 => NoneReturned(Visible(t, k)'.batches, <<w, l>>)
      BY <1>3, <1>5 DEF ReturnsInFull
    <2>1. /\ \A i \in 1..Len(p) : /\ p[i].type = "RETURN"
                                  /\ i < n => AllReturned(b(p[i].key), <<w, p[i].line>>)
                                  /\ ~(i < n) => NoneReturned(b(p[i].key), <<w, p[i].line>>)
          /\ \A i, j \in 1..Len(p) : p[i].line = p[j].line => i = j
          /\ \A k \in Keys, l \in Lines :
                /\ Recorded(k, w, l) > 0 => \E i \in 1..Len(p) : p[i].key = k /\ p[i].line = l
                /\ Recorded(k, w, l) = 0 => NoneReturned(b(k), <<w, l>>)
      BY <1>4 DEF ReturnsInFull
    <2>2. \A i \in 1..Len(p) : ReturnsLine(p[i], w) /\ p[i].key \in Keys /\ p[i].line \in Lines
      BY <1>4, <2>1 DEF ReturnsForOrder, ReturnsLine
    <2>3. ~Completing(job[t])
      BY DEF Returning, ReturningJob, Completing
    <2>4. m.type = "RETURN" /\ ReturnsLine(m, w) /\ m.key \in Keys /\ m.line \in Lines
      BY <1>3, <2>1, <2>2
    <2>5. AllReturned(Visible(t, m.key)'.batches, <<w, m.line>>)
      <3>1. JournalEffect(m, b(m.key), Visible(t, m.key)'.batches)
        BY <1>6, <2>4
      <3>2. Source(m) = <<w, m.line>>
        BY <2>4 DEF Source, ReturnsLine
      <3>3. NoneReturned(b(m.key), <<w, m.line>>)
        BY <1>3, <2>1
      <3>4. Taken(t, m.key, w, m.line) = Recorded(m.key, w, m.line)
        BY <1>3, <1>4, <2>3, <2>4 DEF TakesForOrder
      <3>5. Total(b(m.key), <<w, m.line>>) = m.quantity
        BY <2>4, <3>4 DEF Taken, Recorded, ReturnsLine
      <3> QED
        BY <2>4, <3>1, <3>2, <3>3, <3>5 DEF JournalEffect
    <2>6. ASSUME NEW i \in 1..Len(p)
          PROVE  /\ p[i].type = "RETURN"
                 /\ i < n + 1 => AllReturned(Visible(t, p[i].key)'.batches, <<w, p[i].line>>)
                 /\ ~(i < n + 1) => NoneReturned(Visible(t, p[i].key)'.batches, <<w, p[i].line>>)
      <3>1. i \in Nat /\ n \in Nat
        BY <1>3
      <3>2. CASE i = n
        <4>1. p'[i] = m /\ p[i] = m /\ i < n + 1
          BY <1>3, <3>1, <3>2
        <4>2. PICK y : y = m
          OBVIOUS
        <4>3. AllReturned(Visible(t, y.key)'.batches, <<w, y.line>>)
          BY <2>5, <4>1, <4>2
        <4> QED
          BY <2>1, <4>1, <4>2, <4>3
      <3>3. CASE i # n
        <4>1. PICK k \in Keys, l \in Lines : k = p[i].key /\ l = p[i].line
          BY <2>2
        <4>2. l # m.line
          BY <1>3, <2>1, <3>3, <4>1
        <4>3. SameReturns(b(k), Visible(t, k)'.batches, <<w, l>>)
          <5> HIDE DEF b, w
          <5> QED
            BY <1>3, <1>8, <2>3, <4>2 DEF w
        <4>4. (i < n + 1 <=> i < n)
          BY <3>1, <3>3
        <4>5. /\ p[i].type = "RETURN"
              /\ i < n => AllReturned(b(k), <<w, l>>)
              /\ ~(i < n) => NoneReturned(b(k), <<w, l>>)
          BY <2>1, <4>1
        <4>6. Visible(t, p[i].key)' = Visible(t, k)'
          <5>1. PICK y : y = p[i].key
            OBVIOUS
          <5>2. p'[i].key = y
            BY <1>3, <5>1
          <5> QED
            BY <4>1, <5>1, <5>2
        <4> HIDE DEF p, n, b, w
        <4> QED
          BY <4>1, <4>3, <4>4, <4>5, <4>6 DEF SameReturns
      <3> QED
        BY <3>2, <3>3
    <2>7. ASSUME NEW k \in Keys, NEW l \in Lines
          PROVE  /\ Recorded(k, w, l)' > 0 => \E i \in 1..Len(p) : p[i].key = k /\ p[i].line = l
                 /\ Recorded(k, w, l)' = 0 => NoneReturned(Visible(t, k)'.batches, <<w, l>>)
      <3>1. Recorded(k, w, l)' = Recorded(k, w, l)
        BY <1>3 DEF Recorded
      <3>2. ASSUME Recorded(k, w, l) = 0
            PROVE  NoneReturned(Visible(t, k)'.batches, <<w, l>>)
        <4>1. ~(k = m.key /\ l = m.line)
          BY <2>4, <3>2 DEF ReturnsLine, Recorded
        <4>2. NoneReturned(b(k), <<w, l>>)
          BY <2>1, <3>2
        <4> HIDE DEF b
        <4> QED
          BY <1>3, <1>8, <4>1, <4>2
      <3> QED
        BY <2>1, <3>1, <3>2
    <2> QED
      BY <2>1, <2>6, <2>7
  <1> QED
    BY <1>9, <1>10 DEF ReturnsAsTold

\* Reserving what came in returns nothing.
LEMMA AllocateReturns ==
    ASSUME CancelInvariant, NEW t \in Txns, AllocateReceived(t)
    PROVE  ReturnsAsTold(t)' /\ job'[t].kind # "edit"
  <1>1. OrderInvariant /\ TypeOK /\ OrderTyped
    BY DEF CancelInvariant, TakenInvariant, OrderInvariant, LedgerInvariant
  <1>2. /\ job[t] \in [kind : {"receipt"}, order : Docs, key : Keys, quantity : Nat, allocated : BOOLEAN]
        /\ Shared(t) \in Int
    BY <1>1, SharedTyped
  <1>3. /\ job'[t].kind = "receipt" /\ job[t].kind = "receipt" /\ job'[t].order = job[t].order
        /\ Working(t) /\ UNCHANGED <<live, committed, lock, status, part>>
    BY <1>1, <1>2 DEF AllocateReceived, OrderTyped, Working, NoJob
  <1> DEFINE p == txn[t].program
             q == txn'[t].program
             r == Movement("RESERVATION", job[t].key, Shared(t), job[t].order, NoLine)
  <1>4. ReturnsForOrder(t) /\ ~Returning(t) /\ ~Returning(t)' /\ ~Completing(job[t]) /\ ~Completing(job'[t])
    BY <1>3 DEF CancelInvariant, AllReturnAsTold, ReturnsAsTold, Returning, ReturningJob, Completing
  <1>5. (q = p \/ q = p \o <<r>>) /\ p \in Seq(Movements)
    BY <1>1, SharedProgram DEF TypeOK
  <1>6. \A i \in 1..Len(q) : q[i].type # "RETURN"
    <2>1. \A i \in 1..Len(p) : p[i].type # "RETURN"
      BY <1>4 DEF ReturnsForOrder
    <2>2. r.type # "RETURN"
      BY DEF Movement
    <2> HIDE DEF p, q, r
    <2> QED
      BY <1>5, <2>1, <2>2
  <1>7. \A k \in Keys : Visible(t, k)' = Visible(t, k) /\ committed'[k] = committed[k]
    BY <1>3 DEF Visible
  <1>8. ASSUME NEW k \in Keys, NEW x \in Docs, NEW l \in Lines
        PROVE  /\ NoneReturned(committed'[k].batches, <<x, l>>) =>
                      NoneReturned(Visible(t, k)'.batches, <<x, l>>)
               /\ AllReturned(committed'[k].batches, <<x, l>>) =>
                      AllReturned(Visible(t, k)'.batches, <<x, l>>)
    BY <1>4, <1>7 DEF ReturnsForOrder
  <1>9. ReturnsForOrder(t)'
    BY <1>6, <1>8 DEF ReturnsForOrder
  <1>10. ReturnsInFull(t)'
    BY <1>4 DEF ReturnsInFull
  <1> QED
    BY <1>3, <1>9, <1>10 DEF ReturnsAsTold

\* A commit leaves the journal of the other orders as returned as it was.
LEMMA CommitSparesOthers ==
    ASSUME CancelInvariant, NEW t \in Txns, CommitJob(t), NEW k \in Keys, NEW x \in Docs, NEW l \in Lines,
           x # job[t].order
    PROVE  SameJournal(committed[k].batches, committed'[k].batches, <<x, l>>)
  <1>1. Working(t) /\ committed'[k] = Visible(t, k)
    BY CommitShows DEF CancelInvariant, TakenInvariant
  <1>2. Recorded(k, x, l)' = Recorded(k, x, l)
    BY CommitRecords DEF CancelInvariant
  <1>3. ReturnsForOrder(t)
    BY <1>1 DEF CancelInvariant, AllReturnAsTold, ReturnsAsTold
  <1>4. SameReturns(committed[k].batches, committed'[k].batches, <<x, l>>)
    BY <1>1, <1>3 DEF ReturnsForOrder, SameReturns
  <1> QED
    BY <1>2, <1>4 DEF SameJournal, Recorded

\* A cancellation that commits has brought back all its order took.
LEMMA CancellationCommits ==
    ASSUME CancelInvariant, NEW t \in Txns, CommitJob(t), Returning(t), NEW w \in Docs, w = job[t].order,
           NEW k \in Keys, NEW l \in Lines
    PROVE  AllReturned(committed'[k].batches, <<w, l>>)
  <1> DEFINE p == txn[t].program
             n == txn[t].next
  <1>1. OrderInvariant /\ TypeOK
    BY DEF CancelInvariant, TakenInvariant, OrderInvariant, LedgerInvariant
  <1>2. Working(t) /\ ~Unfinished(t) /\ committed'[k] = Visible(t, k)
    BY <1>1, CommitShows
  <1>3. TakesForOrder(t) /\ ReturnsInFull(t)
    BY <1>2 DEF CancelInvariant, TakenInvariant, AllAsTold, TakesAsTold, AllReturnAsTold, ReturnsAsTold
  <1>4. p \in Seq(Movements) /\ \A i \in 1..Len(p) : i < n
    <2>1. p \in Seq(Movements) /\ n \in Nat \ {0}
      BY <1>1, <1>2, WorkingTyped
    <2>2. ~(p # <<>> /\ n <= Len(p))
      BY <1>2 DEF Unfinished, Running
    <2> HIDE DEF p, n
    <2> QED
      BY <2>1, <2>2
  <1>5. Recorded(k, w, l) \in Nat /\ <<w, l>> \in Sources /\ Visible(t, k).batches \in Seq(Batches)
    BY <1>1, JournalNumbers, LiveBatches DEF Visible
  <1>6. CASE Recorded(k, w, l) > 0
    <2>1. PICK i \in 1..Len(p) : p[i].key = k /\ p[i].line = l
      BY <1>3, <1>6 DEF ReturnsInFull
    <2>2. AllReturned(Visible(t, k).batches, <<w, l>>)
      BY <1>3, <1>4, <2>1 DEF ReturnsInFull
    <2> QED
      BY <1>2, <2>2
  <1>7. CASE Recorded(k, w, l) = 0
    <2>1. NoneReturned(Visible(t, k).batches, <<w, l>>)
      BY <1>3, <1>7 DEF ReturnsInFull
    <2>2. Taken(t, k, w, l) = Recorded(k, w, l)
      BY <1>3 DEF TakesForOrder, Returning, ReturningJob, Completing
    <2>3. AllReturned(Visible(t, k).batches, <<w, l>>)
      BY <1>5, <1>7, <2>1, <2>2, TotalTyped DEF Taken
    <2> QED
      BY <1>2, <2>3
  <1> QED
    BY <1>5, <1>6, <1>7

\* The statuses a transition leads from.
LEMMA StatusesBefore ==
    ASSUME NEW s \in Statuses, NEW to, Allowed(s, to)
    PROVE  /\ to \in Kept => to = "COMPLETED" \/ s \in Kept
           /\ to = "COMPLETED" => s \notin Closed
           /\ to \in Gone => (to = "CANCELLED" /\ s \in Charged) \/ s \in Gone \/ s \notin Closed
           /\ to \notin Gone => s \notin Gone
  <1> QED
    BY DEF Allowed, Statuses, Transitions, Closed, Kept, Gone, Charged, Deletable

\* A commit keeps the lines balanced.
LEMMA CommitBalances ==
    ASSUME CancelInvariant, NEW t \in Txns, CommitJob(t), NEW w \in Docs, NEW l \in Lines, NEW k \in Keys
    PROVE  LineBalanced(w, l, k)'
  <1>1. OrderInvariant /\ OrderTyped /\ NoEdits /\ LineBalanced(w, l, k) /\ TypeOK
    BY DEF CancelInvariant, TakenInvariant, OrderInvariant, LedgerInvariant, LinesBalanced
  <1>2. /\ Working(t) /\ job[t] \in Jobs /\ committed'[k] = Visible(t, k)
        /\ status' = IF job[t].kind = "transition"
                     THEN [status EXCEPT ![job[t].order] = job[t].to] ELSE status
        /\ part' = IF job[t].kind = "edit"
                   THEN [part EXCEPT ![job[t].part] = job[t].quantity] ELSE part
    BY <1>1, CommitShows
  <1>3. part' = part /\ PartsOf(w)' = PartsOf(w)
    BY <1>1, <1>2 DEF NoEdits, PartsOf
  <1>4. JobAllowed(t) /\ ReturnsForOrder(t)
    BY <1>2 DEF CancelInvariant, TakenInvariant, AllAsTold, TakesAsTold, AllReturnAsTold, ReturnsAsTold
  <1> DEFINE c == committed[k].batches
             d == committed'[k].batches
             s == <<w, l>>
  <1>5. /\ status[w] \in Kept => (l \in PartsOf(w) /\ PartKey[l] = k <=> Recorded(k, w, l) > 0)
        /\ status[w] \in Gone => AllReturned(c, s)
        /\ status[w] \notin Gone => NoneReturned(c, s)
    BY <1>1 DEF LineBalanced, Recorded
  <1>6. SUFFICES
           /\ status'[w] \in Kept => (l \in PartsOf(w) /\ PartKey[l] = k <=> Recorded(k, w, l)' > 0)
           /\ status'[w] \in Gone => AllReturned(d, s)
           /\ status'[w] \notin Gone => NoneReturned(d, s)
    BY <1>3 DEF LineBalanced, Recorded
  <1> HIDE DEF c, d, s
  <1>7. CASE w # job[t].order \/ job[t].kind # "transition"
    <2>1. status'[w] = status[w]
      BY <1>2, <1>7
    <2>2. ~Completing(job[t]) \/ w # job[t].order
      BY <1>7 DEF Completing
    <2>3. Recorded(k, w, l)' = Recorded(k, w, l)
      BY <2>2, CommitRecords DEF CancelInvariant
    <2>4. ~Returning(t) \/ w # job[t].order
      BY <1>7 DEF Returning, ReturningJob
    <2>5. (NoneReturned(c, s) => NoneReturned(d, s)) /\ (AllReturned(c, s) => AllReturned(d, s))
      BY <1>2, <1>4, <2>2, <2>4 DEF ReturnsForOrder, c, d, s
    <2> QED
      BY <1>5, <2>1, <2>3, <2>5
  <1>8. CASE w = job[t].order /\ job[t].kind = "transition"
    <2> DEFINE to == job[t].to
    <2>1. status'[w] = to /\ status[w] \in Statuses /\ Allowed(status[w], to)
      BY <1>1, <1>2, <1>4, <1>8 DEF OrderTyped, JobAllowed
    <2>2. /\ to \in Kept => to = "COMPLETED" \/ status[w] \in Kept
          /\ to = "COMPLETED" => status[w] \notin Closed
          /\ to \in Gone => (to = "CANCELLED" /\ status[w] \in Charged)
                              \/ status[w] \in Gone \/ status[w] \notin Closed
          /\ to \notin Gone => status[w] \notin Gone
      BY <2>1, StatusesBefore
    <2>3. Completing(job[t]) <=> to = "COMPLETED"
      BY <1>8 DEF Completing
    <2>4. Returning(t) <=> to = "CANCELLED" /\ status[w] \in Charged
      BY <1>8 DEF Returning, ReturningJob
    <2> HIDE DEF to
    <2>5. ~Returning(t) => (NoneReturned(c, s) => NoneReturned(d, s))
      BY <1>2, <1>4 DEF ReturnsForOrder, c, d, s
    <2>6. ~Returning(t) /\ ~Completing(job[t]) => (AllReturned(c, s) => AllReturned(d, s))
      BY <1>2, <1>4 DEF ReturnsForOrder, c, d, s
    <2>7. ~Completing(job[t]) => Recorded(k, w, l)' = Recorded(k, w, l)
      BY CommitRecords DEF CancelInvariant
    <2>8. Returning(t) => AllReturned(d, s)
      BY <1>8, CancellationCommits DEF d, s
    <2>9. to \in Kept => (l \in PartsOf(w) /\ PartKey[l] = k <=> Recorded(k, w, l)' > 0)
      <3>1. CASE to = "COMPLETED"
        <4>1. InFull(w, l, k, Recorded(k, w, l)')
          BY <1>8, <2>3, <3>1, CompletionCommits DEF CancelInvariant
        <4> QED
          BY <4>1 DEF InFull
      <3>2. CASE to # "COMPLETED"
        BY <1>5, <2>2, <2>3, <2>7, <3>2
      <3> QED
        BY <3>1, <3>2
    <2>10. to \in Gone => AllReturned(d, s)
      <3> SUFFICES ASSUME to \in Gone, ~Returning(t) PROVE AllReturned(d, s)
        BY <2>8
      <3>1. ~Completing(job[t])
        BY <2>3 DEF Gone
      <3>2. CASE status[w] \in Gone
        BY <1>5, <2>6, <3>1, <3>2
      <3>3. CASE status[w] \notin Gone
        <4>1. status[w] \notin Closed
          BY <2>2, <2>4, <3>3
        <4>2. Recorded(k, w, l)' = 0
          BY <2>7, <3>1, <4>1 DEF CancelInvariant, TakenInvariant, OpenUntaken
        <4>3. NoneReturned(d, s)
          BY <1>5, <2>5, <3>3
        <4>4. d \in Seq(Batches) /\ s \in Sources /\ Total(d, s) = 0
          BY <1>1, <1>2, <4>2, LiveBatches DEF Visible, d, s, Sources, Recorded
        <4> QED
          BY <4>3, <4>4, TotalTyped
      <3> QED
        BY <3>2, <3>3
    <2>11. to \notin Gone => NoneReturned(d, s)
      <3> SUFFICES ASSUME to \notin Gone PROVE NoneReturned(d, s)
        OBVIOUS
      <3>1. ~Returning(t)
        BY <2>4 DEF Gone
      <3> QED
        BY <1>5, <2>2, <2>5, <3>1
    <2> QED
      BY <2>1, <2>9, <2>10, <2>11
  <1> QED
    BY <1>7, <1>8

\* At the start nothing is taken and nothing returned.
LEMMA CancelInit == OrderInit => CancelInvariant
  <1> SUFFICES ASSUME OrderInit PROVE CancelInvariant
    OBVIOUS
  <1>1. TakenInvariant /\ TypeOK
    BY TakenInit DEF TakenInvariant, OrderInvariant, LedgerInvariant
  <1>2. NoEdits /\ AllReturnAsTold
    BY DEF OrderInit, NoEdits, NoJob, AllReturnAsTold, Working
  <1>3. LinesBalanced
    <2> SUFFICES ASSUME NEW w \in Docs, NEW l \in Lines, NEW k \in Keys PROVE LineBalanced(w, l, k)
      BY DEF LinesBalanced
    <2>1. status[w] \notin Kept \cup Gone /\ status[w] \notin Closed
      BY DEF OrderInit, Kept, Gone, Closed
    <2>2. NoneReturned(committed[k].batches, <<w, l>>)
      <3> DEFINE b == committed[k].batches
      <3>1. b = IF InitialQty > 0 THEN <<NewBatch(InitialQty)>> ELSE <<>>
        BY DEF OrderInit, Init, InitialRow
      <3>2. <<w, l>> \in Sources
        BY DEF Sources
      <3>3. \A i \in Indices(b) : b[i].returned[<<w, l>>] = 0
        BY <3>1, <3>2 DEF Indices, NewBatch
      <3> QED
        BY <3>3 DEF NoneReturned
    <2> QED
      BY <2>1, <2>2 DEF LineBalanced
  <1> QED
    BY <1>1, <1>2, <1>3 DEF CancelInvariant

\* While no part is edited, every step keeps it.
LEMMA CancelNextKeeps ==
    ASSUME CancelInvariant, [OrderNext]_allVars, MaxEdits = 0
    PROVE  CancelInvariant'
  <1>1. /\ TakenInvariant /\ OrderInvariant /\ AllReturnAsTold /\ LinesBalanced /\ NoEdits
        /\ OrderTyped /\ TypeOK /\ Apart
    BY DEF CancelInvariant, TakenInvariant, OrderInvariant, LedgerInvariant
  <1>2. EditsOwn
    BY <1>1 DEF EditsOwn, NoEdits
  <1>3. ASSUME NEW u \in Txns, NEW w \in Docs, Working(u), UndisturbedReturn(u, w) PROVE ReturnsAsTold(u)'
    <2>1. ReturnsAsTold(u)
      BY <1>1, <1>3 DEF AllReturnAsTold
    <2> QED
      BY <1>3, <2>1, UndisturbedReturns
  <1>4. ASSUME NEW u \in Txns, Working(u), Undisturbed(u), committed' = committed PROVE ReturnsAsTold(u)'
    <2>1. PICK w \in Docs : job[u].order = w
      BY <1>1, <1>4, JobTyped
    <2>2. UndisturbedReturn(u, w)
      BY <1>4, <2>1 DEF UndisturbedReturn, SameJournal, SameReturns
    <2> QED
      BY <1>3, <1>4, <2>2
  <1>5. ASSUME committed' = committed, status' = status, \A l \in Lines : part'[l] > 0 <=> part[l] > 0
        PROVE  LinesBalanced'
    <2>1. \A w : PartsOf(w)' = PartsOf(w)
      BY <1>5 DEF PartsOf
    <2> QED
      BY <1>1, <1>5, <2>1 DEF LinesBalanced, LineBalanced
  <1>6. ASSUME NEW t \in Txns,
               Request(t) \/ MoveOn(t) \/ GiveUp(t) \/ AllocateReceived(t) \/ CommitJob(t)
        PROVE  NoEdits' /\ AllReturnAsTold' /\ LinesBalanced'
    <2>1. ASSUME NEW u \in Txns, u # t PROVE job'[u] = job[u]
      BY <1>1, <1>6, <2>1 DEF Request, BeginTransition, BeginChangePart, BeginReceipt,
            BeginReleaseReservation, Open, MoveOn, GiveUp, EndJob, AllocateReceived, CommitJob,
            orderVars, OrderTyped
    <2>2. ASSUME NEW u \in Txns, u # t, Working(u)' PROVE Working(u) /\ Undisturbed(u)
      <3>1. Working(u)
        BY <2>1, <2>2 DEF Working
      <3> QED
        BY <1>1, <1>2, <1>6, <2>2, <3>1, OthersUndisturbed
    <2>3. checked' = {}
      BY <1>1, <1>6 DEF NoEdits, Request, BeginTransition, BeginChangePart, BeginReceipt,
            BeginReleaseReservation, MoveOn, GiveUp, AllocateReceived, CommitJob, orderVars
    <2>4. job'[t].kind # "edit" /\ (Working(t)' => ReturnsAsTold(t)')
      <3>1. CASE Request(t)
        BY <3>1, RequestReturns
      <3>2. CASE MoveOn(t)
        <4>1. job'[t] = job[t] /\ job[t].kind # "edit"
          BY <1>1, <3>2 DEF MoveOn, orderVars, NoEdits
        <4>2. CASE ApplyMovement(t)
          BY <3>2, <4>1, <4>2, ApplyReturns DEF MoveOn
        <4>3. CASE CheckMovement(t)
          <5>1. /\ UNCHANGED <<live, committed, lock, status, part, job>>
                /\ txn'[t].program = txn[t].program /\ txn'[t].next = txn[t].next
            BY <1>1, <3>2, <4>3 DEF MoveOn, CheckMovement, orderVars, TypeOK
          <5>2. Undisturbed(t) /\ (Working(t)' => Working(t))
            BY <5>1 DEF Undisturbed, Visible, Working
          <5> QED
            BY <1>4, <4>1, <5>1, <5>2
        <4> QED
          BY <3>2, <4>2, <4>3 DEF MoveOn
      <3>3. CASE GiveUp(t) \/ CommitJob(t)
        <4>1. job'[t] = NoJob
          BY <1>1, <3>3 DEF GiveUp, CommitJob, EndJob, OrderTyped
        <4> QED
          BY <4>1 DEF Working, NoJob
      <3>4. CASE AllocateReceived(t)
        BY <3>4, AllocateReturns
      <3> QED
        BY <1>6, <3>1, <3>2, <3>3, <3>4
    <2>5. NoEdits'
      BY <1>1, <2>1, <2>3, <2>4 DEF NoEdits
    <2>6. CASE CommitJob(t)
      <3>1. LinesBalanced'
        BY <2>6, CommitBalances DEF LinesBalanced
      <3>2. ASSUME NEW u \in Txns, u # t, Working(u)' PROVE ReturnsAsTold(u)'
        <4>1. Working(u) /\ Undisturbed(u)
          BY <2>2, <3>2
        <4>2. PICK w \in Docs : job[u].order = w
          BY <1>1, <4>1, JobTyped
        <4>3. w # job[t].order
          <5>1. Working(t)
            BY <1>1, <2>6, CommitShows
          <5> QED
            BY <1>1, <3>2, <4>1, <4>2, <5>1 DEF Apart
        <4>4. UndisturbedReturn(u, w)
          BY <2>6, <4>1, <4>2, <4>3, CommitSparesOthers DEF UndisturbedReturn
        <4> QED
          BY <1>3, <4>1, <4>4
      <3> QED
        BY <2>4, <2>5, <3>1, <3>2 DEF AllReturnAsTold
    <2>7. CASE Request(t) \/ MoveOn(t) \/ GiveUp(t) \/ AllocateReceived(t)
      <3>1. committed' = committed /\ status' = status /\ part' = part
        BY <2>7 DEF Request, BeginTransition, BeginChangePart, BeginReceipt, BeginReleaseReservation, Open,
              MoveOn, CheckMovement, ApplyMovement, GiveUp, RefuseMovement, FailMovement, DeadlockVictim,
              Interrupt, Rollback, AllocateReceived, orderVars
      <3>2. LinesBalanced'
        BY <1>5, <3>1
      <3>3. ASSUME NEW u \in Txns, u # t, Working(u)' PROVE ReturnsAsTold(u)'
        BY <1>4, <2>2, <3>1, <3>3
      <3> QED
        BY <2>4, <2>5, <3>2, <3>3 DEF AllReturnAsTold
    <2> QED
      BY <1>6, <2>6, <2>7
  <1>7. ASSUME \/ \E l \in Lines : \E q \in 0..MaxPart : CheckEdit(l, q)
               \/ \E e \in checked : AddPart(e)
               \/ \E l \in Lines : \E q \in Quantities : ChangeUnit(l, q)
               \/ UNCHANGED allVars
        PROVE  NoEdits' /\ AllReturnAsTold' /\ LinesBalanced'
    <2>1. /\ UNCHANGED <<vars, status, job>>
          /\ \A u \in Txns : Working(u) => Undisturbed(u) /\ PartsStand(job[u].order)
      BY <1>1, <1>7, OrdersUndisturbed
    <2>2. ~(\E l \in Lines : \E q \in 0..MaxPart : CheckEdit(l, q)) /\ ~(\E e \in checked : AddPart(e))
      BY <1>1 DEF CheckEdit, OrderTyped, NoEdits
    <2>3. checked' = checked /\ committed' = committed
      BY <1>7, <2>1, <2>2 DEF ChangeUnit, allVars, vars, orderVars
    <2>4. NoEdits'
      BY <1>1, <2>1, <2>3 DEF NoEdits
    <2>5. \A l \in Lines : part'[l] > 0 <=> part[l] > 0
      <3>1. ASSUME NEW x \in Lines, NEW q \in Quantities, ChangeUnit(x, q)
            PROVE  \A l \in Lines : part'[l] > 0 <=> part[l] > 0
        <4>1. part[x] > 0 /\ part' = [part EXCEPT ![x] = q] /\ q > 0
          BY <3>1 DEF ChangeUnit, Quantities
        <4> QED
          BY <1>1, <4>1 DEF OrderTyped
      <3>2. UNCHANGED allVars => part' = part
        BY DEF allVars, orderVars
      <3> QED
        BY <1>7, <2>2, <3>1, <3>2
    <2>6. LinesBalanced'
      BY <1>5, <2>1, <2>3, <2>5
    <2>7. ASSUME NEW u \in Txns, Working(u)' PROVE ReturnsAsTold(u)'
      <3>1. Working(u) /\ Undisturbed(u)
        BY <2>1, <2>7 DEF Working
      <3> QED
        BY <1>4, <2>3, <3>1
    <2> QED
      BY <2>4, <2>6, <2>7 DEF AllReturnAsTold
  <1>8. NoEdits' /\ AllReturnAsTold' /\ LinesBalanced'
    BY <1>6, <1>7 DEF OrderNext
  <1> QED
    BY <1>1, <1>8, TakenNextKeeps DEF CancelInvariant

\* Cancelling an order puts back exactly what each of its lines took from the stock, also
\* when the unit of a good changed after the write-off (BR-WO-039), while no part is edited.
THEOREM CancelAlwaysReturns ==
    ASSUME MaxEdits = 0
    PROVE  OrderSpec => []CancelReturnsWrittenOff
  <1>1. CancelInvariant => CancelReturnsWrittenOff
    <2> SUFFICES ASSUME CancelInvariant, NEW w \in Docs, NEW l \in Lines, status[w] = "CANCELLED"
                 PROVE  Outstanding(committed[PartKey[l]].batches, <<w, l>>) = 0
      BY DEF CancelReturnsWrittenOff
    <2>1. PartKey[l] \in Keys /\ <<w, l>> \in Sources
      BY WorkOrderStockAssumption DEF Sources
    <2>2. committed[PartKey[l]].batches \in Seq(Batches)
      BY <2>1, LiveBatches DEF CancelInvariant, TakenInvariant, OrderInvariant, LedgerInvariant
    <2>3. AllReturned(committed[PartKey[l]].batches, <<w, l>>)
      BY <2>1 DEF CancelInvariant, LinesBalanced, LineBalanced, Gone
    <2> QED
      BY <2>1, <2>2, <2>3, OutstandingIsTotal
  <1>2. OrderInit => CancelInvariant
    BY CancelInit
  <1>3. CancelInvariant /\ [OrderNext]_allVars => CancelInvariant'
    BY CancelNextKeeps
  <1> QED
    BY <1>1, <1>2, <1>3, PTL DEF OrderSpec
=============================================================================
