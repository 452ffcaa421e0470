-------------------------- MODULE GoodsReceiptProofs --------------------------
(* Proofs about GoodsReceipt, for any supplier order, any items, work orders,   *)
(* keys and bodies and any number of requests at a time: a key receives at most *)
(* once; the lines, the stock and the supplier's account agree with the         *)
(* receipts that were counted; an order whose last line has come is closed; and *)
(* what is reserved for the work orders is in stock, theirs, and no less than   *)
(* what their items show.                                                       *)
EXTENDS GoodsReceipt, SumTheorems, TLAPS

\* Every request has the fields of one.
IsJob(j) == \E op, step, arg, from, to :
               j = [op |-> op, step |-> step, arg |-> arg, from |-> from, to |-> to]
JobsTyped == job = [t \in Txn |-> job[t]] /\ \A t \in Txn : IsJob(job[t])

Receiving(t) == job[t].op = "receive"

\* A receipt that is under way has reserved its key, alone, and nothing was
\* received under it before.
KeysTyped == key \in [Key -> {"free", "reserved", "done"}] /\ receipts \in [Key -> Nat]
KeysReserved ==
    \A t \in Txn : Receiving(t) => /\ job[t].arg \in Key
                                   /\ key[job[t].arg] = "reserved" /\ receipts[job[t].arg] = 0
KeysApart == \A t, u \in Txn : Receiving(t) /\ Receiving(u) /\ job[t].arg = job[u].arg => t = u
KeyInvariant == JobsTyped /\ KeysTyped /\ KeysReserved /\ KeysApart /\ OncePerKey
-----------------------------------------------------------------------------
(* Requests and their keys. *)

\* A request as it is written down has the fields of one.
LEMMA JobsAreJobs ==
    ASSUME NEW op, NEW step, NEW arg, NEW from, NEW to
    PROVE  LET j == [op |-> op, step |-> step, arg |-> arg, from |-> from, to |-> to]
           IN IsJob(j) /\ j.op = op /\ j.arg = arg
  BY DEF IsJob

\* Moving a request to another step keeps its fields, its operation and its argument.
LEMMA StepOfJob ==
    ASSUME NEW j, IsJob(j), NEW s
    PROVE  /\ IsJob([j EXCEPT !.step = s])
           /\ [j EXCEPT !.step = s].op = j.op /\ [j EXCEPT !.step = s].arg = j.arg
  <1>1. PICK op, step, arg, from, to :
           j = [op |-> op, step |-> step, arg |-> arg, from |-> from, to |-> to]
    BY DEF IsJob
  <1>2. [j EXCEPT !.step = s] = [op |-> op, step |-> s, arg |-> arg, from |-> from, to |-> to]
    BY <1>1
  <1>3. IsJob([j EXCEPT !.step = s])
    BY <1>2, JobsAreJobs
  <1>4. j.op = op /\ j.arg = arg
    BY <1>1
  <1>5. [j EXCEPT !.step = s].op = op /\ [j EXCEPT !.step = s].arg = arg
    BY <1>2
  <1> QED BY <1>3, <1>4, <1>5

\* So does giving it a status to end in along with the step.
LEMMA TargetOfJob ==
    ASSUME NEW j, IsJob(j), NEW s, NEW to
    PROVE  /\ IsJob([j EXCEPT !.to = to, !.step = s])
           /\ [j EXCEPT !.to = to, !.step = s].op = j.op
           /\ [j EXCEPT !.to = to, !.step = s].arg = j.arg
  <1>1. PICK op, step, arg, from, old :
           j = [op |-> op, step |-> step, arg |-> arg, from |-> from, to |-> old]
    BY DEF IsJob
  <1>2. [j EXCEPT !.to = to] = [op |-> op, step |-> step, arg |-> arg, from |-> from, to |-> to]
    BY <1>1
  <1>3. IsJob([j EXCEPT !.to = to])
    BY <1>2, JobsAreJobs
  <1>4. [j EXCEPT !.to = to, !.step = s] = [[j EXCEPT !.to = to] EXCEPT !.step = s]
    OBVIOUS
  <1>5. [j EXCEPT !.to = to].op = j.op /\ [j EXCEPT !.to = to].arg = j.arg
    BY <1>1, <1>2
  <1> QED BY <1>3, <1>4, <1>5, StepOfJob

\* A step that begins no receipt and writes no key keeps what is known of the keys.
LEMMA KeysUntouched ==
    ASSUME KeyInvariant, UNCHANGED <<key, receipts>>, JobsTyped',
           \A t \in Txn : Receiving(t)' => Receiving(t) /\ job'[t].arg = job[t].arg
    PROVE  KeyInvariant'
  <1>1. KeysTyped' /\ OncePerKey'
    BY DEF KeyInvariant, KeysTyped, OncePerKey
  <1>2. KeysReserved' /\ KeysApart'
    BY DEF KeyInvariant, KeysReserved, KeysApart
  <1> QED BY <1>1, <1>2 DEF KeyInvariant

\* One job changes.
LEMMA OneJob ==
    ASSUME JobsTyped, NEW t \in Txn, NEW j, IsJob(j), job' = [job EXCEPT ![t] = j]
    PROVE  /\ JobsTyped'
           /\ job'[t] = j
           /\ \A u \in Txn \ {t} : job'[u] = job[u]
  BY DEF JobsTyped

\* Under the invariant every request in the table has the fields of one.
LEMMA JobIsJob ==
    ASSUME KeyInvariant, NEW t \in Txn
    PROVE  IsJob(job[t])
  BY DEF KeyInvariant, JobsTyped

\* The next await of a request.
LEMMA KeysGoto ==
    ASSUME KeyInvariant, UNCHANGED <<key, receipts>>, NEW t \in Txn, NEW s, Goto(t, s)
    PROVE  KeyInvariant'
  <1>1. job' = [job EXCEPT ![t] = [job[t] EXCEPT !.step = s]]
    BY DEF Goto
  <1>2. /\ IsJob([job[t] EXCEPT !.step = s])
        /\ [job[t] EXCEPT !.step = s].op = job[t].op /\ [job[t] EXCEPT !.step = s].arg = job[t].arg
    BY JobIsJob, StepOfJob
  <1>3. JobsTyped' /\ job'[t] = [job[t] EXCEPT !.step = s] /\ \A u \in Txn \ {t} : job'[u] = job[u]
    BY <1>1, <1>2, OneJob DEF KeyInvariant
  <1>4. \A u \in Txn : Receiving(u)' => Receiving(u) /\ job'[u].arg = job[u].arg
    BY <1>2, <1>3 DEF Receiving
  <1> QED BY <1>3, <1>4, KeysUntouched

\* A request that is no receipt begins.
LEMMA KeysBegin ==
    ASSUME KeyInvariant, UNCHANGED <<key, receipts>>, NEW t \in Txn,
           NEW op, op # "receive", NEW step, NEW arg, NEW from, NEW to,
           job' = [job EXCEPT ![t] = [op |-> op, step |-> step, arg |-> arg, from |-> from, to |-> to]]
    PROVE  KeyInvariant'
  <1> DEFINE j == [op |-> op, step |-> step, arg |-> arg, from |-> from, to |-> to]
  <1>1. IsJob(j) /\ j.op = op
    BY JobsAreJobs
  <1> HIDE DEF j
  <1>2. job' = [job EXCEPT ![t] = j]
    BY DEF j
  <1>3. JobsTyped' /\ job'[t] = j /\ \A u \in Txn \ {t} : job'[u] = job[u]
    BY <1>1, <1>2, OneJob DEF KeyInvariant
  <1>4. \A u \in Txn : Receiving(u)' => Receiving(u) /\ job'[u].arg = job[u].arg
    BY <1>1, <1>3 DEF Receiving
  <1> QED BY <1>3, <1>4, KeysUntouched

\* A request that ends without touching its key leaves the keys as they were.
LEMMA KeysEnd ==
    ASSUME KeyInvariant, UNCHANGED <<key, receipts>>, NEW t \in Txn, job' = [job EXCEPT ![t] = Idle]
    PROVE  KeyInvariant'
  BY KeysBegin, "none" # "receive" DEF Idle
-----------------------------------------------------------------------------
(* The steps. *)

\* A receipt starts on a key nobody has reserved, and reserves it.
LEMMA KeysStartReceive ==
    ASSUME KeyInvariant, NEW t \in Txn, NEW k \in Key, StartReceive(t, k)
    PROVE  KeyInvariant'
  <1> DEFINE j == [op |-> "receive", step |-> "begin", arg |-> k, from |-> db[PO], to |-> db[PO]]
  <1>1. IsJob(j) /\ j.op = "receive" /\ j.arg = k
    BY JobsAreJobs
  <1>2. job' = [job EXCEPT ![t] = j]
    BY DEF StartReceive
  <1> HIDE DEF j
  <1>3. JobsTyped' /\ job'[t] = j /\ \A u \in Txn \ {t} : job'[u] = job[u]
    BY <1>1, <1>2, OneJob DEF KeyInvariant
  <1>4. /\ key[k] = "free" /\ key' = [key EXCEPT ![k] = "reserved"] /\ receipts' = receipts
    BY DEF StartReceive
  <1>5. receipts[k] = 0
    BY <1>4 DEF KeyInvariant, OncePerKey
  <1>6. \A u \in Txn : Receiving(u) => job[u].arg # k
    BY <1>4, "free" # "reserved" DEF KeyInvariant, KeysReserved
  <1>7. KeysTyped' /\ key'[k] = "reserved" /\ \A l \in Key \ {k} : key'[l] = key[l]
    BY <1>4 DEF KeyInvariant, KeysTyped
  <1>8. OncePerKey'
    BY <1>4, <1>7, "free" # "reserved" DEF KeyInvariant, OncePerKey
  <1>9. \A u \in Txn \ {t} : Receiving(u)' <=> Receiving(u)
    BY <1>3 DEF Receiving
  <1>10. KeysReserved'
    BY <1>1, <1>3, <1>4, <1>5, <1>6, <1>7, <1>9 DEF KeyInvariant, KeysReserved
  <1>11. KeysApart'
    BY <1>1, <1>3, <1>6, <1>9 DEF KeyInvariant, KeysApart
  <1> QED BY <1>3, <1>7, <1>8, <1>10, <1>11 DEF KeyInvariant

\* The key of a receipt that failed is free again, or stays reserved.
LEMMA KeysAbort ==
    ASSUME KeyInvariant, NEW t \in Txn, Abort(t)
    PROVE  KeyInvariant'
  <1>1. job' = [job EXCEPT ![t] = Idle] /\ receipts' = receipts
    BY DEF Abort
  <1>2. CASE ~Receiving(t)
    <2>1. UNCHANGED <<key, receipts>>
      BY <1>1, <1>2 DEF Abort, Receiving
    <2> QED BY <1>1, <2>1, KeysEnd
  <1>3. CASE Receiving(t)
    <2>1. PICK after \in {"free", "reserved"} : key' = [key EXCEPT ![job[t].arg] = after]
      BY <1>3 DEF Abort, Receiving
    <2>2. job[t].arg \in Key /\ receipts[job[t].arg] = 0
      BY <1>3 DEF KeyInvariant, KeysReserved
    <2>3. KeysTyped' /\ \A k \in Key \ {job[t].arg} : key'[k] = key[k]
      BY <1>1, <2>1, <2>2 DEF KeyInvariant, KeysTyped
    <2>4. OncePerKey'
      BY <1>1, <2>2, <2>3 DEF KeyInvariant, OncePerKey
    <2>5. IsJob(Idle) /\ Idle.op # "receive"
      BY JobsAreJobs, "none" # "receive" DEF Idle
    <2>6. JobsTyped' /\ job'[t] = Idle /\ \A u \in Txn \ {t} : job'[u] = job[u]
      BY <1>1, <2>5, OneJob DEF KeyInvariant
    <2>7. \A u \in Txn : Receiving(u)' => u # t /\ Receiving(u) /\ job'[u] = job[u]
      BY <2>5, <2>6 DEF Receiving
    <2>8. \A u \in Txn \ {t} : Receiving(u) => job[u].arg # job[t].arg
      BY <1>3 DEF KeyInvariant, KeysApart
    <2>9. KeysReserved'
      BY <1>1, <2>3, <2>7, <2>8 DEF KeyInvariant, KeysReserved
    <2>10. KeysApart'
      BY <2>7 DEF KeyInvariant, KeysApart
    <2> QED BY <2>3, <2>4, <2>6, <2>9, <2>10 DEF KeyInvariant
  <1> QED BY <1>2, <1>3

\* A receipt is committed: its answer is stored, or its key stays reserved.
LEMMA KeysSetStatus ==
    ASSUME KeyInvariant, NEW t \in Txn, SetStatus(t)
    PROVE  KeyInvariant'
  <1>1. job' = [job EXCEPT ![t] = Idle]
    BY DEF SetStatus, Commit
  <1>2. CASE ~Receiving(t)
    <2>1. UNCHANGED <<key, receipts>>
      BY <1>2 DEF SetStatus, Receiving
    <2> QED BY <1>1, <2>1, KeysEnd
  <1>3. CASE Receiving(t)
    <2> DEFINE k == job[t].arg
    <2>1. PICK after \in Finalized : key' = [key EXCEPT ![k] = after]
      BY <1>3 DEF SetStatus, Receiving
    <2>2. receipts' = [receipts EXCEPT ![k] = @ + 1]
      BY <1>3 DEF SetStatus, Receiving
    <2>3. k \in Key /\ receipts[k] = 0
      BY <1>3 DEF KeyInvariant, KeysReserved
    <2> HIDE DEF k
    <2>4. /\ KeysTyped' /\ receipts'[k] = 1 /\ key'[k] # "free"
          /\ \A l \in Key \ {k} : key'[l] = key[l] /\ receipts'[l] = receipts[l]
      BY <2>1, <2>2, <2>3 DEF KeyInvariant, KeysTyped, Finalized
    <2>5. OncePerKey'
      BY <2>4 DEF KeyInvariant, OncePerKey
    <2>6. IsJob(Idle) /\ Idle.op # "receive"
      BY JobsAreJobs, "none" # "receive" DEF Idle
    <2>7. JobsTyped' /\ job'[t] = Idle /\ \A u \in Txn \ {t} : job'[u] = job[u]
      BY <1>1, <2>6, OneJob DEF KeyInvariant
    <2>8. \A u \in Txn : Receiving(u)' => u # t /\ Receiving(u) /\ job'[u] = job[u]
      BY <2>6, <2>7 DEF Receiving
    <2>9. \A u \in Txn \ {t} : Receiving(u) => job[u].arg # k
      BY <1>3 DEF KeyInvariant, KeysApart, k
    <2>10. KeysReserved'
      BY <2>4, <2>8, <2>9 DEF KeyInvariant, KeysReserved
    <2>11. KeysApart'
      BY <2>8 DEF KeyInvariant, KeysApart
    <2> QED BY <2>4, <2>5, <2>7, <2>10, <2>11 DEF KeyInvariant
  <1> QED BY <1>2, <1>3

\* Choosing the next status of the supplier order does not touch the keys.
LEMMA KeysRereadLines ==
    ASSUME KeyInvariant, NEW t \in Txn, RereadLines(t)
    PROVE  KeyInvariant'
  <1>1. PICK to, s : job' = [job EXCEPT ![t] = [job[t] EXCEPT !.to = to, !.step = s]]
    BY DEF RereadLines
  <1> DEFINE j == [job[t] EXCEPT !.to = to, !.step = s]
  <1>2. IsJob(j) /\ j.op = job[t].op /\ j.arg = job[t].arg
    BY JobIsJob, TargetOfJob
  <1> HIDE DEF j
  <1>3. JobsTyped' /\ job'[t] = j /\ \A u \in Txn \ {t} : job'[u] = job[u]
    BY <1>1, <1>2, OneJob DEF KeyInvariant, j
  <1>4. \A u \in Txn : Receiving(u)' => Receiving(u) /\ job'[u].arg = job[u].arg
    BY <1>2, <1>3 DEF Receiving
  <1>5. UNCHANGED <<key, receipts>>
    BY DEF RereadLines
  <1> QED BY <1>3, <1>4, <1>5, KeysUntouched

\* No step of a receipt breaks what is known of the keys; only its end counts a receipt.
LEMMA KeysReceiveStep ==
    ASSUME KeyInvariant, NEW t \in Txn, ReceiveStep(t)
    PROVE  KeyInvariant'
  <1>1. CASE \E k \in Key : StartReceive(t, k)
    BY <1>1, KeysStartReceive
  <1>2. CASE LockOrders(t)
    BY <1>2, KeysGoto DEF LockOrders
  <1>3. CASE ReceiveLines(t)
    BY <1>3, KeysGoto DEF ReceiveLines
  <1>4. CASE PostReceipt(t)
    BY <1>4, KeysGoto DEF PostReceipt
  <1>5. CASE ReadItems(t)
    BY <1>5, KeysGoto DEF ReadItems
  <1>6. CASE Allocate(t)
    BY <1>6, KeysGoto DEF Allocate
  <1>7. CASE Charge(t)
    BY <1>7, KeysGoto DEF Charge
  <1>8. CASE RereadLines(t)
    BY <1>8, KeysRereadLines
  <1>9. CASE CloseForLists(t)
    BY <1>9, KeysGoto DEF CloseForLists
  <1>10. CASE SetStatus(t)
    BY <1>10, KeysSetStatus
  <1> QED
    BY <1>1, <1>2, <1>3, <1>4, <1>5, <1>6, <1>7, <1>8, <1>9, <1>10 DEF ReceiveStep

\* Nor does a step of a request that received nothing.
LEMMA KeysOtherStep ==
    ASSUME KeyInvariant, NEW t \in Txn, OtherStep(t)
    PROVE  KeyInvariant'
  <1>1. CASE \E to \in {"PARTIAL", "RECEIVED", "CANCELLED"} : StartTransition(t, to)
    <2>1. PICK to \in {"PARTIAL", "RECEIVED", "CANCELLED"} : StartTransition(t, to)
      BY <1>1
    <2>2. PICK step, from :
             job' = [job EXCEPT ![t] = [op |-> "transition", step |-> step, arg |-> PO, from |-> from, to |-> to]]
      BY <2>1 DEF StartTransition
    <2>3. UNCHANGED <<key, receipts>>
      BY <2>1 DEF StartTransition
    <2> QED BY <2>2, <2>3, KeysBegin, "transition" # "receive"
  <1>2. CASE \E w \in Order, to \in {"COMPLETED", "CANCELLED"} : StartFinish(t, w, to)
    <2>1. PICK w \in Order, to \in {"COMPLETED", "CANCELLED"} : StartFinish(t, w, to)
      BY <1>2
    <2>2. job' = [job EXCEPT ![t] =
             [op |-> "finish", step |-> "release", arg |-> w, from |-> "IN_PROGRESS", to |-> to]]
      BY <2>1 DEF StartFinish
    <2>3. UNCHANGED <<key, receipts>>
      BY <2>1 DEF StartFinish
    <2> QED BY <2>2, <2>3, KeysBegin, "finish" # "receive"
  <1>3. CASE ReleaseStock(t)
    BY <1>3, KeysGoto DEF ReleaseStock
  <1>4. CASE CancelItems(t)
    BY <1>4, KeysEnd DEF CancelItems, Commit
  <1>5. CASE \E i \in Item : StartRelease(t, i)
    <2>1. PICK i \in Item : StartRelease(t, i)
      BY <1>5
    <2>2. job' = [job EXCEPT ![t] =
             [op |-> "release", step |-> "item", arg |-> i, from |-> "none", to |-> "none"]]
      BY <2>1 DEF StartRelease
    <2>3. UNCHANGED <<key, receipts>>
      BY <2>1 DEF StartRelease
    <2> QED BY <2>2, <2>3, KeysBegin, "release" # "receive"
  <1>6. CASE ReleaseItem(t)
    BY <1>6, KeysGoto DEF ReleaseItem
  <1>7. CASE ReleaseMovement(t)
    BY <1>7, KeysEnd DEF ReleaseMovement, Commit
  <1>8. CASE StartUnconfirmed(t)
    BY <1>8, KeysBegin, "unconfirmed" # "receive" DEF StartUnconfirmed
  <1>9. CASE ReadUnconfirmed(t)
    BY <1>9, KeysGoto DEF ReadUnconfirmed
  <1>10. CASE EndUnconfirmed(t)
    BY <1>10, KeysEnd DEF EndUnconfirmed, Commit
  <1>11. CASE \E i \in Unconfirmed : \E cut \in 1..Wanted[i] : ReturnUnconfirmed(t, i, cut)
    BY <1>11, KeysGoto DEF ReturnUnconfirmed
  <1> QED
    BY <1>1, <1>2, <1>3, <1>4, <1>5, <1>6, <1>7, <1>8, <1>9, <1>10, <1>11 DEF OtherStep

\* At the start nobody has a key and nothing was received.
LEMMA KeyInit == Init => KeyInvariant
  <1> SUFFICES ASSUME Init PROVE KeyInvariant
    OBVIOUS
  <1>1. IsJob(Idle) /\ Idle.op # "receive"
    BY JobsAreJobs, "none" # "receive" DEF Idle
  <1>2. job = [t \in Txn |-> Idle]
    BY DEF Init
  <1>3. JobsTyped /\ \A t \in Txn : ~Receiving(t)
    BY <1>1, <1>2 DEF JobsTyped, Receiving
  <1>4. KeysTyped /\ OncePerKey
    BY DEF Init, KeysTyped, OncePerKey
  <1> QED BY <1>3, <1>4 DEF KeyInvariant, KeysReserved, KeysApart

\* Every step keeps what is known of the keys.
LEMMA KeyStep == KeyInvariant /\ [Next]_vars => KeyInvariant'
  <1> SUFFICES ASSUME KeyInvariant, [Next]_vars PROVE KeyInvariant'
    OBVIOUS
  <1>1. CASE \E t \in Txn : ReceiveStep(t)
    BY <1>1, KeysReceiveStep
  <1>2. CASE \E t \in Txn : OtherStep(t)
    BY <1>2, KeysOtherStep
  <1>3. CASE \E t \in Txn : Abort(t)
    BY <1>3, KeysAbort
  <1>4. CASE UNCHANGED vars
    BY <1>4 DEF vars, KeyInvariant, JobsTyped, KeysTyped, KeysReserved, KeysApart, Receiving, OncePerKey
  <1> QED BY <1>1, <1>2, <1>3, <1>4 DEF Next

\* However requests are repeated, answers lost and receipts aborted, a key is good
\* for one committed receipt.
THEOREM ReceivedOnce == Spec => []OncePerKey
  <1>1. KeyInvariant => OncePerKey
    BY DEF KeyInvariant
  <1> QED BY KeyInit, KeyStep, <1>1, PTL DEF Spec
-----------------------------------------------------------------------------
(* That receipts are booked: what each request has added to what is committed, *)
(* and what it knows of it.                                                     *)

\* A receipt has written its lines, its goods, its charge: what it adds to the
\* committed rows.
BeforeLines == {"begin", "lines"}
BeforeStock == BeforeLines \cup {"stock"}
BeforeCharge == BeforeStock \cup {"items", "allocate", "charge"}
Past(t, steps) == Receiving(t) /\ job[t].step \notin steps
Brought(t, l) == IF Past(t, BeforeLines) THEN Body[job[t].arg][l] ELSE 0
Came(t, g) == IF Past(t, BeforeStock) THEN Arrived(job[t].arg, g) ELSE 0
Owed(t) == IF Past(t, BeforeCharge) THEN Amount(job[t].arg) ELSE 0

\* A work order that is being closed, and what it has written off.
Finishing(t) == job[t].op = "finish"
Went(t, g) == IF Finishing(t) /\ job[t].step = "items" /\ job[t].to = "COMPLETED"
              THEN Need[job[t].arg][g] ELSE 0

\* What a request acts on.
JobShaped(t) ==
    /\ Finishing(t) => /\ job[t].arg \in Order /\ job[t].to \in {"COMPLETED", "CANCELLED"}
                       /\ job[t].step \in {"release", "items"}
                       /\ job[t].arg \in DOMAIN mine[t] /\ db[job[t].arg] = "IN_PROGRESS"
    /\ job[t].op = "release" => job[t].arg \in Item /\ ItemOrder[job[t].arg] \in Order
    /\ job[t].step \in {"close", "status"} => job[t].op \in {"receive", "transition"}
    /\ job[t].op \in {"receive", "transition"} => /\ job[t].from \in Receivable
                                                 /\ job[t].to \in DOMAIN PO_TRANSITIONS

\* A line, a row of the stock and the account.
Stocked(r) == \E q \in Int : \E reserved, net : r = [quantity |-> q, reserved |-> reserved, net |-> net]
Counted ==
    /\ Row \subseteq DOMAIN db
    /\ \A l \in Line : db[l] \in Nat /\ db[l] <= Ordered[l]
    /\ \A g \in Good : Stocked(db[g])
    /\ db[Account] \in Int
    /\ db[PO] \in DOMAIN PO_TRANSITIONS

\* What a transaction sees is what is committed and what it has added itself,
\* and where it has added something it holds the row.
SeesLines(t) ==
    \A l \in Line : /\ See(t)[l] = db[l] + Brought(t, l) /\ See(t)[l] <= Ordered[l]
                    /\ Brought(t, l) # 0 => l \in DOMAIN mine[t]
SeesGoods(t) ==
    \A g \in Good : /\ Stocked(See(t)[g])
                    /\ See(t)[g].quantity = db[g].quantity + Came(t, g) - Went(t, g)
                    /\ Came(t, g) # 0 \/ Went(t, g) # 0 => g \in DOMAIN mine[t]
SeesAccount(t) == See(t)[Account] = db[Account] + Owed(t) /\ (Owed(t) # 0 => Account \in DOMAIN mine[t])
SeesOrders(t) ==
    /\ \A w \in Order : See(t)[w] = IF Finishing(t) /\ w = job[t].arg THEN job[t].to ELSE db[w]
    /\ PO \notin DOMAIN mine[t]
\* The lines were read with room for what arrives.
HasRoom(t) ==
    Receiving(t) /\ job[t].step \in BeforeLines =>
        \A l \in ActiveLines(job[t].arg) : seen[t][l] + Body[job[t].arg][l] <= Ordered[l]
Sees(t) == JobShaped(t) /\ SeesLines(t) /\ SeesGoods(t) /\ SeesAccount(t) /\ SeesOrders(t) /\ HasRoom(t)

\* A row is held by one transaction.
RowsApart == \A t, u \in Txn : t # u => DOMAIN mine[t] \cap DOMAIN mine[u] = {}

BookInvariant ==
    /\ KeyInvariant
    /\ DOMAIN mine = Txn /\ DOMAIN seen = Txn /\ RowsApart
    /\ Counted /\ \A t \in Txn : Sees(t)
    /\ ReceiptIsBooked
-----------------------------------------------------------------------------
(* Rows and sums of them. *)

\* The new versions of rows come before the old ones.
LEMMA NewerFirst ==
    ASSUME NEW f, NEW g
    PROVE  /\ DOMAIN Over(f, g) = DOMAIN f \cup DOMAIN g
           /\ \A x \in DOMAIN f : Over(f, g)[x] = f[x]
           /\ \A x \in DOMAIN g \ DOMAIN f : Over(f, g)[x] = g[x]
  BY DEF Over

\* Each id is of one table.
LEMMA Tables ==
    /\ \A x \in Line : x \in Row /\ x \notin Good /\ x \notin Item /\ x \notin Order /\ x # PO /\ x # Account
    /\ \A x \in Good : x \in Row /\ x \notin Line /\ x \notin Item /\ x \notin Order /\ x # PO /\ x # Account
    /\ \A x \in Item : x \in Row /\ x \notin Line /\ x \notin Good /\ x \notin Order /\ x # PO /\ x # Account
    /\ \A x \in Order : x \in Row /\ x \notin Line /\ x \notin Good /\ x \notin Item /\ x # PO /\ x # Account
    /\ Account \in Row /\ Account \notin Line /\ Account \notin Good /\ Account \notin Item
    /\ Account \notin Order /\ Account # PO
  BY GoodsReceiptAssumption DEF Row

\* What a request receives of a line is a number,
LEMMA BodyNat ==
    ASSUME NEW k \in Key, NEW l \in Line
    PROVE  Body[k][l] \in Nat
  BY GoodsReceiptAssumption

\* and so is what it costs and what arrives of a good.
LEMMA ArrivedNat ==
    ASSUME NEW k \in Key
    PROVE  Amount(k) \in Nat /\ \A g \in Good : Arrived(k, g) \in Nat
  <1> USE GoodsReceiptAssumption
  <1> DEFINE cost == [l \in Line |-> Body[k][l] * Price[l]]
             of(g) == [l \in Line |-> IF LineGood[l] = g THEN Body[k][l] ELSE 0]
  <1>1. \A l \in Line : cost[l] \in Nat
    <2> SUFFICES ASSUME NEW l \in Line PROVE Body[k][l] * Price[l] \in Nat
      OBVIOUS
    <2>1. Body[k][l] \in Nat /\ Price[l] \in Nat
      BY BodyNat
    <2> QED
      BY <2>1
  <1>2. \A g \in Good : \A l \in Line : of(g)[l] \in Nat
    BY BodyNat
  <1>3. Amount(k) = SumFunctionOnSet(cost, Line) /\ \A g \in Good : Arrived(k, g) = SumFunctionOnSet(of(g), Line)
    BY SumFunctionIs DEF Amount, Arrived
  <1> HIDE DEF cost, of
  <1> QED
    BY <1>1, <1>2, <1>3, SumNat

\* Nothing arrives of a good that no line of the receipt is about.
LEMMA NoneArrives ==
    ASSUME NEW k \in Key, NEW g \in Good \ GoodsOf(k)
    PROVE  Arrived(k, g) = 0
  <1> DEFINE f == [l \in Line |-> IF LineGood[l] = g THEN Body[k][l] ELSE 0]
  <1>1. ASSUME NEW l \in Line PROVE f[l] = 0
    <2>1. LineGood[l] = g => ~(Body[k][l] > 0)
      BY DEF GoodsOf, ActiveLines
    <2> QED
      BY <2>1, BodyNat
  <1>2. f \in [Line -> Int] /\ IsFiniteSet(Line)
    BY <1>1, GoodsReceiptAssumption
  <1>3. Arrived(k, g) = SumFunction(f)
    BY DEF Arrived
  <1> HIDE DEF f
  <1> QED
    BY <1>1, <1>2, <1>3, FunctionZero

\* A row of the stock whose reservations change, or that gets this quantity.
Reserves(r, e) == \E a, n : e = [r EXCEPT !.reserved = a, !.net = n]
Becomes(r, e, q) == e = [r EXCEPT !.quantity = q] \/ \E a, n : e = [r EXCEPT !.quantity = q, !.reserved = a, !.net = n]

\* It keeps its quantity when its reservations change,
LEMMA StockKept ==
    ASSUME NEW r, Stocked(r), NEW e, Reserves(r, e)
    PROVE  Stocked(e) /\ e.quantity = r.quantity
  <1>1. PICK q \in Int : \E reserved, net : r = [quantity |-> q, reserved |-> reserved, net |-> net]
    BY DEF Stocked
  <1>2. PICK reserved, net : r = [quantity |-> q, reserved |-> reserved, net |-> net]
    BY <1>1
  <1>3. PICK a, n : e = [r EXCEPT !.reserved = a, !.net = n]
    BY DEF Reserves
  <1> DEFINE d == [r EXCEPT !.reserved = a]
  <1>4. d = [quantity |-> q, reserved |-> a, net |-> net]
    BY <1>2
  <1>5. e = [d EXCEPT !.net = n]
    BY <1>3
  <1> HIDE DEF d
  <1>6. e = [quantity |-> q, reserved |-> a, net |-> n]
    BY <1>4, <1>5
  <1> QED
    BY <1>2, <1>6 DEF Stocked

\* and has another when that is written.
LEMMA StockMoved ==
    ASSUME NEW r, Stocked(r), NEW q \in Int, NEW e, Becomes(r, e, q)
    PROVE  Stocked(e) /\ e.quantity = q
  <1>1. PICK p, reserved, net : r = [quantity |-> p, reserved |-> reserved, net |-> net]
    BY DEF Stocked
  <1> DEFINE d == [r EXCEPT !.quantity = q]
  <1>2. d = [quantity |-> q, reserved |-> reserved, net |-> net]
    BY <1>1
  <1> HIDE DEF d
  <1>3. Stocked(d) /\ d.quantity = q
    BY <1>2 DEF Stocked
  <1>4. e = d \/ Reserves(d, e)
    BY DEF Becomes, Reserves, d
  <1> QED
    BY <1>3, <1>4, StockKept

\* A row of the stock has a quantity.
LEMMA StockCounts ==
    ASSUME NEW r, Stocked(r)
    PROVE  r.quantity \in Int
  BY DEF Stocked
-----------------------------------------------------------------------------
(* What a statement and a commit do to the rows. *)

\* A transaction sees its own rows, and what is committed of the others.
LEMMA SeesRow ==
    ASSUME Row \subseteq DOMAIN db, NEW t \in Txn, NEW x \in Row
    PROVE  See(t)[x] = IF x \in DOMAIN mine[t] THEN mine[t][x] ELSE db[x]
  BY DEF See, Over

\* A statement that writes: what is held, and seen, after it.
Wrote(t, rows) ==
    /\ DOMAIN mine' = Txn
    /\ DOMAIN mine'[t] = DOMAIN rows \cup DOMAIN mine[t]
    /\ \A u \in Txn \ {t} : mine'[u] = mine[u]
    /\ \A x \in Row : See(t)'[x] = IF x \in DOMAIN rows THEN rows[x] ELSE See(t)[x]
    /\ RowsApart'

\* A statement that waited for the rows it writes holds them alone.
LEMMA WriteWrites ==
    ASSUME DOMAIN mine = Txn, RowsApart, Row \subseteq DOMAIN db, db' = db,
           NEW t \in Txn, NEW rows, Write(t, rows)
    PROVE  Wrote(t, rows)
  <1>1. mine' = [mine EXCEPT ![t] = Over(rows, mine[t])] /\ ~Waits(t, DOMAIN rows)
    BY DEF Write
  <1>2. DOMAIN mine' = Txn /\ mine'[t] = Over(rows, mine[t]) /\ \A u \in Txn \ {t} : mine'[u] = mine[u]
    BY <1>1
  <1>3. DOMAIN mine'[t] = DOMAIN rows \cup DOMAIN mine[t]
    <2>1. DOMAIN Over(rows, mine[t]) = DOMAIN rows \cup DOMAIN mine[t]
      BY NewerFirst
    <2> QED
      BY <1>2, <2>1
  <1>4. ASSUME NEW x \in Row PROVE See(t)'[x] = IF x \in DOMAIN rows THEN rows[x] ELSE See(t)[x]
    <2>1. See(t)'[x] = IF x \in DOMAIN mine'[t] THEN mine'[t][x] ELSE db'[x]
      BY <1>4 DEF See, Over
    <2>2. See(t)[x] = IF x \in DOMAIN mine[t] THEN mine[t][x] ELSE db[x]
      BY SeesRow, <1>4
    <2>3. CASE x \in DOMAIN rows
      BY <1>2, <1>3, <2>1, <2>3 DEF Over
    <2>4. CASE x \notin DOMAIN rows /\ x \in DOMAIN mine[t]
      BY <1>2, <1>3, <2>1, <2>2, <2>4 DEF Over
    <2>5. CASE x \notin DOMAIN rows /\ x \notin DOMAIN mine[t]
      BY <1>3, <2>1, <2>2, <2>5
    <2> QED
      BY <2>3, <2>4, <2>5
  <1>5. \A u \in Txn \ {t} : DOMAIN mine[u] \cap DOMAIN rows = {}
    BY <1>1 DEF Waits
  <1>6. RowsApart'
    BY <1>2, <1>3, <1>5 DEF RowsApart
  <1> QED
    BY <1>2, <1>3, <1>4, <1>6 DEF Wrote

\* A statement that only reads.
LEMMA ReadWrites ==
    ASSUME DOMAIN mine = Txn, RowsApart, db' = db, mine' = mine, NEW t \in Txn
    PROVE  Wrote(t, NoRows)
  <1>1. DOMAIN NoRows = {}
    BY DEF NoRows
  <1>2. RowsApart' /\ See(t)' = See(t)
    BY DEF RowsApart, See
  <1> QED
    BY <1>1, <1>2 DEF Wrote

\* A statement or a commit that leaves the lines, the quantities, the account and
\* the status of every order as they are seen.
Quiet(t, rows) ==
    /\ DOMAIN rows \cap (Line \cup {Account, PO}) = {}
    /\ \A g \in Good \cap DOMAIN rows : Stocked(rows[g]) /\ rows[g].quantity = See(t)[g].quantity
    /\ \A w \in Order \cap DOMAIN rows : rows[w] = See(t)[w]

\* Rows of items are none of these.
LEMMA ItemsAreQuiet ==
    ASSUME NEW t, NEW rows, DOMAIN rows \subseteq Item
    PROVE  Quiet(t, rows)
  BY Tables DEF Quiet

\* What a request has added stays the same.
SameAdds(t) ==
    /\ \A l \in Line : Brought(t, l)' = Brought(t, l)
    /\ \A g \in Good : Came(t, g)' = Came(t, g) /\ Went(t, g)' = Went(t, g)
    /\ Owed(t)' = Owed(t)

\* Nothing is committed and the lines are seen as before.
LEMMA KeepsLines ==
    ASSUME db' = db, NEW t, SeesLines(t), NEW rows, Wrote(t, rows), DOMAIN rows \cap Line = {},
           \A l \in Line : Brought(t, l)' = Brought(t, l)
    PROVE  SeesLines(t)'
  <1>1. \A l \in Line : See(t)'[l] = See(t)[l]
    BY Tables DEF Wrote
  <1>2. DOMAIN mine[t] \subseteq DOMAIN mine'[t]
    BY DEF Wrote
  <1> QED
    BY <1>1, <1>2 DEF SeesLines

\* The goods are seen as before, but for their reservations.
LEMMA KeepsGoods ==
    ASSUME db' = db, NEW t, SeesGoods(t), NEW rows, Wrote(t, rows),
           \A g \in Good \cap DOMAIN rows : Stocked(rows[g]) /\ rows[g].quantity = See(t)[g].quantity,
           \A g \in Good : Came(t, g)' = Came(t, g) /\ Went(t, g)' = Went(t, g)
    PROVE  SeesGoods(t)'
  <1>1. ASSUME NEW g \in Good PROVE Stocked(See(t)'[g]) /\ See(t)'[g].quantity = See(t)[g].quantity
    <2>1. See(t)'[g] = IF g \in DOMAIN rows THEN rows[g] ELSE See(t)[g]
      BY Tables DEF Wrote
    <2> QED
      BY <2>1 DEF SeesGoods
  <1>2. DOMAIN mine[t] \subseteq DOMAIN mine'[t]
    BY DEF Wrote
  <1> QED
    BY <1>1, <1>2 DEF SeesGoods

\* The account is seen as before.
LEMMA KeepsAccount ==
    ASSUME db' = db, NEW t, SeesAccount(t), NEW rows, Wrote(t, rows), Account \notin DOMAIN rows,
           Owed(t)' = Owed(t)
    PROVE  SeesAccount(t)'
  <1>1. See(t)'[Account] = See(t)[Account]
    BY Tables DEF Wrote
  <1>2. DOMAIN mine[t] \subseteq DOMAIN mine'[t]
    BY DEF Wrote
  <1> QED
    BY <1>1, <1>2 DEF SeesAccount

\* The orders are seen as before.
LEMMA KeepsOrders ==
    ASSUME db' = db, NEW t, SeesOrders(t), NEW rows, Wrote(t, rows),
           \A w \in Order \cap DOMAIN rows : rows[w] = See(t)[w], PO \notin DOMAIN rows,
           Finishing(t)' <=> Finishing(t), job'[t].arg = job[t].arg \/ ~Finishing(t),
           job'[t].to = job[t].to \/ ~Finishing(t)
    PROVE  SeesOrders(t)'
  <1>1. \A w \in Order : See(t)'[w] = See(t)[w]
    BY Tables DEF Wrote
  <1>2. PO \notin DOMAIN mine'[t]
    BY DEF SeesOrders, Wrote
  <1> QED
    BY <1>1, <1>2 DEF SeesOrders

\* A request that closes no work order, and a quiet statement of it.
LEMMA QuietSees ==
    ASSUME db' = db, NEW t, Sees(t), NEW rows, Wrote(t, rows), Quiet(t, rows), SameAdds(t),
           ~Finishing(t), ~Finishing(t)', JobShaped(t)', HasRoom(t)'
    PROVE  Sees(t)'
  <1>1. SeesLines(t)' /\ SeesGoods(t)' /\ SeesAccount(t)' /\ SeesOrders(t)'
    BY KeepsLines, KeepsGoods, KeepsAccount, KeepsOrders DEF Quiet, SameAdds, Sees
  <1> QED
    BY <1>1 DEF Sees

\* The transactions beside it, when nothing is committed.
LEMMA OthersSee ==
    ASSUME db' = db, NEW u, Sees(u), mine'[u] = mine[u], seen'[u] = seen[u], job'[u] = job[u]
    PROVE  Sees(u)'
  <1>1. See(u)' = See(u)
    BY DEF See
  <1>2. /\ \A l \in Line : Brought(u, l)' = Brought(u, l)
        /\ \A g \in Good : Came(u, g)' = Came(u, g) /\ Went(u, g)' = Went(u, g)
        /\ Owed(u)' = Owed(u) /\ (Finishing(u)' <=> Finishing(u)) /\ (Receiving(u)' <=> Receiving(u))
    BY DEF Brought, Came, Went, Owed, Past, Receiving, Finishing
  <1>3. SeesLines(u)' /\ SeesGoods(u)' /\ SeesAccount(u)'
    BY <1>1, <1>2 DEF Sees, SeesLines, SeesGoods, SeesAccount
  <1>4. SeesOrders(u)' /\ JobShaped(u)' /\ HasRoom(u)'
    BY <1>1, <1>2 DEF Sees, SeesOrders, JobShaped, HasRoom
  <1> QED
    BY <1>3, <1>4 DEF Sees
-----------------------------------------------------------------------------
(* Steps that commit nothing. *)

\* One request moves: the others do what they did and know what they knew.
Moves(t) ==
    /\ DOMAIN seen' = Txn
    /\ \A u \in Txn \ {t} : seen'[u] = seen[u] /\ job'[u] = job[u]

\* When nothing is committed, it is left to see what the request sees now.
LEMMA UncommittedStep ==
    ASSUME BookInvariant, KeyInvariant', UNCHANGED <<db, receipts>>, NEW t \in Txn, NEW rows,
           Wrote(t, rows), Moves(t), Sees(t)'
    PROVE  BookInvariant'
  <1>1. DOMAIN mine' = Txn /\ RowsApart' /\ DOMAIN seen' = Txn
    BY DEF Wrote, Moves
  <1>2. Counted'
    BY DEF Counted, BookInvariant
  <1>3. ASSUME NEW u \in Txn PROVE Sees(u)'
    <2>1. CASE u # t
      BY <1>3, <2>1, OthersSee DEF Wrote, Moves, BookInvariant
    <2> QED
      BY <2>1
  <1>4. ReceiptIsBooked'
    <2>1. ReceiptIsBooked
      BY DEF BookInvariant
    <2> QED
      BY <2>1 DEF ReceiptIsBooked, Received, WrittenOff
  <1> QED
    BY <1>1, <1>2, <1>3, <1>4 DEF BookInvariant

\* The next await of a request: only that changes in its job.
LEMMA NextAwait ==
    ASSUME KeyInvariant, NEW t \in Txn, NEW s, Goto(t, s)
    PROVE  /\ job'[t].op = job[t].op /\ job'[t].arg = job[t].arg /\ job'[t].to = job[t].to
           /\ job'[t].from = job[t].from /\ job'[t].step = s
           /\ \A u \in Txn \ {t} : job'[u] = job[u]
  <1>1. IsJob(job[t])
    BY JobIsJob
  <1>2. job'[t] = [job[t] EXCEPT !.step = s] /\ \A u \in Txn \ {t} : job'[u] = job[u]
    BY DEF Goto, KeyInvariant, JobsTyped
  <1>3. PICK op, step, arg, from, to :
           job[t] = [op |-> op, step |-> step, arg |-> arg, from |-> from, to |-> to]
    BY <1>1 DEF IsJob
  <1>4. job'[t] = [op |-> op, step |-> s, arg |-> arg, from |-> from, to |-> to]
    BY <1>2, <1>3
  <1> QED
    BY <1>2, <1>3, <1>4

\* A request begins, or ends.
LEMMA NewJob ==
    ASSUME KeyInvariant, NEW t \in Txn, NEW j, job' = [job EXCEPT ![t] = j]
    PROVE  job'[t] = j /\ \A u \in Txn \ {t} : job'[u] = job[u]
  BY DEF KeyInvariant, JobsTyped

\* Requests that have added nothing yet.
AddsNothing(t) == (~Receiving(t) \/ job[t].step \in BeforeLines) /\ ~Finishing(t)

\* A request that sees the committed lines, goods and account has brought, moved and charged nothing.
LEMMA NothingAdded ==
    ASSUME NEW t, AddsNothing(t)
    PROVE  /\ \A l \in Line : Brought(t, l) = 0
           /\ \A g \in Good : Came(t, g) = 0 /\ Went(t, g) = 0
           /\ Owed(t) = 0
  BY DEF AddsNothing, Brought, Came, Went, Owed, Past, BeforeStock, BeforeCharge

\* A request stays on the same side of what a receipt adds.
SameStage(t) ==
    /\ job'[t].step \in BeforeLines <=> job[t].step \in BeforeLines
    /\ job'[t].step \in BeforeStock <=> job[t].step \in BeforeStock
    /\ job'[t].step \in BeforeCharge <=> job[t].step \in BeforeCharge

\* A quiet step of a request that goes on.
LEMMA QuietStep ==
    ASSUME BookInvariant, KeyInvariant', UNCHANGED <<db, receipts>>, NEW t \in Txn, NEW rows,
           Wrote(t, rows), Quiet(t, rows), Moves(t), ~Finishing(t),
           job'[t].op = job[t].op, job'[t].arg = job[t].arg, job'[t].from = job[t].from,
           job'[t].to = job[t].to \/ job'[t].to \in DOMAIN PO_TRANSITIONS,
           job'[t].step \in {"close", "status"} => job[t].op \in {"receive", "transition"},
           Receiving(t) => SameStage(t),
           Receiving(t) /\ job'[t].step \in BeforeLines => seen'[t] = seen[t]
    PROVE  BookInvariant'
  <1>1. Sees(t)
    BY DEF BookInvariant
  <1>2. (Receiving(t)' <=> Receiving(t)) /\ ~Finishing(t)'
    BY DEF Receiving, Finishing
  <1>3. SameAdds(t)
    <2>1. /\ Past(t, BeforeLines)' <=> Past(t, BeforeLines)
          /\ Past(t, BeforeStock)' <=> Past(t, BeforeStock)
          /\ Past(t, BeforeCharge)' <=> Past(t, BeforeCharge)
      BY <1>2 DEF Past, SameStage
    <2>2. \A l \in Line : Brought(t, l)' = Brought(t, l)
      BY <2>1 DEF Brought
    <2>3. \A g \in Good : Came(t, g)' = Came(t, g)
      BY <2>1 DEF Came
    <2>4. \A g \in Good : Went(t, g)' = Went(t, g)
      BY <1>2 DEF Went
    <2>5. Owed(t)' = Owed(t)
      BY <2>1 DEF Owed
    <2> QED
      BY <2>2, <2>3, <2>4, <2>5 DEF SameAdds
  <1>4. JobShaped(t)'
    BY <1>1, <1>2 DEF Sees, JobShaped
  <1>5. HasRoom(t)'
    BY <1>1, <1>2 DEF Sees, HasRoom, SameStage
  <1>6. Sees(t)'
    BY <1>1, <1>2, <1>3, <1>4, <1>5, QuietSees
  <1> QED
    BY <1>6, UncommittedStep

\* A quiet step of a request that begins.
LEMMA QuietStart ==
    ASSUME BookInvariant, KeyInvariant', UNCHANGED <<db, receipts>>, NEW t \in Txn, NEW rows,
           Wrote(t, rows), Quiet(t, rows), Moves(t), job[t] = Idle,
           AddsNothing(t)', JobShaped(t)', HasRoom(t)'
    PROVE  BookInvariant'
  <1>1. Sees(t)
    BY DEF BookInvariant
  <1>2. AddsNothing(t)
    BY DEF AddsNothing, Receiving, Finishing, Idle
  <1>3. /\ \A l \in Line : Brought(t, l)' = 0
        /\ \A g \in Good : Came(t, g)' = 0 /\ Went(t, g)' = 0
        /\ Owed(t)' = 0
    BY DEF AddsNothing, Brought, Came, Went, Owed, Past, BeforeStock, BeforeCharge
  <1>4. SameAdds(t)
    BY <1>2, <1>3, NothingAdded DEF SameAdds
  <1>5. Sees(t)'
    BY <1>1, <1>2, <1>4, QuietSees DEF AddsNothing
  <1> QED
    BY <1>5, UncommittedStep
-----------------------------------------------------------------------------
(* The quiet steps. *)

\* A statement of the invariant's transactions.
LEMMA BookWrites ==
    ASSUME BookInvariant, db' = db, NEW t \in Txn, NEW rows, Write(t, rows)
    PROVE  Wrote(t, rows)
  BY WriteWrites DEF BookInvariant, Counted

\* A step that writes no row is a quiet one.
LEMMA BookReads ==
    ASSUME BookInvariant, db' = db, mine' = mine, NEW t \in Txn
    PROVE  Wrote(t, NoRows) /\ Quiet(t, NoRows)
  <1>1. Wrote(t, NoRows)
    BY ReadWrites DEF BookInvariant
  <1>2. DOMAIN NoRows = {}
    BY DEF NoRows
  <1> QED
    BY <1>1, <1>2, ItemsAreQuiet

\* What the others have read stays.
LEMMA MovesOn ==
    ASSUME BookInvariant, NEW t \in Txn, \A u \in Txn \ {t} : job'[u] = job[u],
           seen' = seen \/ \E r : seen' = [seen EXCEPT ![t] = r]
    PROVE  Moves(t)
  BY DEF BookInvariant, Moves

\* Holding orders.
LEMMA HoldIsQuiet ==
    ASSUME NEW t, NEW X, X \subseteq Order
    PROVE  Quiet(t, [x \in X |-> See(t)[x]])
  BY Tables DEF Quiet

\* An awaited statement that is quiet.
LEMMA QuietGoto ==
    ASSUME BookInvariant, KeyInvariant', UNCHANGED <<db, receipts>>, NEW t \in Txn, NEW rows,
           Wrote(t, rows), Quiet(t, rows), NEW s, Goto(t, s), ~Finishing(t),
           seen' = seen \/ \E r : seen' = [seen EXCEPT ![t] = r],
           s \in {"close", "status"} => job[t].op \in {"receive", "transition"},
           Receiving(t) => /\ s \in BeforeLines <=> job[t].step \in BeforeLines
                           /\ s \in BeforeStock <=> job[t].step \in BeforeStock
                           /\ s \in BeforeCharge <=> job[t].step \in BeforeCharge
                           /\ s \in BeforeLines => seen' = seen
    PROVE  BookInvariant'
  <1>1. /\ job'[t].op = job[t].op /\ job'[t].arg = job[t].arg /\ job'[t].step = s
        /\ job'[t].from = job[t].from /\ job'[t].to = job[t].to
        /\ \A u \in Txn \ {t} : job'[u] = job[u]
    BY NextAwait DEF BookInvariant
  <1>2. Moves(t)
    BY <1>1, MovesOn
  <1> QED
    BY <1>1, <1>2, QuietStep DEF SameStage

\* Locking the work orders writes them as they are.
LEMMA BookLockOrders ==
    ASSUME BookInvariant, KeyInvariant', NEW t \in Txn, LockOrders(t)
    PROVE  BookInvariant'
  <1> DEFINE rows == [x \in Candidates(t) |-> See(t)[x]]
  <1>1. /\ job[t].op = "receive" /\ job[t].step = "begin" /\ Write(t, rows) /\ Goto(t, "lines")
        /\ UNCHANGED <<db, receipts>> /\ seen' = seen
    BY DEF LockOrders, At, Hold
  <1>2. Candidates(t) \subseteq Order
    BY GoodsReceiptAssumption DEF Candidates, WithStatus
  <1>3. Quiet(t, rows)
    BY <1>2, HoldIsQuiet
  <1>4. Wrote(t, rows)
    BY <1>1, BookWrites
  <1> HIDE DEF rows
  <1>5. ~Finishing(t)
    BY <1>1 DEF Finishing
  <1>6. /\ "lines" \in BeforeLines /\ "begin" \in BeforeLines
        /\ "lines" \in BeforeStock /\ "begin" \in BeforeStock
        /\ "lines" \in BeforeCharge /\ "begin" \in BeforeCharge
    BY DEF BeforeLines, BeforeStock, BeforeCharge
  <1> QED
    BY <1>1, <1>3, <1>4, <1>5, <1>6, QuietGoto

\* Reading the items writes nothing.
LEMMA BookReadItems ==
    ASSUME BookInvariant, KeyInvariant', NEW t \in Txn, ReadItems(t)
    PROVE  BookInvariant'
  <1>1. /\ job[t].op = "receive" /\ job[t].step = "items" /\ Goto(t, "allocate") /\ mine' = mine
        /\ UNCHANGED <<db, receipts>> /\ \E r : seen' = [seen EXCEPT ![t] = r]
    BY DEF ReadItems, At, Read
  <1>2. Wrote(t, NoRows) /\ Quiet(t, NoRows)
    BY <1>1, BookReads
  <1>3. ~Finishing(t)
    BY <1>1 DEF Finishing
  <1>4. /\ "items" \notin BeforeLines /\ "allocate" \notin BeforeLines
        /\ "items" \notin BeforeStock /\ "allocate" \notin BeforeStock
        /\ "items" \in BeforeCharge /\ "allocate" \in BeforeCharge
    BY DEF BeforeLines, BeforeStock, BeforeCharge
  <1> QED
    BY <1>1, <1>2, <1>3, <1>4, QuietGoto

\* The allocation writes items, and of the goods that came only what is reserved.
LEMMA BookAllocate ==
    ASSUME BookInvariant, KeyInvariant', NEW t \in Txn, Allocate(t)
    PROVE  BookInvariant'
  <1> DEFINE given == Changed(Allocation(job[t].arg, seen[t]), Restrict(seen[t], Item \cup GoodsOf(job[t].arg)))
             Backed(g) == [See(t)[g] EXCEPT !.reserved = given[g].reserved, !.net = given[g].net]
             Shared(i) == [See(t)[i] EXCEPT !.received = given[i].received, !.status = given[i].status,
                                            !.reserved = @ + given[i].reserved - seen[t][i].reserved]
             rows == [x \in DOMAIN given |-> IF x \in Item THEN Shared(x) ELSE Backed(x)]
  <1>1. /\ job[t].op = "receive" /\ job[t].step = "allocate" /\ Goto(t, "charge") /\ Write(t, rows)
        /\ UNCHANGED <<db, receipts>> /\ seen' = seen
    BY DEF Allocate, At
  <1>2. job[t].arg \in Key
    BY <1>1 DEF BookInvariant, KeyInvariant, KeysReserved, Receiving
  <1>3. DOMAIN given \subseteq Item \cup Good
    <2>1. GoodsOf(job[t].arg) \subseteq Good
      BY <1>2, GoodsReceiptAssumption DEF GoodsOf, ActiveLines
    <2> QED
      BY <2>1 DEF Changed, Restrict
  <1>4. Quiet(t, rows)
    <2>1. DOMAIN rows = DOMAIN given
      OBVIOUS
    <2>2. ASSUME NEW g \in Good \cap DOMAIN given
          PROVE  Stocked(rows[g]) /\ rows[g].quantity = See(t)[g].quantity
      <3>1. Stocked(See(t)[g])
        BY <2>2 DEF BookInvariant, Sees, SeesGoods
      <3> HIDE DEF given
      <3>2. rows[g] = Backed(g)
        BY <2>2, Tables
      <3>3. Reserves(See(t)[g], rows[g])
        BY <3>2 DEF Reserves
      <3> HIDE DEF rows
      <3> QED
        BY <3>1, <3>3, StockKept
    <2> HIDE DEF rows, given
    <2> QED
      BY <1>3, <2>1, <2>2, Tables DEF Quiet
  <1>5. Wrote(t, rows)
    BY <1>1, BookWrites
  <1> HIDE DEF rows
  <1>6. ~Finishing(t)
    BY <1>1 DEF Finishing
  <1>7. /\ "charge" \notin BeforeLines /\ "allocate" \notin BeforeLines
        /\ "charge" \notin BeforeStock /\ "allocate" \notin BeforeStock
        /\ "charge" \in BeforeCharge /\ "allocate" \in BeforeCharge
    BY DEF BeforeLines, BeforeStock, BeforeCharge
  <1> QED
    BY <1>1, <1>4, <1>5, <1>6, <1>7, QuietGoto

\* Reading the lines again settles the status the receipt will leave, and writes nothing.
LEMMA BookRereadLines ==
    ASSUME BookInvariant, KeyInvariant', NEW t \in Txn, RereadLines(t)
    PROVE  BookInvariant'
  <1> DEFINE to == StatusAfter(See(t), job[t].from)
  <1>1. job' = [job EXCEPT ![t] = [job[t] EXCEPT !.to = to,
                             !.step = IF to \in CLOSED_FOR_LISTS THEN "close" ELSE "status"]]
    BY DEF RereadLines
  <1>2. job[t].op = "receive" /\ job[t].from \in Receivable
    BY DEF RereadLines, At, BookInvariant, Sees, JobShaped
  <1>3. to \in DOMAIN PO_TRANSITIONS
    BY <1>2 DEF StatusAfter, PO_TRANSITIONS, Receivable
  <1> HIDE DEF to
  <1> DEFINE s == IF to \in CLOSED_FOR_LISTS THEN "close" ELSE "status"
             j == [job[t] EXCEPT !.to = to, !.step = s]
  <1>4. s \in {"close", "status"}
    OBVIOUS
  <1> HIDE DEF s
  <1>5. IsJob(job[t])
    BY JobIsJob DEF BookInvariant
  <1>6. j.op = job[t].op /\ j.arg = job[t].arg /\ j.from = job[t].from /\ j.step = s /\ j.to = to
    <2>1. PICK op, step, arg, from, old :
             job[t] = [op |-> op, step |-> step, arg |-> arg, from |-> from, to |-> old]
      BY <1>5 DEF IsJob
    <2>2. j = [[job[t] EXCEPT !.to = to] EXCEPT !.step = s]
      OBVIOUS
    <2>3. [job[t] EXCEPT !.to = to] = [op |-> op, step |-> step, arg |-> arg, from |-> from, to |-> to]
      BY <2>1
    <2> DEFINE i == [job[t] EXCEPT !.to = to]
    <2>4. i.op = job[t].op /\ i.arg = job[t].arg /\ i.from = job[t].from /\ i.to = to /\ "step" \in DOMAIN i
      BY <2>1, <2>3
    <2> HIDE DEF i
    <2>5. /\ [i EXCEPT !.step = s].op = i.op /\ [i EXCEPT !.step = s].arg = i.arg
          /\ [i EXCEPT !.step = s].from = i.from /\ [i EXCEPT !.step = s].to = i.to /\ [i EXCEPT !.step = s].step = s
      BY <2>3, <2>4 DEF i
    <2> QED
      BY <2>2, <2>4, <2>5 DEF i
  <1> HIDE DEF j
  <1>7. job'[t] = j /\ \A u \in Txn \ {t} : job'[u] = job[u]
    BY <1>1, NewJob DEF BookInvariant, j, s
  <1>8. /\ job[t].op = "receive" /\ job[t].step = "reread" /\ mine' = mine
        /\ UNCHANGED <<db, receipts>> /\ \E r : seen' = [seen EXCEPT ![t] = r]
    BY DEF RereadLines, At, Read
  <1>9. Wrote(t, NoRows) /\ Quiet(t, NoRows) /\ Moves(t)
    BY <1>7, <1>8, BookReads, MovesOn
  <1>10. ~Finishing(t)
    BY <1>8 DEF Finishing
  <1>11. SameStage(t) /\ job'[t].step \notin BeforeLines
    BY <1>4, <1>6, <1>7, <1>8 DEF SameStage, BeforeLines, BeforeStock, BeforeCharge
  <1> QED
    BY <1>3, <1>6, <1>7, <1>8, <1>9, <1>10, <1>11, QuietStep

\* Items that return to their lists: only items are written.
LEMMA ReturnIsQuiet ==
    ASSUME BookInvariant, db' = db, NEW t \in Txn, NEW returned, NEW items, ReturnToList(t, returned, items)
    PROVE  \E rows : Wrote(t, rows) /\ Quiet(t, rows)
  <1> DEFINE new == Changed(returned, Restrict(seen[t], Item))
             orders == {ItemOrder[i] : i \in {j \in items : Undelivered(seen[t][j]) > 0}} \cap Active(seen[t])
             written == [i \in DOMAIN new |->
                           [See(t)[i] EXCEPT !.status = new[i].status, !.quantity = new[i].quantity]]
             rows == Changed(Trimmed(Over(written, See(t)), orders), See(t))
  <1>1. Write(t, rows)
    BY DEF ReturnToList
  <1>2. Wrote(t, rows)
    BY <1>1, BookWrites
  <1>3. DOMAIN written \subseteq Item
    BY DEF Changed, Restrict
  <1>4. DOMAIN rows \subseteq Item
    <2> HIDE DEF new, written, orders
    <2> DEFINE all == Over(written, See(t))
               cut == Trimmed(all, orders)
    <2>1. ASSUME NEW x \in DOMAIN See(t), x \notin Item PROVE cut[x] = See(t)[x]
      <3>1. x \in DOMAIN all /\ all[x] = See(t)[x]
        BY <1>3, <2>1 DEF Over
      <3> HIDE DEF all
      <3> QED
        BY <2>1, <3>1 DEF Trimmed
    <2>2. DOMAIN rows = {x \in DOMAIN See(t) : cut[x] # See(t)[x]}
      BY DEF Changed, Restrict
    <2> QED
      BY <2>1, <2>2
  <1> HIDE DEF rows
  <1>5. Quiet(t, rows)
    BY <1>4, ItemsAreQuiet
  <1> QED
    BY <1>2, <1>5

\* Closing the items of the lists writes items only.
LEMMA BookCloseForLists ==
    ASSUME BookInvariant, KeyInvariant', NEW t \in Txn, CloseForLists(t)
    PROVE  BookInvariant'
  <1>1. /\ job[t].step = "close" /\ Goto(t, "status") /\ UNCHANGED <<db, receipts>> /\ seen' = seen
        /\ \E returned, items : ReturnToList(t, returned, items)
    BY DEF CloseForLists
  <1>2. PICK rows : Wrote(t, rows) /\ Quiet(t, rows)
    BY <1>1, ReturnIsQuiet
  <1>3. ~Finishing(t) /\ job[t].op \in {"receive", "transition"}
    BY <1>1 DEF BookInvariant, Sees, JobShaped
  <1>4. /\ "close" \notin BeforeLines /\ "status" \notin BeforeLines
        /\ "close" \notin BeforeStock /\ "status" \notin BeforeStock
        /\ "close" \notin BeforeCharge /\ "status" \notin BeforeCharge
    BY DEF BeforeLines, BeforeStock, BeforeCharge
  <1> QED
    BY <1>1, <1>2, <1>3, <1>4, QuietGoto

\* Returning an unconfirmed item to its list writes items only.
LEMMA BookReturnUnconfirmed ==
    ASSUME BookInvariant, KeyInvariant', NEW t \in Txn, NEW i, NEW cut, ReturnUnconfirmed(t, i, cut)
    PROVE  BookInvariant'
  <1>1. /\ job[t].op = "unconfirmed" /\ Goto(t, "end") /\ UNCHANGED <<db, receipts>> /\ seen' = seen
        /\ \E returned, items : ReturnToList(t, returned, items)
    BY DEF ReturnUnconfirmed, At
  <1>2. PICK rows : Wrote(t, rows) /\ Quiet(t, rows)
    BY <1>1, ReturnIsQuiet
  <1>3. ~Finishing(t) /\ ~Receiving(t)
    BY <1>1 DEF Finishing, Receiving
  <1> QED
    BY <1>1, <1>2, <1>3, QuietGoto

\* Reading an unconfirmed item writes nothing.
LEMMA BookReadUnconfirmed ==
    ASSUME BookInvariant, KeyInvariant', NEW t \in Txn, ReadUnconfirmed(t)
    PROVE  BookInvariant'
  <1>1. /\ job[t].op = "unconfirmed" /\ Goto(t, "return") /\ mine' = mine
        /\ UNCHANGED <<db, receipts>> /\ \E r : seen' = [seen EXCEPT ![t] = r]
    BY DEF ReadUnconfirmed, At, Read
  <1>2. Wrote(t, NoRows) /\ Quiet(t, NoRows)
    BY <1>1, BookReads
  <1>3. ~Finishing(t) /\ ~Receiving(t)
    BY <1>1 DEF Finishing, Receiving
  <1> QED
    BY <1>1, <1>2, <1>3, QuietGoto

\* Releasing an item writes it and its work order, whose status stays.
LEMMA BookReleaseItem ==
    ASSUME BookInvariant, KeyInvariant', NEW t \in Txn, ReleaseItem(t)
    PROVE  BookInvariant'
  <1>1. PICK amount :
           /\ job[t].op = "release" /\ Goto(t, "movement") /\ UNCHANGED <<db, receipts>> /\ seen' = seen
           /\ Write(t, [x \in {job[t].arg, ItemOrder[job[t].arg]} |->
                  IF x = job[t].arg THEN [See(t)[x] EXCEPT !.reserved = @ - amount] ELSE See(t)[x]])
    BY DEF ReleaseItem, At
  <1> DEFINE i == job[t].arg
             w == ItemOrder[i]
             rows == [x \in {i, w} |->
                         IF x = i THEN [See(t)[x] EXCEPT !.reserved = @ - amount] ELSE See(t)[x]]
  <1>2. i \in Item /\ w \in Order
    BY <1>1 DEF BookInvariant, Sees, JobShaped
  <1>3. Wrote(t, rows)
    BY <1>1, BookWrites
  <1>4. DOMAIN rows = {i, w} /\ rows[w] = See(t)[w]
    BY <1>2, Tables
  <1> HIDE DEF rows, i, w
  <1>5. Quiet(t, rows)
    BY <1>2, <1>4, Tables DEF Quiet
  <1>6. ~Finishing(t) /\ ~Receiving(t)
    BY <1>1 DEF Finishing, Receiving
  <1> QED
    BY <1>1, <1>3, <1>5, <1>6, QuietGoto
-----------------------------------------------------------------------------
(* The starts. *)

\* A receipt starts with nothing written, and is counted once its key is done.
LEMMA BookStartReceive ==
    ASSUME BookInvariant, KeyInvariant', NEW t \in Txn, NEW k \in Key, StartReceive(t, k)
    PROVE  BookInvariant'
  <1> DEFINE j == [op |-> "receive", step |-> "begin", arg |-> k, from |-> db[PO], to |-> db[PO]]
  <1>1. /\ job[t] = Idle /\ job' = [job EXCEPT ![t] = j] /\ mine' = mine /\ UNCHANGED <<db, receipts>>
        /\ seen' = [seen EXCEPT ![t] = Restrict(db, ActiveLines(k))]
        /\ \A l \in ActiveLines(k) : db[l] + Body[k][l] <= Ordered[l]
        /\ db[PO] \in Receivable /\ db[PO] \in DOMAIN PO_TRANSITIONS
    BY DEF StartReceive, BookInvariant, Counted
  <1>2. j.op = "receive" /\ j.step = "begin" /\ j.arg = k /\ j.from = db[PO] /\ j.to = db[PO]
    OBVIOUS
  <1> HIDE DEF j
  <1>3. job'[t] = j /\ \A u \in Txn \ {t} : job'[u] = job[u]
    BY <1>1, NewJob DEF BookInvariant
  <1>4. Wrote(t, NoRows) /\ Quiet(t, NoRows) /\ Moves(t)
    BY <1>1, <1>3, BookReads, MovesOn
  <1>5. AddsNothing(t)' /\ JobShaped(t)'
    BY <1>1, <1>2, <1>3 DEF AddsNothing, JobShaped, Finishing, BeforeLines
  <1>6. HasRoom(t)'
    <2>1. seen'[t] = Restrict(db, ActiveLines(k))
      BY <1>1 DEF BookInvariant
    <2>2. \A l \in ActiveLines(k) : seen'[t][l] = db[l]
      BY <2>1 DEF Restrict
    <2> QED
      BY <1>1, <1>2, <1>3, <2>2 DEF HasRoom
  <1> QED
    BY <1>1, <1>4, <1>5, <1>6, QuietStart

\* The start of another request that writes nothing yet, but may hold work orders.
LEMMA BookStart ==
    ASSUME BookInvariant, KeyInvariant', UNCHANGED <<db, receipts>>, NEW t \in Txn, NEW rows,
           Wrote(t, rows), Quiet(t, rows), job[t] = Idle,
           seen' = seen \/ \E r : seen' = [seen EXCEPT ![t] = r],
           NEW j, job' = [job EXCEPT ![t] = j], j.op \in {"transition", "release", "unconfirmed"},
           j.op = "release" => j.arg \in Item /\ ItemOrder[j.arg] \in Order,
           j.op = "transition" => j.from \in Receivable /\ j.to \in DOMAIN PO_TRANSITIONS,
           j.step \in {"close", "status"} => j.op = "transition"
    PROVE  BookInvariant'
  <1>1. job'[t] = j /\ \A u \in Txn \ {t} : job'[u] = job[u]
    BY NewJob DEF BookInvariant
  <1>2. Moves(t)
    BY <1>1, MovesOn
  <1>3. AddsNothing(t)' /\ JobShaped(t)' /\ HasRoom(t)'
    BY <1>1 DEF AddsNothing, JobShaped, HasRoom, Finishing, Receiving
  <1> QED
    BY <1>2, <1>3, QuietStart

\* A transition starts with nothing written.
LEMMA BookStartTransition ==
    ASSUME BookInvariant, KeyInvariant', NEW t \in Txn, NEW to, StartTransition(t, to)
    PROVE  BookInvariant'
  <1>1. /\ job[t] = Idle /\ mine' = mine /\ UNCHANGED <<db, receipts>>
        /\ \E r : seen' = [seen EXCEPT ![t] = r]
        /\ to \in PO_TRANSITIONS[db[PO]]
    BY DEF StartTransition, Read
  <1> DEFINE j == [op |-> "transition", arg |-> PO, from |-> db[PO], to |-> to,
                   step |-> IF to \in CLOSED_FOR_LISTS THEN "close" ELSE "status"]
  <1>2. job' = [job EXCEPT ![t] = j] /\ j.op = "transition" /\ j.from = db[PO] /\ j.to = to
    BY DEF StartTransition
  <1> HIDE DEF j
  <1>3. db[PO] \in Receivable /\ to \in DOMAIN PO_TRANSITIONS
    <2>1. db[PO] \in DOMAIN PO_TRANSITIONS
      BY DEF BookInvariant, Counted
    <2> QED
      BY <1>1, <2>1 DEF PO_TRANSITIONS, Receivable
  <1>4. Wrote(t, NoRows) /\ Quiet(t, NoRows)
    BY <1>1, BookReads
  <1> QED
    BY <1>1, <1>2, <1>3, <1>4, BookStart

\* So does the release of an item.
LEMMA BookStartRelease ==
    ASSUME BookInvariant, KeyInvariant', NEW t \in Txn, NEW i \in Item, StartRelease(t, i)
    PROVE  BookInvariant'
  <1>1. /\ job[t] = Idle /\ mine' = mine /\ UNCHANGED <<db, receipts>> /\ ItemOrder[i] \in Order
        /\ \E r : seen' = [seen EXCEPT ![t] = r]
    BY GoodsReceiptAssumption DEF StartRelease, Read
  <1> DEFINE j == [op |-> "release", step |-> "item", arg |-> i, from |-> "none", to |-> "none"]
  <1>2. job' = [job EXCEPT ![t] = j] /\ j.op = "release" /\ j.arg = i /\ j.step = "item"
    BY DEF StartRelease
  <1> HIDE DEF j
  <1>3. Wrote(t, NoRows) /\ Quiet(t, NoRows)
    BY <1>1, BookReads
  <1> QED
    BY <1>1, <1>2, <1>3, BookStart

\* And the return of what was not confirmed.
LEMMA BookStartUnconfirmed ==
    ASSUME BookInvariant, KeyInvariant', NEW t \in Txn, StartUnconfirmed(t)
    PROVE  BookInvariant'
  <1> DEFINE X == {ItemOrder[i] : i \in WithStatus(db, "ORDERED")} \ {NoOrder}
             rows == [x \in X |-> See(t)[x]]
  <1>1. job[t] = Idle /\ Write(t, rows) /\ UNCHANGED <<db, receipts>> /\ seen' = seen
    BY DEF StartUnconfirmed, Hold
  <1> DEFINE j == [op |-> "unconfirmed", step |-> "read", arg |-> PO, from |-> "none", to |-> "none"]
  <1>2. job' = [job EXCEPT ![t] = j] /\ j.op = "unconfirmed" /\ j.step = "read"
    BY DEF StartUnconfirmed
  <1> HIDE DEF j
  <1>3. X \subseteq Order
    BY GoodsReceiptAssumption DEF WithStatus
  <1>4. Quiet(t, rows)
    BY <1>3, HoldIsQuiet
  <1>5. Wrote(t, rows)
    BY <1>1, BookWrites
  <1> HIDE DEF rows
  <1> QED
    BY <1>1, <1>2, <1>4, <1>5, BookStart
-----------------------------------------------------------------------------
(* The steps that add to what is seen. *)

\* A receipt that is under way has a key.
LEMMA ReceiptHasKey ==
    ASSUME BookInvariant, NEW t \in Txn, job[t].op = "receive"
    PROVE  job[t].arg \in Key
  BY DEF BookInvariant, KeyInvariant, KeysReserved, Receiving

\* A step of a receipt: what it is once it has gone on to s.
LEMMA ReceiptGoesOn ==
    ASSUME BookInvariant, NEW t \in Txn, job[t].op = "receive", NEW s, Goto(t, s), seen' = seen
    PROVE  /\ Moves(t) /\ Receiving(t)' /\ ~Finishing(t)' /\ ~Finishing(t) /\ JobShaped(t)'
           /\ job'[t].arg = job[t].arg /\ job'[t].step = s
           /\ \A g \in Good : Went(t, g)' = Went(t, g)
  <1>1. /\ job'[t].op = "receive" /\ job'[t].arg = job[t].arg /\ job'[t].step = s
        /\ job'[t].from = job[t].from /\ job'[t].to = job[t].to
        /\ \A u \in Txn \ {t} : job'[u] = job[u]
    BY NextAwait DEF BookInvariant
  <1>2. Moves(t)
    BY <1>1, MovesOn
  <1>3. JobShaped(t)
    BY DEF BookInvariant, Sees
  <1> QED
    BY <1>1, <1>2, <1>3 DEF Receiving, Finishing, JobShaped, Went

\* The lines: each had room for what came and is still as it was read.
LEMMA BookReceiveLines ==
    ASSUME BookInvariant, KeyInvariant', NEW t \in Txn, ReceiveLines(t)
    PROVE  BookInvariant'
  <1> DEFINE k == job[t].arg
             rows == [l \in ActiveLines(k) |-> See(t)[l] + Body[k][l]]
  <1>1. /\ job[t].op = "receive" /\ job[t].step = "lines" /\ Write(t, rows) /\ Goto(t, "stock")
        /\ UNCHANGED <<db, receipts>> /\ seen' = seen
        /\ \A l \in ActiveLines(k) : See(t)[l] = seen[t][l]
    BY DEF ReceiveLines, At, LineUnmoved
  <1>2. k \in Key
    BY <1>1, ReceiptHasKey
  <1>3. /\ Moves(t) /\ Receiving(t)' /\ ~Finishing(t)' /\ ~Finishing(t) /\ JobShaped(t)'
        /\ job'[t].arg = k /\ job'[t].step = "stock"
        /\ \A g \in Good : Went(t, g)' = Went(t, g)
    BY <1>1, ReceiptGoesOn
  <1>4. Wrote(t, rows) /\ DOMAIN rows = ActiveLines(k)
    BY <1>1, BookWrites
  <1>5. \A l \in ActiveLines(k) : rows[l] = See(t)[l] + Body[k][l]
    OBVIOUS
  <1> HIDE DEF rows
  <1>6. Sees(t) /\ Counted
    BY DEF BookInvariant
  <1>7. ActiveLines(k) = {l \in Line : Body[k][l] > 0}
    BY DEF ActiveLines
  <1>8. DOMAIN mine'[t] = ActiveLines(k) \cup DOMAIN mine[t]
    BY <1>4 DEF Wrote
  <1>9. SeesLines(t)'
    <2> SUFFICES ASSUME NEW l \in Line
                 PROVE  /\ See(t)'[l] = db[l] + Brought(t, l)' /\ See(t)'[l] <= Ordered[l]
                        /\ Brought(t, l)' # 0 => l \in DOMAIN mine'[t]
      BY <1>1 DEF SeesLines
    <2>1. Brought(t, l) = 0 /\ Brought(t, l)' = Body[k][l]
      BY <1>1, <1>3 DEF Brought, Past, BeforeLines
    <2>2. See(t)[l] = db[l] /\ db[l] \in Nat /\ See(t)[l] <= Ordered[l]
      BY <1>6, <2>1 DEF Sees, SeesLines, Counted
    <2>3. See(t)'[l] = IF l \in ActiveLines(k) THEN rows[l] ELSE See(t)[l]
      BY <1>4, Tables DEF Wrote
    <2>4. Body[k][l] \in Nat
      BY <1>2, BodyNat
    <2>5. CASE l \in ActiveLines(k)
      <3>1. seen[t][l] + Body[k][l] <= Ordered[l]
        BY <1>1, <1>6, <2>5 DEF Sees, HasRoom, Receiving, BeforeLines
      <3> QED
        BY <1>1, <1>5, <1>8, <2>1, <2>2, <2>3, <2>4, <2>5, <3>1
    <2>6. CASE l \notin ActiveLines(k)
      <3>1. Body[k][l] = 0
        BY <1>7, <2>4, <2>6
      <3> QED
        BY <2>1, <2>2, <2>3, <2>6, <3>1
    <2> QED
      BY <2>5, <2>6
  <1>10. (\A g \in Good : Came(t, g)' = Came(t, g)) /\ Owed(t)' = Owed(t)
    BY <1>1, <1>3 DEF Came, Owed, Past, BeforeLines, BeforeStock, BeforeCharge, Receiving
  <1>11. DOMAIN rows \cap (Good \cup Order \cup {Account, PO}) = {}
    BY <1>4, <1>7, Tables
  <1>12. SeesGoods(t)' /\ SeesAccount(t)' /\ SeesOrders(t)'
    BY <1>1, <1>3, <1>4, <1>6, <1>10, <1>11, KeepsGoods, KeepsAccount, KeepsOrders DEF Sees
  <1>13. HasRoom(t)'
    BY <1>3 DEF HasRoom, BeforeLines
  <1>14. Sees(t)'
    BY <1>3, <1>9, <1>12, <1>13 DEF Sees
  <1> QED
    BY <1>1, <1>3, <1>4, <1>14, UncommittedStep

\* Posting a receipt adds its body to the lines and the same amount to the goods; the
\* ordered amounts leave room for it, since no other receipt holds the lines.
LEMMA BookPostReceipt ==
    ASSUME BookInvariant, KeyInvariant', NEW t \in Txn, PostReceipt(t)
    PROVE  BookInvariant'
  <1> DEFINE k == job[t].arg
             rows == [g \in GoodsOf(k) |-> [See(t)[g] EXCEPT !.quantity = @ + Arrived(k, g)]]
  <1>1. /\ job[t].op = "receive" /\ job[t].step = "stock" /\ Write(t, rows) /\ Goto(t, "items")
        /\ UNCHANGED <<db, receipts>> /\ seen' = seen
    BY DEF PostReceipt, At
  <1>2. k \in Key
    BY <1>1, ReceiptHasKey
  <1>3. /\ Moves(t) /\ Receiving(t)' /\ ~Finishing(t)' /\ ~Finishing(t) /\ JobShaped(t)'
        /\ job'[t].arg = k /\ job'[t].step = "items"
        /\ \A g \in Good : Went(t, g)' = Went(t, g)
    BY <1>1, ReceiptGoesOn
  <1>4. Wrote(t, rows) /\ DOMAIN rows = GoodsOf(k)
    BY <1>1, BookWrites
  <1>5. \A g \in GoodsOf(k) : rows[g] = [See(t)[g] EXCEPT !.quantity = See(t)[g].quantity + Arrived(k, g)]
    OBVIOUS
  <1> HIDE DEF rows
  <1>6. Sees(t) /\ Counted
    BY DEF BookInvariant
  <1>7. GoodsOf(k) \subseteq Good
    BY <1>2, GoodsReceiptAssumption DEF GoodsOf, ActiveLines
  <1>8. DOMAIN mine'[t] = GoodsOf(k) \cup DOMAIN mine[t]
    BY <1>4 DEF Wrote
  <1>9. SeesGoods(t)'
    <2> SUFFICES ASSUME NEW g \in Good
                 PROVE  /\ Stocked(See(t)'[g])
                        /\ See(t)'[g].quantity = db[g].quantity + Came(t, g)' - Went(t, g)'
                        /\ Came(t, g)' # 0 \/ Went(t, g)' # 0 => g \in DOMAIN mine'[t]
      BY <1>1 DEF SeesGoods
    <2>1. Came(t, g) = 0 /\ Came(t, g)' = Arrived(k, g)
      BY <1>1, <1>3 DEF Came, Past, BeforeLines, BeforeStock, Receiving
    <2>2. Went(t, g) = 0 /\ Went(t, g)' = 0
      BY <1>3 DEF Went
    <2>3. Stocked(See(t)[g]) /\ Stocked(db[g]) /\ See(t)[g].quantity = db[g].quantity + Came(t, g) - Went(t, g)
      BY <1>6 DEF Sees, SeesGoods, Counted
    <2>4. See(t)[g].quantity = db[g].quantity /\ db[g].quantity \in Int
      BY <2>1, <2>2, <2>3, StockCounts
    <2>5. See(t)'[g] = IF g \in GoodsOf(k) THEN rows[g] ELSE See(t)[g]
      BY <1>4, Tables DEF Wrote
    <2>6. Arrived(k, g) \in Nat
      BY <1>2, ArrivedNat
    <2>7. CASE g \in GoodsOf(k)
      <3> DEFINE q == See(t)[g].quantity + Arrived(k, g)
      <3>1. q \in Int
        BY <2>4, <2>6
      <3>2. rows[g] = [See(t)[g] EXCEPT !.quantity = q]
        BY <1>5, <2>7
      <3>3. Becomes(See(t)[g], rows[g], q)
        BY <3>2 DEF Becomes
      <3>4. Stocked(rows[g]) /\ rows[g].quantity = q
        BY <2>3, <3>1, <3>3, StockMoved
      <3> QED
        BY <1>8, <2>1, <2>2, <2>4, <2>5, <2>6, <2>7, <3>4
    <2>8. CASE g \notin GoodsOf(k)
      <3>1. Arrived(k, g) = 0
        BY <1>2, <2>8, NoneArrives
      <3> QED
        BY <2>1, <2>2, <2>3, <2>4, <2>5, <2>8, <3>1
    <2> QED
      BY <2>7, <2>8
  <1>10. (\A l \in Line : Brought(t, l)' = Brought(t, l)) /\ Owed(t)' = Owed(t)
    BY <1>1, <1>3 DEF Brought, Owed, Past, BeforeLines, BeforeStock, BeforeCharge, Receiving
  <1>11. DOMAIN rows \cap (Line \cup Order \cup {Account, PO}) = {}
    BY <1>4, <1>7, Tables
  <1>12. SeesLines(t)' /\ SeesAccount(t)' /\ SeesOrders(t)'
    BY <1>1, <1>3, <1>4, <1>6, <1>10, <1>11, KeepsLines, KeepsAccount, KeepsOrders DEF Sees
  <1>13. HasRoom(t)'
    BY <1>3 DEF HasRoom, BeforeLines
  <1>14. Sees(t)'
    BY <1>3, <1>9, <1>12, <1>13 DEF Sees
  <1> QED
    BY <1>1, <1>3, <1>4, <1>14, UncommittedStep

\* The supplier's account grows by the price of the body, once, before the lines are read.
LEMMA BookCharge ==
    ASSUME BookInvariant, KeyInvariant', NEW t \in Txn, Charge(t)
    PROVE  BookInvariant'
  <1> DEFINE k == job[t].arg
             charge == [x \in {Account} |-> See(t)[x] + Amount(k)]
             rows == IF Amount(k) > 0 THEN charge ELSE NoRows
  <1>1. /\ job[t].op = "receive" /\ job[t].step = "charge" /\ Goto(t, "reread")
        /\ UNCHANGED <<db, receipts>> /\ seen' = seen
        /\ IF Amount(k) > 0 THEN Write(t, charge) ELSE mine' = mine
    BY DEF Charge, At
  <1>2. k \in Key
    BY <1>1, ReceiptHasKey
  <1>3. /\ Moves(t) /\ Receiving(t)' /\ ~Finishing(t)' /\ ~Finishing(t) /\ JobShaped(t)'
        /\ job'[t].arg = k /\ job'[t].step = "reread"
        /\ \A g \in Good : Went(t, g)' = Went(t, g)
    BY <1>1, ReceiptGoesOn
  <1>4. Amount(k) \in Nat
    BY <1>2, ArrivedNat
  <1>5. Wrote(t, rows) /\ DOMAIN rows \subseteq {Account}
    <2>1. CASE Amount(k) > 0
      BY <1>1, <2>1, BookWrites
    <2>2. CASE ~(Amount(k) > 0)
      BY <1>1, <2>2, BookReads DEF NoRows
    <2> QED
      BY <2>1, <2>2
  <1>6. /\ Amount(k) > 0 => Account \in DOMAIN rows /\ rows[Account] = See(t)[Account] + Amount(k)
        /\ ~(Amount(k) > 0) => DOMAIN rows = {}
    BY DEF NoRows
  <1> HIDE DEF rows
  <1>7. Sees(t) /\ Counted
    BY DEF BookInvariant
  <1>8. SeesAccount(t)'
    <2>1. Owed(t) = 0 /\ Owed(t)' = Amount(k)
      BY <1>1, <1>3 DEF Owed, Past, BeforeCharge, BeforeStock, BeforeLines
    <2>2. See(t)[Account] = db[Account] /\ db[Account] \in Int
      BY <1>7, <2>1 DEF Sees, SeesAccount, Counted
    <2>3. See(t)'[Account] = IF Account \in DOMAIN rows THEN rows[Account] ELSE See(t)[Account]
      BY <1>5, Tables DEF Wrote
    <2>4. See(t)'[Account] = db[Account] + Amount(k)
      BY <1>4, <1>6, <2>2, <2>3
    <2>5. Amount(k) # 0 => Account \in DOMAIN mine'[t]
      BY <1>4, <1>5, <1>6 DEF Wrote
    <2> QED
      BY <1>1, <2>1, <2>4, <2>5 DEF SeesAccount
  <1>9. (\A l \in Line : Brought(t, l)' = Brought(t, l)) /\ (\A g \in Good : Came(t, g)' = Came(t, g))
    BY <1>1, <1>3 DEF Brought, Came, Past, BeforeLines, BeforeStock, Receiving
  <1>10. DOMAIN rows \cap (Line \cup Good \cup Order \cup {PO}) = {}
    BY <1>5, Tables
  <1>11. SeesLines(t)' /\ SeesGoods(t)' /\ SeesOrders(t)'
    BY <1>1, <1>3, <1>5, <1>7, <1>9, <1>10, KeepsLines, KeepsGoods, KeepsOrders DEF Sees
  <1>12. HasRoom(t)'
    BY <1>3 DEF HasRoom, BeforeLines
  <1>13. Sees(t)'
    BY <1>3, <1>8, <1>11, <1>12 DEF Sees
  <1> QED
    BY <1>1, <1>3, <1>5, <1>13, UncommittedStep

\* A work order begins to be closed: its status is written first.
LEMMA BookStartFinish ==
    ASSUME BookInvariant, KeyInvariant', NEW t \in Txn, NEW w \in Order, NEW to \in {"COMPLETED", "CANCELLED"},
           StartFinish(t, w, to)
    PROVE  BookInvariant'
  <1> DEFINE j == [op |-> "finish", step |-> "release", arg |-> w, from |-> "IN_PROGRESS", to |-> to]
             rows == [x \in {w} |-> to]
  <1>1. /\ See(t)[w] = "IN_PROGRESS" /\ job[t] = Idle /\ job' = [job EXCEPT ![t] = j]
        /\ Write(t, rows) /\ UNCHANGED <<db, receipts>> /\ seen' = seen
    BY DEF StartFinish
  <1>2. j.op = "finish" /\ j.step = "release" /\ j.arg = w /\ j.to = to
    OBVIOUS
  <1> HIDE DEF j
  <1>3. job'[t] = j /\ \A u \in Txn \ {t} : job'[u] = job[u]
    BY <1>1, NewJob DEF BookInvariant
  <1>4. Moves(t) /\ Wrote(t, rows)
    BY <1>1, <1>3, MovesOn, BookWrites
  <1>5. DOMAIN rows = {w} /\ rows[w] = to
    OBVIOUS
  <1> HIDE DEF rows
  <1>6. Sees(t)
    BY DEF BookInvariant
  <1>7. AddsNothing(t)
    BY <1>1 DEF AddsNothing, Receiving, Finishing, Idle
  <1>8. /\ \A l \in Line : Brought(t, l)' = 0
        /\ \A g \in Good : Came(t, g)' = 0 /\ Went(t, g)' = 0
        /\ Owed(t)' = 0
    BY <1>2, <1>3 DEF Brought, Came, Went, Owed, Past, Receiving, Finishing
  <1>9. SameAdds(t)
    BY <1>7, <1>8, NothingAdded DEF SameAdds
  <1>10. DOMAIN rows \cap (Line \cup Good \cup {Account}) = {}
    BY <1>5, Tables
  <1>11. SeesLines(t)' /\ SeesGoods(t)' /\ SeesAccount(t)'
    BY <1>1, <1>4, <1>6, <1>9, <1>10, KeepsLines, KeepsGoods, KeepsAccount DEF Sees, SameAdds
  <1>12. \A v \in Order : See(t)[v] = db[v]
    BY <1>6, <1>7 DEF Sees, SeesOrders, AddsNothing
  <1>13. SeesOrders(t)'
    <2>1. \A v \in Order : See(t)'[v] = IF v = w THEN to ELSE db[v]
      BY <1>4, <1>5, <1>12, Tables DEF Wrote
    <2>2. Finishing(t)' /\ job'[t].arg = w /\ job'[t].to = to
      BY <1>2, <1>3 DEF Finishing
    <2>3. PO \notin DOMAIN mine'[t]
      BY <1>4, <1>5, <1>6, Tables DEF Wrote, Sees, SeesOrders
    <2> QED
      BY <1>1, <2>1, <2>2, <2>3 DEF SeesOrders
  <1>14. w \in DOMAIN mine'[t] /\ db'[w] = "IN_PROGRESS"
    BY <1>1, <1>4, <1>5, <1>12 DEF Wrote
  <1>15. JobShaped(t)' /\ HasRoom(t)'
    BY <1>2, <1>3, <1>14 DEF JobShaped, HasRoom, Receiving, Finishing
  <1>16. Sees(t)'
    BY <1>11, <1>13, <1>15 DEF Sees
  <1> QED
    BY <1>1, <1>4, <1>16, UncommittedStep

\* Its reservations are released and its parts written off.
LEMMA BookReleaseStock ==
    ASSUME BookInvariant, KeyInvariant', NEW t \in Txn, ReleaseStock(t)
    PROVE  BookInvariant'
  <1> DEFINE w == job[t].arg
             Used(g) == IF job[t].to = "COMPLETED" THEN Need[w][g] ELSE 0
             Left(g) == [See(t)[g] EXCEPT !.quantity = @ - Used(g), !.reserved = @ - See(t)[g].net[w], !.net[w] = 0]
             moved == {g \in Good : Used(g) > 0 \/ See(t)[g].net[w] > 0}
             rows == [g \in moved |-> Left(g)]
  <1>1. /\ job[t].op = "finish" /\ job[t].step = "release" /\ Write(t, rows) /\ Goto(t, "items")
        /\ UNCHANGED <<db, receipts>> /\ seen' = seen
    BY DEF ReleaseStock, At
  <1>2. Sees(t) /\ Counted
    BY DEF BookInvariant
  <1>3. w \in Order /\ job[t].to \in {"COMPLETED", "CANCELLED"} /\ w \in DOMAIN mine[t] /\ db[w] = "IN_PROGRESS"
    BY <1>1, <1>2 DEF Sees, JobShaped, Finishing
  <1>4. /\ job'[t].op = "finish" /\ job'[t].arg = w /\ job'[t].to = job[t].to /\ job'[t].step = "items"
        /\ \A u \in Txn \ {t} : job'[u] = job[u]
    BY <1>1, NextAwait DEF BookInvariant
  <1>5. Moves(t) /\ Wrote(t, rows)
    BY <1>1, <1>4, MovesOn, BookWrites
  <1>6. DOMAIN rows = moved /\ moved \subseteq Good
    OBVIOUS
  <1>7. \A g \in Good : Used(g) \in Nat /\ (Used(g) > 0 => g \in moved)
    BY <1>3, GoodsReceiptAssumption
  <1>8. \A g \in moved : rows[g] = Left(g)
    OBVIOUS
  <1> HIDE DEF rows, moved
  <1>9. Finishing(t) /\ Finishing(t)' /\ ~Receiving(t) /\ ~Receiving(t)'
    BY <1>1, <1>4 DEF Finishing, Receiving
  <1>10. /\ \A l \in Line : Brought(t, l)' = Brought(t, l)
         /\ \A g \in Good : Came(t, g)' = 0 /\ Came(t, g) = 0
         /\ Owed(t)' = Owed(t)
    BY <1>9 DEF Brought, Came, Owed, Past
  <1>11. \A g \in Good : Went(t, g) = 0 /\ Went(t, g)' = Used(g)
    BY <1>1, <1>4, <1>9 DEF Went
  <1>12. DOMAIN rows \cap (Line \cup Order \cup {Account, PO}) = {}
    BY <1>6, Tables
  <1>13. SeesLines(t)' /\ SeesAccount(t)' /\ SeesOrders(t)'
    BY <1>1, <1>2, <1>4, <1>5, <1>9, <1>10, <1>12, KeepsLines, KeepsAccount, KeepsOrders DEF Sees
  <1>14. SeesGoods(t)'
    <2> SUFFICES ASSUME NEW g \in Good
                 PROVE  /\ Stocked(See(t)'[g])
                        /\ See(t)'[g].quantity = db[g].quantity + Came(t, g)' - Went(t, g)'
                        /\ Came(t, g)' # 0 \/ Went(t, g)' # 0 => g \in DOMAIN mine'[t]
      BY <1>1 DEF SeesGoods
    <2>1. Stocked(See(t)[g]) /\ Stocked(db[g]) /\ See(t)[g].quantity = db[g].quantity + Came(t, g) - Went(t, g)
      BY <1>2 DEF Sees, SeesGoods, Counted
    <2>2. See(t)[g].quantity = db[g].quantity /\ db[g].quantity \in Int
      BY <1>10, <1>11, <2>1, StockCounts
    <2>3. See(t)'[g] = IF g \in moved THEN rows[g] ELSE See(t)[g]
      BY <1>5, <1>6, Tables DEF Wrote
    <2>4. Used(g) \in Nat /\ (Used(g) > 0 => g \in moved)
      BY <1>7
    <2>5. CASE g \in moved
      <3> DEFINE r == See(t)[g]
                 q == r.quantity - Used(g)
                 a == r.reserved - r.net[w]
                 n == [r.net EXCEPT ![w] = 0]
      <3>1. q \in Int
        BY <2>2, <2>4
      <3>2. Becomes(r, rows[g], q)
        <4>1. Left(g) = [[r EXCEPT !.quantity = q, !.reserved = a] EXCEPT !.net[w] = 0]
          OBVIOUS
        <4> DEFINE d == [r EXCEPT !.quantity = q, !.reserved = a]
        <4>2. d.net = r.net
          <5>1. PICK x, y, z : r = [quantity |-> x, reserved |-> y, net |-> z]
            BY <2>1 DEF Stocked
          <5>2. d = [[r EXCEPT !.quantity = q] EXCEPT !.reserved = a]
            OBVIOUS
          <5> QED
            BY <5>1, <5>2
        <4>3. [d EXCEPT !.net[w] = 0] = [d EXCEPT !.net = [d.net EXCEPT ![w] = 0]]
          OBVIOUS
        <4>4. [d EXCEPT !.net = [d.net EXCEPT ![w] = 0]] = [d EXCEPT !.net = n]
          BY <4>2
        <4>5. rows[g] = [d EXCEPT !.net = n]
          BY <1>8, <2>5, <4>1, <4>3, <4>4
        <4>6. [d EXCEPT !.net = n] = [r EXCEPT !.quantity = q, !.reserved = a, !.net = n]
          OBVIOUS
        <4>7. rows[g] = [r EXCEPT !.quantity = q, !.reserved = a, !.net = n]
          BY <4>5, <4>6
        <4> HIDE DEF r, q, a, n, d, Left
        <4> QED
          BY <4>7 DEF Becomes
      <3> HIDE DEF q, r
      <3>3. Stocked(r)
        BY <2>1 DEF r
      <3>4. Stocked(rows[g]) /\ rows[g].quantity = q
        BY <3>1, <3>2, <3>3, StockMoved
      <3> QED
        BY <1>5, <1>6, <1>10, <1>11, <2>2, <2>3, <2>4, <2>5, <3>4 DEF q, r, Wrote
    <2>6. CASE g \notin moved
      BY <1>10, <1>11, <2>1, <2>2, <2>3, <2>4, <2>6
    <2> QED
      BY <2>5, <2>6
  <1>15. w \in DOMAIN mine'[t]
    BY <1>3, <1>5 DEF Wrote
  <1>16. JobShaped(t)' /\ HasRoom(t)'
    BY <1>1, <1>3, <1>4, <1>9, <1>15 DEF JobShaped, HasRoom
  <1>17. Sees(t)'
    BY <1>13, <1>14, <1>16 DEF Sees
  <1> QED
    BY <1>1, <1>5, <1>17, UncommittedStep

\* After a commit, or a rollback, a request sees what is committed.
LEMMA IdleSees ==
    ASSUME NEW t, Counted', job'[t] = Idle, mine'[t] = NoRows
    PROVE  Sees(t)'
  <1>1. /\ ~Receiving(t)' /\ ~Finishing(t)' /\ job'[t].op \notin {"release", "receive", "transition"}
        /\ job'[t].step \notin {"close", "status"} /\ PO \notin DOMAIN mine'[t]
    BY DEF Idle, Receiving, Finishing, NoRows
  <1>2. \A x \in Row : See(t)'[x] = db'[x]
    BY DEF See, Over, NoRows, Counted
  <1>3. /\ \A l \in Line : Brought(t, l)' = 0
        /\ \A g \in Good : Came(t, g)' = 0 /\ Went(t, g)' = 0
        /\ Owed(t)' = 0
    BY <1>1 DEF Brought, Came, Went, Owed, Past
  <1>4. SeesLines(t)'
    BY <1>2, <1>3, Tables DEF SeesLines, Counted
  <1>5. SeesGoods(t)'
    BY <1>2, <1>3, Tables, StockCounts DEF SeesGoods, Counted
  <1>6. SeesAccount(t)' /\ SeesOrders(t)'
    BY <1>1, <1>2, <1>3, Tables DEF SeesAccount, SeesOrders, Counted
  <1>7. JobShaped(t)' /\ HasRoom(t)'
    BY <1>1 DEF JobShaped, HasRoom
  <1> QED
    BY <1>4, <1>5, <1>6, <1>7 DEF Sees

\* A request that fails leaves nothing behind it, and frees its key.
LEMMA BookAbort ==
    ASSUME BookInvariant, KeyInvariant', NEW t \in Txn, Abort(t)
    PROVE  BookInvariant'
  <1>1. /\ mine' = [mine EXCEPT ![t] = NoRows] /\ seen' = [seen EXCEPT ![t] = NoRows]
        /\ job' = [job EXCEPT ![t] = Idle] /\ UNCHANGED <<db, receipts>>
    BY DEF Abort
  <1>2. job'[t] = Idle /\ \A u \in Txn \ {t} : job'[u] = job[u]
    BY <1>1, NewJob DEF BookInvariant
  <1>3. /\ DOMAIN mine' = Txn /\ mine'[t] = NoRows
        /\ \A u \in Txn \ {t} : mine'[u] = mine[u] /\ seen'[u] = seen[u]
        /\ DOMAIN seen' = Txn
    BY <1>1 DEF BookInvariant
  <1>4. RowsApart'
    BY <1>3 DEF BookInvariant, RowsApart, NoRows
  <1>5. Counted'
    BY <1>1 DEF BookInvariant, Counted
  <1>6. ASSUME NEW u \in Txn PROVE Sees(u)'
    <2>1. CASE u = t
      BY <1>2, <1>3, <1>5, <2>1, IdleSees
    <2>2. CASE u # t
      BY <1>1, <1>2, <1>3, <1>6, <2>2, OthersSee DEF BookInvariant
    <2> QED
      BY <2>1, <2>2
  <1>7. ReceiptIsBooked'
    <2>1. ReceiptIsBooked
      BY DEF BookInvariant
    <2> QED
      BY <1>1, <2>1 DEF ReceiptIsBooked, Received, WrittenOff
  <1> QED
    BY <1>3, <1>4, <1>5, <1>6, <1>7 DEF BookInvariant
-----------------------------------------------------------------------------
(* The commits. *)

\* What a request adds is never negative.
LEMMA AddsNat ==
    ASSUME BookInvariant, NEW t \in Txn
    PROVE  /\ \A l \in Line : Brought(t, l) \in Nat
           /\ \A g \in Good : Came(t, g) \in Nat /\ Went(t, g) \in Nat
           /\ Owed(t) \in Nat
  <1>1. job[t].op = "receive" => job[t].arg \in Key
    BY ReceiptHasKey
  <1>2. Finishing(t) => job[t].arg \in Order
    BY DEF BookInvariant, Sees, JobShaped
  <1>3. \A l \in Line : Brought(t, l) \in Nat
    BY <1>1, BodyNat DEF Brought, Past, Receiving
  <1>4. (\A g \in Good : Came(t, g) \in Nat) /\ Owed(t) \in Nat
    BY <1>1, ArrivedNat DEF Came, Owed, Past, Receiving
  <1>5. \A g \in Good : Went(t, g) \in Nat
    BY <1>2, GoodsReceiptAssumption DEF Went
  <1> QED
    BY <1>3, <1>4, <1>5

\* A commit posts what the request has added.
Posts(t) ==
    /\ Row \subseteq DOMAIN db'
    /\ \A l \in Line : db'[l] = db[l] + Brought(t, l) /\ db'[l] <= Ordered[l]
    /\ \A g \in Good : /\ Stocked(db'[g])
                       /\ db'[g].quantity = db[g].quantity + Came(t, g) - Went(t, g)
    /\ db'[Account] = db[Account] + Owed(t)
    /\ \A w \in Order : db'[w] = IF Finishing(t) /\ w = job[t].arg THEN job[t].to ELSE db[w]
    /\ db'[PO] \in DOMAIN PO_TRANSITIONS

\* A commit may also write the status of the supplier order.
WritesStatus(rows) == DOMAIN rows = {PO} /\ rows[PO] \in DOMAIN PO_TRANSITIONS

\* What a commit makes of the committed rows: each grows by what the request had added.
LEMMA CommitPosts ==
    ASSUME BookInvariant, NEW t \in Txn, NEW rows, Commit(t, rows), Quiet(t, rows) \/ WritesStatus(rows)
    PROVE  /\ Posts(t)
           /\ db'[PO] = IF PO \in DOMAIN rows THEN rows[PO] ELSE db[PO]
  <1>1. db' = Over(rows, See(t))
    BY DEF Commit
  <1>2. Row \subseteq DOMAIN See(t)
    BY DEF See, Over, BookInvariant, Counted
  <1>3. /\ Row \subseteq DOMAIN db'
        /\ \A x \in Row : db'[x] = IF x \in DOMAIN rows THEN rows[x] ELSE See(t)[x]
    BY <1>1, <1>2 DEF Over
  <1>4. Sees(t)
    BY DEF BookInvariant
  <1>5. \A l \in Line : db'[l] = See(t)[l]
    BY <1>3, Tables DEF Quiet, WritesStatus
  <1>6. \A g \in Good : Stocked(db'[g]) /\ db'[g].quantity = See(t)[g].quantity
    BY <1>3, <1>4, Tables DEF Quiet, WritesStatus, Sees, SeesGoods
  <1>7. db'[Account] = See(t)[Account]
    BY <1>3, Tables DEF Quiet, WritesStatus
  <1>8. \A w \in Order : db'[w] = See(t)[w]
    BY <1>3, Tables DEF Quiet, WritesStatus
  <1>9. db'[PO] = IF PO \in DOMAIN rows THEN rows[PO] ELSE db[PO]
    <2>1. PO \in Row /\ PO \notin DOMAIN mine[t]
      BY <1>4 DEF Sees, SeesOrders, Row
    <2>2. See(t)[PO] = db[PO]
      BY <2>1, SeesRow DEF BookInvariant, Counted
    <2> QED
      BY <1>3, <2>1, <2>2
  <1>10. db'[PO] \in DOMAIN PO_TRANSITIONS
    <2>1. db[PO] \in DOMAIN PO_TRANSITIONS
      BY DEF BookInvariant, Counted
    <2> QED
      BY <1>9, <2>1 DEF Quiet, WritesStatus
  <1> QED
    BY <1>3, <1>4, <1>5, <1>6, <1>7, <1>8, <1>9, <1>10 DEF Posts, Sees, SeesLines, SeesGoods, SeesAccount, SeesOrders

\* What is committed keeps its shape.
LEMMA CommitCounts ==
    ASSUME BookInvariant, NEW t \in Txn, Posts(t)
    PROVE  Counted'
  <1>1. Counted
    BY DEF BookInvariant
  <1>2. \A l \in Line : db'[l] \in Nat
    BY <1>1, AddsNat DEF Posts, Counted
  <1>3. db'[Account] \in Int
    BY <1>1, AddsNat DEF Posts, Counted
  <1> QED
    BY <1>2, <1>3 DEF Posts, Counted

\* The rows another transaction holds are not committed over, and of the others it
\* sees what is committed now.
LEMMA CommitOthers ==
    ASSUME BookInvariant, NEW t \in Txn, NEW rows, Commit(t, rows), Counted', NEW u \in Txn \ {t}
    PROVE  Sees(u)'
  <1>1. /\ mine' = [mine EXCEPT ![t] = NoRows] /\ seen' = [seen EXCEPT ![t] = NoRows]
        /\ job' = [job EXCEPT ![t] = Idle] /\ db' = Over(rows, See(t)) /\ ~Waits(t, DOMAIN rows)
    BY DEF Commit
  <1>2. job'[u] = job[u]
    BY <1>1, NewJob DEF BookInvariant
  <1>3. mine'[u] = mine[u] /\ seen'[u] = seen[u]
    BY <1>1 DEF BookInvariant
  <1>4. Sees(u) /\ Row \subseteq DOMAIN db /\ Row \subseteq DOMAIN db'
    BY DEF BookInvariant, Counted
  <1>5. DOMAIN mine[u] \cap DOMAIN rows = {} /\ DOMAIN mine[u] \cap DOMAIN mine[t] = {}
    BY <1>1 DEF Waits, BookInvariant, RowsApart
  <1>6. ASSUME NEW x \in Row, x \in DOMAIN mine[u]
        PROVE  db'[x] = db[x] /\ See(u)'[x] = See(u)[x]
    <2>1. See(t)[x] = db[x] /\ x \in DOMAIN See(t)
      BY <1>4, <1>5, <1>6 DEF See, Over
    <2>2. db'[x] = db[x]
      BY <1>1, <1>5, <1>6, <2>1 DEF Over
    <2>3. See(u)'[x] = mine[u][x] /\ See(u)[x] = mine[u][x]
      BY <1>3, <1>6 DEF See, Over
    <2> QED
      BY <2>2, <2>3
  <1>7. ASSUME NEW x \in Row, x \notin DOMAIN mine[u]
        PROVE  See(u)'[x] = db'[x] /\ See(u)[x] = db[x]
    BY <1>3, <1>4, <1>7 DEF See, Over
  <1>8. /\ \A l \in Line : Brought(u, l)' = Brought(u, l)
        /\ \A g \in Good : Came(u, g)' = Came(u, g) /\ Went(u, g)' = Went(u, g)
        /\ Owed(u)' = Owed(u) /\ (Finishing(u)' <=> Finishing(u)) /\ (Receiving(u)' <=> Receiving(u))
    BY <1>2 DEF Brought, Came, Went, Owed, Past, Receiving, Finishing
  <1>9. SeesLines(u)'
    <2> SUFFICES ASSUME NEW l \in Line
                 PROVE  /\ See(u)'[l] = db'[l] + Brought(u, l) /\ See(u)'[l] <= Ordered[l]
                        /\ Brought(u, l) # 0 => l \in DOMAIN mine[u]
      BY <1>3, <1>8 DEF SeesLines
    <2>1. /\ See(u)[l] = db[l] + Brought(u, l) /\ See(u)[l] <= Ordered[l]
          /\ Brought(u, l) # 0 => l \in DOMAIN mine[u]
      BY <1>4 DEF Sees, SeesLines
    <2>2. db'[l] \in Nat /\ db'[l] <= Ordered[l]
      BY DEF Counted
    <2>3. CASE l \in DOMAIN mine[u]
      BY <1>6, <2>1, <2>3, Tables
    <2>4. CASE l \notin DOMAIN mine[u]
      BY <1>7, <2>1, <2>2, <2>4, Tables
    <2> QED
      BY <2>3, <2>4
  <1>10. SeesGoods(u)'
    <2> SUFFICES ASSUME NEW g \in Good
                 PROVE  /\ Stocked(See(u)'[g])
                        /\ See(u)'[g].quantity = db'[g].quantity + Came(u, g) - Went(u, g)
                        /\ Came(u, g) # 0 \/ Went(u, g) # 0 => g \in DOMAIN mine[u]
      BY <1>3, <1>8 DEF SeesGoods
    <2>1. /\ Stocked(See(u)[g]) /\ See(u)[g].quantity = db[g].quantity + Came(u, g) - Went(u, g)
          /\ Came(u, g) # 0 \/ Went(u, g) # 0 => g \in DOMAIN mine[u]
      BY <1>4 DEF Sees, SeesGoods
    <2>2. Stocked(db'[g]) /\ db'[g].quantity \in Int
      BY StockCounts DEF Counted
    <2>3. CASE g \in DOMAIN mine[u]
      BY <1>6, <2>1, <2>3, Tables
    <2>4. CASE g \notin DOMAIN mine[u]
      BY <1>7, <2>1, <2>2, <2>4, Tables
    <2> QED
      BY <2>3, <2>4
  <1>11. SeesAccount(u)'
    <2>1. See(u)[Account] = db[Account] + Owed(u) /\ (Owed(u) # 0 => Account \in DOMAIN mine[u])
      BY <1>4 DEF Sees, SeesAccount
    <2>2. db'[Account] \in Int
      BY DEF Counted
    <2>3. CASE Account \in DOMAIN mine[u]
      BY <1>3, <1>6, <1>8, <2>1, <2>3, Tables DEF SeesAccount
    <2>4. CASE Account \notin DOMAIN mine[u]
      BY <1>3, <1>7, <1>8, <2>1, <2>2, <2>4, Tables DEF SeesAccount
    <2> QED
      BY <2>3, <2>4
  <1>12. JobShaped(u)' /\ SeesOrders(u)'
    <2>1. Finishing(u) => /\ job[u].arg \in Order /\ job[u].arg \in DOMAIN mine[u]
                          /\ db[job[u].arg] = "IN_PROGRESS"
      BY <1>4 DEF Sees, JobShaped
    <2>2. Finishing(u) => db'[job[u].arg] = "IN_PROGRESS"
      BY <1>6, <2>1, Tables
    <2>3. JobShaped(u)'
      BY <1>2, <1>3, <1>4, <1>8, <2>2 DEF Sees, JobShaped
    <2>4. ASSUME NEW w \in Order
          PROVE  See(u)'[w] = IF Finishing(u) /\ w = job[u].arg THEN job[u].to ELSE db'[w]
      <3>1. See(u)[w] = IF Finishing(u) /\ w = job[u].arg THEN job[u].to ELSE db[w]
        BY <1>4 DEF Sees, SeesOrders
      <3>2. CASE w \in DOMAIN mine[u]
        BY <1>6, <3>1, <3>2, Tables
      <3>3. CASE w \notin DOMAIN mine[u]
        BY <1>7, <2>1, <3>1, <3>3, Tables
      <3> QED
        BY <3>2, <3>3
    <2>5. PO \notin DOMAIN mine'[u]
      BY <1>3, <1>4 DEF Sees, SeesOrders
    <2> QED
      BY <1>2, <1>8, <2>3, <2>4, <2>5 DEF SeesOrders
  <1>13. HasRoom(u)'
    BY <1>2, <1>3, <1>4, <1>8 DEF Sees, HasRoom
  <1> QED
    BY <1>9, <1>10, <1>11, <1>12, <1>13 DEF Sees

\* It is left to see that the sums agree.
LEMMA CommittedStep ==
    ASSUME BookInvariant, KeyInvariant', NEW t \in Txn, NEW rows, Commit(t, rows), Posts(t), ReceiptIsBooked'
    PROVE  BookInvariant'
  <1>1. /\ mine' = [mine EXCEPT ![t] = NoRows] /\ seen' = [seen EXCEPT ![t] = NoRows]
        /\ job' = [job EXCEPT ![t] = Idle]
    BY DEF Commit
  <1>2. job'[t] = Idle
    BY <1>1, NewJob DEF BookInvariant
  <1>3. /\ DOMAIN mine' = Txn /\ mine'[t] = NoRows
        /\ \A u \in Txn \ {t} : mine'[u] = mine[u]
        /\ DOMAIN seen' = Txn
    BY <1>1 DEF BookInvariant
  <1>4. RowsApart'
    BY <1>3 DEF BookInvariant, RowsApart, NoRows
  <1>5. Counted'
    BY CommitCounts
  <1>6. ASSUME NEW u \in Txn PROVE Sees(u)'
    <2>1. CASE u = t
      BY <1>2, <1>3, <1>5, <2>1, IdleSees
    <2>2. CASE u # t
      BY <1>5, <1>6, <2>2, CommitOthers
    <2> QED
      BY <2>1, <2>2
  <1> QED
    BY <1>3, <1>4, <1>5, <1>6 DEF BookInvariant
-----------------------------------------------------------------------------
(* What a commit books. *)

\* Of a request that has added nothing, and closes no work order, nothing.
LEMMA BooksNothing ==
    ASSUME BookInvariant, NEW t \in Txn, Posts(t), receipts' = receipts, ~Receiving(t), ~Finishing(t)
    PROVE  ReceiptIsBooked'
  <1>1. /\ \A l \in Line : Brought(t, l) = 0
        /\ \A g \in Good : Came(t, g) = 0 /\ Went(t, g) = 0
        /\ Owed(t) = 0
    BY NothingAdded DEF AddsNothing
  <1>2. Counted /\ ReceiptIsBooked
    BY DEF BookInvariant
  <1>3. \A l \in Line : db'[l] = db[l]
    BY <1>1, <1>2 DEF Posts, Counted
  <1>4. \A g \in Good : db'[g].quantity = db[g].quantity
    <2> SUFFICES ASSUME NEW g \in Good PROVE db'[g].quantity = db[g].quantity
      OBVIOUS
    <2>1. db[g].quantity \in Int /\ db'[g].quantity = db[g].quantity + Came(t, g) - Went(t, g)
      BY <1>2, StockCounts DEF Posts, Counted
    <2> QED
      BY <1>1, <2>1
  <1>5. db'[Account] = db[Account]
    BY <1>1, <1>2 DEF Posts, Counted
  <1>6. \A w \in Order : db'[w] = db[w]
    BY DEF Posts
  <1>7. \A g \in Good : Received(g)' = Received(g) /\ WrittenOff(g)' = WrittenOff(g)
    <2> SUFFICES ASSUME NEW g \in Good PROVE Received(g)' = Received(g) /\ WrittenOff(g)' = WrittenOff(g)
      OBVIOUS
    <2>1. [l \in Line |-> IF LineGood[l] = g THEN db'[l] ELSE 0] = [l \in Line |-> IF LineGood[l] = g THEN db[l] ELSE 0]
      BY <1>3
    <2>2. [w \in Order |-> IF db'[w] = "COMPLETED" THEN Need[w][g] ELSE 0]
             = [w \in Order |-> IF db[w] = "COMPLETED" THEN Need[w][g] ELSE 0]
      BY <1>6
    <2> QED
      BY <2>1, <2>2 DEF Received, WrittenOff
  <1>8. [l \in Line |-> db'[l] * Price[l]] = [l \in Line |-> db[l] * Price[l]]
    BY <1>3
  <1> QED
    BY <1>2, <1>3, <1>4, <1>5, <1>7, <1>8 DEF ReceiptIsBooked

\* Of a receipt, in the lines, the stock and the account alike.
LEMMA BooksReceipt ==
    ASSUME BookInvariant, NEW t \in Txn, Posts(t), Receiving(t), job[t].step \notin BeforeCharge,
           receipts' = [receipts EXCEPT ![job[t].arg] = @ + 1]
    PROVE  ReceiptIsBooked'
  <1> DEFINE k == job[t].arg
  <1>1. k \in Key /\ receipts[k] = 0 /\ receipts \in [Key -> Nat]
    BY DEF BookInvariant, KeyInvariant, KeysReserved, KeysTyped
  <1>2. ~Finishing(t)
    BY DEF Receiving, Finishing
  <1>3. /\ \A l \in Line : Brought(t, l) = Body[k][l]
        /\ \A g \in Good : Came(t, g) = Arrived(k, g) /\ Went(t, g) = 0
        /\ Owed(t) = Amount(k)
    BY <1>2 DEF Brought, Came, Went, Owed, Past, BeforeStock, BeforeCharge
  <1> HIDE DEF k
  <1>4. Counted /\ ReceiptIsBooked
    BY DEF BookInvariant
  <1>5. \A l \in Line : db'[l] = db[l] + Body[k][l] /\ db[l] \in Nat /\ Body[k][l] \in Nat /\ db'[l] <= Ordered[l]
    BY <1>1, <1>3, <1>4, BodyNat DEF Posts, Counted
  <1>6. /\ receipts'[k] = 1 /\ receipts' \in [Key -> Nat]
        /\ \A x \in Key \ {k} : receipts'[x] = receipts[x]
    BY <1>1 DEF k
  <1>7. ASSUME NEW l \in Line
        PROVE  db'[l] = SumFunction([x \in Key |-> receipts'[x] * Body[x][l]])
    <2> DEFINE f == [x \in Key |-> receipts[x] * Body[x][l]]
               e == [x \in Key |-> receipts'[x] * Body[x][l]]
    <2>1. \A x \in Key : receipts[x] \in Nat /\ receipts'[x] \in Nat /\ Body[x][l] \in Nat
      BY <1>1, <1>6, BodyNat
    <2>2. f \in [Key -> Int] /\ e \in [Key -> Int]
      BY <2>1
    <2>3. f[k] = 0 /\ e[k] = Body[k][l]
      BY <1>1, <1>6, <2>1
    <2>4. \A x \in Key \ {k} : e[x] = f[x]
      BY <1>6
    <2>5. db[l] = SumFunction(f)
      BY <1>4 DEF ReceiptIsBooked
    <2>6. IsFiniteSet(Key)
      BY GoodsReceiptAssumption
    <2> HIDE DEF f, e
    <2>7. SumFunction(e) = SumFunction(f) - f[k] + e[k]
      BY <1>1, <2>2, <2>4, <2>6, FunctionChanged
    <2>8. SumFunction(e) = db'[l]
      BY <1>5, <2>3, <2>5, <2>7
    <2> QED
      BY <2>8 DEF e
  <1>8. ASSUME NEW g \in Good PROVE db'[g].quantity + WrittenOff(g)' = Received(g)'
    <2> DEFINE f == [l \in Line |-> IF LineGood[l] = g THEN db[l] ELSE 0]
               e == [l \in Line |-> IF LineGood[l] = g THEN Body[k][l] ELSE 0]
               h == [l \in Line |-> IF LineGood[l] = g THEN db'[l] ELSE 0]
    <2>1. PointwiseSum(Line, f, e, h)
      <3>1. IsFiniteSet(Line)
        BY GoodsReceiptAssumption
      <3>2. f \in [Line -> Int] /\ e \in [Line -> Int] /\ h \in [Line -> Int]
        BY <1>5
      <3>3. \A l \in Line : h[l] = f[l] + e[l]
        BY <1>5
      <3> QED
        BY <3>1, <3>2, <3>3 DEF PointwiseSum
    <2>2. Received(g) = SumFunction(f) /\ Arrived(k, g) = SumFunction(e) /\ Received(g)' = SumFunction(h)
      BY DEF Received, Arrived
    <2>3. f \in [Line -> Int]
      BY <2>1 DEF PointwiseSum
    <2> HIDE DEF f, e, h
    <2>4. Received(g)' = Received(g) + Arrived(k, g)
      BY <2>1, <2>2, FunctionsAdd
    <2>5. [w \in Order |-> IF db'[w] = "COMPLETED" THEN Need[w][g] ELSE 0]
             = [w \in Order |-> IF db[w] = "COMPLETED" THEN Need[w][g] ELSE 0]
      BY <1>2 DEF Posts
    <2>6. WrittenOff(g)' = WrittenOff(g)
      BY <2>5 DEF WrittenOff
    <2>7. WrittenOff(g) \in Int
      <3> DEFINE o == [w \in Order |-> IF db[w] = "COMPLETED" THEN Need[w][g] ELSE 0]
      <3>1. o \in [Order -> Int] /\ IsFiniteSet(Order)
        BY GoodsReceiptAssumption
      <3>2. WrittenOff(g) = SumFunction(o)
        BY DEF WrittenOff
      <3> HIDE DEF o
      <3> QED
        BY <3>1, <3>2, FunctionSum
    <2>8. db'[g].quantity = db[g].quantity + Arrived(k, g) - 0 /\ db[g].quantity \in Int /\ Arrived(k, g) \in Nat
      BY <1>1, <1>3, <1>4, StockCounts, ArrivedNat DEF Posts, Counted
    <2>9. db[g].quantity + WrittenOff(g) = Received(g)
      BY <1>4 DEF ReceiptIsBooked
    <2> QED
      BY <2>4, <2>6, <2>7, <2>8, <2>9
  <1>9. db'[Account] = SumFunction([l \in Line |-> db'[l] * Price[l]])
    <2> DEFINE f == [l \in Line |-> db[l] * Price[l]]
               e == [l \in Line |-> Body[k][l] * Price[l]]
               h == [l \in Line |-> db'[l] * Price[l]]
    <2>1. ASSUME NEW l \in Line
          PROVE  db[l] * Price[l] \in Int /\ Body[k][l] * Price[l] \in Int /\ db'[l] * Price[l] \in Int
                 /\ db'[l] * Price[l] = db[l] * Price[l] + Body[k][l] * Price[l]
      <3>1. Price[l] \in Nat
        BY GoodsReceiptAssumption
      <3>2. PICK a, b, p \in Nat : a = db[l] /\ b = Body[k][l] /\ p = Price[l]
        BY <1>5, <3>1
      <3>3. (a + b) * p = a * p + b * p /\ a * p \in Int /\ b * p \in Int /\ (a + b) * p \in Int
        OBVIOUS
      <3> QED
        BY <1>5, <3>2, <3>3
    <2>2. PointwiseSum(Line, f, e, h)
      BY <2>1, GoodsReceiptAssumption DEF PointwiseSum
    <2>3. db[Account] = SumFunction(f) /\ Amount(k) = SumFunction(e)
      BY <1>4 DEF ReceiptIsBooked, Amount
    <2> HIDE DEF f, e, h
    <2>4. SumFunction(h) = SumFunction(f) + SumFunction(e)
      BY <2>2, FunctionsAdd
    <2>5. db'[Account] = db[Account] + Amount(k)
      BY <1>3 DEF Posts
    <2> QED
      BY <2>3, <2>4, <2>5 DEF h
  <1> QED
    BY <1>5, <1>7, <1>8, <1>9 DEF ReceiptIsBooked

\* And of a work order that was completed, what it wrote off.
LEMMA BooksWriteOff ==
    ASSUME BookInvariant, NEW t \in Txn, Posts(t), receipts' = receipts, Finishing(t), job[t].step = "items"
    PROVE  ReceiptIsBooked'
  <1> DEFINE w == job[t].arg
             to == job[t].to
  <1>1. Counted /\ ReceiptIsBooked
    BY DEF BookInvariant
  <1>2. w \in Order /\ to \in {"COMPLETED", "CANCELLED"} /\ db[w] = "IN_PROGRESS"
    BY DEF BookInvariant, Sees, JobShaped
  <1>3. ~Receiving(t)
    BY DEF Receiving, Finishing
  <1>4. /\ \A l \in Line : Brought(t, l) = 0
        /\ \A g \in Good : Came(t, g) = 0 /\ Went(t, g) = IF to = "COMPLETED" THEN Need[w][g] ELSE 0
        /\ Owed(t) = 0
    BY <1>3 DEF Brought, Came, Went, Owed, Past
  <1>5. \A v \in Order : db'[v] = IF v = w THEN to ELSE db[v]
    BY DEF Posts
  <1> HIDE DEF w, to
  <1>6. (\A l \in Line : db'[l] = db[l]) /\ db'[Account] = db[Account]
    BY <1>1, <1>4 DEF Posts, Counted
  <1>7. ASSUME NEW g \in Good PROVE db'[g].quantity + WrittenOff(g)' = Received(g)'
    <2> DEFINE f == [v \in Order |-> IF db[v] = "COMPLETED" THEN Need[v][g] ELSE 0]
               e == [v \in Order |-> IF db'[v] = "COMPLETED" THEN Need[v][g] ELSE 0]
    <2>1. f \in [Order -> Int] /\ e \in [Order -> Int] /\ IsFiniteSet(Order)
      BY GoodsReceiptAssumption
    <2>2. f[w] = 0 /\ e[w] = Went(t, g)
      BY <1>2, <1>4, <1>5
    <2>3. \A v \in Order \ {w} : e[v] = f[v]
      BY <1>5
    <2>4. WrittenOff(g) = SumFunction(f) /\ WrittenOff(g)' = SumFunction(e)
      BY DEF WrittenOff
    <2> HIDE DEF f, e
    <2>5. SumFunction(e) = SumFunction(f) - f[w] + e[w] /\ SumFunction(f) \in Int
      BY <1>2, <2>1, <2>3, FunctionChanged, FunctionSum
    <2>6. [l \in Line |-> IF LineGood[l] = g THEN db'[l] ELSE 0] = [l \in Line |-> IF LineGood[l] = g THEN db[l] ELSE 0]
      BY <1>6
    <2>7. Received(g)' = Received(g)
      BY <2>6 DEF Received
    <2>8. /\ db'[g].quantity = db[g].quantity + Came(t, g) - Went(t, g)
          /\ db[g].quantity \in Int /\ Went(t, g) \in Nat /\ Came(t, g) = 0
      BY <1>1, <1>4, StockCounts, AddsNat DEF Posts, Counted
    <2>9. db[g].quantity + WrittenOff(g) = Received(g)
      BY <1>1 DEF ReceiptIsBooked
    <2> QED
      BY <2>2, <2>4, <2>5, <2>7, <2>8, <2>9
  <1>8. [l \in Line |-> db'[l] * Price[l]] = [l \in Line |-> db[l] * Price[l]]
    BY <1>6
  <1> QED
    BY <1>1, <1>6, <1>7, <1>8 DEF ReceiptIsBooked

\* The commits: what each writes beside what its request has added.
LEMMA PostsSetStatus ==
    ASSUME BookInvariant, NEW t \in Txn, SetStatus(t)
    PROVE  /\ Posts(t) /\ db'[PO] = job[t].to /\ (\E rows : Commit(t, rows))
           /\ db[PO] = job[t].from /\ job[t].from \in Receivable /\ ~Finishing(t)
  <1> DEFINE rows == [x \in {PO} |-> job[t].to]
  <1>1. job[t].step = "status" /\ Commit(t, rows) /\ See(t)[PO] = job[t].from
    BY DEF SetStatus
  <1>2. Sees(t)
    BY DEF BookInvariant
  <1>3. job[t].op \in {"receive", "transition"}
    BY <1>1, <1>2 DEF Sees, JobShaped
  <1>4. WritesStatus(rows)
    BY <1>2, <1>3 DEF Sees, JobShaped, WritesStatus
  <1>5. DOMAIN rows = {PO} /\ rows[PO] = job[t].to
    OBVIOUS
  <1> HIDE DEF rows
  <1>6. Posts(t) /\ db'[PO] = job[t].to
    BY <1>1, <1>4, <1>5, CommitPosts
  <1>7. db[PO] = job[t].from
    <2>1. PO \in Row /\ PO \notin DOMAIN mine[t]
      BY <1>2 DEF Sees, SeesOrders, Row
    <2> QED
      BY <1>1, <2>1, SeesRow DEF BookInvariant, Counted
  <1> QED
    BY <1>1, <1>2, <1>3, <1>6, <1>7 DEF Sees, JobShaped, Finishing

\* Every other commit leaves the status of the supplier order.
PostsBeside(t) == Posts(t) /\ (\E rows : Commit(t, rows)) /\ db'[PO] = db[PO] /\ receipts' = receipts /\ ~Receiving(t)

\* A commit of a request that received nothing moves stock only with a work order's status.
LEMMA QuietCommit ==
    ASSUME BookInvariant, NEW t \in Txn, NEW rows, Commit(t, rows), Quiet(t, rows), receipts' = receipts,
           ~Receiving(t)
    PROVE  PostsBeside(t)
  <1>1. PO \notin DOMAIN rows
    BY DEF Quiet
  <1> QED
    BY <1>1, CommitPosts DEF PostsBeside

\* The last step of a cancellation of a work order, which writes it off or off the plan.
LEMMA PostsCancelItems ==
    ASSUME BookInvariant, NEW t \in Txn, CancelItems(t)
    PROVE  PostsBeside(t) /\ Finishing(t) /\ job[t].step = "items"
  <1>1. PICK new, items : /\ items \subseteq Item /\ Commit(t, Changed(new, Restrict(See(t), items)))
                          /\ job[t].op = "finish" /\ job[t].step = "items" /\ receipts' = receipts
    BY DEF CancelItems, At
  <1> DEFINE rows == Changed(new, Restrict(See(t), items))
  <1>2. DOMAIN rows \subseteq Item
    BY <1>1 DEF Changed, Restrict
  <1> HIDE DEF rows
  <1>3. Quiet(t, rows)
    BY <1>2, ItemsAreQuiet
  <1>4. Commit(t, rows)
    BY <1>1 DEF rows
  <1> QED
    BY <1>1, <1>3, <1>4, QuietCommit DEF Finishing, Receiving

\* The last step of the release of an item, which frees the goods held for it.
LEMMA PostsReleaseMovement ==
    ASSUME BookInvariant, NEW t \in Txn, ReleaseMovement(t)
    PROVE  PostsBeside(t) /\ ~Finishing(t)
  <1>1. PICK amount :
           /\ job[t].op = "release" /\ receipts' = receipts
           /\ Commit(t, [g \in {ItemGood[job[t].arg]} |->
                  [See(t)[g] EXCEPT !.reserved = @ - amount, !.net[ItemOrder[job[t].arg]] = @ - amount]])
    BY DEF ReleaseMovement, At
  <1> DEFINE h == ItemGood[job[t].arg]
             w == ItemOrder[job[t].arg]
             rows == [g \in {h} |-> [See(t)[g] EXCEPT !.reserved = @ - amount, !.net[w] = @ - amount]]
  <1>2. h \in Good /\ w \in Order
    BY <1>1, GoodsReceiptAssumption DEF BookInvariant, Sees, JobShaped
  <1>3. Stocked(See(t)[h])
    BY <1>2 DEF BookInvariant, Sees, SeesGoods
  <1>4. Reserves(See(t)[h], rows[h])
    <2> DEFINE r == See(t)[h]
               a == r.reserved - amount
               n == [r.net EXCEPT ![w] = r.net[w] - amount]
               d == [r EXCEPT !.reserved = a]
    <2>1. rows[h] = [d EXCEPT !.net[w] = @ - amount]
      OBVIOUS
    <2>2. d.net = r.net
      BY <1>3 DEF Stocked
    <2>3. [d EXCEPT !.net[w] = @ - amount] = [d EXCEPT !.net = [d.net EXCEPT ![w] = d.net[w] - amount]]
      OBVIOUS
    <2>4. [d EXCEPT !.net = [d.net EXCEPT ![w] = d.net[w] - amount]] = [d EXCEPT !.net = n]
      BY <2>2
    <2>5. [d EXCEPT !.net = n] = [r EXCEPT !.reserved = a, !.net = n]
      OBVIOUS
    <2>6. rows[h] = [r EXCEPT !.reserved = a, !.net = n]
      BY <2>1, <2>3, <2>4, <2>5
    <2> HIDE DEF r, a, n, d, rows
    <2>7. Reserves(r, rows[h])
      BY <2>6 DEF Reserves
    <2> QED
      BY <2>7 DEF r
  <1>5. DOMAIN rows = {h}
    OBVIOUS
  <1>6. Commit(t, rows)
    BY <1>1
  <1> HIDE DEF rows
  <1>7. Quiet(t, rows)
    BY <1>2, <1>3, <1>4, <1>5, StockKept, Tables DEF Quiet
  <1> QED
    BY <1>1, <1>6, <1>7, QuietCommit DEF Receiving, Finishing

\* The last step of the return of what was not confirmed.
LEMMA PostsEndUnconfirmed ==
    ASSUME BookInvariant, NEW t \in Txn, EndUnconfirmed(t)
    PROVE  PostsBeside(t) /\ ~Finishing(t)
  <1>1. job[t].op = "unconfirmed" /\ Commit(t, NoRows) /\ receipts' = receipts
    BY DEF EndUnconfirmed, At
  <1>2. Quiet(t, NoRows)
    BY ItemsAreQuiet DEF NoRows
  <1> QED
    BY <1>1, <1>2, QuietCommit DEF Receiving, Finishing

\* The last step of a receipt or a transition, which commits: what the receipt brought is
\* counted with its key, and is on the lines, in the stock and on the account.
LEMMA BookSetStatus ==
    ASSUME BookInvariant, KeyInvariant', NEW t \in Txn, SetStatus(t)
    PROVE  BookInvariant'
  <1>1. Posts(t) /\ ~Finishing(t) /\ \E rows : Commit(t, rows)
    BY PostsSetStatus
  <1>2. ReceiptIsBooked'
    <2>1. CASE Receiving(t)
      <3>1. receipts' = [receipts EXCEPT ![job[t].arg] = @ + 1] /\ job[t].step = "status"
        BY <2>1 DEF SetStatus, Receiving
      <3>2. job[t].step \notin BeforeCharge
        BY <3>1 DEF BeforeCharge, BeforeStock, BeforeLines
      <3> QED
        BY <1>1, <2>1, <3>1, <3>2, BooksReceipt
    <2>2. CASE ~Receiving(t)
      <3>1. receipts' = receipts
        BY <2>2 DEF SetStatus, Receiving
      <3> QED
        BY <1>1, <2>2, <3>1, BooksNothing
    <2> QED
      BY <2>1, <2>2
  <1> QED
    BY <1>1, <1>2, CommittedStep

\* The commits beside it, which bring nothing in.
LEMMA BookBeside ==
    ASSUME BookInvariant, KeyInvariant', NEW t \in Txn,
           CancelItems(t) \/ ReleaseMovement(t) \/ EndUnconfirmed(t)
    PROVE  BookInvariant' /\ PostsBeside(t)
  <1>1. PostsBeside(t) /\ (Finishing(t) => job[t].step = "items")
    BY PostsCancelItems, PostsReleaseMovement, PostsEndUnconfirmed
  <1>2. ReceiptIsBooked'
    BY <1>1, BooksNothing, BooksWriteOff DEF PostsBeside
  <1> QED
    BY <1>1, <1>2, CommittedStep DEF PostsBeside
-----------------------------------------------------------------------------
(* The theorem. *)

\* At the start nothing was received and nobody has written anything.
LEMMA BookInit == Init => BookInvariant
  <1> SUFFICES ASSUME Init PROVE BookInvariant
    OBVIOUS
  <1>1. KeyInvariant
    BY KeyInit
  <1>2. /\ mine = [t \in Txn |-> NoRows] /\ seen = [t \in Txn |-> NoRows] /\ job = [t \in Txn |-> Idle]
        /\ receipts = [k \in Key |-> 0]
    BY DEF Init
  <1>3. DOMAIN mine = Txn /\ DOMAIN seen = Txn /\ RowsApart
    BY <1>2 DEF RowsApart, NoRows
  <1>4. /\ Row \subseteq DOMAIN db /\ db[Account] = 0
        /\ \A l \in Line : db[l] = 0
        /\ \A g \in Good : db[g] = [quantity |-> 0, reserved |-> 0, net |-> [w \in Order |-> 0]]
        /\ \A w \in Order : db[w] = "IN_PROGRESS"
        /\ db[PO] = "ORDERED"
    <2>1. Row = DOMAIN db
      BY DEF Init
    <2>2. \A l \in Line : db[l] = 0
      BY Tables DEF Init
    <2>3. \A g \in Good : db[g] = [quantity |-> 0, reserved |-> 0, net |-> [w \in Order |-> 0]]
      BY Tables DEF Init
    <2>4. \A w \in Order : db[w] = "IN_PROGRESS"
      BY Tables DEF Init
    <2>5. db[Account] = 0
      BY Tables DEF Init
    <2>6. db[PO] = "ORDERED"
      BY GoodsReceiptAssumption DEF Init, Row
    <2> QED
      BY <2>1, <2>2, <2>3, <2>4, <2>5, <2>6
  <1>5. Counted
    <2>1. \A l \in Line : db[l] \in Nat /\ db[l] <= Ordered[l]
      BY <1>4, GoodsReceiptAssumption
    <2>2. \A g \in Good : Stocked(db[g])
      <3> SUFFICES ASSUME NEW g \in Good PROVE Stocked(db[g])
        OBVIOUS
      <3>1. \E net : db[g] = [quantity |-> 0, reserved |-> 0, net |-> net]
        BY <1>4
      <3>2. \E reserved, net : db[g] = [quantity |-> 0, reserved |-> reserved, net |-> net]
        BY <3>1
      <3> SUFFICES \E q \in Int : \E reserved, net :
                      db[g] = [quantity |-> q, reserved |-> reserved, net |-> net]
        BY DEF Stocked
      <3> WITNESS 0 \in Int
      <3> QED
        BY <3>2
    <2>3. db[PO] \in DOMAIN PO_TRANSITIONS
      BY <1>4 DEF PO_TRANSITIONS
    <2> QED
      BY <1>4, <2>1, <2>2, <2>3 DEF Counted
  <1>6. ASSUME NEW t \in Txn PROVE Sees(t)
    <2>1. /\ ~Receiving(t) /\ ~Finishing(t) /\ job[t].op \notin {"release", "receive", "transition"}
          /\ job[t].step \notin {"close", "status"} /\ PO \notin DOMAIN mine[t]
      BY <1>2 DEF Idle, Receiving, Finishing, NoRows
    <2>2. \A x \in Row : See(t)[x] = db[x]
      BY <1>2, <1>4 DEF See, Over, NoRows
    <2>3. /\ \A l \in Line : Brought(t, l) = 0
          /\ \A g \in Good : Came(t, g) = 0 /\ Went(t, g) = 0
          /\ Owed(t) = 0
      BY <2>1 DEF Brought, Came, Went, Owed, Past
    <2>4. SeesLines(t)
      BY <1>5, <2>2, <2>3, Tables DEF SeesLines, Counted
    <2>5. SeesGoods(t)
      BY <1>5, <2>2, <2>3, Tables, StockCounts DEF SeesGoods, Counted
    <2>6. SeesAccount(t) /\ SeesOrders(t)
      BY <1>5, <2>1, <2>2, <2>3, Tables DEF SeesAccount, SeesOrders, Counted
    <2>7. JobShaped(t) /\ HasRoom(t)
      BY <2>1 DEF JobShaped, HasRoom
    <2> QED
      BY <2>4, <2>5, <2>6, <2>7 DEF Sees
  <1>7. ReceiptIsBooked
    <2> USE GoodsReceiptAssumption
    <2>1. ASSUME NEW l \in Line PROVE SumFunction([k \in Key |-> receipts[k] * Body[k][l]]) = 0
      <3> DEFINE f == [k \in Key |-> receipts[k] * Body[k][l]]
      <3>1. \A k \in Key : f[k] = 0
        BY <1>2, BodyNat
      <3>2. f \in [Key -> Int]
        BY <3>1
      <3> HIDE DEF f
      <3>3. SumFunction(f) = 0
        BY <3>1, <3>2, FunctionZero
      <3> QED
        BY <3>3 DEF f
    <2>2. ASSUME NEW g \in Good PROVE Received(g) = 0 /\ WrittenOff(g) = 0
      <3> DEFINE f == [l \in Line |-> IF LineGood[l] = g THEN db[l] ELSE 0]
                 e == [w \in Order |-> IF db[w] = "COMPLETED" THEN Need[w][g] ELSE 0]
      <3>1. f \in [Line -> Int] /\ (\A l \in Line : f[l] = 0) /\ e \in [Order -> Int] /\ \A w \in Order : e[w] = 0
        BY <1>4
      <3>2. Received(g) = SumFunction(f) /\ WrittenOff(g) = SumFunction(e)
        BY DEF Received, WrittenOff
      <3> HIDE DEF f, e
      <3> QED
        BY <3>1, <3>2, FunctionZero
    <2>3. SumFunction([l \in Line |-> db[l] * Price[l]]) = 0
      <3> DEFINE f == [l \in Line |-> db[l] * Price[l]]
      <3>1. \A l \in Line : f[l] = 0
        BY <1>4
      <3>2. f \in [Line -> Int]
        BY <3>1
      <3> HIDE DEF f
      <3>3. SumFunction(f) = 0
        BY <3>1, <3>2, FunctionZero
      <3> QED
        BY <3>3 DEF f
    <2> QED
      BY <1>4, <2>1, <2>2, <2>3 DEF ReceiptIsBooked
  <1> QED
    BY <1>1, <1>3, <1>5, <1>6, <1>7 DEF BookInvariant

\* Every step keeps the books.
LEMMA BookStep == BookInvariant /\ [Next]_vars => BookInvariant'
  <1> SUFFICES ASSUME BookInvariant, [Next]_vars PROVE BookInvariant'
    OBVIOUS
  <1>1. KeyInvariant'
    BY KeyStep DEF BookInvariant
  <1>2. ASSUME NEW t \in Txn, ReceiveStep(t) PROVE BookInvariant'
    BY <1>1, <1>2, BookStartReceive, BookLockOrders, BookReceiveLines, BookPostReceipt, BookReadItems,
       BookAllocate, BookCharge, BookRereadLines, BookCloseForLists, BookSetStatus DEF ReceiveStep
  <1>3. ASSUME NEW t \in Txn, OtherStep(t) PROVE BookInvariant'
    BY <1>1, <1>3, BookStartTransition, BookStartFinish, BookReleaseStock, BookBeside, BookStartRelease,
       BookReleaseItem, BookStartUnconfirmed, BookReadUnconfirmed,
       BookReturnUnconfirmed DEF OtherStep
  <1>4. ASSUME NEW t \in Txn, Abort(t) PROVE BookInvariant'
    BY <1>1, <1>4, BookAbort
  <1>5. CASE UNCHANGED vars
    <2>1. UNCHANGED <<db, mine, job, seen, key, receipts>>
      BY <1>5 DEF vars
    <2>2. DOMAIN mine' = Txn /\ DOMAIN seen' = Txn /\ RowsApart' /\ Counted'
      BY <2>1 DEF BookInvariant, RowsApart, Counted
    <2>3. \A t \in Txn : Sees(t)'
      BY <2>1, OthersSee DEF BookInvariant
    <2>4. ReceiptIsBooked'
      <3>1. ReceiptIsBooked
        BY DEF BookInvariant
      <3> QED
        BY <2>1, <3>1 DEF ReceiptIsBooked, Received, WrittenOff
    <2> QED
      BY <1>1, <2>2, <2>3, <2>4 DEF BookInvariant
  <1> QED
    BY <1>2, <1>3, <1>4, <1>5 DEF Next

\* However receipts, closings and rollbacks race, no line receives more than was
\* ordered, and the lines, the stock and the debt to the supplier say the same.
THEOREM ReceiptsAlwaysBooked == Spec => []ReceiptIsBooked
  <1>1. BookInvariant => ReceiptIsBooked
    BY DEF BookInvariant
  <1> QED
    BY BookInit, BookStep, <1>1, PTL DEF Spec
-----------------------------------------------------------------------------
(* That a supplier order whose last line has come is closed.  A receipt reads   *)
(* the lines after it has charged for what came, and holds the account until it *)
(* commits: of two receipts that bring something the second reads what the      *)
(* first has committed.  Where nothing is paid for, nothing is held.            *)

\* There is something to receive, and whatever comes is charged.
PricedLines == Line # {} /\ \A l \in Line : Price[l] > 0

\* With what the request brings a line is still short,
Short(t) == \E l \in Line : db[l] + Brought(t, l) < Ordered[l]

\* as a receipt knows that has charged and does not call the order received.
KnowsShort(t) ==
    Receiving(t) /\ job[t].step \in {"close", "status"} /\ Owed(t) > 0 => job[t].to = "RECEIVED" \/ Short(t)
CloseInvariant == BookInvariant /\ (\A t \in Txn : KnowsShort(t)) /\ FullyReceivedIsClosed

\* Whatever comes is charged.
LEMMA WhatComesIsCharged ==
    ASSUME PricedLines, NEW k \in Key, NEW l \in Line, Body[k][l] > 0
    PROVE  Amount(k) > 0
  <1> DEFINE cost == [x \in Line |-> Body[k][x] * Price[x]]
  <1>1. \A x \in Line : cost[x] \in Nat
    <2> SUFFICES ASSUME NEW x \in Line PROVE Body[k][x] * Price[x] \in Nat
      OBVIOUS
    <2>1. Body[k][x] \in Nat /\ Price[x] \in Nat
      BY BodyNat, GoodsReceiptAssumption
    <2> QED
      BY <2>1
  <1>2. cost[l] > 0
    <2>1. Body[k][l] \in Nat /\ Price[l] \in Nat /\ Body[k][l] > 0 /\ Price[l] > 0
      BY BodyNat, GoodsReceiptAssumption DEF PricedLines
    <2>2. PICK a, b \in Nat : a = Body[k][l] /\ b = Price[l]
      BY <2>1
    <2>3. a * b > 0
      BY <2>1, <2>2
    <2> QED
      BY <2>2, <2>3
  <1>3. Amount(k) = SumFunctionOnSet(cost, Line)
    BY SumFunctionIs DEF Amount
  <1>4. IsFiniteSet(Line)
    BY GoodsReceiptAssumption
  <1> HIDE DEF cost
  <1>5. cost[l] <= SumFunctionOnSet(cost, Line) /\ SumFunctionOnSet(cost, Line) \in Nat
    BY <1>1, <1>4, SumNat
  <1> QED
    BY <1>1, <1>2, <1>3, <1>5

\* A step that commits nothing, of one request.
LEMMA CloseUncommitted ==
    ASSUME CloseInvariant, BookInvariant', db' = db, NEW t \in Txn,
           \A u \in Txn \ {t} : job'[u] = job[u], KnowsShort(t)'
    PROVE  CloseInvariant'
  <1>1. ASSUME NEW u \in Txn \ {t} PROVE KnowsShort(u)'
    <2>1. KnowsShort(u) /\ job'[u] = job[u]
      BY DEF CloseInvariant
    <2> QED
      BY <2>1 DEF KnowsShort, Short, Brought, Owed, Past, Receiving
  <1>2. FullyReceivedIsClosed'
    BY DEF CloseInvariant, FullyReceivedIsClosed, AllReceived
  <1> QED
    BY <1>1, <1>2 DEF CloseInvariant

\* Nor one that does not come to the status.
LEMMA CloseGoto ==
    ASSUME CloseInvariant, BookInvariant', db' = db, NEW t \in Txn, NEW s, Goto(t, s), s \notin {"close", "status"}
    PROVE  CloseInvariant'
  <1>1. job'[t].step = s /\ \A u \in Txn \ {t} : job'[u] = job[u]
    BY NextAwait DEF CloseInvariant, BookInvariant
  <1>2. KnowsShort(t)'
    BY <1>1 DEF KnowsShort
  <1> QED
    BY <1>1, <1>2, CloseUncommitted

\* Nor the start or the end of a request, or its rollback.
LEMMA CloseJob ==
    ASSUME CloseInvariant, BookInvariant', db' = db, NEW t \in Txn, NEW j, job' = [job EXCEPT ![t] = j],
           j.op # "receive" \/ j.step \notin {"close", "status"}
    PROVE  CloseInvariant'
  <1>1. job'[t] = j /\ \A u \in Txn \ {t} : job'[u] = job[u]
    BY NewJob DEF CloseInvariant, BookInvariant
  <1>2. KnowsShort(t)'
    BY <1>1 DEF KnowsShort, Receiving
  <1> QED
    BY <1>1, <1>2, CloseUncommitted

\* The lines are read: the order is called received if all have come.
LEMMA CloseRereadLines ==
    ASSUME CloseInvariant, BookInvariant', NEW t \in Txn, RereadLines(t)
    PROVE  CloseInvariant'
  <1> DEFINE to == StatusAfter(See(t), job[t].from)
             s == IF to \in CLOSED_FOR_LISTS THEN "close" ELSE "status"
             j == [job[t] EXCEPT !.to = to, !.step = s]
  <1>1. /\ job' = [job EXCEPT ![t] = j] /\ job[t].op = "receive" /\ job[t].step = "reread" /\ db' = db
    BY DEF RereadLines, At
  <1>2. s \in {"close", "status"}
    OBVIOUS
  <1>3. to = "RECEIVED" \/ \E l \in Line : ~(See(t)[l] >= Ordered[l])
    BY DEF StatusAfter, AllReceived
  <1>4. j.op = "receive" /\ j.arg = job[t].arg /\ j.to = to /\ j.step = s
    <2>1. PICK op, step, arg, from, old :
             job[t] = [op |-> op, step |-> step, arg |-> arg, from |-> from, to |-> old]
      BY JobIsJob DEF IsJob, CloseInvariant, BookInvariant
    <2> HIDE DEF to, s
    <2> DEFINE i == [job[t] EXCEPT !.to = to]
    <2>2. j = [i EXCEPT !.step = s]
      OBVIOUS
    <2>3. i = [op |-> op, step |-> step, arg |-> arg, from |-> from, to |-> to]
      BY <2>1
    <2> HIDE DEF i
    <2>4. j = [op |-> op, step |-> s, arg |-> arg, from |-> from, to |-> to]
      BY <2>2, <2>3
    <2> HIDE DEF j
    <2> QED
      BY <1>1, <2>1, <2>4
  <1> HIDE DEF to, s, j
  <1>5. job'[t] = j /\ \A u \in Txn \ {t} : job'[u] = job[u]
    BY <1>1, NewJob DEF CloseInvariant, BookInvariant
  <1>6. \A l \in Line : See(t)[l] = db[l] + Brought(t, l) /\ Brought(t, l) \in Nat /\ db[l] \in Nat
    BY AddsNat DEF CloseInvariant, BookInvariant, Sees, SeesLines, Counted
  <1>7. \A l \in Line : Brought(t, l)' = Brought(t, l)
    BY <1>1, <1>2, <1>4, <1>5 DEF Brought, Past, Receiving, BeforeLines
  <1>8. KnowsShort(t)'
    <2>1. CASE to = "RECEIVED"
      BY <1>4, <1>5, <2>1 DEF KnowsShort
    <2>2. CASE \E l \in Line : ~(See(t)[l] >= Ordered[l])
      <3>1. PICK l \in Line : ~(See(t)[l] >= Ordered[l])
        BY <2>2
      <3>2. Ordered[l] \in Nat
        BY GoodsReceiptAssumption
      <3>3. db'[l] + Brought(t, l)' < Ordered[l]
        BY <1>1, <1>6, <1>7, <3>1, <3>2
      <3>4. Short(t)'
        BY <3>3 DEF Short
      <3> QED
        BY <3>4 DEF KnowsShort
    <2> QED
      BY <1>3, <2>1, <2>2
  <1> QED
    BY <1>1, <1>5, <1>8, CloseUncommitted

\* Closing the items of the lists leaves what the request knows of the lines as it was.
LEMMA CloseCloseForLists ==
    ASSUME CloseInvariant, BookInvariant', NEW t \in Txn, CloseForLists(t)
    PROVE  CloseInvariant'
  <1>1. job[t].step = "close" /\ Goto(t, "status") /\ db' = db
    BY DEF CloseForLists
  <1>2. /\ job'[t].op = job[t].op /\ job'[t].arg = job[t].arg /\ job'[t].to = job[t].to
        /\ job'[t].step = "status" /\ \A u \in Txn \ {t} : job'[u] = job[u]
    BY <1>1, NextAwait DEF CloseInvariant, BookInvariant
  <1>3. (\A l \in Line : Brought(t, l)' = Brought(t, l)) /\ Owed(t)' = Owed(t)
    BY <1>1, <1>2 DEF Brought, Owed, Past, Receiving, BeforeLines, BeforeStock, BeforeCharge
  <1>4. KnowsShort(t)
    BY DEF CloseInvariant
  <1>5. KnowsShort(t)'
    BY <1>1, <1>2, <1>3, <1>4 DEF KnowsShort, Short, Receiving
  <1> QED
    BY <1>1, <1>2, <1>5, CloseUncommitted

\* What another receipt knows stays true: whoever holds the account keeps others
\* from bringing anything.
LEMMA CloseOthers ==
    ASSUME PricedLines, CloseInvariant, NEW t \in Txn, NEW rows, Commit(t, rows), Posts(t),
           ~Receiving(t) \/ job[t].step = "status", NEW u \in Txn \ {t}
    PROVE  KnowsShort(u)'
  <1>1. job'[u] = job[u]
    BY NewJob DEF Commit, CloseInvariant, BookInvariant
  <1>2. /\ \A l \in Line : Brought(u, l)' = Brought(u, l)
        /\ Owed(u)' = Owed(u) /\ (Receiving(u)' <=> Receiving(u))
    BY <1>1 DEF Brought, Owed, Past, Receiving
  <1> SUFFICES ASSUME Receiving(u), job[u].step \in {"close", "status"}, Owed(u) > 0, Short(u)
               PROVE  Short(u)'
    BY <1>1, <1>2 DEF KnowsShort, CloseInvariant
  <1>3. Account \in DOMAIN mine[u] /\ Account \notin DOMAIN mine[t]
    <2>1. SeesAccount(u) /\ RowsApart
      BY DEF CloseInvariant, BookInvariant, Sees
    <2> QED
      BY <2>1 DEF SeesAccount, RowsApart
  <1>4. Owed(t) = 0
    BY <1>3 DEF CloseInvariant, BookInvariant, Sees, SeesAccount
  <1>5. ASSUME NEW l \in Line PROVE Brought(t, l) = 0
    <2>1. CASE Receiving(t)
      <3>1. job[t].arg \in Key
        BY <2>1, ReceiptHasKey DEF Receiving, CloseInvariant
      <3>2. Owed(t) = Amount(job[t].arg) /\ Brought(t, l) = Body[job[t].arg][l]
        BY <2>1 DEF Owed, Brought, Past, BeforeLines, BeforeStock, BeforeCharge
      <3> QED
        BY <1>4, <3>1, <3>2, BodyNat, WhatComesIsCharged
    <2>2. CASE ~Receiving(t)
      BY <2>2 DEF Brought, Past
    <2> QED
      BY <2>1, <2>2
  <1>6. \A l \in Line : db'[l] = db[l]
    BY <1>5 DEF Posts, CloseInvariant, BookInvariant, Counted
  <1> QED
    BY <1>2, <1>6 DEF Short

\* A commit: nothing is left to know for the request itself.
LEMMA CloseCommitted ==
    ASSUME PricedLines, CloseInvariant, BookInvariant', NEW t \in Txn, NEW rows, Commit(t, rows), Posts(t),
           ~Receiving(t) \/ job[t].step = "status", FullyReceivedIsClosed'
    PROVE  CloseInvariant'
  <1>1. job'[t] = Idle
    BY NewJob DEF Commit, CloseInvariant, BookInvariant
  <1>2. KnowsShort(t)'
    BY <1>1 DEF KnowsShort, Idle
  <1>3. \A u \in Txn \ {t} : KnowsShort(u)'
    BY CloseOthers
  <1> QED
    BY <1>2, <1>3 DEF CloseInvariant

\* The receipt that brings the last line holds the account: what it read of the lines is what
\* it commits, so it closes the order.
LEMMA CloseSetStatus ==
    ASSUME PricedLines, CloseInvariant, BookInvariant', NEW t \in Txn, SetStatus(t)
    PROVE  CloseInvariant'
  <1>1. /\ Posts(t) /\ db'[PO] = job[t].to /\ db[PO] = job[t].from /\ job[t].from \in Receivable
        /\ \E rows : Commit(t, rows)
    BY PostsSetStatus DEF CloseInvariant
  <1>2. job[t].step = "status"
    BY DEF SetStatus
  <1>3. \A l \in Line : /\ db'[l] = db[l] + Brought(t, l) /\ Ordered[l] \in Nat
                        /\ Brought(t, l) \in Nat /\ db[l] \in Nat
    BY <1>1, AddsNat, GoodsReceiptAssumption DEF Posts, CloseInvariant, BookInvariant, Counted
  <1>4. FullyReceivedIsClosed'
    <2> SUFFICES ASSUME AllReceived(db') PROVE job[t].to = "RECEIVED"
      BY <1>1 DEF FullyReceivedIsClosed
    <2>1. ~Short(t)
      BY <1>3 DEF AllReceived, Short
    <2>2. ~(\A l \in Line : Brought(t, l) = 0)
      <3> SUFFICES ASSUME \A l \in Line : Brought(t, l) = 0 PROVE FALSE
        OBVIOUS
      <3>1. AllReceived(db)
        BY <1>3 DEF AllReceived
      <3>2. db[PO] = "RECEIVED"
        BY <3>1 DEF CloseInvariant, FullyReceivedIsClosed
      <3> QED
        BY <1>1, <3>2 DEF Receivable
    <2>3. PICK l \in Line : Brought(t, l) # 0
      BY <2>2
    <2>4. Receiving(t) /\ Brought(t, l) = Body[job[t].arg][l]
      BY <2>3 DEF Brought, Past
    <2>5. job[t].arg \in Key
      BY <2>4, ReceiptHasKey DEF Receiving, CloseInvariant
    <2>6. Owed(t) = Amount(job[t].arg)
      BY <1>2, <2>4 DEF Owed, Past, BeforeLines, BeforeStock, BeforeCharge
    <2>7. Owed(t) > 0
      BY <2>3, <2>4, <2>5, <2>6, BodyNat, WhatComesIsCharged
    <2> QED
      BY <1>2, <2>1, <2>4, <2>7 DEF CloseInvariant, KnowsShort
  <1> QED
    BY <1>1, <1>2, <1>4, CloseCommitted

\* A commit that brings nothing in leaves the lines and the supplier order as they were.
LEMMA CloseBeside ==
    ASSUME PricedLines, CloseInvariant, BookInvariant', NEW t \in Txn, PostsBeside(t)
    PROVE  CloseInvariant'
  <1>1. \A l \in Line : Brought(t, l) = 0
    BY DEF PostsBeside, Brought, Past
  <1>2. \A l \in Line : db'[l] = db[l]
    BY <1>1 DEF PostsBeside, Posts, CloseInvariant, BookInvariant, Counted
  <1>3. FullyReceivedIsClosed'
    BY <1>2 DEF PostsBeside, CloseInvariant, FullyReceivedIsClosed, AllReceived
  <1> QED
    BY <1>3, CloseCommitted DEF PostsBeside

\* No step of a receipt or of a transition leaves a full order open.
LEMMA CloseReceiveStep ==
    ASSUME PricedLines, CloseInvariant, BookInvariant', NEW t \in Txn, ReceiveStep(t)
    PROVE  CloseInvariant'
  <1>1. ASSUME NEW k \in Key, StartReceive(t, k) PROVE CloseInvariant'
    <2> DEFINE j == [op |-> "receive", step |-> "begin", arg |-> k, from |-> db[PO], to |-> db[PO]]
    <2>1. job' = [job EXCEPT ![t] = j] /\ db' = db /\ j.step = "begin"
      BY <1>1 DEF StartReceive
    <2> HIDE DEF j
    <2> QED
      BY <2>1, CloseJob
  <1>2. CASE LockOrders(t)
    BY <1>2, CloseGoto DEF LockOrders
  <1>3. CASE ReceiveLines(t)
    BY <1>3, CloseGoto DEF ReceiveLines
  <1>4. CASE PostReceipt(t)
    BY <1>4, CloseGoto DEF PostReceipt
  <1>5. CASE ReadItems(t)
    BY <1>5, CloseGoto DEF ReadItems
  <1>6. CASE Allocate(t)
    BY <1>6, CloseGoto DEF Allocate
  <1>7. CASE Charge(t)
    BY <1>7, CloseGoto DEF Charge
  <1> QED
    BY <1>1, <1>2, <1>3, <1>4, <1>5, <1>6, <1>7, CloseRereadLines, CloseCloseForLists, CloseSetStatus
       DEF ReceiveStep

\* Nor does a step of another request.
LEMMA CloseOtherStep ==
    ASSUME PricedLines, CloseInvariant, BookInvariant', KeyInvariant', NEW t \in Txn, OtherStep(t)
    PROVE  CloseInvariant'
  <1>1. ASSUME NEW to, StartTransition(t, to) PROVE CloseInvariant'
    <2> DEFINE j == [op |-> "transition", arg |-> PO, from |-> db[PO], to |-> to,
                     step |-> IF to \in CLOSED_FOR_LISTS THEN "close" ELSE "status"]
    <2>1. job' = [job EXCEPT ![t] = j] /\ db' = db /\ j.op = "transition"
      BY <1>1 DEF StartTransition
    <2> HIDE DEF j
    <2> QED
      BY <2>1, CloseJob
  <1>2. ASSUME NEW w, NEW to, StartFinish(t, w, to) PROVE CloseInvariant'
    <2> DEFINE j == [op |-> "finish", step |-> "release", arg |-> w, from |-> "IN_PROGRESS", to |-> to]
    <2>1. job' = [job EXCEPT ![t] = j] /\ db' = db /\ j.op = "finish"
      BY <1>2 DEF StartFinish
    <2> HIDE DEF j
    <2> QED
      BY <2>1, CloseJob
  <1>3. CASE ReleaseStock(t)
    BY <1>3, CloseGoto DEF ReleaseStock
  <1>4. ASSUME NEW i, StartRelease(t, i) PROVE CloseInvariant'
    <2> DEFINE j == [op |-> "release", step |-> "item", arg |-> i, from |-> "none", to |-> "none"]
    <2>1. job' = [job EXCEPT ![t] = j] /\ db' = db /\ j.op = "release"
      BY <1>4 DEF StartRelease
    <2> HIDE DEF j
    <2> QED
      BY <2>1, CloseJob
  <1>5. CASE ReleaseItem(t)
    BY <1>5, CloseGoto DEF ReleaseItem
  <1>6. CASE StartUnconfirmed(t)
    <2> DEFINE j == [op |-> "unconfirmed", step |-> "read", arg |-> PO, from |-> "none", to |-> "none"]
    <2>1. job' = [job EXCEPT ![t] = j] /\ db' = db /\ j.op = "unconfirmed"
      BY <1>6 DEF StartUnconfirmed
    <2> HIDE DEF j
    <2> QED
      BY <2>1, CloseJob
  <1>7. CASE ReadUnconfirmed(t)
    BY <1>7, CloseGoto DEF ReadUnconfirmed
  <1>8. ASSUME NEW i, NEW cut, ReturnUnconfirmed(t, i, cut) PROVE CloseInvariant'
    BY <1>8, CloseGoto DEF ReturnUnconfirmed
  <1>9. CASE CancelItems(t) \/ ReleaseMovement(t) \/ EndUnconfirmed(t)
    BY <1>9, BookBeside, CloseBeside DEF CloseInvariant
  <1> QED
    BY <1>1, <1>2, <1>3, <1>4, <1>5, <1>6, <1>7, <1>8, <1>9 DEF OtherStep

\* Where every line has a price, an order whose last line has come is RECEIVED,
\* whatever receipts brought the lines at the same time.
THEOREM FullOrdersClose ==
    ASSUME PricedLines
    PROVE  Spec => []FullyReceivedIsClosed
  <1>1. Init => CloseInvariant
    <2> SUFFICES ASSUME Init PROVE CloseInvariant
      OBVIOUS
    <2>1. BookInvariant
      BY BookInit
    <2>2. \A t \in Txn : job[t] = Idle
      BY DEF Init
    <2>3. \A t \in Txn : KnowsShort(t)
      BY <2>2 DEF KnowsShort, Idle
    <2>4. \A l \in Line : db[l] = 0 /\ Ordered[l] \in Nat \ {0}
      BY GoodsReceiptAssumption, Tables DEF Init
    <2>5. ~AllReceived(db)
      BY <2>4 DEF AllReceived, PricedLines
    <2> QED
      BY <2>1, <2>3, <2>5 DEF CloseInvariant, FullyReceivedIsClosed
  <1>2. CloseInvariant /\ [Next]_vars => CloseInvariant'
    <2> SUFFICES ASSUME CloseInvariant, [Next]_vars PROVE CloseInvariant'
      OBVIOUS
    <2>1. BookInvariant' /\ KeyInvariant'
      BY BookStep DEF CloseInvariant, BookInvariant
    <2>2. ASSUME NEW t \in Txn, ReceiveStep(t) PROVE CloseInvariant'
      BY <2>1, <2>2, CloseReceiveStep
    <2>3. ASSUME NEW t \in Txn, OtherStep(t) PROVE CloseInvariant'
      BY <2>1, <2>3, CloseOtherStep
    <2>4. ASSUME NEW t \in Txn, Abort(t) PROVE CloseInvariant'
      BY <2>1, <2>4, CloseJob DEF Abort, Idle
    <2>5. CASE UNCHANGED vars
      BY <2>1, <2>5 DEF vars, CloseInvariant, KnowsShort, Short, Brought, Owed, Past, Receiving,
                        FullyReceivedIsClosed, AllReceived
    <2> QED
      BY <2>2, <2>3, <2>4, <2>5 DEF Next
  <1>3. CloseInvariant => FullyReceivedIsClosed
    BY DEF CloseInvariant
  <1> QED
    BY <1>1, <1>2, <1>3, PTL DEF Spec
-----------------------------------------------------------------------------
(* Walks over the items, from the newest to the oldest or back. *)

\* The last of a set of numbers.
LEMMA LastIs ==
    ASSUME NEW n \in Nat, NEW s \in SUBSET (1..n), s # {}
    PROVE  Max(s) \in s /\ \A x \in s : Max(s) >= x
  <1> DEFINE G == {r \in SUBSET s : r = {} \/ \E m \in r : \A x \in r : m >= x}
  <1>2. IsFiniteSet(s)
    <2>1. IsFiniteSet(1..n)
      BY FS_Interval
    <2> QED
      BY <2>1, FS_Subset
  <1>3. {} \in G
    OBVIOUS
  <1>4. ASSUME NEW r \in G, NEW y \in s \ r PROVE r \cup {y} \in G
    <2>1. CASE r = {}
      BY <2>1
    <2>2. ASSUME NEW m \in r, \A x \in r : m >= x PROVE r \cup {y} \in G
      <3>1. CASE y >= m
        <4>1. \A x \in r \cup {y} : y >= x
          BY <2>2, <3>1
        <4> QED
          BY <4>1
      <3>2. CASE m >= y
        <4>1. \A x \in r \cup {y} : m >= x
          BY <2>2, <3>2
        <4> QED
          BY <2>2, <4>1
      <3> QED
        BY <2>2, <3>1, <3>2
    <2> QED
      BY <2>1, <2>2
  <1>5. s \in G
    <2>1. G \in SUBSET (SUBSET s)
      OBVIOUS
    <2> HIDE DEF G
    <2> QED
      BY <1>2, <1>3, <1>4, <2>1, FiniteSetInduction
  <1> QED
    BY <1>5 DEF Max

\* The walk of a fold whose steps F are known as a function on a set A.
Walks(n, base, F, h) ==
    h = [s \in SUBSET (1..n) |-> IF s = {} THEN base ELSE F[<<h[s \ {Max(s)}], Max(s)>>]]

\* There is such a walk, and it stays in A.
LEMMA WalkExists ==
    ASSUME NEW n \in Nat, NEW A, NEW base \in A, NEW F \in [A \X (1..n) -> A]
    PROVE  \E h : Walks(n, base, F, h) /\ \A s \in SUBSET (1..n) : h[s] \in A
  <1> DEFINE Next1(h, s) == IF s = {} THEN base ELSE F[<<h[s \ {Max(s)}], Max(s)>>]
             UpTo(k, h) == \A s \in SUBSET (1..n) : s \subseteq 1..k => h[s] = Next1(h, s) /\ h[s] \in A
             T == {k \in Nat : \E h : UpTo(k, h)}
  <1>1. 0 \in T
    <2>1. UpTo(0, [s \in SUBSET (1..n) |-> base])
      OBVIOUS
    <2> QED
      BY <2>1
  <1>2. ASSUME NEW k \in T PROVE k + 1 \in T
    <2>1. PICK h : UpTo(k, h)
      OBVIOUS
    <2> DEFINE g == [s \in SUBSET (1..n) |-> IF s \subseteq 1..k THEN h[s] ELSE Next1(h, s)]
    <2>2. ASSUME NEW s \in SUBSET (1..n), s \subseteq 1..(k + 1), s # {}
          PROVE  s \ {Max(s)} \in SUBSET (1..n) /\ s \ {Max(s)} \subseteq 1..k /\ Max(s) \in 1..n
      <3>1. Max(s) \in s /\ \A x \in s : Max(s) >= x
        BY <2>2, LastIs
      <3>2. \A x \in s \ {Max(s)} : x \in 1..k
        <4> SUFFICES ASSUME NEW x \in s, x # Max(s) PROVE x \in 1..k
          OBVIOUS
        <4>1. x \in 1..(k + 1) /\ Max(s) \in 1..(k + 1) /\ Max(s) >= x
          BY <2>2, <3>1
        <4> QED
          BY <4>1
      <3> QED
        BY <3>1, <3>2
    <2>3. ASSUME NEW s \in SUBSET (1..n), s \subseteq 1..(k + 1) PROVE g[s] = Next1(g, s) /\ g[s] \in A
      <3>1. CASE s = {}
        <4>1. g[s] = h[s] /\ h[s] = Next1(h, s)
          BY <2>1, <3>1
        <4> QED
          BY <3>1, <4>1
      <3>2. CASE s # {}
        <4> DEFINE r == s \ {Max(s)}
        <4>1. r \in SUBSET (1..n) /\ r \subseteq 1..k /\ Max(s) \in 1..n
          BY <2>2, <2>3, <3>2
        <4>2. g[r] = h[r] /\ h[r] \in A
          BY <2>1, <4>1
        <4>3. g[s] = Next1(h, s)
          <5>1. s \subseteq 1..k => h[s] = Next1(h, s)
            BY <2>1
          <5> HIDE DEF Next1
          <5> QED
            BY <5>1
        <4>4. Next1(h, s) = F[<<h[r], Max(s)>>] /\ Next1(g, s) = F[<<g[r], Max(s)>>]
          BY <3>2
        <4> HIDE DEF g, r, Next1
        <4> QED
          BY <4>1, <4>2, <4>3, <4>4
      <3> QED
        BY <3>1, <3>2
    <2> HIDE DEF g, Next1
    <2> QED
      BY <2>3
  <1>3. n \in T
    <2>1. T \in SUBSET Nat
      OBVIOUS
    <2> HIDE DEF T
    <2> QED
      BY <1>1, <1>2, <2>1, NatSetInduction
  <1>4. PICK h : UpTo(n, h)
    BY <1>3
  <1> DEFINE g == [s \in SUBSET (1..n) |-> h[s]]
  <1>5. ASSUME NEW s \in SUBSET (1..n) PROVE g[s] = Next1(g, s) /\ g[s] \in A
    <2>1. h[s] = Next1(h, s) /\ h[s] \in A
      BY <1>4
    <2> DEFINE r == s \ {Max(s)}
    <2>2. r \in SUBSET (1..n)
      OBVIOUS
    <2>3. g[s] = h[s] /\ g[r] = h[r]
      BY <2>2
    <2>4. Next1(h, s) = (IF s = {} THEN base ELSE F[<<h[r], Max(s)>>])
      OBVIOUS
    <2>5. Next1(g, s) = (IF s = {} THEN base ELSE F[<<g[r], Max(s)>>])
      OBVIOUS
    <2> HIDE DEF g, r, Next1
    <2> QED
      BY <2>1, <2>3, <2>4, <2>5
  <1>6. g = [s \in SUBSET (1..n) |-> Next1(g, s)]
    <2>1. \A s \in SUBSET (1..n) : g[s] = Next1(g, s)
      BY <1>5
    <2> HIDE DEF Next1
    <2> QED
      BY <2>1
  <1>7. Walks(n, base, F, g)
    BY <1>6 DEF Walks
  <1> HIDE DEF g
  <1> QED
    BY <1>5, <1>7

\* What holds at the start of a walk and is kept by each of its steps holds at its end.
LEMMA WalkEnds ==
    ASSUME NEW n \in Nat, NEW A, NEW g, g[{}] \in A,
           \A s \in SUBSET (1..n) : s # {} /\ g[s \ {Max(s)}] \in A => g[s] \in A
    PROVE  g[1..n] \in A
  <1> DEFINE T == {k \in Nat : k <= n => g[1..k] \in A}
  <1>1. 0 \in T
    <2>1. 1..0 = {}
      OBVIOUS
    <2> QED
      BY <2>1
  <1>2. ASSUME NEW k \in T PROVE k + 1 \in T
    <2> SUFFICES ASSUME k + 1 <= n PROVE g[1..(k + 1)] \in A
      OBVIOUS
    <2>0. k \in Nat
      OBVIOUS
    <2> DEFINE s == 1..(k + 1)
    <2>1. s \in SUBSET (1..n) /\ s # {} /\ k + 1 \in s
      <3>1. \A x \in 1..(k + 1) : x \in 1..n
        BY <2>0
      <3>2. k + 1 \in 1..(k + 1)
        BY <2>0
      <3> QED
        BY <3>1, <3>2
    <2>2. Max(s) = k + 1
      <3>1. Max(s) \in s /\ Max(s) >= k + 1
        BY <2>1, LastIs
      <3> HIDE DEF s
      <3>2. Max(s) \in 1..(k + 1)
        BY <3>1 DEF s
      <3> QED
        BY <3>1, <3>2
    <2>3. s \ {k + 1} = 1..k
      OBVIOUS
    <2>4. g[1..k] \in A
      OBVIOUS
    <2> HIDE DEF s
    <2>5. g[s] \in A
      BY <2>1, <2>2, <2>3, <2>4
    <2> QED
      BY <2>5 DEF s
  <1>3. T = Nat
    <2>1. T \in SUBSET Nat
      OBVIOUS
    <2> HIDE DEF T
    <2> QED
      BY <1>1, <1>2, <2>1, NatSetInduction
  <1> QED
    BY <1>3
-----------------------------------------------------------------------------
(* What the walks over the items make of the rows. *)

\* An item whose open part is cut or called off, or that shows less of a reservation.
Lowered(new, old) ==
    /\ new.received = old.received /\ new.reserved <= old.reserved
    /\ new.status = old.status \/ (old.status = "OPEN" /\ new.status = "CANCELLED")
    /\ old.status # "OPEN" => new.quantity = old.quantity

\* Rows of which only these items are lowered, and what is left to be cut from the next ones.
LoweredRows(rows, X) ==
    {r \in [DOMAIN rows -> {rows[x] : x \in DOMAIN rows} \cup ItemType] :
        /\ \A i \in X : r[i] \in ItemType /\ Lowered(r[i], rows[i])
        /\ \A x \in DOMAIN rows \ X : r[x] = rows[x]}
LoweredFrom(rows, X) == [rows: LoweredRows(rows, X), excess: Nat]

IsRows(rows) == rows = [x \in DOMAIN rows |-> rows[x]]
ItemsTyped(rows) == IsRows(rows) /\ Item \subseteq DOMAIN rows /\ \A i \in Item : rows[i] \in ItemType

\* A step of a walk that lowers one item keeps the rows lowered.
LEMMA LowersOne ==
    ASSUME NEW rows, NEW X \in SUBSET Item, ItemsTyped(rows), NEW a \in LoweredFrom(rows, X),
           NEW i \in X, NEW v \in ItemType, Lowered(v, rows[i]), NEW e \in Nat
    PROVE  [rows |-> [a.rows EXCEPT ![i] = v], excess |-> e] \in LoweredFrom(rows, X)
  <1> DEFINE r == [a.rows EXCEPT ![i] = v]
             V == {rows[x] : x \in DOMAIN rows} \cup ItemType
  <1>1. a.rows \in [DOMAIN rows -> V]
    BY DEF LoweredFrom, LoweredRows
  <1>2. i \in DOMAIN rows /\ v \in V
    BY DEF ItemsTyped
  <1>3. r \in [DOMAIN rows -> V] /\ r[i] = v /\ \A x \in DOMAIN rows : x # i => r[x] = a.rows[x]
    <2> HIDE DEF V
    <2> QED
      BY <1>1, <1>2
  <1>4. /\ \A x \in X : a.rows[x] \in ItemType /\ Lowered(a.rows[x], rows[x])
        /\ \A x \in DOMAIN rows \ X : a.rows[x] = rows[x]
        /\ X \subseteq DOMAIN rows
    BY DEF LoweredFrom, LoweredRows, ItemsTyped
  <1>5. r \in LoweredRows(rows, X)
    <2> HIDE DEF r
    <2> QED
      BY <1>3, <1>4 DEF LoweredRows
  <1> SUFFICES [rows |-> r, excess |-> e] \in LoweredFrom(rows, X)
    OBVIOUS
  <1> HIDE DEF r
  <1> QED
    BY <1>5 DEF LoweredFrom

\* The rows as they are.
LEMMA NothingLowered ==
    ASSUME NEW rows, NEW X \in SUBSET Item, ItemsTyped(rows), NEW e \in Nat
    PROVE  [rows |-> rows, excess |-> e] \in LoweredFrom(rows, X)
  <1>1. \A i \in X : rows[i] \in ItemType /\ Lowered(rows[i], rows[i])
    BY DEF Lowered, ItemsTyped, ItemType
  <1>2. rows \in [DOMAIN rows -> {rows[x] : x \in DOMAIN rows} \cup ItemType]
    BY DEF ItemsTyped, IsRows
  <1>3. rows \in LoweredRows(rows, X)
    BY <1>1, <1>2 DEF LoweredRows
  <1> QED
    BY <1>3 DEF LoweredFrom

\* Lowered rows may be lowered further.
LEMMA LoweredTwice ==
    ASSUME NEW rows, NEW X \in SUBSET Item, ItemsTyped(rows),
           NEW mid \in LoweredRows(rows, X), NEW new \in LoweredRows(mid, X)
    PROVE  new \in LoweredRows(rows, X) /\ ItemsTyped(mid)
  <1>1. /\ DOMAIN mid = DOMAIN rows /\ DOMAIN new = DOMAIN rows
        /\ IsRows(mid) /\ IsRows(new) /\ Item \subseteq DOMAIN rows
    BY DEF LoweredRows, IsRows, ItemsTyped
  <1>2. \A x \in DOMAIN rows \ X : mid[x] = rows[x] /\ new[x] = rows[x]
    BY <1>1 DEF LoweredRows
  <1>3. ASSUME NEW i \in X PROVE mid[i] \in ItemType /\ new[i] \in ItemType /\ Lowered(new[i], rows[i])
    <2>1. mid[i] \in ItemType /\ new[i] \in ItemType /\ rows[i] \in ItemType
      BY DEF LoweredRows, ItemsTyped
    <2>2. Lowered(mid[i], rows[i]) /\ Lowered(new[i], mid[i])
      BY DEF LoweredRows
    <2>3. new[i].reserved \in Nat /\ mid[i].reserved \in Nat /\ rows[i].reserved \in Nat
      BY <2>1 DEF ItemType
    <2> QED
      BY <2>1, <2>2, <2>3 DEF Lowered
  <1>4. new \in [DOMAIN rows -> {rows[x] : x \in DOMAIN rows} \cup ItemType]
    <2>1. \A x \in DOMAIN rows : new[x] \in {rows[y] : y \in DOMAIN rows} \cup ItemType
      BY <1>2, <1>3
    <2>2. new = [x \in DOMAIN rows |-> new[x]]
      BY <1>1 DEF IsRows
    <2> QED
      BY <2>1, <2>2
  <1>5. \A i \in Item : mid[i] \in ItemType
    BY <1>1, <1>2, <1>3 DEF ItemsTyped
  <1> QED
    BY <1>1, <1>2, <1>3, <1>4, <1>5 DEF LoweredRows, ItemsTyped

\* The items by age.
LEMMA AgesAre ==
    \E n \in Nat : /\ DOMAIN ByAge = 1..n /\ DOMAIN NewestFirst = 1..n
                   /\ \A j \in 1..n : ByAge[j] \in Item /\ NewestFirst[j] \in Item
  <1> DEFINE rests == [n \in DOMAIN Items |-> RestOf[Items[n]]]
  <1>1. Items \in Seq(Item)
    BY GoodsReceiptAssumption
  <1>2. rests \in Seq(Item)
    <2>1. \A n \in DOMAIN Items : Items[n] \in Item
      BY <1>1
    <2>2. \A n \in DOMAIN Items : RestOf[Items[n]] \in Item
      BY <2>1, GoodsReceiptAssumption
    <2>3. DOMAIN Items = 1..Len(Items) /\ Len(Items) \in Nat
      BY <1>1
    <2>4. rests \in [1..Len(Items) -> Item]
      BY <2>2, <2>3
    <2> HIDE DEF rests
    <2> QED
      BY <2>3, <2>4
  <1> HIDE DEF rests
  <1>3. ByAge \in Seq(Item)
    BY <1>1, <1>2 DEF ByAge, rests
  <1> DEFINE n == Len(ByAge)
  <1>4. n \in Nat /\ DOMAIN ByAge = 1..n /\ \A j \in 1..n : ByAge[j] \in Item
    BY <1>3
  <1>5. DOMAIN NewestFirst = 1..n /\ \A j \in 1..n : NewestFirst[j] = ByAge[(n - j) + 1]
    BY DEF NewestFirst, Reverse
  <1>6. \A j \in 1..n : (n - j) + 1 \in 1..n
    BY <1>4
  <1> HIDE DEF n
  <1> QED
    BY <1>4, <1>5, <1>6

\* What items show, want and lack in total.
LEMMA TotalsNat ==
    ASSUME NEW rows, ItemsTyped(rows), NEW X \in SUBSET Item
    PROVE  /\ Total(rows, X, "reserved") \in Nat /\ Total(rows, X, "quantity") \in Nat
           /\ SumFunction([i \in X |-> Undelivered(rows[i])]) \in Nat
  <1> DEFINE a == [i \in X |-> rows[i]["reserved"]]
             b == [i \in X |-> rows[i]["quantity"]]
             c == [i \in X |-> Undelivered(rows[i])]
  <1>1. IsFiniteSet(X)
    BY FS_Subset, GoodsReceiptAssumption
  <1>2. ASSUME NEW i \in X PROVE a[i] \in Nat /\ b[i] \in Nat /\ c[i] \in Nat
    <2>1. rows[i] \in ItemType
      BY DEF ItemsTyped
    <2>2. rows[i].reserved \in Nat /\ rows[i].quantity \in Nat /\ rows[i].received \in Nat
      BY <2>1 DEF ItemType
    <2> QED
      BY <2>1, <2>2 DEF Undelivered, Less, ItemType
  <1>3. SumFunction(a) = SumFunctionOnSet(a, X) /\ SumFunction(b) = SumFunctionOnSet(b, X)
        /\ SumFunction(c) = SumFunctionOnSet(c, X)
    BY SumFunctionIs
  <1>4. Total(rows, X, "reserved") = SumFunction(a) /\ Total(rows, X, "quantity") = SumFunction(b)
    BY DEF Total
  <1> HIDE DEF a, b
  <1> SUFFICES SumFunction(c) \in Nat /\ SumFunction(a) \in Nat /\ SumFunction(b) \in Nat
    BY <1>4
  <1> HIDE DEF c
  <1> QED
    BY <1>1, <1>2, <1>3, SumNat

\* capReserved lowers what the items of the order show of the good, and nothing else.
LEMMA CapLowers ==
    ASSUME NEW rows, NEW w, NEW g, ItemsTyped(rows), rows[g].net[w] \in Nat
    PROVE  CapReserved(rows, w, g) \in LoweredRows(rows, OfOrder(w, g))
  <1> DEFINE items == OfOrder(w, g)
             Cut(acc, i) ==
                 LET cut == Min2(acc.rows[i].reserved, acc.excess)
                 IN IF i \notin items THEN acc
                    ELSE [rows |-> [acc.rows EXCEPT ![i].reserved = @ - cut], excess |-> acc.excess - cut]
             base == [rows |-> rows, excess |-> Less(Total(rows, items, "reserved"), rows[g].net[w])]
             A == LoweredFrom(rows, items)
             Walk(h) == h = [s \in SUBSET DOMAIN NewestFirst |->
                                IF s = {} THEN base ELSE Cut(h[s \ {Max(s)}], NewestFirst[Max(s)])]
  <1>1. CapReserved(rows, w, g) = (CHOOSE h : Walk(h))[DOMAIN NewestFirst].rows
    BY DEF CapReserved, FoldLeft, MapThenFoldSet
  <1>2. items \in SUBSET Item
    BY DEF OfOrder
  <1>3. base \in A
    <2>1. Total(rows, items, "reserved") \in Nat
      BY <1>2, TotalsNat
    <2>2. Less(Total(rows, items, "reserved"), rows[g].net[w]) \in Nat
      <3> HIDE DEF items
      <3> QED
        BY <2>1 DEF Less
    <2> QED
      BY <1>2, <2>2, NothingLowered
  <1>4. ASSUME NEW a \in A, NEW i \in Item PROVE Cut(a, i) \in A
    <2>1. CASE i \notin items
      BY <2>1
    <2>2. CASE i \in items
      <3> DEFINE c == Min2(a.rows[i].reserved, a.excess)
                 v == [a.rows[i] EXCEPT !.reserved = @ - c]
      <3>1. /\ a.rows[i] \in ItemType /\ Lowered(a.rows[i], rows[i]) /\ a.excess \in Nat
            /\ i \in DOMAIN a.rows
        BY <1>2, <2>2 DEF LoweredFrom, LoweredRows, ItemsTyped
      <3>2. rows[i] \in ItemType
        BY <1>2, <2>2 DEF ItemsTyped
      <3>3. c \in Nat /\ a.excess - c \in Nat /\ a.rows[i].reserved - c \in Nat
            /\ a.rows[i].reserved - c <= a.rows[i].reserved
        BY <3>1 DEF Min2, ItemType
      <3>4. v \in ItemType /\ v.reserved <= a.rows[i].reserved /\ v.received = a.rows[i].received
            /\ v.status = a.rows[i].status /\ v.quantity = a.rows[i].quantity
        <4> HIDE DEF c
        <4> QED
          BY <3>1, <3>3 DEF ItemType
      <3>5. Lowered(v, rows[i])
        <4> HIDE DEF v
        <4> QED
          BY <3>1, <3>2, <3>4 DEF Lowered, ItemType
      <3>6. Cut(a, i) = [rows |-> [a.rows EXCEPT ![i] = v], excess |-> a.excess - c]
        BY <2>2, <3>1
      <3> HIDE DEF v, c, A
      <3> QED
        BY <1>2, <2>2, <3>3, <3>4, <3>5, <3>6, LowersOne DEF A
    <2> QED
      BY <2>1, <2>2
  <1> HIDE DEF A, base, Cut
  <1>5. PICK n \in Nat : DOMAIN NewestFirst = 1..n /\ \A j \in 1..n : NewestFirst[j] \in Item
    BY AgesAre
  <1> DEFINE F == [p \in A \X (1..n) |-> Cut(p[1], NewestFirst[p[2]])]
  <1>6. F \in [A \X (1..n) -> A]
    BY <1>4, <1>5
  <1>7. ASSUME NEW a \in A, NEW j \in 1..n PROVE F[<<a, j>>] = Cut(a, NewestFirst[j])
    OBVIOUS
  <1> HIDE DEF F
  <1>8. PICK h : Walks(n, base, F, h) /\ \A s \in SUBSET (1..n) : h[s] \in A
    BY <1>3, <1>6, WalkExists
  <1>9. Walk(h)
    <2>1. ASSUME NEW s \in SUBSET (1..n), s # {}
          PROVE  F[<<h[s \ {Max(s)}], Max(s)>>] = Cut(h[s \ {Max(s)}], NewestFirst[Max(s)])
      <3>1. Max(s) \in 1..n /\ s \ {Max(s)} \in SUBSET (1..n)
        BY <2>1, LastIs
      <3> QED
        BY <1>7, <1>8, <3>1
    <2> QED
      BY <1>5, <1>8, <2>1 DEF Walks
  <1> DEFINE r == CHOOSE x : Walk(x)
  <1>10. Walk(r)
    BY <1>9
  <1> HIDE DEF r
  <1>11. r[{}] \in A
    BY <1>3, <1>10
  <1>12. ASSUME NEW s \in SUBSET (1..n), s # {}, r[s \ {Max(s)}] \in A PROVE r[s] \in A
    <2>1. r[s] = Cut(r[s \ {Max(s)}], NewestFirst[Max(s)])
      BY <1>5, <1>10, <1>12
    <2>2. Max(s) \in 1..n
      BY <1>12, LastIs
    <2> QED
      BY <1>4, <1>5, <1>12, <2>1, <2>2
  <1>13. r[1..n] \in A
    BY <1>11, <1>12, WalkEnds
  <1> QED
    BY <1>1, <1>5, <1>13 DEF r, A, LoweredFrom

\* onWorkOrderPartsChanged lowers the items of the order and the good.
LEMMA TrimLowers ==
    ASSUME NEW rows, NEW w, NEW g, ItemsTyped(rows), rows[g].net[w] \in Nat, g \in DOMAIN rows \ Item,
           Need[w][g] \in Nat
    PROVE  TrimToNeed(rows, w, g) \in LoweredRows(rows, OfOrder(w, g))
  <1> DEFINE capped == CapReserved(rows, w, g)
             items == OfOrder(w, g)
             open == items \cap WithStatus(capped, "OPEN")
             ordered == items \cap WithStatus(capped, "ORDERED")
             covered == capped[g].net[w] + Total(capped, open, "quantity")
                                         + SumFunction([i \in ordered |-> Undelivered(capped[i])])
             Cut(acc, i) ==
                 LET q == acc.rows[i].quantity
                 IN CASE i \notin open -> acc
                      [] i \in open /\ q <= acc.excess ->
                            [rows |-> [acc.rows EXCEPT ![i].status = "CANCELLED"], excess |-> acc.excess - q]
                      [] OTHER -> [rows |-> [acc.rows EXCEPT ![i].quantity = q - acc.excess], excess |-> 0]
             base == [rows |-> capped, excess |-> Less(covered, Need[w][g])]
             A == LoweredFrom(capped, items)
             Walk(h) == h = [s \in SUBSET DOMAIN NewestFirst |->
                                IF s = {} THEN base ELSE Cut(h[s \ {Max(s)}], NewestFirst[Max(s)])]
  <1>1. TrimToNeed(rows, w, g) = (CHOOSE h : Walk(h))[DOMAIN NewestFirst].rows
    BY DEF TrimToNeed, FoldLeft, MapThenFoldSet
  <1>2. items \in SUBSET Item
    BY DEF OfOrder
  <1>14. capped \in LoweredRows(rows, items)
    BY CapLowers
  <1>15. ItemsTyped(capped)
    <2> HIDE DEF capped, items
    <2>1. capped \in LoweredRows(capped, items)
      <3>1. /\ DOMAIN capped = DOMAIN rows /\ IsRows(capped)
            /\ \A i \in items : capped[i] \in ItemType
        BY <1>14 DEF LoweredRows, IsRows
      <3>2. \A i \in items : Lowered(capped[i], capped[i])
        BY <3>1 DEF Lowered, ItemType
      <3>3. capped \in [DOMAIN capped -> {capped[x] : x \in DOMAIN capped} \cup ItemType]
        BY <3>1 DEF IsRows
      <3> QED
        BY <3>1, <3>2, <3>3 DEF LoweredRows
    <2> QED
      BY <1>2, <1>14, <2>1, LoweredTwice
  <1>3. base \in A
    <2>1. capped[g] = rows[g]
      <3> HIDE DEF capped, items
      <3> QED
        BY <1>2, <1>14 DEF LoweredRows
    <2>2. Total(capped, open, "quantity") \in Nat /\ SumFunction([i \in ordered |-> Undelivered(capped[i])]) \in Nat
      <3>1. open \in SUBSET Item /\ ordered \in SUBSET Item
        BY <1>2
      <3> HIDE DEF capped, open, ordered
      <3> QED
        BY <1>15, <3>1, TotalsNat
    <2>3. covered \in Nat
      <3> HIDE DEF capped, open, ordered
      <3> QED
        BY <2>1, <2>2
    <2>4. Less(covered, Need[w][g]) \in Nat
      <3> HIDE DEF covered
      <3> QED
        BY <2>3 DEF Less
    <2> HIDE DEF capped, items, covered
    <2> QED
      BY <1>2, <1>15, <2>4, NothingLowered
  <1>4. ASSUME NEW a \in A, NEW i \in Item PROVE Cut(a, i) \in A
    <2> DEFINE q == a.rows[i].quantity
    <2>1. CASE i \notin open
      BY <2>1
    <2>2. CASE i \in open
      <3>0. i \in items /\ capped[i].status = "OPEN" /\ capped[i] \in ItemType
        BY <1>2, <1>15, <2>2 DEF WithStatus, ItemsTyped
      <3> HIDE DEF capped, items
      <3>1. /\ a.rows[i] \in ItemType /\ Lowered(a.rows[i], capped[i]) /\ a.excess \in Nat
            /\ i \in DOMAIN a.rows
        BY <1>2, <1>15, <3>0 DEF LoweredFrom, LoweredRows, ItemsTyped
      <3>2. q \in Nat
        BY <3>1 DEF ItemType
      <3> HIDE DEF open
      <3>3. CASE q <= a.excess
        <4> DEFINE v == [a.rows[i] EXCEPT !.status = "CANCELLED"]
        <4>1. v \in ItemType /\ v.reserved = a.rows[i].reserved /\ v.received = a.rows[i].received
              /\ v.status = "CANCELLED"
          BY <3>1 DEF ItemType
        <4>2. Lowered(v, capped[i])
          <5> HIDE DEF v
          <5> QED
            BY <3>0, <3>1, <4>1 DEF Lowered
        <4>3. Cut(a, i) = [rows |-> [a.rows EXCEPT ![i] = v], excess |-> a.excess - q]
          BY <2>2, <3>1, <3>3
        <4>4. a.excess - q \in Nat
          BY <3>1, <3>2, <3>3
        <4> HIDE DEF v, A, Cut
        <4> QED
          BY <1>2, <1>15, <3>0, <4>1, <4>2, <4>3, <4>4, LowersOne DEF A
      <3>4. CASE ~(q <= a.excess)
        <4> DEFINE v == [a.rows[i] EXCEPT !.quantity = q - a.excess]
        <4>0. q - a.excess \in Nat
          BY <3>1, <3>2, <3>4
        <4>1. v \in ItemType /\ v.reserved = a.rows[i].reserved /\ v.received = a.rows[i].received
              /\ v.status = a.rows[i].status
          BY <3>1, <4>0 DEF ItemType
        <4>2. Lowered(v, capped[i])
          <5> HIDE DEF v
          <5> QED
            BY <3>0, <3>1, <4>1 DEF Lowered
        <4>3. Cut(a, i) = [rows |-> [a.rows EXCEPT ![i] = v], excess |-> 0]
          BY <2>2, <3>1, <3>4
        <4> HIDE DEF v, A, Cut
        <4> QED
          BY <1>2, <1>15, <3>0, <4>1, <4>2, <4>3, LowersOne DEF A
      <3> QED
        BY <3>3, <3>4
    <2> QED
      BY <2>1, <2>2
  <1> HIDE DEF A, base, Cut, capped, items
  <1>5. PICK n \in Nat : DOMAIN NewestFirst = 1..n /\ \A j \in 1..n : NewestFirst[j] \in Item
    BY AgesAre
  <1> DEFINE F == [p \in A \X (1..n) |-> Cut(p[1], NewestFirst[p[2]])]
  <1>6. F \in [A \X (1..n) -> A]
    BY <1>4, <1>5
  <1>7. ASSUME NEW a \in A, NEW j \in 1..n PROVE F[<<a, j>>] = Cut(a, NewestFirst[j])
    OBVIOUS
  <1> HIDE DEF F
  <1>8. PICK h : Walks(n, base, F, h) /\ \A s \in SUBSET (1..n) : h[s] \in A
    BY <1>3, <1>6, WalkExists
  <1>9. Walk(h)
    <2>1. ASSUME NEW s \in SUBSET (1..n), s # {}
          PROVE  F[<<h[s \ {Max(s)}], Max(s)>>] = Cut(h[s \ {Max(s)}], NewestFirst[Max(s)])
      <3>1. Max(s) \in 1..n /\ s \ {Max(s)} \in SUBSET (1..n)
        BY <2>1, LastIs
      <3> QED
        BY <1>7, <1>8, <3>1
    <2> QED
      BY <1>5, <1>8, <2>1 DEF Walks
  <1> DEFINE r == CHOOSE x : Walk(x)
  <1>10. Walk(r)
    BY <1>9
  <1> HIDE DEF r
  <1>11. r[{}] \in A
    BY <1>3, <1>10
  <1>12. ASSUME NEW s \in SUBSET (1..n), s # {}, r[s \ {Max(s)}] \in A PROVE r[s] \in A
    <2>1. r[s] = Cut(r[s \ {Max(s)}], NewestFirst[Max(s)])
      BY <1>5, <1>10, <1>12
    <2>2. Max(s) \in 1..n
      BY <1>12, LastIs
    <2> QED
      BY <1>4, <1>5, <1>12, <2>1, <2>2
  <1>13. r[1..n] \in A
    BY <1>11, <1>12, WalkEnds
  <1>16. TrimToNeed(rows, w, g) \in LoweredRows(capped, items)
    BY <1>1, <1>5, <1>13 DEF r, A, LoweredFrom
  <1> QED
    BY <1>2, <1>14, <1>16, LoweredTwice DEF items
-----------------------------------------------------------------------------
(* Items that return to their lists. *)

\* Rows of which some items are written; none of them is ordered that was not before, or,
\* of those that changed, is none of X.
ReturnedRows(rows, X) ==
    {r \in [DOMAIN rows -> {rows[x] : x \in DOMAIN rows} \cup ItemType] :
        \A x \in DOMAIN rows :
            \/ r[x] = rows[x]
            \/ x \in Item /\ r[x] \in ItemType /\ (r[x].status = "ORDERED" => x \in X /\ rows[x].status = "ORDERED")}

\* returnToList, of one item that wants at least as much.
LEMMA ReturnsOne ==
    ASSUME NEW rows, ItemsTyped(rows), NEW i \in Item, NEW rest \in Nat, rest <= rows[i].quantity
    PROVE  Returned(rows, i, rest) \in ReturnedRows(rows, {i})
  <1> DEFINE status == IF ItemOrder[i] \in Active(rows) \cup {NoOrder} THEN "OPEN" ELSE "CANCELLED"
             V == {rows[x] : x \in DOMAIN rows} \cup ItemType
  <1>1. /\ rows[i] \in ItemType /\ status \in {"OPEN", "CANCELLED"} /\ i \in DOMAIN rows
        /\ RestOf[i] \in Item /\ RestOf[i] \in DOMAIN rows
    BY GoodsReceiptAssumption DEF ItemsTyped
  <1>2. /\ rows[i].quantity \in Nat /\ rows[i].received \in Nat /\ rows[i].reserved \in Nat
        /\ DOMAIN rows[i] = {"status", "quantity", "received", "reserved"}
    BY <1>1 DEF ItemType
  <1>3. Returned(rows, i, rest) = CASE rest = 0 -> [rows EXCEPT ![i].status = "RECEIVED"]
                                    [] rest > 0 /\ rest = rows[i].quantity ->
                                           [rows EXCEPT ![i].status = status]
                                    [] OTHER -> SplitOff(rows, i, rest, status)
    BY DEF Returned
  <1> HIDE DEF status
  <1>4. ASSUME NEW v \in ItemType, v.status # "ORDERED" PROVE [rows EXCEPT ![i] = v] \in ReturnedRows(rows, {i})
    <2> DEFINE r == [rows EXCEPT ![i] = v]
    <2>1. /\ DOMAIN r = DOMAIN rows /\ r[i] = v /\ \A x \in DOMAIN rows \ {i} : r[x] = rows[x]
          /\ IsRows(r)
      BY <1>1 DEF ItemsTyped, IsRows
    <2> SUFFICES r \in ReturnedRows(rows, {i})
      OBVIOUS
    <2> HIDE DEF r
    <2>2. \A x \in DOMAIN rows : r[x] \in V
      BY <2>1, <1>4
    <2>3. r \in [DOMAIN rows -> V]
      BY <2>1, <2>2 DEF IsRows
    <2> QED
      BY <1>4, <2>1, <2>3 DEF ReturnedRows
  <1>5. CASE rest = 0
    <2>1. [rows[i] EXCEPT !.status = "RECEIVED"] \in ItemType /\ [rows[i] EXCEPT !.status = "RECEIVED"].status = "RECEIVED"
      BY <1>1 DEF ItemType
    <2>2. Returned(rows, i, rest) = [rows EXCEPT ![i] = [rows[i] EXCEPT !.status = "RECEIVED"]]
      BY <1>3, <1>5
    <2> QED
      BY <1>4, <2>1, <2>2
  <1>6. CASE rest > 0 /\ rest = rows[i].quantity
    <2>1. [rows[i] EXCEPT !.status = status] \in ItemType /\ [rows[i] EXCEPT !.status = status].status = status
      BY <1>1 DEF ItemType
    <2>2. Returned(rows, i, rest) = [rows EXCEPT ![i] = [rows[i] EXCEPT !.status = status]]
      BY <1>3, <1>6
    <2> QED
      BY <1>1, <1>4, <2>1, <2>2
  <1>7. CASE rest > 0 /\ rest # rows[i].quantity
    <2> DEFINE keep == rows[i].quantity - rest
               v == [rows[i] EXCEPT !.quantity = keep,
                                    !.status = IF keep <= rows[i].received THEN "RECEIVED" ELSE @]
               u == NewItem(status, rest)
               r == [rows EXCEPT ![RestOf[i]] = u, ![i] = v]
    <2>1. Returned(rows, i, rest) = r
      BY <1>3, <1>7 DEF SplitOff
    <2>2. keep \in Nat
      BY <1>2
    <2>3. v \in ItemType /\ (v.status = "ORDERED" => rows[i].status = "ORDERED")
      <3> HIDE DEF keep
      <3> QED
        BY <1>1, <2>2 DEF ItemType
    <2>4. u \in ItemType /\ u.status # "ORDERED"
      BY <1>1 DEF NewItem, ItemType
    <2>5. /\ DOMAIN r = DOMAIN rows /\ r[i] = v /\ (RestOf[i] # i => r[RestOf[i]] = u)
          /\ \A x \in DOMAIN rows \ {i, RestOf[i]} : r[x] = rows[x]
          /\ IsRows(r)
      <3> HIDE DEF v, u
      <3> QED
        BY <1>1 DEF ItemsTyped, IsRows
    <2> HIDE DEF r, v, u
    <2>6. \A x \in DOMAIN rows : r[x] \in V
      BY <2>3, <2>4, <2>5
    <2>7. r \in [DOMAIN rows -> V]
      BY <2>5, <2>6 DEF IsRows
    <2> QED
      BY <1>1, <2>1, <2>3, <2>4, <2>5, <2>7 DEF ReturnedRows
  <1> QED
    BY <1>5, <1>6, <1>7

\* Items return one after the other.
LEMMA ReturnedTwice ==
    ASSUME NEW rows, ItemsTyped(rows), NEW X, NEW mid \in ReturnedRows(rows, X)
    PROVE  ItemsTyped(mid) /\ \A i \in X : ReturnedRows(mid, {i}) \subseteq ReturnedRows(rows, X)
  <1>1. DOMAIN mid = DOMAIN rows /\ IsRows(mid) /\ \A i \in Item : mid[i] \in ItemType
    BY DEF ReturnedRows, IsRows, ItemsTyped
  <1>2. ItemsTyped(mid)
    BY <1>1 DEF ItemsTyped
  <1>3. ASSUME NEW i \in X, NEW new \in ReturnedRows(mid, {i}) PROVE new \in ReturnedRows(rows, X)
    <2>1. ASSUME NEW x \in DOMAIN rows
          PROVE  \/ new[x] = rows[x]
                 \/ x \in Item /\ new[x] \in ItemType /\ (new[x].status = "ORDERED" => x \in X /\ rows[x].status = "ORDERED")
      <3>1. \/ new[x] = mid[x]
            \/ x \in Item /\ new[x] \in ItemType /\ (new[x].status = "ORDERED" => x = i /\ mid[x].status = "ORDERED")
        BY <1>1, <1>3 DEF ReturnedRows
      <3>2. \/ mid[x] = rows[x]
            \/ x \in Item /\ mid[x] \in ItemType /\ (mid[x].status = "ORDERED" => x \in X /\ rows[x].status = "ORDERED")
        BY DEF ReturnedRows
      <3> QED
        BY <1>3, <3>1, <3>2
    <2>2. new = [x \in DOMAIN rows |-> new[x]]
      BY <1>1, <1>3 DEF ReturnedRows
    <2>3. new \in [DOMAIN rows -> {rows[x] : x \in DOMAIN rows} \cup ItemType]
      <3>1. \A x \in DOMAIN rows : new[x] \in {rows[y] : y \in DOMAIN rows} \cup ItemType
        BY <2>1
      <3> QED
        BY <2>2, <3>1
    <2> QED
      BY <2>1, <2>3 DEF ReturnedRows
  <1> QED
    BY <1>2, <1>3

\* The closing of the order returns the items it read as ordered.
LEMMA CloseReturns ==
    ASSUME NEW rows, ItemsTyped(rows), NEW X \in SUBSET Item
    PROVE  LET Return(r, i) == IF i \in X THEN Returned(r, i, Undelivered(r[i])) ELSE r
           IN FoldLeft(Return, rows, ByAge) \in ReturnedRows(rows, X)
  <1> DEFINE Cut(r, i) == IF i \in X THEN Returned(r, i, Undelivered(r[i])) ELSE r
             base == rows
             A == ReturnedRows(rows, X)
             Walk(h) == h = [s \in SUBSET DOMAIN ByAge |->
                                IF s = {} THEN base ELSE Cut(h[s \ {Max(s)}], ByAge[Max(s)])]
  <1> SUFFICES FoldLeft(Cut, rows, ByAge) \in ReturnedRows(rows, X)
    OBVIOUS
  <1>1. FoldLeft(Cut, rows, ByAge) = (CHOOSE h : Walk(h))[DOMAIN ByAge]
    BY DEF FoldLeft, MapThenFoldSet
  <1>3. base \in A
    BY DEF ReturnedRows, ItemsTyped, IsRows
  <1>4. ASSUME NEW a \in A, NEW i \in Item PROVE Cut(a, i) \in A
    <2>1. CASE i \in X
      <3>1. ItemsTyped(a) /\ ReturnedRows(a, {i}) \subseteq A
        BY <2>1, ReturnedTwice
      <3>2. a[i] \in ItemType
        BY <3>1 DEF ItemsTyped
      <3>3. Undelivered(a[i]) \in Nat /\ Undelivered(a[i]) <= a[i].quantity
        <4>1. a[i].quantity \in Nat /\ a[i].received \in Nat
          BY <3>2 DEF ItemType
        <4> QED
          BY <4>1 DEF Undelivered, Less
      <3>4. Returned(a, i, Undelivered(a[i])) \in ReturnedRows(a, {i})
        BY <3>1, <3>3, ReturnsOne
      <3> QED
        BY <2>1, <3>1, <3>4
    <2> QED
      BY <2>1
  <1> HIDE DEF A, base, Cut
  <1>5. PICK n \in Nat : DOMAIN ByAge = 1..n /\ \A j \in 1..n : ByAge[j] \in Item
    BY AgesAre
  <1> DEFINE F == [p \in A \X (1..n) |-> Cut(p[1], ByAge[p[2]])]
  <1>6. F \in [A \X (1..n) -> A]
    BY <1>4, <1>5
  <1>7. ASSUME NEW a \in A, NEW j \in 1..n PROVE F[<<a, j>>] = Cut(a, ByAge[j])
    OBVIOUS
  <1> HIDE DEF F
  <1>8. PICK h : Walks(n, base, F, h) /\ \A s \in SUBSET (1..n) : h[s] \in A
    BY <1>3, <1>6, WalkExists
  <1>9. Walk(h)
    <2>1. ASSUME NEW s \in SUBSET (1..n), s # {}
          PROVE  F[<<h[s \ {Max(s)}], Max(s)>>] = Cut(h[s \ {Max(s)}], ByAge[Max(s)])
      <3>1. Max(s) \in 1..n /\ s \ {Max(s)} \in SUBSET (1..n)
        BY <2>1, LastIs
      <3> QED
        BY <1>7, <1>8, <3>1
    <2> QED
      BY <1>5, <1>8, <2>1 DEF Walks
  <1> DEFINE r == CHOOSE x : Walk(x)
  <1>10. Walk(r)
    BY <1>9
  <1> HIDE DEF r
  <1>11. r[{}] \in A
    BY <1>3, <1>10
  <1>12. ASSUME NEW s \in SUBSET (1..n), s # {}, r[s \ {Max(s)}] \in A PROVE r[s] \in A
    <2>1. r[s] = Cut(r[s \ {Max(s)}], ByAge[Max(s)])
      BY <1>5, <1>10, <1>12
    <2>2. Max(s) \in 1..n
      BY <1>12, LastIs
    <2> QED
      BY <1>4, <1>5, <1>12, <2>1, <2>2
  <1>13. r[1..n] \in A
    BY <1>11, <1>12, WalkEnds
  <1> QED
    BY <1>1, <1>5, <1>13 DEF r, A
-----------------------------------------------------------------------------
(* ReservedIsBacked: what the versions of the rows are, and what a transaction *)
(* has made of the reservations.                                               *)

\* A row of the stock, and of each table.
SoundStock(g, v) ==
    /\ v \in StockType /\ v.reserved <= v.quantity
    /\ v.reserved = SumFunction([w \in Order |-> v.net[w]])
    /\ \A w \in Order : v.net[w] <= Need[w][g]
SoundRow(x, v) ==
    /\ x \in Line => v \in Nat
    /\ x \in Good => SoundStock(x, v)
    /\ x \in Item => v \in ItemType
    /\ x \in Order => v \in {"IN_PROGRESS", "COMPLETED", "CANCELLED"}
    /\ x = PO => v \in DOMAIN PO_TRANSITIONS
    /\ x = Account => v \in Nat
Sound(rows) == DOMAIN rows \subseteq Row /\ \A x \in DOMAIN rows : SoundRow(x, rows[x])
Versions ==
    /\ DOMAIN db = Row /\ Sound(db)
    /\ \A t \in Txn : Sound(mine[t]) /\ Sound(seen[t]) /\ IsRows(seen[t])

\* What is committed of the reservations.
FreeWhenClosed == \A w \in Order, g \in Good : db[w] # "IN_PROGRESS" => db[g].net[w] = 0
ShownIsHeld ==
    \A w \in Order, g \in Good : db[w] # "COMPLETED" => Total(db, OfOrder(w, g), "reserved") <= db[g].net[w]

\* What a transaction has reserved for an order, what the items show more of it, and
\* what it is about to release of what an item has shown.
Moved(t, w, g) == See(t)[g].net[w] - db[g].net[w]
Extra(new, old, X) == SumFunction([i \in X |-> new[i].reserved - old[i].reserved])
Lent(t, w, g) == Extra(See(t), db, OfOrder(w, g))
Due(t) == seen[t][job[t].arg].reserved - See(t)[job[t].arg].reserved
Pending(t, w, g) == IF At(t, "release", "movement") /\ job[t].arg \in OfOrder(w, g) THEN Due(t) ELSE 0

\* It reserves for orders it holds, no less than the items show; for none that is
\* closed; and it orders no item.
MovesOwn(t) == \A w \in Order, g \in Good : Moved(t, w, g) # 0 => w \in DOMAIN mine[t]
LendsBacked(t) ==
    \A w \in Order, g \in Good :
        ~(Finishing(t) /\ w = job[t].arg) => Lent(t, w, g) + Pending(t, w, g) <= Moved(t, w, g)
ClosedFree(t) ==
    \A w \in Order, g \in Good :
        db[w] # "IN_PROGRESS" \/ (At(t, "finish", "items") /\ w = job[t].arg) => See(t)[g].net[w] = 0
OrdersNone(t) == \A i \in Item : See(t)[i].status = "ORDERED" => db[i].status = "ORDERED"
Backs(t) == MovesOwn(t) /\ LendsBacked(t) /\ ClosedFree(t) /\ OrdersNone(t)

\* The orders whose items a receipt may give its goods to.
Wanting(k, rows) ==
    {ItemOrder[i] : i \in {j \in WithStatus(rows, "ORDERED") : ItemGood[j] \in GoodsOf(k)}} \ {NoOrder}

\* What it holds and knows at its place.
HoldsOrders(t) ==
    Receiving(t) /\ job[t].step \in {"lines", "stock", "items", "allocate"} =>
        Wanting(job[t].arg, See(t)) \subseteq DOMAIN mine[t]
HoldsGoods(t) ==
    Receiving(t) /\ job[t].step \in {"items", "allocate"} => GoodsOf(job[t].arg) \subseteq DOMAIN mine[t]
KnowsFree(t) ==
    At(t, "receive", "allocate") =>
        /\ DOMAIN seen[t] = Item \cup Order \cup GoodsOf(job[t].arg)
        /\ Wanting(job[t].arg, seen[t]) \subseteq DOMAIN mine[t]
        /\ \A x \in GoodsOf(job[t].arg) \cup (Order \cap DOMAIN mine[t]) : seen[t][x] = See(t)[x]
KnowsItems(t) == job[t].step \in {"close", "return"} => Item \subseteq DOMAIN seen[t]
KnowsDue(t) ==
    job[t].op = "release" =>
        /\ job[t].step \in {"item", "movement"} /\ job[t].arg \in DOMAIN seen[t]
        /\ job[t].step = "movement" =>
              /\ {job[t].arg, ItemOrder[job[t].arg]} \subseteq DOMAIN mine[t]
              /\ 0 < Due(t) /\ Due(t) <= See(t)[ItemGood[job[t].arg]].net[ItemOrder[job[t].arg]]
InPlace(t) == HoldsOrders(t) /\ HoldsGoods(t) /\ KnowsFree(t) /\ KnowsItems(t) /\ KnowsDue(t)

BackedInvariant ==
    /\ BookInvariant /\ Versions /\ FreeWhenClosed /\ ShownIsHeld
    /\ \A t \in Txn : Backs(t) /\ InPlace(t)

\* Every version that is seen is sound.
LEMMA SeesSound ==
    ASSUME Versions, NEW t \in Txn, NEW x \in Row
    PROVE  SoundRow(x, See(t)[x]) /\ SoundRow(x, db[x])
  <1>1. See(t)[x] = IF x \in DOMAIN mine[t] THEN mine[t][x] ELSE db[x]
    BY SeesRow DEF Versions
  <1> QED
    BY <1>1 DEF Versions, Sound

\* What is seen of goods and items.
LEMMA SeesTyped ==
    ASSUME Versions, NEW t \in Txn
    PROVE  /\ \A g \in Good : SoundStock(g, See(t)[g]) /\ SoundStock(g, db[g])
           /\ \A i \in Item : See(t)[i] \in ItemType /\ db[i] \in ItemType
           /\ DOMAIN See(t) = Row
  <1>1. \A g \in Good : SoundStock(g, See(t)[g]) /\ SoundStock(g, db[g])
    BY SeesSound, Tables DEF SoundRow
  <1>2. \A i \in Item : See(t)[i] \in ItemType /\ db[i] \in ItemType
    BY SeesSound, Tables DEF SoundRow
  <1>3. DOMAIN See(t) = Row
    <2>1. DOMAIN mine[t] \subseteq Row /\ DOMAIN db = Row
      BY DEF Versions, Sound
    <2> QED
      BY <2>1 DEF See, Over
  <1> QED
    BY <1>1, <1>2, <1>3

\* The numbers in them.
LEMMA StockNat ==
    ASSUME NEW g, NEW v, SoundStock(g, v)
    PROVE  v.quantity \in Nat /\ v.reserved \in Nat /\ \A w \in Order : v.net[w] \in Nat
  BY DEF SoundStock, StockType

\* and those of an item.
LEMMA ItemNat ==
    ASSUME NEW v \in ItemType
    PROVE  v.quantity \in Nat /\ v.received \in Nat /\ v.reserved \in Nat
  BY DEF ItemType

\* returnToList lowers items, from what is seen of them.
LEMMA ReturnLowers ==
    ASSUME BookInvariant, Versions, db' = db, NEW t \in Txn, NEW returned, NEW items \in SUBSET Item,
           Item \subseteq DOMAIN seen[t], returned \in ReturnedRows(seen[t], items),
           ReturnToList(t, returned, items)
    PROVE  \E rows : /\ Wrote(t, rows) /\ DOMAIN rows \subseteq Item
                     /\ \A i \in DOMAIN rows :
                           /\ rows[i] \in ItemType
                           /\ rows[i].reserved <= See(t)[i].reserved /\ rows[i].received = See(t)[i].received
                           /\ rows[i].status = "ORDERED" => See(t)[i].status = "ORDERED"
  <1> DEFINE new == Changed(returned, Restrict(seen[t], Item))
             orders == {ItemOrder[i] : i \in {j \in items : Undelivered(seen[t][j]) > 0}} \cap Active(seen[t])
             written == [i \in DOMAIN new |->
                           [See(t)[i] EXCEPT !.status = new[i].status, !.quantity = new[i].quantity]]
             all == Over(written, See(t))
             cut == Trimmed(all, orders)
             rows == Changed(cut, See(t))
  <1>1. Write(t, rows) /\ \A i \in items : Unmoved(t, i)
    BY DEF ReturnToList
  <1>2. Wrote(t, rows)
    BY <1>1, BookWrites
  <1>3. DOMAIN new = {x \in Item : returned[x] # seen[t][x]} /\ \A x \in DOMAIN new : new[x] = returned[x]
    <2> DEFINE old == Restrict(seen[t], Item)
    <2>1. DOMAIN old = Item /\ \A x \in Item : old[x] = seen[t][x]
      BY DEF Restrict
    <2> HIDE DEF old
    <2>2. new = [x \in {y \in DOMAIN old : returned[y] # old[y]} |-> returned[x]]
      BY DEF Changed, Restrict, old
    <2> QED
      BY <2>1, <2>2
  <1>4. ASSUME NEW i \in DOMAIN new
        PROVE  /\ written[i] \in ItemType /\ Lowered(written[i], written[i])
               /\ written[i].reserved = See(t)[i].reserved /\ written[i].received = See(t)[i].received
               /\ written[i].status = "ORDERED" => See(t)[i].status = "ORDERED"
    <2>1. /\ i \in Item /\ i \in DOMAIN seen[t] /\ returned[i] # seen[t][i] /\ new[i] = returned[i]
      BY <1>3, <1>4
    <2>2. new[i] \in ItemType /\ (new[i].status = "ORDERED" => i \in items /\ seen[t][i].status = "ORDERED")
      BY <2>1 DEF ReturnedRows
    <2>3. See(t)[i] \in ItemType
      BY <2>1, SeesTyped
    <2>4. written[i] = [See(t)[i] EXCEPT !.status = new[i].status, !.quantity = new[i].quantity]
      BY <1>4
    <2> HIDE DEF new, written
    <2>5. /\ written[i] \in ItemType /\ written[i].status = new[i].status
          /\ written[i].reserved = See(t)[i].reserved /\ written[i].received = See(t)[i].received
      BY <2>2, <2>3, <2>4 DEF ItemType
    <2>6. new[i].status = "ORDERED" => See(t)[i].status = "ORDERED"
      BY <1>1, <2>2 DEF Unmoved
    <2>7. Lowered(written[i], written[i])
      BY <2>5 DEF Lowered, ItemType
    <2> QED
      BY <2>5, <2>6, <2>7
  <1>5. DOMAIN new \subseteq Item /\ DOMAIN written = DOMAIN new
    BY <1>3
  <1> HIDE DEF new, written
  <1>6. /\ DOMAIN all = Row /\ IsRows(all)
        /\ \A x \in DOMAIN new : all[x] = written[x]
        /\ \A x \in Row \ DOMAIN new : all[x] = See(t)[x]
    BY <1>5, SeesTyped, Tables DEF Over, IsRows
  <1> HIDE DEF all
  <1>7. ASSUME NEW i \in Item
        PROVE  /\ all[i] \in ItemType /\ all[i].reserved = See(t)[i].reserved /\ all[i].received = See(t)[i].received
               /\ all[i].status = "ORDERED" => See(t)[i].status = "ORDERED"
    BY <1>4, <1>6, SeesTyped, Tables
  <1>8. ItemsTyped(all)
    BY <1>6, <1>7, Tables DEF ItemsTyped
  <1>9. ASSUME NEW i \in Item
        PROVE  /\ cut[i] \in ItemType
               /\ cut[i].reserved <= See(t)[i].reserved /\ cut[i].received = See(t)[i].received
               /\ cut[i].status = "ORDERED" => See(t)[i].status = "ORDERED"
    <2>1. cut[i] = IF ItemOrder[i] \in orders THEN TrimToNeed(all, ItemOrder[i], ItemGood[i])[i] ELSE all[i]
      BY <1>6, Tables DEF Trimmed
    <2>2. CASE ItemOrder[i] \notin orders
      BY <1>7, <2>1, <2>2, ItemNat
    <2>3. CASE ItemOrder[i] \in orders
      <3> DEFINE w == ItemOrder[i]
                 g == ItemGood[i]
                 trim == TrimToNeed(all, w, g)
      <3>1. w \in Order /\ g \in Good
        BY <2>3, GoodsReceiptAssumption DEF Active
      <3>2. Need[w][g] \in Nat
        BY <3>1, GoodsReceiptAssumption
      <3>3. g \in DOMAIN all \ Item /\ all[g] = See(t)[g]
        BY <1>5, <1>6, <3>1, Tables
      <3>4. all[g].net[w] \in Nat
        BY <3>1, <3>3, SeesTyped, StockNat
      <3>5. i \in OfOrder(w, g)
        BY DEF OfOrder
      <3> HIDE DEF w, g
      <3>6. trim \in LoweredRows(all, OfOrder(w, g))
        BY <1>8, <3>2, <3>3, <3>4, TrimLowers
      <3> HIDE DEF trim
      <3>7. trim[i] \in ItemType /\ Lowered(trim[i], all[i])
        BY <3>5, <3>6 DEF LoweredRows
      <3>8. trim[i].reserved <= all[i].reserved /\ trim[i].received = all[i].received
            /\ (trim[i].status = "ORDERED" => all[i].status = "ORDERED")
        BY <3>7 DEF Lowered
      <3>9. cut[i] = trim[i]
        BY <2>1, <2>3 DEF trim, w, g
      <3> HIDE DEF cut
      <3> QED
        BY <1>7, <3>7, <3>8, <3>9
    <2> QED
      BY <2>2, <2>3
  <1>10. DOMAIN cut = Row /\ \A x \in Row \ Item : cut[x] = See(t)[x]
    BY <1>5, <1>6 DEF Trimmed
  <1> HIDE DEF cut
  <1>11. DOMAIN rows \subseteq Item /\ \A x \in DOMAIN rows : rows[x] = cut[x]
    BY <1>10, SeesTyped DEF Changed, Restrict
  <1> HIDE DEF rows
  <1> QED
    BY <1>2, <1>9, <1>11
-----------------------------------------------------------------------------
(* Steps that commit nothing: the reservations. *)

\* The versions stay sound when what is written and read is.
LEMMA VersionsKept ==
    ASSUME Versions, db' = db, NEW t \in Txn, NEW rows, Wrote(t, rows), Sound(rows), Moves(t),
           Sound(seen[t])', IsRows(seen[t])'
    PROVE  Versions'
  <1>1. DOMAIN mine'[t] \subseteq Row
    BY DEF Wrote, Versions, Sound
  <1>2. ASSUME NEW x \in DOMAIN mine'[t] PROVE SoundRow(x, mine'[t][x])
    <2>1. x \in Row
      BY <1>1, <1>2
    <2>2. See(t)'[x] = mine'[t][x]
      BY <1>2 DEF See, Over
    <2>3. See(t)'[x] = IF x \in DOMAIN rows THEN rows[x] ELSE See(t)[x]
      BY <2>1 DEF Wrote
    <2>4. SoundRow(x, See(t)[x])
      BY <2>1, SeesSound
    <2>5. x \in DOMAIN rows => SoundRow(x, rows[x])
      BY DEF Sound
    <2> QED
      BY <2>2, <2>3, <2>4, <2>5
  <1>3. Sound(mine[t])'
    BY <1>1, <1>2 DEF Sound
  <1>4. ASSUME NEW u \in Txn \ {t} PROVE Sound(mine[u])' /\ Sound(seen[u])' /\ IsRows(seen[u])'
    <2>1. mine'[u] = mine[u] /\ seen'[u] = seen[u]
      BY DEF Wrote, Moves
    <2>2. Sound(mine[u]) /\ Sound(seen[u]) /\ IsRows(seen[u])
      BY DEF Versions
    <2> QED
      BY <2>1, <2>2
  <1>5. Sound(db)'
    BY DEF Versions
  <1> QED
    BY <1>3, <1>4, <1>5 DEF Versions

\* The others hold and know what they did.
LEMMA OthersBack ==
    ASSUME db' = db, NEW u, Backs(u), InPlace(u), mine'[u] = mine[u], seen'[u] = seen[u], job'[u] = job[u]
    PROVE  Backs(u)' /\ InPlace(u)'
  <1>1. See(u)' = See(u)
    BY DEF See
  <1>2. /\ \A op, step : At(u, op, step)' <=> At(u, op, step)
        /\ (Finishing(u)' <=> Finishing(u)) /\ (Receiving(u)' <=> Receiving(u))
        /\ Due(u)' = Due(u)
    BY <1>1 DEF At, Finishing, Receiving, Due
  <1>3. \A w \in Order, g \in Good : /\ Moved(u, w, g)' = Moved(u, w, g)
                                     /\ Lent(u, w, g)' = Lent(u, w, g)
                                     /\ Pending(u, w, g)' = Pending(u, w, g)
    BY <1>1, <1>2 DEF Moved, Lent, Pending
  <1>4. MovesOwn(u)' /\ LendsBacked(u)'
    BY <1>2, <1>3 DEF Backs, MovesOwn, LendsBacked
  <1>5. ClosedFree(u)' /\ OrdersNone(u)'
    BY <1>1, <1>2 DEF Backs, ClosedFree, OrdersNone
  <1>6. HoldsOrders(u)' /\ HoldsGoods(u)' /\ KnowsItems(u)'
    BY <1>1, <1>2 DEF InPlace, HoldsOrders, HoldsGoods, KnowsItems
  <1>7. KnowsFree(u)'
    BY <1>1, <1>2 DEF InPlace, KnowsFree
  <1>8. KnowsDue(u)'
    BY <1>1, <1>2 DEF InPlace, KnowsDue
  <1> QED
    BY <1>4, <1>5, <1>6, <1>7, <1>8 DEF Backs, InPlace

\* When nothing is committed, it is left to show what the request has made and knows.
LEMMA UncommittedBacked ==
    ASSUME BackedInvariant, BookInvariant', db' = db, NEW t \in Txn, NEW rows,
           Wrote(t, rows), Sound(rows), Moves(t), Sound(seen[t])', IsRows(seen[t])',
           Backs(t)', InPlace(t)'
    PROVE  BackedInvariant'
  <1>1. Versions'
    BY VersionsKept DEF BackedInvariant
  <1>2. FreeWhenClosed' /\ ShownIsHeld'
    BY DEF BackedInvariant, FreeWhenClosed, ShownIsHeld, Total
  <1>3. ASSUME NEW u \in Txn PROVE Backs(u)' /\ InPlace(u)'
    <2>1. CASE u # t
      BY <1>3, <2>1, OthersBack DEF Wrote, Moves, BackedInvariant
    <2> QED
      BY <2>1
  <1> QED
    BY <1>1, <1>2, <1>3 DEF BackedInvariant

\* What items show more or less, as a number.
LEMMA ExtraInt ==
    ASSUME NEW new, NEW old, NEW X \in SUBSET Item, \A i \in X : new[i] \in ItemType /\ old[i] \in ItemType
    PROVE  /\ Extra(new, old, X) \in Int /\ IsFiniteSet(X)
           /\ Extra(new, old, X) = SumFunctionOnSet([i \in X |-> new[i].reserved - old[i].reserved], X)
           /\ \A i \in X : new[i].reserved \in Nat /\ old[i].reserved \in Nat
  <1> DEFINE f == [i \in X |-> new[i].reserved - old[i].reserved]
  <1>1. IsFiniteSet(X)
    BY FS_Subset, GoodsReceiptAssumption
  <1>2. \A i \in X : new[i].reserved \in Nat /\ old[i].reserved \in Nat
    BY ItemNat
  <1>3. f \in [X -> Int]
    BY <1>2
  <1>4. SumFunction(f) \in Int /\ SumFunction(f) = SumFunctionOnSet(f, X)
    <2> HIDE DEF f
    <2> QED
      BY <1>1, <1>3, FunctionSum
  <1> QED
    BY <1>1, <1>2, <1>4 DEF Extra

\* Items that show no more leave no more of them.
LEMMA ExtraFalls ==
    ASSUME NEW new, NEW mid, NEW old, NEW X \in SUBSET Item,
           \A i \in X : new[i] \in ItemType /\ mid[i] \in ItemType /\ old[i] \in ItemType,
           \A i \in X : new[i].reserved <= mid[i].reserved
    PROVE  Extra(new, old, X) <= Extra(mid, old, X)
  <1> DEFINE e == [i \in X |-> new[i].reserved - old[i].reserved]
             f == [i \in X |-> mid[i].reserved - old[i].reserved]
  <1>1. IsFiniteSet(X) /\ Extra(new, old, X) = SumFunctionOnSet(e, X)
    BY ExtraInt
  <1>2. Extra(mid, old, X) = SumFunctionOnSet(f, X)
    BY ExtraInt
  <1>3. \A i \in X : e[i] \in Int /\ f[i] \in Int /\ e[i] <= f[i]
    <2> SUFFICES ASSUME NEW i \in X PROVE e[i] \in Int /\ f[i] \in Int /\ e[i] <= f[i]
      OBVIOUS
    <2>1. new[i].reserved \in Nat /\ mid[i].reserved \in Nat /\ old[i].reserved \in Nat
          /\ new[i].reserved <= mid[i].reserved
      BY ItemNat
    <2> QED
      BY <2>1
  <1> HIDE DEF e, f
  <1> QED
    BY <1>1, <1>2, <1>3, SumMonotone

\* What a transaction sees after a statement is sound.
LEMMA WrittenTyped ==
    ASSUME Versions, NEW t \in Txn, NEW rows, Wrote(t, rows), Sound(rows)
    PROVE  /\ \A g \in Good : SoundStock(g, See(t)'[g])
           /\ \A i \in Item : See(t)'[i] \in ItemType
  <1>1. ASSUME NEW x \in Row PROVE SoundRow(x, See(t)'[x])
    <2>1. See(t)'[x] = IF x \in DOMAIN rows THEN rows[x] ELSE See(t)[x]
      BY DEF Wrote
    <2> QED
      BY <2>1, SeesSound DEF Sound
  <1> QED
    BY <1>1, Tables DEF SoundRow

\* Rows that reserve nothing and show no more, and the places where nothing is being released.
Spares(t, rows) ==
    /\ \A g \in Good \cap DOMAIN rows : rows[g].net = See(t)[g].net
    /\ \A i \in Item \cap DOMAIN rows : /\ rows[i].reserved <= See(t)[i].reserved
                                        /\ rows[i].status = "ORDERED" => See(t)[i].status = "ORDERED"
Aside(t) == ~At(t, "release", "movement") /\ ~At(t, "finish", "items")
\* A statement that reserves nothing, and lets no item show more, leaves the reservations backed.
LEMMA KeepsBacked ==
    ASSUME Versions, db' = db, NEW t \in Txn, NEW rows, Wrote(t, rows), Sound(rows), Backs(t),
           Spares(t, rows), ~Finishing(t), Aside(t), Aside(t)'
    PROVE  Backs(t)'
  <1>1. ASSUME NEW g \in Good PROVE See(t)'[g].net = See(t)[g].net
    <2>1. See(t)'[g] = IF g \in DOMAIN rows THEN rows[g] ELSE See(t)[g]
      BY Tables DEF Wrote
    <2> QED
      BY <2>1 DEF Spares
  <1>2. ASSUME NEW i \in Item
        PROVE  /\ See(t)'[i].reserved <= See(t)[i].reserved
               /\ See(t)'[i].status = "ORDERED" => See(t)[i].status = "ORDERED"
    <2>1. See(t)'[i] = IF i \in DOMAIN rows THEN rows[i] ELSE See(t)[i]
      BY Tables DEF Wrote
    <2>2. See(t)[i].reserved <= See(t)[i].reserved
      BY SeesTyped, ItemNat
    <2> QED
      BY <2>1, <2>2 DEF Spares
  <1>3. DOMAIN mine[t] \subseteq DOMAIN mine'[t]
    BY DEF Wrote
  <1>4. ASSUME NEW w \in Order, NEW g \in Good
        PROVE  /\ Moved(t, w, g)' = Moved(t, w, g) /\ Pending(t, w, g)' = 0 /\ Pending(t, w, g) = 0
               /\ Lent(t, w, g)' <= Lent(t, w, g) /\ Moved(t, w, g) \in Int
               /\ Lent(t, w, g) \in Int /\ Lent(t, w, g)' \in Int
    <2>1. Moved(t, w, g)' = Moved(t, w, g) /\ Pending(t, w, g)' = 0 /\ Pending(t, w, g) = 0
      BY <1>1 DEF Moved, Pending, Aside
    <2>2. Moved(t, w, g) \in Int
      BY SeesTyped, StockNat DEF Moved
    <2>3. OfOrder(w, g) \in SUBSET Item
      BY DEF OfOrder
    <2>4. Extra(See(t)', db, OfOrder(w, g)) <= Extra(See(t), db, OfOrder(w, g))
      BY <1>2, <2>3, SeesTyped, WrittenTyped, ExtraFalls
    <2>5. Extra(See(t)', db, OfOrder(w, g)) \in Int /\ Extra(See(t), db, OfOrder(w, g)) \in Int
      BY <2>3, SeesTyped, WrittenTyped, ExtraInt
    <2>6. Lent(t, w, g)' = Extra(See(t)', db, OfOrder(w, g)) /\ Lent(t, w, g) = Extra(See(t), db, OfOrder(w, g))
      BY DEF Lent
    <2> QED
      BY <2>1, <2>2, <2>4, <2>5, <2>6
  <1>5. MovesOwn(t)'
    BY <1>3, <1>4 DEF Backs, MovesOwn
  <1>6. LendsBacked(t)'
    <2> SUFFICES ASSUME NEW w \in Order, NEW g \in Good, ~(Finishing(t)' /\ w = job'[t].arg)
                 PROVE  Lent(t, w, g)' + Pending(t, w, g)' <= Moved(t, w, g)'
      BY DEF LendsBacked
    <2>1. Lent(t, w, g) + Pending(t, w, g) <= Moved(t, w, g)
      BY DEF Backs, LendsBacked
    <2> QED
      BY <1>4, <2>1
  <1>7. ClosedFree(t)'
    <2>1. ClosedFree(t)
      BY DEF Backs
    <2> QED
      BY <1>1, <2>1 DEF ClosedFree, Aside
  <1>8. OrdersNone(t)'
    BY <1>2 DEF Backs, OrdersNone
  <1> QED
    BY <1>5, <1>6, <1>7, <1>8 DEF Backs
-----------------------------------------------------------------------------
(* Steps that reserve nothing. *)

\* Versions that are read are sound,
LEMMA ReadSound ==
    ASSUME Versions, NEW t \in Txn, NEW X \in SUBSET Row
    PROVE  /\ Sound(Restrict(See(t), X)) /\ IsRows(Restrict(See(t), X))
           /\ Sound(Restrict(db, X)) /\ IsRows(Restrict(db, X))
           /\ Sound([x \in X |-> See(t)[x]])
  <1>1. \A x \in X : SoundRow(x, See(t)[x]) /\ SoundRow(x, db[x])
    BY SeesSound
  <1> QED
    BY <1>1 DEF Sound, IsRows, Restrict

\* and so are none.
LEMMA NoRowsSound == Sound(NoRows) /\ DOMAIN NoRows = {}
  BY DEF Sound, NoRows

\* What is read is sound.
ReadsSound(t) == seen' = seen \/ (Sound(seen'[t]) /\ IsRows(seen'[t]))

\* A statement that reserves nothing and lets no item show more.
LEMMA QuietBacked ==
    ASSUME BackedInvariant, BookInvariant', db' = db, NEW t \in Txn, NEW rows,
           Wrote(t, rows), Sound(rows), Moves(t), ReadsSound(t), Spares(t, rows),
           ~Finishing(t), Aside(t), Aside(t)', InPlace(t)'
    PROVE  BackedInvariant'
  <1>1. Versions /\ Backs(t)
    BY DEF BackedInvariant
  <1>2. Backs(t)'
    BY <1>1, KeepsBacked
  <1>3. Sound(seen[t])' /\ IsRows(seen[t])'
    <2>1. Sound(seen[t]) /\ IsRows(seen[t])
      BY <1>1 DEF Versions
    <2>2. CASE seen' = seen
      BY <2>1, <2>2
    <2> QED
      BY <2>2 DEF ReadsSound
  <1> QED
    BY <1>2, <1>3, UncommittedBacked

\* Goods and items are not among these rows.
LEMMA NeitherOf ==
    ASSUME NEW t, NEW rows, DOMAIN rows \cap (Good \cup Item) = {}
    PROVE  Spares(t, rows)
  BY DEF Spares

\* What is wanted by fewer ordered items is wanted by no other orders.
LEMMA WantingShrinks ==
    ASSUME NEW k, NEW new, NEW old, \A i \in Item : new[i].status = "ORDERED" => old[i].status = "ORDERED"
    PROVE  Wanting(k, new) \subseteq Wanting(k, old)
  BY DEF Wanting, WithStatus

\* The lock of the work orders.
LEMMA BackedLockOrders ==
    ASSUME BackedInvariant, BookInvariant', NEW t \in Txn, LockOrders(t)
    PROVE  BackedInvariant'
  <1> DEFINE rows == [x \in Candidates(t) |-> See(t)[x]]
  <1>1. /\ job[t].op = "receive" /\ job[t].step = "begin" /\ Write(t, rows) /\ Goto(t, "lines")
        /\ db' = db /\ seen' = seen
    BY DEF LockOrders, At, Hold
  <1>2. BookInvariant /\ Versions
    BY DEF BackedInvariant
  <1>3. Candidates(t) \subseteq Order
    BY GoodsReceiptAssumption DEF Candidates, WithStatus
  <1>4. Wrote(t, rows) /\ DOMAIN rows = Candidates(t) /\ Sound(rows)
    <2>1. Candidates(t) \in SUBSET Row
      BY <1>3, Tables
    <2> QED
      BY <1>1, <1>2, <2>1, BookWrites, ReadSound
  <1>5. /\ job'[t].op = "receive" /\ job'[t].arg = job[t].arg /\ job'[t].step = "lines"
        /\ \A u \in Txn \ {t} : job'[u] = job[u]
    BY <1>1, <1>2, NextAwait DEF BookInvariant
  <1>6. Moves(t)
    BY <1>1, <1>2, <1>5, MovesOn
  <1> HIDE DEF rows
  <1>7. DOMAIN rows \cap (Good \cup Item) = {}
    BY <1>3, <1>4, Tables
  <1>8. HoldsOrders(t)'
    <2>1. Candidates(t) = Wanting(job[t].arg, See(t))
      BY DEF Candidates, Wanting
    <2>2. \A i \in Item : See(t)'[i] = See(t)[i]
      BY <1>4, <1>7, Tables DEF Wrote
    <2>3. Wanting(job[t].arg, See(t)') \subseteq Candidates(t)
      BY <2>1, <2>2, WantingShrinks
    <2>4. Candidates(t) \subseteq DOMAIN mine'[t]
      BY <1>4 DEF Wrote
    <2> QED
      BY <1>5, <2>3, <2>4 DEF HoldsOrders
  <1>9. InPlace(t)'
    BY <1>5, <1>8 DEF InPlace, HoldsGoods, KnowsFree, KnowsItems, KnowsDue, At
  <1>10. ~Finishing(t) /\ Aside(t) /\ Aside(t)' /\ ReadsSound(t)
    BY <1>1, <1>5 DEF Finishing, Aside, At, ReadsSound
  <1> QED
    BY <1>1, <1>4, <1>6, <1>7, <1>9, <1>10, NeitherOf, QuietBacked

\* The receipt of the lines.
LEMMA BackedReceiveLines ==
    ASSUME BackedInvariant, BookInvariant', NEW t \in Txn, ReceiveLines(t)
    PROVE  BackedInvariant'
  <1> DEFINE k == job[t].arg
             rows == [l \in ActiveLines(k) |-> See(t)[l] + Body[k][l]]
  <1>1. /\ job[t].op = "receive" /\ job[t].step = "lines" /\ Write(t, rows) /\ Goto(t, "stock")
        /\ db' = db /\ seen' = seen
    BY DEF ReceiveLines, At
  <1>2. BookInvariant /\ Versions /\ InPlace(t)
    BY DEF BackedInvariant
  <1>3. k \in Key
    BY <1>1, <1>2, ReceiptHasKey
  <1>4. ActiveLines(k) \subseteq Line
    BY DEF ActiveLines
  <1>5. Wrote(t, rows) /\ DOMAIN rows = ActiveLines(k)
    BY <1>1, <1>2, BookWrites
  <1>6. Sound(rows)
    <2> SUFFICES ASSUME NEW l \in ActiveLines(k) PROVE l \in Row /\ SoundRow(l, See(t)[l] + Body[k][l])
      BY DEF Sound
    <2>1. l \in Line /\ l \in Row
      BY <1>4, Tables
    <2>2. See(t)[l] \in Nat /\ Body[k][l] \in Nat
      BY <1>2, <1>3, <2>1, SeesSound, BodyNat DEF SoundRow
    <2>3. See(t)[l] + Body[k][l] \in Nat
      BY <2>2
    <2> QED
      BY <2>1, <2>3, Tables DEF SoundRow
  <1>7. /\ job'[t].op = "receive" /\ job'[t].arg = k /\ job'[t].step = "stock"
        /\ \A u \in Txn \ {t} : job'[u] = job[u]
    BY <1>1, <1>2, NextAwait DEF BookInvariant
  <1>8. Moves(t)
    BY <1>1, <1>2, <1>7, MovesOn
  <1> HIDE DEF rows
  <1>9. DOMAIN rows \cap (Good \cup Item) = {}
    BY <1>4, <1>5, Tables
  <1>10. HoldsOrders(t)'
    <2>1. \A i \in Item : See(t)'[i] = See(t)[i]
      BY <1>5, <1>9, Tables DEF Wrote
    <2>2. Wanting(k, See(t)') \subseteq Wanting(k, See(t))
      BY <2>1, WantingShrinks
    <2>3. Wanting(k, See(t)) \subseteq DOMAIN mine[t] /\ DOMAIN mine[t] \subseteq DOMAIN mine'[t]
      BY <1>1, <1>2, <1>5 DEF Wrote, InPlace, HoldsOrders, Receiving
    <2> QED
      BY <1>7, <2>2, <2>3 DEF HoldsOrders
  <1>11. InPlace(t)'
    BY <1>7, <1>10 DEF InPlace, HoldsGoods, KnowsFree, KnowsItems, KnowsDue, At
  <1>12. ~Finishing(t) /\ Aside(t) /\ Aside(t)' /\ ReadsSound(t)
    BY <1>1, <1>7 DEF Finishing, Aside, At, ReadsSound
  <1> QED
    BY <1>1, <1>5, <1>6, <1>8, <1>9, <1>11, <1>12, NeitherOf, QuietBacked

\* A row of the stock to which something comes.
LEMMA StockGrows ==
    ASSUME NEW g, NEW v, SoundStock(g, v), NEW n \in Nat
    PROVE  LET e == [v EXCEPT !.quantity = @ + n] IN SoundStock(g, e) /\ e.net = v.net
  <1> DEFINE e == [v EXCEPT !.quantity = @ + n]
  <1>1. /\ v \in StockType /\ v.reserved <= v.quantity
        /\ v.quantity \in Nat /\ v.reserved \in Nat
    BY DEF SoundStock, StockType
  <1>2. v.quantity + n \in Nat /\ v.reserved <= v.quantity + n
    BY <1>1
  <1>3. e \in StockType /\ e.quantity = v.quantity + n /\ e.reserved = v.reserved /\ e.net = v.net
    BY <1>1, <1>2 DEF StockType
  <1> SUFFICES SoundStock(g, e) /\ e.net = v.net
    OBVIOUS
  <1> HIDE DEF e
  <1> QED
    BY <1>2, <1>3 DEF SoundStock

\* The posting to the stock.
LEMMA BackedPostReceipt ==
    ASSUME BackedInvariant, BookInvariant', NEW t \in Txn, PostReceipt(t)
    PROVE  BackedInvariant'
  <1> DEFINE k == job[t].arg
             rows == [g \in GoodsOf(k) |-> [See(t)[g] EXCEPT !.quantity = @ + Arrived(k, g)]]
  <1>1. /\ job[t].op = "receive" /\ job[t].step = "stock" /\ Write(t, rows) /\ Goto(t, "items")
        /\ db' = db /\ seen' = seen
    BY DEF PostReceipt, At
  <1>2. BookInvariant /\ Versions /\ InPlace(t)
    BY DEF BackedInvariant
  <1>3. k \in Key
    BY <1>1, <1>2, ReceiptHasKey
  <1>4. GoodsOf(k) \subseteq Good
    BY <1>3, GoodsReceiptAssumption DEF GoodsOf, ActiveLines
  <1>5. Wrote(t, rows) /\ DOMAIN rows = GoodsOf(k)
    BY <1>1, <1>2, BookWrites
  <1>6. ASSUME NEW g \in GoodsOf(k) PROVE SoundStock(g, rows[g]) /\ rows[g].net = See(t)[g].net
    <2>1. SoundStock(g, See(t)[g]) /\ Arrived(k, g) \in Nat
      BY <1>2, <1>3, <1>4, SeesTyped, ArrivedNat
    <2> QED
      BY <2>1, StockGrows
  <1>7. /\ job'[t].op = "receive" /\ job'[t].arg = k /\ job'[t].step = "items"
        /\ \A u \in Txn \ {t} : job'[u] = job[u]
    BY <1>1, <1>2, NextAwait DEF BookInvariant
  <1>8. Moves(t)
    BY <1>1, <1>2, <1>7, MovesOn
  <1> HIDE DEF rows
  <1>9. Sound(rows) /\ DOMAIN rows \cap Item = {}
    BY <1>4, <1>5, <1>6, Tables DEF Sound, SoundRow
  <1>10. HoldsOrders(t)' /\ HoldsGoods(t)'
    <2>1. \A i \in Item : See(t)'[i] = See(t)[i]
      BY <1>5, <1>9, Tables DEF Wrote
    <2>2. Wanting(k, See(t)') \subseteq Wanting(k, See(t))
      BY <2>1, WantingShrinks
    <2>3. Wanting(k, See(t)) \subseteq DOMAIN mine[t] /\ DOMAIN mine'[t] = GoodsOf(k) \cup DOMAIN mine[t]
      BY <1>1, <1>2, <1>5 DEF Wrote, InPlace, HoldsOrders, Receiving
    <2> QED
      BY <1>7, <2>2, <2>3 DEF HoldsOrders, HoldsGoods
  <1>11. InPlace(t)'
    BY <1>7, <1>10 DEF InPlace, KnowsFree, KnowsItems, KnowsDue, At
  <1>12. ~Finishing(t) /\ Aside(t) /\ Aside(t)' /\ ReadsSound(t)
    BY <1>1, <1>7 DEF Finishing, Aside, At, ReadsSound
  <1>13. Spares(t, rows)
    BY <1>5, <1>6, <1>9 DEF Spares
  <1> QED
    BY <1>1, <1>5, <1>8, <1>9, <1>11, <1>12, <1>13, QuietBacked
-----------------------------------------------------------------------------
(* Steps that read, begin and return items. *)

\* What a request reads is what it sees.
LEMMA ReadReads ==
    ASSUME BookInvariant, Versions, NEW t \in Txn, NEW X \in SUBSET Row, Read(t, X)
    PROVE  ReadsSound(t) /\ DOMAIN seen'[t] = X /\ \A x \in X : seen'[t][x] = See(t)[x]
  <1>1. seen'[t] = Restrict(See(t), X)
    BY DEF Read, BookInvariant
  <1>2. Sound(Restrict(See(t), X)) /\ IsRows(Restrict(See(t), X))
    BY ReadSound
  <1> QED
    BY <1>1, <1>2 DEF ReadsSound, Restrict

\* A statement that only reads, or begins a request.
LEMMA ReadBacked ==
    ASSUME BackedInvariant, BookInvariant', db' = db, mine' = mine, NEW t \in Txn,
           Moves(t), ReadsSound(t), ~Finishing(t), Aside(t), Aside(t)', InPlace(t)'
    PROVE  BackedInvariant'
  <1>1. Wrote(t, NoRows)
    BY BookReads DEF BackedInvariant
  <1>2. Sound(NoRows) /\ Spares(t, NoRows)
    BY NoRowsSound, NeitherOf
  <1> QED
    BY <1>1, <1>2, QuietBacked

\* What allocateOnReceipt reads of the goods and the orders it holds.
LEMMA BackedReadItems ==
    ASSUME BackedInvariant, BookInvariant', NEW t \in Txn, ReadItems(t)
    PROVE  BackedInvariant'
  <1> DEFINE k == job[t].arg
             X == Item \cup Order \cup GoodsOf(k)
  <1>1. /\ job[t].op = "receive" /\ job[t].step = "items" /\ Read(t, X) /\ Goto(t, "allocate")
        /\ db' = db /\ mine' = mine
    BY DEF ReadItems, At
  <1>2. BookInvariant /\ Versions /\ InPlace(t)
    BY DEF BackedInvariant
  <1>3. k \in Key
    BY <1>1, <1>2, ReceiptHasKey
  <1>4. GoodsOf(k) \subseteq Good
    BY <1>3, GoodsReceiptAssumption DEF GoodsOf, ActiveLines
  <1>5. X \in SUBSET Row
    BY <1>4, Tables
  <1>6. ReadsSound(t) /\ DOMAIN seen'[t] = X /\ \A x \in X : seen'[t][x] = See(t)[x]
    BY <1>1, <1>2, <1>5, ReadReads
  <1>7. /\ job'[t].op = "receive" /\ job'[t].arg = k /\ job'[t].step = "allocate"
        /\ \A u \in Txn \ {t} : job'[u] = job[u]
    BY <1>1, <1>2, NextAwait DEF BookInvariant
  <1>8. Moves(t)
    BY <1>1, <1>2, <1>7, MovesOn DEF Read
  <1>9. See(t)' = See(t)
    BY <1>1 DEF See
  <1>10. Wanting(k, See(t)) \subseteq DOMAIN mine[t] /\ GoodsOf(k) \subseteq DOMAIN mine[t]
    BY <1>1, <1>2 DEF InPlace, HoldsOrders, HoldsGoods, Receiving
  <1>11. HoldsOrders(t)' /\ HoldsGoods(t)'
    BY <1>1, <1>7, <1>9, <1>10 DEF HoldsOrders, HoldsGoods
  <1>12. KnowsFree(t)'
    <2>1. \A i \in Item : seen'[t][i] = See(t)[i]
      BY <1>6
    <2>2. Wanting(k, seen'[t]) \subseteq Wanting(k, See(t))
      BY <2>1, WantingShrinks
    <2> QED
      BY <1>1, <1>6, <1>7, <1>9, <1>10, <2>2 DEF KnowsFree
  <1> HIDE DEF X
  <1>13. InPlace(t)'
    BY <1>7, <1>11, <1>12 DEF InPlace, KnowsItems, KnowsDue
  <1>14. ~Finishing(t) /\ Aside(t) /\ Aside(t)'
    BY <1>1, <1>7 DEF Finishing, Aside, At
  <1> QED
    BY <1>1, <1>6, <1>8, <1>13, <1>14, ReadBacked

\* The charge.
LEMMA BackedCharge ==
    ASSUME BackedInvariant, BookInvariant', NEW t \in Txn, Charge(t)
    PROVE  BackedInvariant'
  <1> DEFINE k == job[t].arg
             charge == [x \in {Account} |-> See(t)[x] + Amount(k)]
             rows == IF Amount(k) > 0 THEN charge ELSE NoRows
  <1>1. /\ job[t].op = "receive" /\ job[t].step = "charge" /\ Goto(t, "reread")
        /\ db' = db /\ seen' = seen
        /\ IF Amount(k) > 0 THEN Write(t, charge) ELSE mine' = mine
    BY DEF Charge, At
  <1>2. BookInvariant /\ Versions
    BY DEF BackedInvariant
  <1>3. k \in Key
    BY <1>1, <1>2, ReceiptHasKey
  <1>4. Wrote(t, rows)
    BY <1>1, <1>2, BookWrites, BookReads
  <1>5. Sound(rows) /\ DOMAIN rows \subseteq {Account}
    <2>1. See(t)[Account] \in Nat /\ Amount(k) \in Nat
      BY <1>2, <1>3, SeesSound, ArrivedNat, Tables DEF SoundRow
    <2>2. See(t)[Account] + Amount(k) \in Nat
      BY <2>1
    <2>3. Sound(charge)
      BY <2>2, Tables DEF Sound, SoundRow
    <2> QED
      BY <2>3, NoRowsSound
  <1>6. /\ job'[t].op = "receive" /\ job'[t].arg = k /\ job'[t].step = "reread"
        /\ \A u \in Txn \ {t} : job'[u] = job[u]
    BY <1>1, <1>2, NextAwait DEF BookInvariant
  <1>7. Moves(t)
    BY <1>1, <1>2, <1>6, MovesOn
  <1> HIDE DEF rows
  <1>8. Spares(t, rows)
    BY <1>5, NeitherOf, Tables
  <1>9. InPlace(t)'
    BY <1>6 DEF InPlace, HoldsOrders, HoldsGoods, KnowsFree, KnowsItems, KnowsDue, At
  <1>10. ~Finishing(t) /\ Aside(t) /\ Aside(t)' /\ ReadsSound(t)
    BY <1>1, <1>6 DEF Finishing, Aside, At, ReadsSound
  <1> QED
    BY <1>1, <1>4, <1>5, <1>7, <1>8, <1>9, <1>10, QuietBacked

\* The reading of the lines and of the items.
LEMMA BackedRereadLines ==
    ASSUME BackedInvariant, BookInvariant', NEW t \in Txn, RereadLines(t)
    PROVE  BackedInvariant'
  <1>1. /\ job[t].op = "receive" /\ job[t].step = "reread" /\ Read(t, Item \cup Order)
        /\ db' = db /\ mine' = mine
    BY DEF RereadLines, At
  <1>2. BookInvariant /\ Versions
    BY DEF BackedInvariant
  <1>3. PICK to, s : /\ s \in {"close", "status"}
                     /\ job' = [job EXCEPT ![t] = [job[t] EXCEPT !.to = to, !.step = s]]
    <2> DEFINE to == StatusAfter(See(t), job[t].from)
               s == IF to \in CLOSED_FOR_LISTS THEN "close" ELSE "status"
    <2>1. job' = [job EXCEPT ![t] = [job[t] EXCEPT !.to = to, !.step = s]]
      BY DEF RereadLines
    <2>2. s \in {"close", "status"}
      OBVIOUS
    <2> QED
      BY <2>1, <2>2
  <1>4. /\ job'[t].op = "receive" /\ job'[t].step = s
        /\ \A u \in Txn \ {t} : job'[u] = job[u]
    <2> DEFINE j == [job[t] EXCEPT !.to = to, !.step = s]
    <2>1. IsJob(job[t])
      BY <1>2, JobIsJob DEF BookInvariant
    <2>2. j.op = job[t].op /\ j.step = s
      BY <2>1 DEF IsJob
    <2> HIDE DEF j
    <2>3. job' = [job EXCEPT ![t] = j]
      BY <1>3 DEF j
    <2> QED
      BY <1>1, <1>2, <2>2, <2>3, NewJob DEF BookInvariant
  <1>5. Item \cup Order \in SUBSET Row
    BY Tables
  <1>6. ReadsSound(t) /\ DOMAIN seen'[t] = Item \cup Order
    BY <1>1, <1>2, <1>5, ReadReads
  <1>7. Moves(t)
    BY <1>1, <1>2, <1>4, MovesOn DEF Read
  <1>8. InPlace(t)'
    BY <1>3, <1>4, <1>6 DEF InPlace, HoldsOrders, HoldsGoods, KnowsFree, KnowsItems, KnowsDue, At
  <1>9. ~Finishing(t) /\ Aside(t) /\ Aside(t)'
    BY <1>1, <1>3, <1>4 DEF Finishing, Aside, At
  <1> QED
    BY <1>1, <1>6, <1>7, <1>8, <1>9, ReadBacked

\* A request that begins and reads.
LEMMA BackedBegins ==
    ASSUME BackedInvariant, BookInvariant', db' = db, mine' = mine, NEW t \in Txn, job[t] = Idle,
           NEW j, job' = [job EXCEPT ![t] = j], ReadsSound(t), seen' = seen \/ \E r : seen' = [seen EXCEPT ![t] = r],
           j.op \notin {"release", "finish"}, j.step \notin {"lines", "stock", "items", "allocate"},
           j.step \in {"close", "return"} => Item \subseteq DOMAIN seen'[t]
    PROVE  BackedInvariant'
  <1>1. BookInvariant
    BY DEF BackedInvariant
  <1>2. job'[t] = j /\ \A u \in Txn \ {t} : job'[u] = job[u]
    BY <1>1, NewJob DEF BookInvariant
  <1>3. Moves(t)
    BY <1>1, <1>2, MovesOn
  <1>4. InPlace(t)'
    BY <1>2 DEF InPlace, HoldsOrders, HoldsGoods, KnowsFree, KnowsItems, KnowsDue, At
  <1>5. ~Finishing(t) /\ Aside(t) /\ Aside(t)'
    BY <1>2 DEF Finishing, Aside, At, Idle
  <1> QED
    BY <1>3, <1>4, <1>5, ReadBacked

\* A receipt begins.
LEMMA BackedStartReceive ==
    ASSUME BackedInvariant, BookInvariant', NEW t \in Txn, NEW k \in Key, StartReceive(t, k)
    PROVE  BackedInvariant'
  <1> DEFINE j == [op |-> "receive", step |-> "begin", arg |-> k, from |-> db[PO], to |-> db[PO]]
             r == Restrict(db, ActiveLines(k))
  <1>1. /\ job[t] = Idle /\ job' = [job EXCEPT ![t] = j] /\ db' = db /\ mine' = mine
        /\ seen' = [seen EXCEPT ![t] = r]
    BY DEF StartReceive
  <1>2. BookInvariant /\ Versions
    BY DEF BackedInvariant
  <1>3. ActiveLines(k) \in SUBSET Row
    BY Tables DEF ActiveLines
  <1>4. Sound(r) /\ IsRows(r)
    BY <1>2, <1>3, ReadSound
  <1>5. ReadsSound(t)
    BY <1>1, <1>2, <1>4 DEF ReadsSound, BookInvariant
  <1>6. j.op = "receive" /\ j.step = "begin"
    OBVIOUS
  <1> HIDE DEF j
  <1> QED
    BY <1>1, <1>5, <1>6, BackedBegins

\* The order is called off, or called received.
LEMMA BackedStartTransition ==
    ASSUME BackedInvariant, BookInvariant', NEW t \in Txn, NEW to, StartTransition(t, to)
    PROVE  BackedInvariant'
  <1> DEFINE j == [op |-> "transition", arg |-> PO, from |-> db[PO], to |-> to,
                   step |-> IF to \in CLOSED_FOR_LISTS THEN "close" ELSE "status"]
  <1>1. /\ job[t] = Idle /\ job' = [job EXCEPT ![t] = j] /\ db' = db /\ mine' = mine
        /\ Read(t, Item \cup Order)
    BY DEF StartTransition
  <1>2. BookInvariant /\ Versions
    BY DEF BackedInvariant
  <1>3. Item \cup Order \in SUBSET Row
    BY Tables
  <1>4. ReadsSound(t) /\ DOMAIN seen'[t] = Item \cup Order
    BY <1>1, <1>2, <1>3, ReadReads
  <1>5. j.op = "transition" /\ j.step \in {"close", "status"}
    OBVIOUS
  <1>6. \E r : seen' = [seen EXCEPT ![t] = r]
    BY <1>1 DEF Read
  <1> HIDE DEF j
  <1> QED
    BY <1>1, <1>4, <1>5, <1>6, BackedBegins

\* A work order is closed: its reservations are still there.
LEMMA BackedStartFinish ==
    ASSUME BackedInvariant, BookInvariant', NEW t \in Txn, NEW w \in Order, NEW to \in {"COMPLETED", "CANCELLED"},
           StartFinish(t, w, to)
    PROVE  BackedInvariant'
  <1> DEFINE j == [op |-> "finish", step |-> "release", arg |-> w, from |-> "IN_PROGRESS", to |-> to]
             rows == [x \in {w} |-> to]
  <1>1. job[t] = Idle /\ job' = [job EXCEPT ![t] = j] /\ Write(t, rows) /\ db' = db /\ seen' = seen
    BY DEF StartFinish
  <1>2. BookInvariant
    BY DEF BackedInvariant
  <1>3. Wrote(t, rows)
    BY <1>1, <1>2, BookWrites
  <1>4. Sound(rows) /\ Spares(t, rows)
    BY NeitherOf, Tables DEF Sound, SoundRow
  <1>5. j.op = "finish" /\ j.step = "release"
    OBVIOUS
  <1> HIDE DEF j, rows
  <1>6. job'[t] = j /\ \A u \in Txn \ {t} : job'[u] = job[u]
    BY <1>1, <1>2, NewJob DEF BookInvariant
  <1>7. Moves(t)
    BY <1>1, <1>2, <1>6, MovesOn
  <1>8. InPlace(t)'
    BY <1>5, <1>6 DEF InPlace, HoldsOrders, HoldsGoods, KnowsFree, KnowsItems, KnowsDue, At, Receiving
  <1>9. ~Finishing(t) /\ Aside(t) /\ Aside(t)' /\ ReadsSound(t)
    BY <1>1, <1>5, <1>6 DEF Finishing, Aside, At, Idle, ReadsSound
  <1> QED
    BY <1>1, <1>3, <1>4, <1>7, <1>8, <1>9, QuietBacked

\* The release of what an item shows begins.
LEMMA BackedStartRelease ==
    ASSUME BackedInvariant, BookInvariant', NEW t \in Txn, NEW i \in Item, StartRelease(t, i)
    PROVE  BackedInvariant'
  <1> DEFINE j == [op |-> "release", step |-> "item", arg |-> i, from |-> "none", to |-> "none"]
  <1>1. job[t] = Idle /\ job' = [job EXCEPT ![t] = j] /\ Read(t, {i}) /\ db' = db /\ mine' = mine
    BY DEF StartRelease
  <1>2. BookInvariant /\ Versions
    BY DEF BackedInvariant
  <1>3. {i} \in SUBSET Row
    BY Tables
  <1>4. ReadsSound(t) /\ DOMAIN seen'[t] = {i}
    BY <1>1, <1>2, <1>3, ReadReads
  <1>5. j.op = "release" /\ j.step = "item" /\ j.arg = i
    OBVIOUS
  <1> HIDE DEF j
  <1>6. job'[t] = j /\ \A u \in Txn \ {t} : job'[u] = job[u]
    BY <1>1, <1>2, NewJob DEF BookInvariant
  <1>7. Moves(t)
    BY <1>1, <1>2, <1>6, MovesOn DEF Read
  <1>8. InPlace(t)'
    BY <1>4, <1>5, <1>6 DEF InPlace, HoldsOrders, HoldsGoods, KnowsFree, KnowsItems, KnowsDue, At, Receiving
  <1>9. ~Finishing(t) /\ Aside(t) /\ Aside(t)'
    BY <1>1, <1>5, <1>6 DEF Finishing, Aside, At, Idle
  <1> QED
    BY <1>1, <1>4, <1>7, <1>8, <1>9, ReadBacked

\* What the supplier has not confirmed: the work orders are held,
LEMMA BackedStartUnconfirmed ==
    ASSUME BackedInvariant, BookInvariant', NEW t \in Txn, StartUnconfirmed(t)
    PROVE  BackedInvariant'
  <1> DEFINE j == [op |-> "unconfirmed", step |-> "read", arg |-> PO, from |-> "none", to |-> "none"]
             X == {ItemOrder[i] : i \in WithStatus(db, "ORDERED")} \ {NoOrder}
             rows == [x \in X |-> See(t)[x]]
  <1>1. job[t] = Idle /\ job' = [job EXCEPT ![t] = j] /\ Write(t, rows) /\ db' = db /\ seen' = seen
    BY DEF StartUnconfirmed, Hold
  <1>2. BookInvariant /\ Versions
    BY DEF BackedInvariant
  <1>3. X \subseteq Order
    BY GoodsReceiptAssumption DEF WithStatus
  <1>4. Wrote(t, rows) /\ DOMAIN rows = X /\ Sound(rows)
    <2>1. X \in SUBSET Row
      BY <1>3, Tables
    <2> HIDE DEF X
    <2> QED
      BY <1>1, <1>2, <2>1, BookWrites, ReadSound
  <1>5. j.op = "unconfirmed" /\ j.step = "read"
    OBVIOUS
  <1> HIDE DEF j, rows, X
  <1>6. Spares(t, rows)
    BY <1>3, <1>4, NeitherOf, Tables
  <1>7. job'[t] = j /\ \A u \in Txn \ {t} : job'[u] = job[u]
    BY <1>1, <1>2, NewJob DEF BookInvariant
  <1>8. Moves(t)
    BY <1>1, <1>2, <1>7, MovesOn
  <1>9. InPlace(t)'
    BY <1>5, <1>7 DEF InPlace, HoldsOrders, HoldsGoods, KnowsFree, KnowsItems, KnowsDue, At, Receiving
  <1>10. ~Finishing(t) /\ Aside(t) /\ Aside(t)' /\ ReadsSound(t)
    BY <1>1, <1>5, <1>7 DEF Finishing, Aside, At, Idle, ReadsSound
  <1> QED
    BY <1>1, <1>4, <1>6, <1>8, <1>9, <1>10, QuietBacked

\* the items are read,
LEMMA BackedReadUnconfirmed ==
    ASSUME BackedInvariant, BookInvariant', NEW t \in Txn, ReadUnconfirmed(t)
    PROVE  BackedInvariant'
  <1>1. /\ job[t].op = "unconfirmed" /\ job[t].step = "read" /\ Read(t, Item \cup Order)
        /\ Goto(t, "return") /\ db' = db /\ mine' = mine
    BY DEF ReadUnconfirmed, At
  <1>2. BookInvariant /\ Versions
    BY DEF BackedInvariant
  <1>3. Item \cup Order \in SUBSET Row
    BY Tables
  <1>4. ReadsSound(t) /\ DOMAIN seen'[t] = Item \cup Order
    BY <1>1, <1>2, <1>3, ReadReads
  <1>5. /\ job'[t].op = "unconfirmed" /\ job'[t].step = "return"
        /\ \A u \in Txn \ {t} : job'[u] = job[u]
    BY <1>1, <1>2, NextAwait DEF BookInvariant
  <1>6. Moves(t)
    BY <1>1, <1>2, <1>5, MovesOn DEF Read
  <1>7. InPlace(t)'
    BY <1>4, <1>5 DEF InPlace, HoldsOrders, HoldsGoods, KnowsFree, KnowsItems, KnowsDue, At, Receiving
  <1>8. ~Finishing(t) /\ Aside(t) /\ Aside(t)'
    BY <1>1, <1>5 DEF Finishing, Aside, At
  <1> QED
    BY <1>1, <1>4, <1>6, <1>7, <1>8, ReadBacked

\* and items return: a request that has read them goes on to a place where nothing is needed.
LEMMA BackedReturns ==
    ASSUME BackedInvariant, BookInvariant', db' = db, seen' = seen, NEW t \in Txn, NEW returned,
           NEW items \in SUBSET Item, ReturnToList(t, returned, items), returned \in ReturnedRows(seen[t], items),
           job[t].step \in {"close", "return"}, job[t].op \notin {"finish", "release"},
           NEW s \in {"status", "end"}, Goto(t, s)
    PROVE  BackedInvariant'
  <1>1. BookInvariant /\ Versions /\ InPlace(t)
    BY DEF BackedInvariant
  <1>2. Item \subseteq DOMAIN seen[t]
    BY <1>1 DEF InPlace, KnowsItems
  <1>3. PICK rows : /\ Wrote(t, rows) /\ DOMAIN rows \subseteq Item
                    /\ \A i \in DOMAIN rows :
                          /\ rows[i] \in ItemType
                          /\ rows[i].reserved <= See(t)[i].reserved /\ rows[i].received = See(t)[i].received
                          /\ rows[i].status = "ORDERED" => See(t)[i].status = "ORDERED"
    BY <1>1, <1>2, ReturnLowers
  <1>4. Sound(rows)
    BY <1>3, Tables DEF Sound, SoundRow
  <1>5. Spares(t, rows)
    BY <1>3, Tables DEF Spares
  <1>6. /\ job'[t].op = job[t].op /\ job'[t].step = s
        /\ \A u \in Txn \ {t} : job'[u] = job[u]
    BY <1>1, NextAwait DEF BookInvariant
  <1>7. Moves(t)
    BY <1>1, <1>6, MovesOn
  <1>8. InPlace(t)'
    BY <1>6 DEF InPlace, HoldsOrders, HoldsGoods, KnowsFree, KnowsItems, KnowsDue, At, Receiving
  <1>9. ~Finishing(t) /\ Aside(t) /\ Aside(t)' /\ ReadsSound(t)
    BY <1>6 DEF Finishing, Aside, At, ReadsSound
  <1> QED
    BY <1>3, <1>4, <1>5, <1>7, <1>8, <1>9, QuietBacked

\* What was read of the items has their types.
LEMMA ReadItemsTyped ==
    ASSUME BackedInvariant, NEW t \in Txn, job[t].step \in {"close", "return"}
    PROVE  ItemsTyped(seen[t])
  <1>1. Item \subseteq DOMAIN seen[t] /\ Sound(seen[t]) /\ IsRows(seen[t])
    BY DEF BackedInvariant, Versions, InPlace, KnowsItems
  <1> QED
    BY <1>1 DEF ItemsTyped, Sound, SoundRow

\* The order is closed for its items,
LEMMA BackedCloseForLists ==
    ASSUME BackedInvariant, BookInvariant', NEW t \in Txn, CloseForLists(t)
    PROVE  BackedInvariant'
  <1> DEFINE X == WithStatus(seen[t], "ORDERED")
             Return(rows, i) == IF i \in X THEN Returned(rows, i, Undelivered(rows[i])) ELSE rows
             returned == FoldLeft(Return, seen[t], ByAge)
  <1>1. /\ job[t].step = "close" /\ ReturnToList(t, returned, X) /\ Goto(t, "status")
        /\ db' = db /\ seen' = seen
    BY DEF CloseForLists
  <1>2. X \in SUBSET Item
    BY DEF WithStatus
  <1>3. ItemsTyped(seen[t])
    BY <1>1, ReadItemsTyped
  <1>4. returned \in ReturnedRows(seen[t], X)
    <2> HIDE DEF X
    <2> QED
      BY <1>2, <1>3, CloseReturns
  <1>5. job[t].op \in {"receive", "transition"}
    BY <1>1 DEF BackedInvariant, BookInvariant, Sees, JobShaped
  <1> HIDE DEF returned, X
  <1> QED
    BY <1>1, <1>2, <1>4, <1>5, BackedReturns

\* or the supplier has not confirmed one.
LEMMA BackedReturnUnconfirmed ==
    ASSUME BackedInvariant, BookInvariant', NEW t \in Txn, NEW i \in Unconfirmed, NEW cut \in 1..Wanted[i],
           ReturnUnconfirmed(t, i, cut)
    PROVE  BackedInvariant'
  <1> DEFINE returned == Returned(seen[t], i, cut)
  <1>1. /\ job[t].op = "unconfirmed" /\ job[t].step = "return" /\ ReturnToList(t, returned, {i})
        /\ Goto(t, "end") /\ db' = db /\ seen' = seen /\ cut <= Undelivered(seen[t][i])
    BY DEF ReturnUnconfirmed, At
  <1>2. i \in Item
    BY GoodsReceiptAssumption
  <1>3. ItemsTyped(seen[t])
    BY <1>1, ReadItemsTyped
  <1>4. cut \in Nat /\ cut <= seen[t][i].quantity
    <2>1. Wanted[i] \in Nat
      BY <1>2, GoodsReceiptAssumption
    <2>2. seen[t][i].quantity \in Nat /\ seen[t][i].received \in Nat
      BY <1>2, <1>3, ItemNat DEF ItemsTyped
    <2> QED
      BY <1>1, <2>1, <2>2 DEF Undelivered, Less
  <1>5. returned \in ReturnedRows(seen[t], {i})
    BY <1>2, <1>3, <1>4, ReturnsOne
  <1> HIDE DEF returned
  <1> QED
    BY <1>1, <1>2, <1>5, BackedReturns
-----------------------------------------------------------------------------
(* Reservations are released. *)

\* One item shows more or less.
LEMMA ExtraOne ==
    ASSUME NEW new, NEW mid, NEW old, NEW X \in SUBSET Item, NEW i \in X,
           \A x \in X : new[x] \in ItemType /\ mid[x] \in ItemType /\ old[x] \in ItemType,
           \A x \in X \ {i} : new[x].reserved = mid[x].reserved
    PROVE  Extra(new, old, X) = Extra(mid, old, X) + new[i].reserved - mid[i].reserved
  <1> DEFINE e == [x \in X |-> new[x].reserved - old[x].reserved]
             f == [x \in X |-> mid[x].reserved - old[x].reserved]
  <1>1. IsFiniteSet(X) /\ Extra(new, old, X) = SumFunctionOnSet(e, X)
    BY ExtraInt
  <1>2. Extra(mid, old, X) = SumFunctionOnSet(f, X) /\ Extra(mid, old, X) \in Int
    BY ExtraInt
  <1>3. \A x \in X : new[x].reserved \in Nat /\ mid[x].reserved \in Nat /\ old[x].reserved \in Nat
    BY ItemNat
  <1>4. /\ \A x \in X : f[x] \in Int /\ e[x] \in Int
        /\ \A x \in X \ {i} : e[x] = f[x]
    BY <1>3
  <1>5. e[i] = new[i].reserved - old[i].reserved /\ f[i] = mid[i].reserved - old[i].reserved
    OBVIOUS
  <1> HIDE DEF e, f
  <1>6. SumFunctionOnSet(e, X) = SumFunctionOnSet(f, X) - f[i] + e[i]
    BY <1>1, <1>4, SumChange
  <1> QED
    BY <1>1, <1>2, <1>3, <1>5, <1>6

\* A row of the stock in which one order has more or less reserved.
LEMMA StockReserves ==
    ASSUME NEW g, NEW v, SoundStock(g, v), NEW w \in Order, NEW n \in Nat, n <= Need[w][g],
           NEW e, DOMAIN e = DOMAIN v, e = [quantity |-> e.quantity, reserved |-> e.reserved, net |-> e.net],
           e.quantity \in Int, e.reserved = v.reserved + n - v.net[w], e.net = [v.net EXCEPT ![w] = n],
           e.reserved <= e.quantity
    PROVE  SoundStock(g, e) /\ v.net[w] <= v.reserved
  <1> DEFINE f == [u \in Order |-> v.net[u]]
             h == [u \in Order |-> e.net[u]]
  <1>1. v.net \in [Order -> Nat] /\ v.reserved \in Nat /\ v.net[w] \in Nat
    BY DEF SoundStock, StockType
  <1>2. e.net \in [Order -> Nat] /\ e.net[w] = n /\ \A u \in Order \ {w} : e.net[u] = v.net[u]
    BY <1>1
  <1>3. f \in [Order -> Nat] /\ h \in [Order -> Nat] /\ IsFiniteSet(Order)
    BY <1>1, <1>2, GoodsReceiptAssumption
  <1>4. f[w] = v.net[w] /\ h[w] = n /\ \A u \in Order \ {w} : h[u] = f[u]
    BY <1>2
  <1>5. v.reserved = SumFunction(f)
    BY DEF SoundStock
  <1> HIDE DEF f
  <1>6. v.reserved = SumFunctionOnSet(f, Order)
    <2>1. f \in [Order -> Int]
      BY <1>3
    <2> QED
      BY <1>3, <1>5, <2>1, FunctionSum
  <1>7. v.net[w] <= v.reserved
    BY <1>3, <1>4, <1>6, SumNat
  <1> SUFFICES SoundStock(g, e)
    BY <1>7
  <1>8. SumFunction(h) = e.reserved
    <2> HIDE DEF h
    <2>1. h \in [Order -> Int] /\ f \in [Order -> Int]
      BY <1>3
    <2>2. SumFunction(h) = SumFunctionOnSet(h, Order)
      BY <1>3, <2>1, FunctionSum
    <2>3. SumFunctionOnSet(h, Order) = SumFunctionOnSet(f, Order) - f[w] + h[w]
      BY <1>3, <1>4, <2>1, SumChange
    <2> QED
      BY <1>1, <1>4, <1>6, <2>2, <2>3
  <1>9. e.reserved \in Nat /\ e.quantity \in Nat
    BY <1>1, <1>7
  <1>10. e \in StockType
    BY <1>2, <1>9 DEF StockType
  <1>11. \A u \in Order : e.net[u] <= Need[u][g]
    BY <1>2 DEF SoundStock
  <1> QED
    BY <1>8, <1>10, <1>11 DEF SoundStock

\* Such a row, as the updates write it: without its quantity,
StockFreed(v, a, w, n) == [v EXCEPT !.reserved = a, !.net[w] = n]

\* is a row with these fields.
LEMMA FreedStock ==
    ASSUME NEW v \in StockType, NEW a, NEW w, NEW n
    PROVE  StockFreed(v, a, w, n) = [quantity |-> v.quantity, reserved |-> a, net |-> [v.net EXCEPT ![w] = n]]
  <1> DEFINE c == [v EXCEPT !.reserved = a]
  <1>1. c = [quantity |-> v.quantity, reserved |-> a, net |-> v.net]
    BY DEF StockType
  <1>2. [c EXCEPT !.net[w] = n] = [c EXCEPT !.net = [c.net EXCEPT ![w] = n]]
    OBVIOUS
  <1>3. StockFreed(v, a, w, n) = [c EXCEPT !.net[w] = n]
    BY DEF StockFreed
  <1> HIDE DEF c
  <1>4. [c EXCEPT !.net = [c.net EXCEPT ![w] = n]] =
           [quantity |-> v.quantity, reserved |-> a, net |-> [v.net EXCEPT ![w] = n]]
    BY <1>1
  <1> QED
    BY <1>2, <1>3, <1>4

\* and with it.
StockSet(v, q, a, w, n) == [v EXCEPT !.quantity = q, !.reserved = a, !.net[w] = n]

\* is a row with these fields.
LEMMA SetStock ==
    ASSUME NEW v \in StockType, NEW q, NEW a, NEW w, NEW n
    PROVE  StockSet(v, q, a, w, n) = [quantity |-> q, reserved |-> a, net |-> [v.net EXCEPT ![w] = n]]
  <1> DEFINE b == [v EXCEPT !.quantity = q]
             d == [v EXCEPT !.quantity = q, !.reserved = a]
  <1>1. b = [quantity |-> q, reserved |-> v.reserved, net |-> v.net]
    BY DEF StockType
  <1>2. d = [b EXCEPT !.reserved = a]
    OBVIOUS
  <1>3. [d EXCEPT !.net[w] = n] = [d EXCEPT !.net = [d.net EXCEPT ![w] = n]]
    OBVIOUS
  <1>4. StockSet(v, q, a, w, n) = [d EXCEPT !.net[w] = n]
    BY DEF StockSet
  <1> HIDE DEF b, d
  <1>5. d = [quantity |-> q, reserved |-> a, net |-> v.net]
    BY <1>1, <1>2
  <1>6. [d EXCEPT !.net = [d.net EXCEPT ![w] = n]] = [quantity |-> q, reserved |-> a, net |-> [v.net EXCEPT ![w] = n]]
    BY <1>5
  <1> QED
    BY <1>3, <1>4, <1>6

\* What is left of a row of the stock when an order releases what it has and takes its parts.
LEMMA StockLeft ==
    ASSUME NEW g \in Good, NEW v, SoundStock(g, v), NEW w \in Order, NEW used \in Nat,
           NEW e, e = [quantity |-> v.quantity - used, reserved |-> v.reserved - v.net[w],
                       net |-> [v.net EXCEPT ![w] = 0]]
    PROVE  /\ Enough(e) => SoundStock(g, e)
           /\ e.net = [v.net EXCEPT ![w] = 0]
  <1>1. v \in StockType /\ v.quantity \in Nat /\ v.reserved \in Nat /\ v.net[w] \in Nat
    BY DEF SoundStock, StockType
  <1>3. 0 <= Need[w][g]
    BY GoodsReceiptAssumption
  <1>4. DOMAIN e = DOMAIN v
    BY <1>1 DEF StockType
  <1>5. e = [quantity |-> e.quantity, reserved |-> e.reserved, net |-> e.net] /\ e.quantity \in Int
        /\ e.reserved = v.reserved + 0 - v.net[w] /\ e.net = [v.net EXCEPT ![w] = 0]
    BY <1>1
  <1>6. ASSUME Enough(e) PROVE SoundStock(g, e)
    <2>1. e.reserved <= e.quantity
      BY <1>6 DEF Enough
    <2> QED
      BY <1>3, <1>4, <1>5, <2>1, StockReserves
  <1> QED
    BY <1>5, <1>6

\* The end of a work order releases all it has reserved.
LEMMA BackedReleaseStock ==
    ASSUME BackedInvariant, BookInvariant', NEW t \in Txn, ReleaseStock(t)
    PROVE  BackedInvariant'
  <1> DEFINE w == job[t].arg
             Used(g) == IF job[t].to = "COMPLETED" THEN Need[w][g] ELSE 0
             Left(g) == [See(t)[g] EXCEPT !.quantity = @ - Used(g), !.reserved = @ - See(t)[g].net[w], !.net[w] = 0]
             moved == {g \in Good : Used(g) > 0 \/ See(t)[g].net[w] > 0}
             rows == [g \in moved |-> Left(g)]
  <1>1. /\ job[t].op = "finish" /\ job[t].step = "release" /\ Write(t, rows) /\ Goto(t, "items")
        /\ db' = db /\ seen' = seen
    BY DEF ReleaseStock, At
  <1>2. BookInvariant /\ Versions /\ Backs(t)
    BY DEF BackedInvariant
  <1>3. w \in Order /\ w \in DOMAIN mine[t]
    BY <1>1, <1>2 DEF BookInvariant, Sees, JobShaped, Finishing
  <1>4. Wrote(t, rows) /\ DOMAIN rows = moved
    <2> HIDE DEF Left
    <2> QED
      BY <1>1, <1>2, BookWrites
  <1>5. ASSUME NEW g \in Good
        PROVE  /\ Used(g) \in Nat
               /\ g \in moved => SoundStock(g, rows[g]) /\ rows[g].net = [See(t)[g].net EXCEPT ![w] = 0]
    <2> DEFINE used == Used(g)
               v == See(t)[g]
    <2>1. Used(g) \in Nat
      BY <1>3, GoodsReceiptAssumption
    <2>2. SoundStock(g, v)
      BY <1>2, SeesTyped
    <2>3. g \in moved => Enough(Left(g))
      BY DEF ReleaseStock
    <2>4. g \in moved => rows[g] = Left(g)
      OBVIOUS
    <2>5. Left(g) = StockSet(v, v.quantity - used, v.reserved - v.net[w], w, 0)
      BY DEF StockSet
    <2>6. used \in Nat
      BY <2>1
    <2> DEFINE e == Left(g)
    <2> HIDE DEF used, v
    <2>7. v \in StockType
      BY <2>2 DEF SoundStock
    <2>8. e = [quantity |-> v.quantity - used, reserved |-> v.reserved - v.net[w], net |-> [v.net EXCEPT ![w] = 0]]
      <3>1. e = StockSet(v, v.quantity - used, v.reserved - v.net[w], w, 0)
        BY <2>5
      <3> HIDE DEF e
      <3> QED
        BY <2>7, <3>1, SetStock
    <2> HIDE DEF e, rows, moved, Left, Used, w
    <2> DEFINE n == [v.net EXCEPT ![w] = 0]
    <2>11. (Enough(e) => SoundStock(g, e)) /\ e.net = n
      BY <1>3, <2>2, <2>6, <2>8, StockLeft
    <2> HIDE DEF n
    <2>9. g \in moved => Enough(e) /\ rows[g] = e
      BY <2>3, <2>4 DEF e
    <2>10. g \in moved => SoundStock(g, rows[g]) /\ rows[g].net = n
      BY <2>9, <2>11
    <2> QED
      BY <2>1, <2>10 DEF v, n
  <1>6. \A g \in Good \ moved : ~(See(t)[g].net[w] > 0)
    OBVIOUS
  <1>7. moved \subseteq Good
    OBVIOUS
  <1> HIDE DEF rows, moved, Used, Left
  <1>8. Sound(rows)
    BY <1>4, <1>5, <1>7, Tables DEF Sound, SoundRow
  <1>9. ASSUME NEW g \in Good
        PROVE  /\ See(t)'[g].net[w] = 0
               /\ \A v \in Order \ {w} : See(t)'[g].net[v] = See(t)[g].net[v]
    <2>1. See(t)'[g] = IF g \in moved THEN rows[g] ELSE See(t)[g]
      BY <1>4, Tables DEF Wrote
    <2>2. See(t)[g].net \in [Order -> Nat]
      BY <1>2, SeesTyped DEF SoundStock, StockType
    <2>3. CASE g \in moved
      BY <1>5, <2>1, <2>2, <2>3, <1>3
    <2>4. CASE g \notin moved
      BY <1>3, <1>6, <2>1, <2>2, <2>4
    <2> QED
      BY <2>3, <2>4
  <1>10. \A i \in Item : See(t)'[i] = See(t)[i]
    BY <1>4, <1>7, Tables DEF Wrote
  <1>11. /\ job'[t].op = "finish" /\ job'[t].arg = w /\ job'[t].step = "items"
         /\ \A u \in Txn \ {t} : job'[u] = job[u]
    BY <1>1, <1>2, NextAwait DEF BookInvariant
  <1>12. Moves(t)
    BY <1>1, <1>2, <1>11, MovesOn
  <1>13. DOMAIN mine[t] \subseteq DOMAIN mine'[t]
    BY <1>4 DEF Wrote
  <1> HIDE DEF w
  <1>14. MovesOwn(t)'
    <2>1. \A v \in Order \ {w}, g \in Good : Moved(t, v, g)' = Moved(t, v, g)
      BY <1>1, <1>9 DEF Moved
    <2> QED
      BY <1>2, <1>3, <1>13, <2>1 DEF Backs, MovesOwn
  <1>15. LendsBacked(t)'
    <2> SUFFICES ASSUME NEW v \in Order \ {w}, NEW g \in Good
                 PROVE  Lent(t, v, g)' + Pending(t, v, g)' <= Moved(t, v, g)'
      BY <1>11 DEF LendsBacked, Finishing
    <2>1. Moved(t, v, g)' = Moved(t, v, g)
      BY <1>1, <1>9 DEF Moved
    <2>2. Lent(t, v, g)' = Lent(t, v, g)
      BY <1>1, <1>10 DEF Lent, Extra, OfOrder
    <2>3. Pending(t, v, g)' = Pending(t, v, g)
      BY <1>1, <1>11 DEF Pending, At
    <2>4. Lent(t, v, g) + Pending(t, v, g) <= Moved(t, v, g)
      BY <1>2 DEF Backs, LendsBacked, w
    <2> QED
      BY <2>1, <2>2, <2>3, <2>4
  <1>16. ClosedFree(t)'
    <2>1. ASSUME NEW v \in Order \ {w}, NEW g \in Good, db[v] # "IN_PROGRESS" PROVE See(t)[g].net[v] = 0
      BY <1>2, <2>1 DEF Backs, ClosedFree
    <2> QED
      BY <1>1, <1>9, <1>11, <2>1 DEF ClosedFree
  <1>17. OrdersNone(t)'
    BY <1>1, <1>2, <1>10 DEF Backs, OrdersNone
  <1>18. InPlace(t)'
    BY <1>11 DEF InPlace, HoldsOrders, HoldsGoods, KnowsFree, KnowsItems, KnowsDue, At, Receiving
  <1>19. Sound(seen[t])' /\ IsRows(seen[t])'
    BY <1>1, <1>2 DEF Versions
  <1> QED
    BY <1>1, <1>4, <1>8, <1>12, <1>14, <1>15, <1>16, <1>17, <1>18, <1>19, UncommittedBacked DEF Backs

\* An item shows less, and that much is due.
LEMMA BackedReleaseItem ==
    ASSUME BackedInvariant, BookInvariant', NEW t \in Txn, ReleaseItem(t)
    PROVE  BackedInvariant'
  <1> DEFINE i == job[t].arg
             w == ItemOrder[i]
             g == ItemGood[i]
             stock == See(t)[g]
             amount == Min2(seen[t][i].reserved, Min2(stock.net[w], stock.reserved))
             less == [See(t)[i] EXCEPT !.reserved = @ - amount]
             rows == [x \in {i, w} |-> IF x = i THEN [See(t)[x] EXCEPT !.reserved = @ - amount] ELSE See(t)[x]]
  <1>1. /\ job[t].op = "release" /\ job[t].step = "item" /\ amount > 0
        /\ See(t)[i].reserved = seen[t][i].reserved /\ Write(t, rows) /\ Goto(t, "movement")
        /\ db' = db /\ seen' = seen
    BY DEF ReleaseItem, At
  <1>2. BookInvariant /\ Versions /\ Backs(t) /\ InPlace(t)
    BY DEF BackedInvariant
  <1>3. i \in Item /\ w \in Order /\ g \in Good /\ i # w
    <2>1. i \in Item /\ w \in Order
      BY <1>1, <1>2 DEF BookInvariant, Sees, JobShaped
    <2> QED
      BY <2>1, GoodsReceiptAssumption
  <1>4. Wrote(t, rows) /\ DOMAIN rows = {i, w} /\ rows[i] = less /\ rows[w] = See(t)[w]
    BY <1>1, <1>2, <1>3, BookWrites
  <1>5. See(t)[i] \in ItemType /\ See(t)[i].reserved \in Nat
        /\ stock.net[w] \in Nat /\ stock.reserved \in Nat
    BY <1>2, <1>3, SeesTyped, ItemNat, StockNat
  <1>6. amount \in Nat /\ amount <= See(t)[i].reserved /\ amount <= stock.net[w]
    <2> DEFINE n == stock.net[w]
               r == stock.reserved
    <2>1. amount = Min2(See(t)[i].reserved, Min2(n, r))
      BY <1>1
    <2>2. n \in Nat /\ r \in Nat
      BY <1>5
    <2> HIDE DEF n, r
    <2>3. Min2(n, r) \in Nat /\ Min2(n, r) <= n
      BY <2>2 DEF Min2
    <2>4. amount \in Nat /\ amount <= See(t)[i].reserved /\ amount <= n
      <3> HIDE DEF amount
      <3> QED
        BY <1>5, <2>1, <2>2, <2>3 DEF Min2
    <2> QED
      BY <2>4 DEF n
  <1> HIDE DEF amount
  <1>7. less \in ItemType /\ less.reserved = See(t)[i].reserved - amount /\ less.status = See(t)[i].status
    <2>1. See(t)[i].reserved - amount \in Nat
      BY <1>5, <1>6
    <2> QED
      BY <1>5, <2>1 DEF ItemType
  <1>8. /\ job'[t].op = "release" /\ job'[t].arg = i /\ job'[t].step = "movement"
        /\ \A u \in Txn \ {t} : job'[u] = job[u]
    BY <1>1, <1>2, NextAwait DEF BookInvariant
  <1> HIDE DEF rows, less
  <1>9. Sound(rows)
    <2>1. SoundRow(w, See(t)[w])
      BY <1>2, <1>3, SeesSound, Tables
    <2>2. SoundRow(i, less)
      BY <1>3, <1>7, Tables DEF SoundRow
    <2> QED
      BY <1>3, <1>4, <2>1, <2>2, Tables DEF Sound
  <1>10. /\ \A x \in Item \ {i} : See(t)'[x] = See(t)[x]
         /\ See(t)'[i] = less
         /\ \A x \in Good : See(t)'[x] = See(t)[x]
    BY <1>3, <1>4, Tables DEF Wrote
  <1>11. DOMAIN mine'[t] = {i, w} \cup DOMAIN mine[t]
    BY <1>4 DEF Wrote
  <1>12. Moves(t)
    BY <1>1, <1>2, <1>8, MovesOn
  <1>13. \A v \in Order, h \in Good : Moved(t, v, h)' = Moved(t, v, h)
    BY <1>1, <1>10 DEF Moved
  <1> HIDE DEF i, w, g, stock
  <1>14. MovesOwn(t)'
    BY <1>2, <1>11, <1>13 DEF Backs, MovesOwn
  <1>15. Due(t)' = amount
    <2>1. seen'[t][i].reserved = See(t)[i].reserved
      BY <1>1
    <2>2. Due(t)' = seen'[t][i].reserved - less.reserved
      BY <1>8, <1>10 DEF Due
    <2> QED
      BY <1>5, <1>6, <1>7, <2>1, <2>2
  <1>16. LendsBacked(t)'
    <2> SUFFICES ASSUME NEW v \in Order, NEW h \in Good
                 PROVE  Lent(t, v, h)' + Pending(t, v, h)' <= Moved(t, v, h)'
      BY DEF LendsBacked
    <2>1. Lent(t, v, h) + Pending(t, v, h) <= Moved(t, v, h) /\ Pending(t, v, h) = 0
      BY <1>1, <1>2 DEF Backs, LendsBacked, Finishing, Pending, At
    <2> DEFINE X == OfOrder(v, h)
    <2>2. X \in SUBSET Item
      BY DEF OfOrder
    <2>3. \A x \in X : See(t)'[x] \in ItemType /\ See(t)[x] \in ItemType /\ db[x] \in ItemType
      BY <1>2, <1>7, <1>10, <2>2, SeesTyped
    <2>4. Lent(t, v, h) = Extra(See(t), db, X) /\ Lent(t, v, h)' = Extra(See(t)', db, X)
      BY <1>1 DEF Lent
    <2> HIDE DEF X
    <2>5. Lent(t, v, h) \in Int
      BY <2>2, <2>3, <2>4, ExtraInt
    <2>6. CASE i \in X
      <3>1. Extra(See(t)', db, X) = Extra(See(t), db, X) + less.reserved - See(t)[i].reserved
        <4>1. \A x \in X \ {i} : See(t)'[x].reserved = See(t)[x].reserved
          BY <1>10, <2>2
        <4> DEFINE new == See(t)'
                   mid == See(t)
        <4>2. new[i] = less
          BY <1>10
        <4>3. /\ \A x \in X \ {i} : new[x].reserved = mid[x].reserved
              /\ \A x \in X : new[x] \in ItemType /\ mid[x] \in ItemType /\ db[x] \in ItemType
          BY <4>1, <2>3
        <4> HIDE DEF new, mid
        <4>4. Extra(new, db, X) = Extra(mid, db, X) + new[i].reserved - mid[i].reserved
          BY <2>2, <2>6, <4>3, ExtraOne
        <4> QED
          BY <4>2, <4>4 DEF new, mid
      <3>2. Pending(t, v, h)' = amount
        BY <1>8, <1>15, <2>6 DEF Pending, At, X
      <3> QED
        BY <1>5, <1>6, <1>7, <1>13, <2>1, <2>4, <2>5, <3>1, <3>2
    <2>7. CASE i \notin X
      <3>1. \A x \in X : See(t)'[x] = See(t)[x]
        BY <1>10, <2>2, <2>7
      <3>2. Extra(See(t)', db, X) = Extra(See(t), db, X)
        BY <3>1 DEF Extra
      <3>3. Pending(t, v, h)' = 0
        BY <1>8, <2>7 DEF Pending, X, OfOrder
      <3> QED
        BY <1>13, <2>1, <2>4, <3>2, <3>3
    <2> QED
      BY <2>6, <2>7
  <1>17. ClosedFree(t)'
    BY <1>1, <1>2, <1>8, <1>10 DEF Backs, ClosedFree, At
  <1>18. OrdersNone(t)'
    BY <1>1, <1>2, <1>7, <1>10 DEF Backs, OrdersNone
  <1>19. KnowsDue(t)'
    <2>1. i \in DOMAIN seen[t]
      BY <1>1, <1>2 DEF InPlace, KnowsDue, i
    <2>2. See(t)'[g].net[w] = stock.net[w]
      BY <1>3, <1>10 DEF stock
    <2> QED
      BY <1>1, <1>6, <1>8, <1>11, <1>15, <2>1, <2>2 DEF KnowsDue, w, g
  <1>20. InPlace(t)'
    BY <1>8, <1>19 DEF InPlace, HoldsOrders, HoldsGoods, KnowsFree, KnowsItems, At, Receiving
  <1>21. Sound(seen[t])' /\ IsRows(seen[t])'
    BY <1>1, <1>2 DEF Versions
  <1> QED
    BY <1>1, <1>4, <1>9, <1>12, <1>14, <1>16, <1>17, <1>18, <1>20, <1>21, UncommittedBacked DEF Backs
-----------------------------------------------------------------------------
(* Goods that came are shared among the items. *)

\* Two changes add up.
LEMMA ExtraSum ==
    ASSUME NEW new, NEW mid, NEW old, NEW r, NEW s, NEW X \in SUBSET Item,
           \A x \in X : new[x] \in ItemType /\ mid[x] \in ItemType /\ old[x] \in ItemType,
           \A x \in X : r[x] \in ItemType /\ s[x] \in ItemType,
           \A x \in X : new[x].reserved = mid[x].reserved + r[x].reserved - s[x].reserved
    PROVE  Extra(new, old, X) = Extra(mid, old, X) + Extra(r, s, X)
  <1> DEFINE e == [x \in X |-> new[x].reserved - old[x].reserved]
             f == [x \in X |-> mid[x].reserved - old[x].reserved]
             h == [x \in X |-> r[x].reserved - s[x].reserved]
  <1>1. IsFiniteSet(X) /\ Extra(new, old, X) = SumFunctionOnSet(e, X)
    BY ExtraInt
  <1>2. Extra(mid, old, X) = SumFunctionOnSet(f, X)
    BY ExtraInt
  <1>3. Extra(r, s, X) = SumFunctionOnSet(h, X)
    BY ExtraInt
  <1>4. ASSUME NEW x \in X PROVE f[x] \in Int /\ h[x] \in Int /\ e[x] = f[x] + h[x]
    <2>1. /\ new[x].reserved \in Nat /\ mid[x].reserved \in Nat /\ old[x].reserved \in Nat
          /\ r[x].reserved \in Nat /\ s[x].reserved \in Nat
      BY ItemNat
    <2> QED
      BY <2>1
  <1> HIDE DEF e, f, h
  <1> QED
    BY <1>1, <1>2, <1>3, <1>4, SumPlus

\* Items that show the same.
LEMMA ExtraSame ==
    ASSUME NEW new, NEW mid, NEW old, NEW X, \A x \in X : new[x].reserved = mid[x].reserved
    PROVE  Extra(new, old, X) = Extra(mid, old, X)
  BY DEF Extra

\* Rows in which goods of a receipt are shared: items of these goods show more, as much as is
\* reserved for active orders that wait for them.
SharedItems(k, r, old) ==
    \A i \in Item : /\ r[i] \in ItemType /\ r[i].reserved >= old[i].reserved
                    /\ r[i].status = "ORDERED" => old[i].status = "ORDERED"
                    /\ ItemGood[i] \notin GoodsOf(k) => r[i] = old[i]
SharedGoods(k, r, old) ==
    \A g \in GoodsOf(k) :
        /\ SoundStock(g, r[g]) /\ r[g].quantity = old[g].quantity
        /\ \A w \in Order : /\ Extra(r, old, OfOrder(w, g)) = r[g].net[w] - old[g].net[w]
                            /\ r[g].net[w] # old[g].net[w] => w \in Wanting(k, old) /\ old[w] = "IN_PROGRESS"
SharedRows(k, old) ==
    {r \in [DOMAIN old -> {old[x] : x \in DOMAIN old} \cup ItemType \cup StockType] :
        SharedItems(k, r, old) /\ SharedGoods(k, r, old) /\ \A w \in Order : r[w] = old[w]}
Shares(k, old) == {a \in [left : [Good -> Nat], rows : SharedRows(k, old)] :
                       \A g \in Good \ GoodsOf(k) : a.left[g] = 0}
ReadForSharing(k, old) == DOMAIN old = Item \cup Order \cup GoodsOf(k) /\ Sound(old) /\ IsRows(old)

\* Nothing is shared at first.
LEMMA SharesNone ==
    ASSUME NEW k \in Key, NEW old, ReadForSharing(k, old)
    PROVE  [left |-> [g \in Good |-> Arrived(k, g)], rows |-> old] \in Shares(k, old)
  <1>1. GoodsOf(k) \subseteq Good
    BY GoodsReceiptAssumption DEF GoodsOf, ActiveLines
  <1>2. \A i \in Item : old[i] \in ItemType
    BY Tables DEF ReadForSharing, Sound, SoundRow
  <1>3. \A g \in GoodsOf(k) : SoundStock(g, old[g])
    BY <1>1, Tables DEF ReadForSharing, Sound, SoundRow
  <1>4. SharedItems(k, old, old)
    BY <1>2, ItemNat DEF SharedItems
  <1>5. ASSUME NEW g \in GoodsOf(k), NEW w \in Order
        PROVE  Extra(old, old, OfOrder(w, g)) = old[g].net[w] - old[g].net[w]
    <2> DEFINE X == OfOrder(w, g)
               f == [i \in X |-> old[i].reserved - old[i].reserved]
    <2>1. X \in SUBSET Item
      BY DEF OfOrder
    <2>2. IsFiniteSet(X) /\ Extra(old, old, X) = SumFunctionOnSet(f, X)
      BY <1>2, <2>1, ExtraInt
    <2>3. \A i \in X : f[i] = 0
      <3> SUFFICES ASSUME NEW i \in X PROVE old[i].reserved - old[i].reserved = 0
        OBVIOUS
      <3>1. old[i].reserved \in Nat
        BY <1>2, <2>1, ItemNat
      <3> QED
        BY <3>1
    <2>4. old[g].net[w] \in Nat
      BY <1>3, StockNat
    <2> HIDE DEF f, X
    <2>5. Extra(old, old, X) = 0
      BY <2>2, <2>3, SumZero
    <2> QED
      BY <2>4, <2>5 DEF X
  <1>6. SharedGoods(k, old, old)
    BY <1>3, <1>5 DEF SharedGoods
  <1>7. old \in SharedRows(k, old)
    BY <1>4, <1>6 DEF SharedRows, ReadForSharing, IsRows
  <1>8. \A g \in Good : Arrived(k, g) \in Nat
    BY ArrivedNat
  <1>9. \A g \in Good \ GoodsOf(k) : Arrived(k, g) = 0
    BY NoneArrives
  <1> QED
    BY <1>7, <1>8, <1>9 DEF Shares

\* What an item takes, as numbers.
LEMMA TakesNat ==
    ASSUME NEW a \in Nat, NEW b \in Nat
    PROVE  /\ Min2(a, b) \in Nat /\ Min2(a, b) <= a /\ Min2(a, b) <= b
           /\ Less(a, b) \in Nat /\ Less(a, b) <= a /\ (Less(a, b) > 0 => Less(a, b) + b <= a)
  BY DEF Min2, Less

\* An item takes its share, and is reserved for as much of it as its order still needs.
LEMMA SharesOne ==
    ASSUME NEW k \in Key, NEW old, ReadForSharing(k, old), NEW a \in Shares(k, old), NEW i \in Item
    PROVE  Given(a, i) \in Shares(k, old)
  <1> DEFINE r == a.rows
             g == ItemGood[i]
             w == ItemOrder[i]
             take == IF i \in WithStatus(r, "ORDERED") THEN Min2(a.left[g], Undelivered(r[i])) ELSE 0
             reserve == Reserve(r, i, take)
             item == [r[i] EXCEPT !.received = @ + take, !.reserved = @ + reserve,
                                  !.status = IF Undelivered(r[i]) = take THEN "RECEIVED" ELSE @]
             stock == [r[g] EXCEPT !.reserved = @ + reserve, !.net[w] = @ + reserve]
             left == [a.left EXCEPT ![g] = @ - take]
             V == {old[x] : x \in DOMAIN old} \cup ItemType \cup StockType
  <1>1. Given(a, i) = IF take = 0 THEN a
                      ELSE [left |-> left,
                            rows |-> IF reserve = 0 THEN [r EXCEPT ![i] = item]
                                     ELSE [r EXCEPT ![i] = item, ![g] = stock]]
    BY DEF Given
  <1>2. /\ r \in SharedRows(k, old) /\ a.left \in [Good -> Nat] /\ \A h \in Good \ GoodsOf(k) : a.left[h] = 0
        /\ r \in [DOMAIN old -> V]
        /\ SharedItems(k, r, old) /\ SharedGoods(k, r, old) /\ \A v \in Order : r[v] = old[v]
    BY DEF Shares, SharedRows
  <1>3. g \in Good /\ DOMAIN old = Item \cup Order \cup GoodsOf(k) /\ GoodsOf(k) \subseteq Good
    BY GoodsReceiptAssumption DEF GoodsOf, ActiveLines, ReadForSharing
  <1>4. \A x \in Item : r[x] \in ItemType /\ old[x] \in ItemType
    BY <1>2, Tables DEF SharedItems, ReadForSharing, Sound, SoundRow
  <1>5. r[i].quantity \in Nat /\ r[i].received \in Nat /\ r[i].reserved \in Nat
    BY <1>4, ItemNat
  <1>6. take \in Nat /\ take <= a.left[g] /\ (take # 0 => r[i].status = "ORDERED")
    <2>1. a.left[g] \in Nat
      BY <1>2, <1>3
    <2>2. Undelivered(r[i]) \in Nat
      BY <1>5, TakesNat DEF Undelivered
    <2>3. i \in WithStatus(r, "ORDERED") => r[i].status = "ORDERED"
      BY DEF WithStatus
    <2> DEFINE n == a.left[g]
               u == Undelivered(r[i])
    <2>4. take = IF i \in WithStatus(r, "ORDERED") THEN Min2(n, u) ELSE 0
      OBVIOUS
    <2> HIDE DEF n, u, take, reserve, item, stock, left
    <2>5. n \in Nat /\ u \in Nat
      BY <2>1, <2>2 DEF n, u
    <2>6. Min2(n, u) \in Nat /\ Min2(n, u) <= n
      BY <2>5, TakesNat
    <2> QED
      BY <2>3, <2>4, <2>5, <2>6 DEF n
  <1> HIDE DEF take, stock
  <1>7. CASE take = 0
    BY <1>1, <1>7
  <1>8. CASE take # 0
    <2>1. g \in GoodsOf(k)
      BY <1>2, <1>3, <1>6, <1>8
    <2>2. SoundStock(g, r[g]) /\ r[g].quantity = old[g].quantity /\ r[g] \in StockType
          /\ r[g].quantity \in Nat /\ r[g].reserved \in Nat /\ r[g].net \in [Order -> Nat]
      BY <1>2, <2>1 DEF SharedGoods, SoundStock, StockType
    <2>3. /\ reserve \in Nat
          /\ reserve # 0 => /\ w \in Order /\ r[w] = "IN_PROGRESS"
                            /\ r[g].net[w] + reserve <= Need[w][g]
                            /\ r[g].reserved + reserve <= r[g].quantity
      <3>1. CASE w \notin Active(r)
        BY <3>1 DEF Reserve
      <3>2. CASE w \in Active(r)
        <4>1. w \in Order /\ r[w] = "IN_PROGRESS"
          BY <3>2 DEF Active
        <4> DEFINE n == r[g].net[w]
                   need == Need[w][g]
                   b == Less(need, n)
                   c == Less(r[g].quantity, r[g].reserved)
        <4>2. reserve = Min2(take, Min2(b, c))
          BY <3>2 DEF Reserve
        <4>3. n \in Nat /\ need \in Nat
          BY <1>3, <2>2, <4>1, GoodsReceiptAssumption
        <4> HIDE DEF n, need
        <4>4. b \in Nat /\ (b > 0 => b + n <= need)
          BY <4>3, TakesNat
        <4>5. c \in Nat /\ (c > 0 => c + r[g].reserved <= r[g].quantity)
          BY <2>2, TakesNat
        <4> HIDE DEF b, c
        <4>6. Min2(b, c) \in Nat /\ Min2(b, c) <= b /\ Min2(b, c) <= c
          BY <4>4, <4>5, TakesNat
        <4>7. reserve \in Nat /\ reserve <= b /\ reserve <= c
          <5> DEFINE m == Min2(b, c)
          <5> HIDE DEF m, reserve
          <5>1. Min2(take, m) \in Nat /\ Min2(take, m) <= m
            BY <1>6, <4>6, TakesNat DEF m
          <5>2. reserve = Min2(take, m) /\ m \in Nat /\ m <= b /\ m <= c
            BY <4>2, <4>6 DEF m
          <5> QED
            BY <4>4, <4>5, <5>1, <5>2
        <4> HIDE DEF reserve
        <4>8. reserve # 0 => n + reserve <= need /\ r[g].reserved + reserve <= r[g].quantity
          BY <2>2, <4>3, <4>4, <4>5, <4>7
        <4> QED
          BY <4>1, <4>7, <4>8 DEF n, need
      <3> QED
        BY <3>1, <3>2
    <2> HIDE DEF reserve
    <2>4. /\ item \in ItemType /\ item.reserved = r[i].reserved + reserve
          /\ item.status = "ORDERED" => r[i].status = "ORDERED"
      <3>1. r[i].received + take \in Nat /\ r[i].reserved + reserve \in Nat
        BY <1>5, <1>6, <2>3
      <3>2. r[i] \in ItemType
        BY <1>4
      <3> QED
        BY <3>1, <3>2, <1>6, <1>8 DEF ItemType
    <2>5. left \in [Good -> Nat] /\ \A h \in Good \ GoodsOf(k) : left[h] = 0
      <3>1. a.left[g] - take \in Nat
        BY <1>2, <1>3, <1>6
      <3> QED
        BY <1>2, <1>3, <2>1, <3>1
    <2> HIDE DEF item, left
    <2>6. ASSUME NEW new, new \in [DOMAIN old -> V], new[i] = item,
                 \A x \in DOMAIN old \ {i, g} : new[x] = r[x],
                 SoundStock(g, new[g]), new[g].quantity = r[g].quantity,
                 \A v \in Order : /\ v = w => new[g].net[v] = r[g].net[v] + reserve
                                  /\ v # w => new[g].net[v] = r[g].net[v]
          PROVE  new \in SharedRows(k, old)
      <3>1. i # g /\ i \in DOMAIN old /\ g \in DOMAIN old
        BY <1>3, <2>1, Tables
      <3>2. \A x \in Item \ {i} : new[x] = r[x]
        BY <1>3, <2>6, Tables
      <3>3. SharedItems(k, new, old)
        <4> SUFFICES ASSUME NEW x \in Item
                     PROVE  /\ new[x] \in ItemType /\ new[x].reserved >= old[x].reserved
                            /\ new[x].status = "ORDERED" => old[x].status = "ORDERED"
                            /\ ItemGood[x] \notin GoodsOf(k) => new[x] = old[x]
          BY DEF SharedItems
        <4>1. /\ r[x].reserved >= old[x].reserved
              /\ r[x].status = "ORDERED" => old[x].status = "ORDERED"
              /\ ItemGood[x] \notin GoodsOf(k) => r[x] = old[x]
          BY <1>2 DEF SharedItems
        <4>2. old[x].reserved \in Nat /\ r[x].reserved \in Nat
          BY <1>4, ItemNat
        <4>3. CASE x = i
          BY <2>1, <2>3, <2>4, <2>6, <4>1, <4>2, <4>3
        <4>4. CASE x # i
          BY <1>4, <3>2, <4>1, <4>4
        <4> QED
          BY <4>3, <4>4
      <3>4. ASSUME NEW h \in GoodsOf(k), NEW v \in Order
            PROVE  /\ Extra(new, old, OfOrder(v, h)) = new[h].net[v] - old[h].net[v]
                   /\ new[h].net[v] # old[h].net[v] => v \in Wanting(k, old) /\ old[v] = "IN_PROGRESS"
        <4> DEFINE X == OfOrder(v, h)
        <4>1. /\ Extra(r, old, X) = r[h].net[v] - old[h].net[v]
              /\ r[h].net[v] # old[h].net[v] => v \in Wanting(k, old) /\ old[v] = "IN_PROGRESS"
          BY <1>2 DEF SharedGoods
        <4>2. X \in SUBSET Item /\ (i \in X <=> v = w /\ h = g)
          BY DEF OfOrder
        <4>3. \A x \in X : new[x] \in ItemType /\ r[x] \in ItemType /\ old[x] \in ItemType
          BY <1>4, <3>3, <4>2 DEF SharedItems
        <4>4. r[h].net[v] \in Nat /\ old[h].net[v] \in Nat
          <5>1. SoundStock(h, r[h])
            BY <1>2 DEF SharedGoods
          <5>2. SoundStock(h, old[h])
            BY <1>3, Tables DEF ReadForSharing, Sound, SoundRow
          <5> QED
            BY <5>1, <5>2, StockNat
        <4>5. h # g => new[h] = r[h]
          BY <1>3, <2>6, Tables
        <4> HIDE DEF X
        <4>6. CASE i \in X
          <5>1. \A x \in X \ {i} : new[x].reserved = r[x].reserved
            BY <3>2, <4>2
          <5> HIDE DEF r
          <5>2. Extra(new, old, X) = Extra(r, old, X) + new[i].reserved - r[i].reserved
            BY <4>2, <4>3, <4>6, <5>1, ExtraOne
          <5>3. new[i].reserved = r[i].reserved + reserve /\ r[i].reserved \in Nat
            BY <1>5, <2>4, <2>6
          <5>4. Extra(new, old, X) = r[h].net[v] - old[h].net[v] + reserve
            BY <2>3, <4>1, <4>4, <5>2, <5>3
          <5>5. v = w /\ h = g /\ new[h].net[v] = r[h].net[v] + reserve
            BY <2>6, <4>2, <4>6
          <5>6. reserve # 0 => v \in Wanting(k, old) /\ old[v] = "IN_PROGRESS"
            <6> SUFFICES ASSUME reserve # 0 PROVE v \in Wanting(k, old) /\ old[v] = "IN_PROGRESS"
              OBVIOUS
            <6>1. w \in Order /\ old[w] = "IN_PROGRESS"
              BY <1>2, <2>3
            <6>2. old[i].status = "ORDERED"
              BY <1>2, <1>6, <1>8 DEF SharedItems
            <6>3. w # NoOrder
              BY <6>1, GoodsReceiptAssumption
            <6>4. w \in Wanting(k, old)
              BY <2>1, <6>2, <6>3 DEF Wanting, WithStatus
            <6> QED
              BY <5>5, <6>1, <6>4
          <5>7. Extra(new, old, X) = new[h].net[v] - old[h].net[v]
            BY <2>3, <4>4, <5>4, <5>5
          <5>8. new[h].net[v] # old[h].net[v] => v \in Wanting(k, old) /\ old[v] = "IN_PROGRESS"
            <6>1. CASE reserve = 0
              <7>1. new[h].net[v] = r[h].net[v]
                BY <4>4, <5>5, <6>1
              <7> QED
                BY <4>1, <7>1
            <6> QED
              BY <5>6, <6>1
          <5> QED
            BY <5>7, <5>8 DEF X
        <4>7. CASE i \notin X
          <5>1. \A x \in X : new[x].reserved = r[x].reserved
            BY <3>2, <4>2, <4>7
          <5>2. Extra(new, old, X) = Extra(r, old, X)
            BY <5>1, ExtraSame
          <5>3. new[h].net[v] = r[h].net[v]
            BY <2>6, <4>2, <4>5, <4>7
          <5> QED
            BY <4>1, <5>2, <5>3 DEF X
        <4> QED
          BY <4>6, <4>7
      <3>5. ASSUME NEW h \in GoodsOf(k) PROVE SoundStock(h, new[h]) /\ new[h].quantity = old[h].quantity
        <4>1. SoundStock(h, r[h]) /\ r[h].quantity = old[h].quantity
          BY <1>2 DEF SharedGoods
        <4>2. CASE h = g
          BY <2>6, <4>1, <4>2
        <4>3. CASE h # g
          <5>1. new[h] = r[h]
            BY <1>3, <2>6, <4>3, Tables
          <5> QED
            BY <4>1, <5>1
        <4> QED
          BY <4>2, <4>3
      <3>6. SharedGoods(k, new, old)
        BY <3>4, <3>5 DEF SharedGoods
      <3>7. \A v \in Order : new[v] = old[v]
        BY <1>2, <1>3, <2>6, Tables
      <3> QED
        BY <2>6, <3>3, <3>6, <3>7 DEF SharedRows
    <2>7. i # g /\ i \in DOMAIN r /\ g \in DOMAIN r /\ DOMAIN r = DOMAIN old
      BY <1>2, <1>3, <2>1, Tables
    <2>8. CASE reserve = 0
      <3> DEFINE new == [r EXCEPT ![i] = item]
      <3>1. new[i] = item /\ \A x \in DOMAIN old \ {i} : new[x] = r[x]
        BY <2>7
      <3>2. new \in [DOMAIN old -> V]
        BY <1>2, <2>4, <2>7
      <3> HIDE DEF new
      <3>3. \A v \in Order : /\ v = w => new[g].net[v] = r[g].net[v] + reserve
                             /\ v # w => new[g].net[v] = r[g].net[v]
        <4>1. \A v \in Order : r[g].net[v] \in Nat /\ new[g] = r[g]
          BY <2>2, <2>7, <3>1
        <4> QED
          BY <2>8, <4>1
      <3>4. new \in SharedRows(k, old)
        BY <2>2, <2>6, <2>7, <3>1, <3>2, <3>3
      <3>5. Given(a, i) = [left |-> left, rows |-> new]
        BY <1>1, <1>8, <2>8 DEF new
      <3> QED
        BY <2>5, <3>4, <3>5 DEF Shares
    <2>9. CASE reserve # 0
      <3>1. w \in Order /\ r[g].net[w] \in Nat
        BY <2>2, <2>3, <2>9
      <3> DEFINE n == r[g].net[w] + reserve
                 q == r[g].reserved + reserve
      <3>2. stock = [quantity |-> r[g].quantity, reserved |-> q, net |-> [r[g].net EXCEPT ![w] = n]]
        <4> DEFINE v == r[g]
        <4>1. stock = StockFreed(v, q, w, n)
          BY DEF stock, StockFreed
        <4>2. v \in StockType
          BY <2>2
        <4> HIDE DEF q, n, v
        <4>3. stock = [quantity |-> v.quantity, reserved |-> q, net |-> [v.net EXCEPT ![w] = n]]
          BY <4>1, <4>2, FreedStock
        <4> QED
          BY <4>3 DEF v
      <3>3. n \in Nat /\ n <= Need[w][g] /\ q <= r[g].quantity /\ q = r[g].reserved + n - r[g].net[w]
        BY <2>2, <2>3, <2>9, <3>1
      <3> HIDE DEF q, n
      <3>4. SoundStock(g, stock)
        <4>1. DOMAIN stock = DOMAIN r[g]
          BY <2>2, <3>2 DEF StockType
        <4>2. /\ stock = [quantity |-> stock.quantity, reserved |-> stock.reserved, net |-> stock.net]
              /\ stock.quantity \in Int /\ stock.reserved = r[g].reserved + n - r[g].net[w]
              /\ stock.net = [r[g].net EXCEPT ![w] = n] /\ stock.reserved <= stock.quantity
          BY <2>2, <3>2, <3>3
        <4> DEFINE v == r[g]
        <4> HIDE DEF v
        <4>3. /\ SoundStock(g, v) /\ DOMAIN stock = DOMAIN v /\ stock.reserved = v.reserved + n - v.net[w]
              /\ stock.net = [v.net EXCEPT ![w] = n]
          BY <2>2, <4>1, <4>2 DEF v
        <4> QED
          BY <3>1, <3>3, <4>2, <4>3, StockReserves
      <3>5. stock \in StockType /\ stock.quantity = r[g].quantity
            /\ \A v \in Order : /\ v = w => stock.net[v] = r[g].net[v] + reserve
                                /\ v # w => stock.net[v] = r[g].net[v]
        BY <2>2, <3>1, <3>2, <3>4 DEF SoundStock, n
      <3> DEFINE new == [r EXCEPT ![i] = item, ![g] = stock]
      <3>6. new[i] = item /\ new[g] = stock /\ \A x \in DOMAIN old \ {i, g} : new[x] = r[x]
        BY <2>7
      <3>7. new \in [DOMAIN old -> V]
        BY <1>2, <2>4, <2>7, <3>5
      <3> HIDE DEF new
      <3>8. new \in SharedRows(k, old)
        BY <2>6, <3>4, <3>5, <3>6, <3>7
      <3>9. Given(a, i) = [left |-> left, rows |-> new]
        BY <1>1, <1>8, <2>9 DEF new
      <3> QED
        BY <2>5, <3>8, <3>9 DEF Shares
    <2> QED
      BY <2>8, <2>9
  <1> QED
    BY <1>7, <1>8

\* So do all of them, oldest first.
LEMMA AllocationShares ==
    ASSUME NEW k \in Key, NEW old, ReadForSharing(k, old)
    PROVE  Allocation(k, old) \in SharedRows(k, old)
  <1> DEFINE base == [left |-> [g \in Good |-> Arrived(k, g)], rows |-> old]
             A == Shares(k, old)
             Walk(h) == h = [s \in SUBSET DOMAIN ByAge |->
                                IF s = {} THEN base ELSE Given(h[s \ {Max(s)}], ByAge[Max(s)])]
  <1>1. Allocation(k, old) = (CHOOSE h : Walk(h))[DOMAIN ByAge].rows
    BY DEF Allocation, FoldLeft, MapThenFoldSet
  <1>2. base \in A
    BY SharesNone
  <1>3. ASSUME NEW a \in A, NEW i \in Item PROVE Given(a, i) \in A
    BY SharesOne
  <1> HIDE DEF A, base
  <1>4. PICK n \in Nat : DOMAIN ByAge = 1..n /\ \A j \in 1..n : ByAge[j] \in Item
    BY AgesAre
  <1> DEFINE F == [p \in A \X (1..n) |-> Given(p[1], ByAge[p[2]])]
  <1>5. F \in [A \X (1..n) -> A]
    BY <1>3, <1>4
  <1>6. ASSUME NEW a \in A, NEW j \in 1..n PROVE F[<<a, j>>] = Given(a, ByAge[j])
    OBVIOUS
  <1> HIDE DEF F
  <1>7. PICK h : Walks(n, base, F, h) /\ \A s \in SUBSET (1..n) : h[s] \in A
    BY <1>2, <1>5, WalkExists
  <1>8. Walk(h)
    <2>1. ASSUME NEW s \in SUBSET (1..n), s # {}
          PROVE  F[<<h[s \ {Max(s)}], Max(s)>>] = Given(h[s \ {Max(s)}], ByAge[Max(s)])
      <3>1. Max(s) \in 1..n /\ s \ {Max(s)} \in SUBSET (1..n)
        BY <2>1, LastIs
      <3> QED
        BY <1>6, <1>7, <3>1
    <2> QED
      BY <1>4, <1>7, <2>1 DEF Walks
  <1> DEFINE r == CHOOSE x : Walk(x)
  <1>9. Walk(r)
    BY <1>8
  <1> HIDE DEF r
  <1>10. r[{}] \in A
    BY <1>2, <1>9
  <1>11. ASSUME NEW s \in SUBSET (1..n), s # {}, r[s \ {Max(s)}] \in A PROVE r[s] \in A
    <2>1. r[s] = Given(r[s \ {Max(s)}], ByAge[Max(s)])
      BY <1>4, <1>9, <1>11
    <2>2. Max(s) \in 1..n
      BY <1>11, LastIs
    <2> QED
      BY <1>3, <1>4, <1>11, <2>1, <2>2
  <1>12. r[1..n] \in A
    BY <1>10, <1>11, WalkEnds
  <1> QED
    BY <1>1, <1>4, <1>12 DEF r, A, Shares
-----------------------------------------------------------------------------
(* The writing of the shares. *)

\* What an item that is shared becomes.
ItemShare(v, r, s) ==
    [v EXCEPT !.received = r.received, !.status = r.status, !.reserved = @ + r.reserved - s.reserved]

\* It is an item, and shows what it did and its share.
LEMMA ItemShared ==
    ASSUME NEW v \in ItemType, NEW r \in ItemType, NEW s \in ItemType, r.reserved >= s.reserved
    PROVE  /\ ItemShare(v, r, s) \in ItemType
           /\ ItemShare(v, r, s).reserved = v.reserved + r.reserved - s.reserved
  <1> DEFINE e == ItemShare(v, r, s)
  <1>1. v.reserved \in Nat /\ r.reserved \in Nat /\ s.reserved \in Nat /\ r.received \in Nat
    BY ItemNat
  <1>2. v.reserved + r.reserved - s.reserved \in Nat
    BY <1>1
  <1> DEFINE n == v.reserved + r.reserved - s.reserved
             c == [v EXCEPT !.received = r.received, !.status = r.status]
  <1>3. c \in ItemType
    BY <1>1 DEF ItemType
  <1>4. e = [c EXCEPT !.reserved = n]
    BY DEF ItemShare
  <1>5. n \in Nat
    BY <1>2
  <1> HIDE DEF n, c, e
  <1>6. e \in ItemType /\ e.reserved = n
    BY <1>3, <1>4, <1>5 DEF ItemType
  <1> QED
    BY <1>6 DEF n, e

\* The receipt gives its goods to the items and reserves them.
LEMMA BackedAllocate ==
    ASSUME BackedInvariant, BookInvariant', NEW t \in Txn, Allocate(t)
    PROVE  BackedInvariant'
  <1> DEFINE k == job[t].arg
             old == seen[t]
             r == Allocation(k, old)
             given == Changed(r, Restrict(old, Item \cup GoodsOf(k)))
             Backed(g) == [See(t)[g] EXCEPT !.reserved = given[g].reserved, !.net = given[g].net]
             Shared(i) == [See(t)[i] EXCEPT !.received = given[i].received, !.status = given[i].status,
                                            !.reserved = @ + given[i].reserved - seen[t][i].reserved]
             rows == [x \in DOMAIN given |-> IF x \in Item THEN Shared(x) ELSE Backed(x)]
  <1>1. /\ job[t].op = "receive" /\ job[t].step = "allocate" /\ Goto(t, "charge")
        /\ Write(t, rows) /\ db' = db /\ seen' = seen
        /\ \A i \in DOMAIN given \cap Item : See(t)[i].status = "ORDERED"
    BY DEF Allocate, At
  <1>2. BookInvariant /\ Versions /\ Backs(t) /\ InPlace(t)
    BY DEF BackedInvariant
  <1>3. k \in Key
    BY <1>1, <1>2, ReceiptHasKey
  <1>4. GoodsOf(k) \subseteq Good
    BY <1>3, GoodsReceiptAssumption DEF GoodsOf, ActiveLines
  <1>5. /\ DOMAIN old = Item \cup Order \cup GoodsOf(k)
        /\ Wanting(k, old) \subseteq DOMAIN mine[t]
        /\ \A x \in GoodsOf(k) \cup (Order \cap DOMAIN mine[t]) : old[x] = See(t)[x]
    BY <1>1, <1>2 DEF InPlace, KnowsFree, At
  <1>6. ReadForSharing(k, old)
    BY <1>2, <1>5 DEF Versions, ReadForSharing
  <1>7. r \in SharedRows(k, old)
    BY <1>3, <1>6, AllocationShares
  <1> HIDE DEF r
  <1>8. /\ SharedItems(k, r, old) /\ SharedGoods(k, r, old)
    BY <1>7 DEF SharedRows
  <1>9. /\ DOMAIN given = {x \in Item \cup GoodsOf(k) : r[x] # old[x]}
        /\ \A x \in DOMAIN given : given[x] = r[x]
    <2> DEFINE part == Restrict(old, Item \cup GoodsOf(k))
    <2>1. DOMAIN part = Item \cup GoodsOf(k) /\ \A x \in DOMAIN part : part[x] = old[x]
      BY DEF Restrict
    <2> HIDE DEF part
    <2>2. given = [x \in {y \in DOMAIN part : r[y] # part[y]} |-> r[x]]
      BY DEF Changed, Restrict, part
    <2> QED
      BY <2>1, <2>2
  <1>10. Wrote(t, rows) /\ DOMAIN rows = DOMAIN given
    <2> HIDE DEF given, Shared, Backed
    <2> QED
      BY <1>1, <1>2, BookWrites
  <1>11. ASSUME NEW i \in DOMAIN given \cap Item
         PROVE  /\ rows[i] \in ItemType /\ rows[i].reserved = See(t)[i].reserved + r[i].reserved - old[i].reserved
    <2> DEFINE v == See(t)[i]
               a == r[i]
               b == old[i]
               e == rows[i]
    <2>1. v \in ItemType
      BY <1>2, SeesTyped
    <2>2. a \in ItemType /\ a.reserved >= b.reserved
      BY <1>8 DEF SharedItems
    <2>3. b \in ItemType
      BY <1>6, Tables DEF ReadForSharing, Sound, SoundRow
    <2>4. e = ItemShare(v, given[i], b)
      BY DEF ItemShare
    <2>5. given[i] = a
      BY <1>9
    <2> HIDE DEF given, v, a, b, e
    <2>6. e = ItemShare(v, a, b)
      BY <2>4, <2>5
    <2>7. e \in ItemType /\ e.reserved = v.reserved + a.reserved - b.reserved
      BY <2>1, <2>2, <2>3, <2>6, ItemShared
    <2> QED
      BY <2>7 DEF e, v, a, b
  <1>12. ASSUME NEW g \in DOMAIN given \ Item PROVE rows[g] = r[g]
    <2> DEFINE v == See(t)[g]
               a == r[g]
               e == rows[g]
    <2>1. g \in GoodsOf(k) /\ given[g] = a
      BY <1>9
    <2>2. e = [v EXCEPT !.reserved = given[g].reserved, !.net = given[g].net]
      OBVIOUS
    <2>3. v \in StockType
      BY <1>2, <1>4, <2>1, SeesTyped DEF SoundStock
    <2>4. a \in StockType /\ a.quantity = v.quantity
      BY <1>5, <1>8, <2>1 DEF SharedGoods, SoundStock
    <2> HIDE DEF given, v, a, e
    <2>5. e = [v EXCEPT !.reserved = a.reserved, !.net = a.net]
      BY <2>1, <2>2
    <2> DEFINE c == [v EXCEPT !.reserved = a.reserved]
    <2>6. c = [quantity |-> v.quantity, reserved |-> a.reserved, net |-> v.net]
      BY <2>3 DEF StockType
    <2>7. e = [c EXCEPT !.net = a.net]
      BY <2>5
    <2> HIDE DEF c
    <2>8. e = [quantity |-> v.quantity, reserved |-> a.reserved, net |-> a.net]
      BY <2>6, <2>7
    <2>9. e = a
      BY <2>4, <2>8 DEF StockType
    <2> QED
      BY <2>9 DEF e, a
  <1> HIDE DEF rows, given, Shared, Backed
  <1>13. Sound(rows)
    <2> SUFFICES ASSUME NEW x \in DOMAIN rows PROVE x \in Row /\ SoundRow(x, rows[x])
      BY DEF Sound
    <2>1. CASE x \in Item
      BY <1>10, <1>11, <2>1, Tables DEF SoundRow
    <2>2. CASE x \notin Item
      <3>1. x \in GoodsOf(k) /\ rows[x] = r[x]
        BY <1>9, <1>10, <1>12, <2>2
      <3>2. x \in Good /\ SoundStock(x, rows[x])
        BY <1>4, <1>8, <3>1 DEF SharedGoods
      <3> QED
        BY <3>2, Tables DEF SoundRow
    <2> QED
      BY <2>1, <2>2
  <1>14. ASSUME NEW i \in Item
         PROVE  /\ See(t)'[i].reserved = See(t)[i].reserved + r[i].reserved - old[i].reserved
                /\ See(t)'[i].status = "ORDERED" => See(t)[i].status = "ORDERED"
    <2>1. See(t)'[i] = IF i \in DOMAIN given THEN rows[i] ELSE See(t)[i]
      BY <1>10, Tables DEF Wrote
    <2>2. CASE i \in DOMAIN given
      BY <1>1, <1>11, <2>1, <2>2
    <2>3. CASE i \notin DOMAIN given
      <3>1. r[i] = old[i]
        BY <1>9, <2>3
      <3>2. See(t)[i].reserved \in Nat /\ r[i].reserved \in Nat
        <4>1. See(t)[i] \in ItemType /\ r[i] \in ItemType
          BY <1>2, <1>8, SeesTyped DEF SharedItems
        <4> QED
          BY <4>1, ItemNat
      <3> QED
        BY <2>1, <2>3, <3>1, <3>2
    <2> QED
      BY <2>2, <2>3
  <1>15. ASSUME NEW g \in Good
         PROVE  See(t)'[g] = IF g \in GoodsOf(k) THEN r[g] ELSE See(t)[g]
    <2>1. See(t)'[g] = IF g \in DOMAIN given THEN rows[g] ELSE See(t)[g]
      BY <1>10, Tables DEF Wrote
    <2> QED
      BY <1>5, <1>9, <1>12, <2>1, Tables
  <1>16. /\ job'[t].op = "receive" /\ job'[t].step = "charge"
         /\ \A u \in Txn \ {t} : job'[u] = job[u]
    BY <1>1, <1>2, NextAwait DEF BookInvariant
  <1>17. Moves(t)
    BY <1>1, <1>2, <1>16, MovesOn
  <1>18. DOMAIN mine[t] \subseteq DOMAIN mine'[t]
    BY <1>10 DEF Wrote
  <1>19. ASSUME NEW w \in Order, NEW g \in Good
         PROVE  /\ See(t)'[g].net[w] # See(t)[g].net[w] =>
                      w \in DOMAIN mine[t] /\ See(t)[w] = "IN_PROGRESS"
                /\ Lent(t, w, g)' - Lent(t, w, g) = Moved(t, w, g)' - Moved(t, w, g)
                /\ Lent(t, w, g) \in Int /\ Lent(t, w, g)' \in Int
                /\ Moved(t, w, g) \in Int /\ Moved(t, w, g)' \in Int
    <2> DEFINE X == OfOrder(w, g)
               new == See(t)'
               mid == See(t)
    <2>1. X \in SUBSET Item /\ \A i \in X : ItemGood[i] = g
      BY DEF OfOrder
    <2>2. \A i \in X : /\ new[i] \in ItemType /\ mid[i] \in ItemType /\ db[i] \in ItemType
                       /\ r[i] \in ItemType /\ old[i] \in ItemType
      <3>1. \A i \in Item : See(t)'[i] \in ItemType
        BY <1>2, <1>10, <1>13, WrittenTyped
      <3>2. \A i \in Item : See(t)[i] \in ItemType /\ db[i] \in ItemType
        BY <1>2, SeesTyped
      <3>3. \A i \in Item : r[i] \in ItemType /\ old[i] \in ItemType
        BY <1>6, <1>8, Tables DEF SharedItems, ReadForSharing, Sound, SoundRow
      <3> QED
        BY <2>1, <3>1, <3>2, <3>3
    <2>3. \A i \in X : new[i].reserved = mid[i].reserved + r[i].reserved - old[i].reserved
      BY <1>14, <2>1
    <2>4. Lent(t, w, g) = Extra(mid, db, X) /\ Lent(t, w, g)' = Extra(new, db, X)
      BY <1>1 DEF Lent
    <2>5. Moved(t, w, g)' - Moved(t, w, g) = See(t)'[g].net[w] - See(t)[g].net[w]
          /\ Moved(t, w, g) \in Int /\ Moved(t, w, g)' \in Int
      <3>1. SoundStock(g, See(t)'[g])
        BY <1>2, <1>10, <1>13, WrittenTyped
      <3>2. SoundStock(g, See(t)[g]) /\ SoundStock(g, db[g])
        BY <1>2, SeesTyped
      <3>3. See(t)'[g].net[w] \in Nat /\ See(t)[g].net[w] \in Nat /\ db[g].net[w] \in Nat
        BY <3>1, <3>2, StockNat
      <3> DEFINE a == See(t)'[g].net[w]
                 b == See(t)[g].net[w]
                 c == db[g].net[w]
      <3>4. Moved(t, w, g)' = a - c /\ Moved(t, w, g) = b - c
        BY <1>1 DEF Moved
      <3>5. a \in Nat /\ b \in Nat /\ c \in Nat
        BY <3>3
      <3> HIDE DEF a, b, c
      <3>6. Moved(t, w, g)' - Moved(t, w, g) = a - b /\ Moved(t, w, g) \in Int /\ Moved(t, w, g)' \in Int
        BY <3>4, <3>5
      <3> QED
        BY <3>6 DEF a, b
    <2> HIDE DEF new, mid, X
    <2>6. Extra(new, db, X) = Extra(mid, db, X) + Extra(r, old, X)
      BY <2>1, <2>2, <2>3, ExtraSum
    <2>7. Extra(mid, db, X) \in Int /\ Extra(new, db, X) \in Int /\ Extra(r, old, X) \in Int
      BY <2>1, <2>2, ExtraInt
    <2>8. CASE g \in GoodsOf(k)
      <3>1. /\ Extra(r, old, X) = r[g].net[w] - old[g].net[w]
            /\ r[g].net[w] # old[g].net[w] => w \in Wanting(k, old) /\ old[w] = "IN_PROGRESS"
        BY <1>8, <2>8 DEF SharedGoods, X
      <3>2. See(t)'[g] = r[g] /\ See(t)[g] = old[g]
        BY <1>5, <1>15, <2>8
      <3>3. r[g].net[w] # old[g].net[w] => w \in DOMAIN mine[t] /\ See(t)[w] = "IN_PROGRESS"
        BY <1>5, <3>1
      <3> QED
        BY <2>4, <2>5, <2>6, <2>7, <3>1, <3>2, <3>3
    <2>9. CASE g \notin GoodsOf(k)
      <3>1. See(t)'[g] = See(t)[g]
        BY <1>15, <2>9
      <3>2. Extra(new, db, X) = Extra(mid, db, X)
        <4>1. \A i \in X : r[i] = old[i]
          BY <1>8, <2>1, <2>9 DEF SharedItems
        <4>2. \A i \in X : new[i].reserved = mid[i].reserved
          <5> SUFFICES ASSUME NEW i \in X PROVE new[i].reserved = mid[i].reserved
            OBVIOUS
          <5>1. mid[i].reserved \in Nat /\ r[i].reserved \in Nat /\ r[i] = old[i]
            BY <2>2, <4>1, ItemNat
          <5> QED
            BY <2>3, <5>1
        <4> QED
          BY <4>2, ExtraSame
      <3>3. See(t)'[g].net[w] - See(t)[g].net[w] = 0
        <4>1. See(t)[g].net[w] \in Nat
          BY <1>2, SeesTyped, StockNat
        <4> QED
          BY <3>1, <4>1
      <3> QED
        BY <2>4, <2>5, <2>7, <3>1, <3>2, <3>3
    <2> QED
      BY <2>8, <2>9
  <1>20. MovesOwn(t)'
    <2> SUFFICES ASSUME NEW w \in Order, NEW g \in Good, Moved(t, w, g)' # 0 PROVE w \in DOMAIN mine'[t]
      BY DEF MovesOwn
    <2>1. CASE See(t)'[g].net[w] # See(t)[g].net[w]
      BY <1>18, <1>19, <2>1
    <2>2. CASE See(t)'[g].net[w] = See(t)[g].net[w]
      <3>1. Moved(t, w, g)' = Moved(t, w, g)
        BY <1>1, <2>2 DEF Moved
      <3> QED
        BY <1>2, <1>18, <3>1 DEF Backs, MovesOwn
    <2> QED
      BY <2>1, <2>2
  <1>21. LendsBacked(t)'
    <2> SUFFICES ASSUME NEW w \in Order, NEW g \in Good
                 PROVE  Lent(t, w, g)' + Pending(t, w, g)' <= Moved(t, w, g)'
      BY DEF LendsBacked
    <2>1. Pending(t, w, g)' = 0 /\ Pending(t, w, g) = 0
      BY <1>1, <1>16 DEF Pending, At
    <2>2. Lent(t, w, g) + Pending(t, w, g) <= Moved(t, w, g)
      BY <1>1, <1>2 DEF Backs, LendsBacked, Finishing
    <2> QED
      BY <1>19, <2>1, <2>2
  <1>22. ClosedFree(t)'
    <2> SUFFICES ASSUME NEW w \in Order, NEW g \in Good, db[w] # "IN_PROGRESS"
                 PROVE  See(t)'[g].net[w] = 0
      BY <1>1, <1>16 DEF ClosedFree, At
    <2>1. See(t)[g].net[w] = 0
      BY <1>2 DEF Backs, ClosedFree
    <2>2. See(t)[w] = db[w]
      BY <1>1, <1>2 DEF BookInvariant, Sees, SeesOrders, Finishing
    <2> QED
      BY <1>19, <2>1, <2>2
  <1>23. OrdersNone(t)'
    BY <1>1, <1>2, <1>14 DEF Backs, OrdersNone
  <1>24. InPlace(t)'
    BY <1>16 DEF InPlace, HoldsOrders, HoldsGoods, KnowsFree, KnowsItems, KnowsDue, At
  <1>25. Sound(seen[t])' /\ IsRows(seen[t])'
    BY <1>1, <1>2 DEF Versions
  <1>26. Backs(t)'
    BY <1>20, <1>21, <1>22, <1>23 DEF Backs
  <1> QED
    BY <1>1, <1>10, <1>13, <1>17, <1>24, <1>25, <1>26, UncommittedBacked
-----------------------------------------------------------------------------
(* The commits. *)

\* What is about to be released was reserved for an order that is held.
LEMMA PendingHeld ==
    ASSUME BackedInvariant, NEW t \in Txn, NEW w \in Order, NEW g \in Good
    PROVE  /\ Pending(t, w, g) \in Nat
           /\ Pending(t, w, g) # 0 => w \in DOMAIN mine[t] /\ Pending(t, w, g) <= See(t)[g].net[w]
  <1>1. BookInvariant /\ Versions /\ KnowsDue(t)
    BY DEF BackedInvariant, InPlace
  <1>2. CASE At(t, "release", "movement") /\ job[t].arg \in OfOrder(w, g)
    <2> DEFINE i == job[t].arg
    <2>1. /\ i \in Item /\ ItemOrder[i] = w /\ ItemGood[i] = g
          /\ i \in DOMAIN seen[t] /\ w \in DOMAIN mine[t] /\ 0 < Due(t) /\ Due(t) <= See(t)[g].net[w]
      BY <1>1, <1>2 DEF KnowsDue, At, OfOrder
    <2>2. seen[t][i] \in ItemType /\ See(t)[i] \in ItemType
      BY <1>1, <2>1, SeesTyped, Tables DEF Versions, Sound, SoundRow
    <2>3. seen[t][i].reserved \in Nat /\ See(t)[i].reserved \in Nat
      BY <2>2, ItemNat
    <2>4. Due(t) \in Int
      BY <2>3 DEF Due
    <2>5. Pending(t, w, g) = Due(t)
      BY <1>2 DEF Pending
    <2> HIDE DEF i
    <2> QED
      BY <2>1, <2>4, <2>5
  <1>3. CASE ~(At(t, "release", "movement") /\ job[t].arg \in OfOrder(w, g))
    BY <1>3 DEF Pending
  <1> QED
    BY <1>2, <1>3

\* What a commit leaves: what it shows is no more than what it saw, the reservations are
\* those it saw without what it had to release, and the items of a cancelled order show none.
Settles(t) ==
    /\ \A i \in Item : /\ db'[i].reserved <= See(t)[i].reserved
                       /\ db'[i].status = "ORDERED" => See(t)[i].status = "ORDERED"
    /\ \A w \in Order, g \in Good : db'[g].net[w] = See(t)[g].net[w] - Pending(t, w, g)
    /\ Finishing(t) => /\ job[t].step = "items"
                       /\ job[t].to = "CANCELLED" =>
                             \A i \in Item : ItemOrder[i] = job[t].arg => db'[i].reserved = 0

\* What a commit makes of the tables.
Committed(t, rows) ==
    /\ \A x \in Row : db'[x] = IF x \in DOMAIN rows THEN rows[x] ELSE See(t)[x]
    /\ DOMAIN db' = Row
    /\ mine'[t] = NoRows /\ seen'[t] = NoRows /\ job'[t] = Idle
    /\ \A u \in Txn \ {t} : /\ mine'[u] = mine[u] /\ seen'[u] = seen[u] /\ job'[u] = job[u]
                            /\ DOMAIN mine[u] \cap DOMAIN rows = {}
                            /\ DOMAIN mine[u] \cap DOMAIN mine[t] = {}

\* A commit does that.
LEMMA CommitCommits ==
    ASSUME BookInvariant, Versions, NEW t \in Txn, NEW rows, Commit(t, rows), DOMAIN rows \subseteq Row
    PROVE  Committed(t, rows)
  <1>1. /\ mine' = [mine EXCEPT ![t] = NoRows] /\ seen' = [seen EXCEPT ![t] = NoRows]
        /\ job' = [job EXCEPT ![t] = Idle] /\ db' = Over(rows, See(t)) /\ ~Waits(t, DOMAIN rows)
    BY DEF Commit
  <1>2. DOMAIN See(t) = Row
    BY SeesTyped
  <1>3. DOMAIN db' = Row /\ \A x \in Row : db'[x] = IF x \in DOMAIN rows THEN rows[x] ELSE See(t)[x]
    BY <1>1, <1>2 DEF Over
  <1>4. job'[t] = Idle /\ \A u \in Txn \ {t} : job'[u] = job[u]
    BY <1>1, NewJob DEF BookInvariant
  <1>5. /\ mine'[t] = NoRows /\ seen'[t] = NoRows
        /\ \A u \in Txn \ {t} : mine'[u] = mine[u] /\ seen'[u] = seen[u]
    BY <1>1 DEF BookInvariant
  <1>6. \A u \in Txn \ {t} : DOMAIN mine[u] \cap DOMAIN rows = {} /\ DOMAIN mine[u] \cap DOMAIN mine[t] = {}
    BY <1>1 DEF Waits, BookInvariant, RowsApart
  <1> QED
    BY <1>3, <1>4, <1>5, <1>6 DEF Committed

\* The versions stay sound.
LEMMA CommitVersions ==
    ASSUME Versions, NEW t \in Txn, NEW rows, Committed(t, rows), Sound(rows)
    PROVE  Versions'
  <1>1. Sound(db)'
    <2> SUFFICES ASSUME NEW x \in Row PROVE SoundRow(x, db'[x])
      BY DEF Sound, Committed
    <2>1. db'[x] = IF x \in DOMAIN rows THEN rows[x] ELSE See(t)[x]
      BY DEF Committed
    <2> QED
      BY <2>1, SeesSound DEF Sound
  <1>2. ASSUME NEW u \in Txn PROVE Sound(mine[u])' /\ Sound(seen[u])' /\ IsRows(seen[u])'
    <2>1. CASE u = t
      <3>1. mine'[u] = NoRows /\ seen'[u] = NoRows
        BY <2>1 DEF Committed
      <3>2. IsRows(NoRows) /\ Sound(NoRows)
        BY NoRowsSound DEF IsRows, NoRows
      <3> QED
        BY <3>1, <3>2
    <2>2. CASE u # t
      <3>1. mine'[u] = mine[u] /\ seen'[u] = seen[u]
        BY <2>2 DEF Committed
      <3>2. Sound(mine[u]) /\ Sound(seen[u]) /\ IsRows(seen[u])
        BY DEF Versions
      <3> QED
        BY <3>1, <3>2
    <2> QED
      BY <2>1, <2>2
  <1> QED
    BY <1>1, <1>2 DEF Versions, Committed

\* An order that is closed by a commit, or was closed before, has nothing reserved.
LEMMA CommitFree ==
    ASSUME BackedInvariant, NEW t \in Txn, Posts(t), Settles(t)
    PROVE  FreeWhenClosed'
  <1> SUFFICES ASSUME NEW w \in Order, NEW g \in Good, db'[w] # "IN_PROGRESS" PROVE db'[g].net[w] = 0
    BY DEF FreeWhenClosed
  <1>1. Versions /\ Backs(t)
    BY DEF BackedInvariant
  <1>2. db'[w] = IF Finishing(t) /\ w = job[t].arg THEN job[t].to ELSE db[w]
    BY DEF Posts
  <1>3. db'[g].net[w] = See(t)[g].net[w] - Pending(t, w, g)
    BY DEF Settles
  <1>4. See(t)[g].net[w] = 0
    BY <1>1, <1>2 DEF Backs, ClosedFree, Settles, At, Finishing
  <1>5. Pending(t, w, g) = 0
    <2>1. Pending(t, w, g) \in Nat /\ (Pending(t, w, g) # 0 => Pending(t, w, g) <= 0)
      BY <1>4, PendingHeld
    <2> QED
      BY <2>1
  <1> QED
    BY <1>3, <1>4, <1>5

\* What items show of a good, as a sum.
LEMMA TotalSum ==
    ASSUME NEW rows, NEW X \in SUBSET Item, \A i \in X : rows[i] \in ItemType
    PROVE  /\ Total(rows, X, "reserved") \in Nat
           /\ Total(rows, X, "reserved") = SumFunction([i \in X |-> rows[i].reserved])
           /\ IsFiniteSet(X) /\ [i \in X |-> rows[i].reserved] \in [X -> Int]
  <1> DEFINE f == [i \in X |-> rows[i].reserved]
  <1>1. IsFiniteSet(X)
    BY FS_Subset, GoodsReceiptAssumption
  <1>2. \A i \in X : f[i] \in Nat
    BY ItemNat
  <1>3. f \in [X -> Int]
    BY <1>2
  <1>4. SumFunction(f) = SumFunctionOnSet(f, X) /\ SumFunctionOnSet(f, X) \in Nat
    <2> HIDE DEF f
    <2> QED
      BY <1>1, <1>2, <1>3, FunctionSum, SumNat
  <1>5. Total(rows, X, "reserved") = SumFunction(f)
    BY DEF Total
  <1> QED
    BY <1>1, <1>3, <1>4, <1>5

\* The difference of two totals.
LEMMA TotalsDiffer ==
    ASSUME NEW new, NEW old, NEW X \in SUBSET Item, \A i \in X : new[i] \in ItemType /\ old[i] \in ItemType
    PROVE  Total(new, X, "reserved") = Total(old, X, "reserved") + Extra(new, old, X)
  <1> DEFINE e == [i \in X |-> old[i].reserved]
             f == [i \in X |-> new[i].reserved - old[i].reserved]
             h == [i \in X |-> new[i].reserved]
  <1>1. IsFiniteSet(X) /\ h \in [X -> Int] /\ Total(new, X, "reserved") = SumFunction(h)
    BY TotalSum
  <1>2. e \in [X -> Int] /\ Total(old, X, "reserved") = SumFunction(e)
    BY TotalSum
  <1>3. Extra(new, old, X) = SumFunction(f)
    BY DEF Extra
  <1>4. \A i \in X : new[i].reserved \in Nat /\ old[i].reserved \in Nat
    BY ItemNat
  <1>5. f \in [X -> Int] /\ \A i \in X : h[i] = e[i] + f[i]
    BY <1>4
  <1> HIDE DEF e, f, h
  <1>6. PointwiseSum(X, e, f, h)
    BY <1>1, <1>2, <1>5 DEF PointwiseSum
  <1> QED
    BY <1>1, <1>2, <1>3, <1>6, FunctionsAdd

\* The items of an order that is not completed show no more than it has.
LEMMA CommitShown ==
    ASSUME BackedInvariant, Versions', FreeWhenClosed', NEW t \in Txn, Posts(t), Settles(t)
    PROVE  ShownIsHeld'
  <1> SUFFICES ASSUME NEW w \in Order, NEW g \in Good, db'[w] # "COMPLETED"
               PROVE  Total(db', OfOrder(w, g), "reserved") <= db'[g].net[w]
    BY DEF ShownIsHeld
  <1> DEFINE X == OfOrder(w, g)
             mid == See(t)
  <1>1. BookInvariant /\ Versions /\ Backs(t) /\ ShownIsHeld
    BY DEF BackedInvariant
  <1>2. X \in SUBSET Item /\ \A i \in X : ItemOrder[i] = w
    BY DEF OfOrder
  <1>3. \A i \in X : db'[i] \in ItemType /\ mid[i] \in ItemType /\ db[i] \in ItemType
    <2>1. \A i \in Item : db'[i] \in ItemType
      BY Tables DEF Versions, Sound, SoundRow
    <2> QED
      BY <1>1, <1>2, <2>1, SeesTyped
  <1>4. db'[w] = IF Finishing(t) /\ w = job[t].arg THEN job[t].to ELSE db[w]
    BY DEF Posts
  <1> SUFFICES Total(db', X, "reserved") <= db'[g].net[w]
    OBVIOUS
  <1>5. CASE Finishing(t) /\ w = job[t].arg
    <2>1. job[t].to = "CANCELLED"
      BY <1>1, <1>4, <1>5 DEF BookInvariant, Sees, JobShaped
    <2>2. \A i \in X : db'[i].reserved = 0
      BY <1>2, <1>5, <2>1 DEF Settles
    <2>3. db'[g].net[w] = 0
      BY <1>4, <1>5, <2>1 DEF FreeWhenClosed
    <2> HIDE DEF X
    <2> DEFINE f == [i \in X |-> db'[i].reserved]
    <2>4. IsFiniteSet(X) /\ f \in [X -> Int] /\ Total(db', X, "reserved") = SumFunction(f)
      BY <1>2, <1>3, TotalSum
    <2>5. \A i \in X : f[i] = 0
      BY <2>2
    <2> HIDE DEF f
    <2>6. SumFunction(f) = 0
      BY <2>4, <2>5, FunctionZero
    <2> QED
      BY <2>3, <2>4, <2>6
  <1>6. CASE ~(Finishing(t) /\ w = job[t].arg)
    <2>1. Total(db, X, "reserved") <= db[g].net[w]
      BY <1>1, <1>4, <1>6 DEF ShownIsHeld
    <2>2. Extra(mid, db, X) + Pending(t, w, g) <= mid[g].net[w] - db[g].net[w]
      BY <1>1, <1>6 DEF Backs, LendsBacked, Lent, Moved
    <2>3. db'[g].net[w] = mid[g].net[w] - Pending(t, w, g)
      BY DEF Settles
    <2>4. \A i \in X : db'[i].reserved <= mid[i].reserved
      BY <1>2 DEF Settles
    <2>5. mid[g].net[w] \in Nat /\ db[g].net[w] \in Nat /\ Pending(t, w, g) \in Nat
      BY <1>1, SeesTyped, StockNat, PendingHeld
    <2> HIDE DEF X, mid
    <2>6. Extra(db', db, X) <= Extra(mid, db, X)
      BY <1>2, <1>3, <2>4, ExtraFalls
    <2>7. Extra(db', db, X) \in Int /\ Extra(mid, db, X) \in Int
      BY <1>2, <1>3, ExtraInt
    <2>8. Total(db', X, "reserved") = Total(db, X, "reserved") + Extra(db', db, X)
      BY <1>2, <1>3, TotalsDiffer
    <2>9. Total(db, X, "reserved") \in Nat
      BY <1>2, <1>3, TotalSum
    <2> DEFINE a == mid[g].net[w]
               b == db[g].net[w]
               c == db'[g].net[w]
    <2>10. a \in Nat /\ b \in Nat /\ c = a - Pending(t, w, g) /\ Total(db, X, "reserved") <= b
           /\ Extra(mid, db, X) + Pending(t, w, g) <= a - b /\ Pending(t, w, g) \in Nat
      BY <2>1, <2>2, <2>3, <2>5
    <2> HIDE DEF a, b, c
    <2>11. Total(db', X, "reserved") <= c
      BY <2>6, <2>7, <2>8, <2>9, <2>10
    <2> QED
      BY <2>11 DEF c
  <1> QED
    BY <1>5, <1>6
-----------------------------------------------------------------------------
(* What the others hold and know after a commit. *)

\* A request that has ended has reserved nothing.
LEMMA IdleBacked ==
    ASSUME NEW t \in Txn, Versions', FreeWhenClosed', job'[t] = Idle, mine'[t] = NoRows
    PROVE  Backs(t)' /\ InPlace(t)'
  <1>1. \A x \in Row : See(t)'[x] = db'[x]
    BY DEF See, Over, NoRows, Versions
  <1>2. ASSUME NEW w \in Order, NEW g \in Good
        PROVE  Moved(t, w, g)' = 0 /\ Lent(t, w, g)' = 0 /\ Pending(t, w, g)' = 0
    <2>1. See(t)'[g] = db'[g]
      BY <1>1, Tables
    <2>2. db'[g].net[w] \in Nat
      <3>1. SoundStock(g, db'[g])
        BY Tables DEF Versions, Sound, SoundRow
      <3> QED
        BY <3>1, StockNat
    <2>3. Moved(t, w, g)' = 0
      BY <2>1, <2>2 DEF Moved
    <2>4. Pending(t, w, g)' = 0
      BY DEF Pending, At, Idle
    <2> DEFINE X == OfOrder(w, g)
               f == [i \in X |-> See(t)'[i].reserved - db'[i].reserved]
    <2>5. X \in SUBSET Item
      BY DEF OfOrder
    <2>6. IsFiniteSet(X)
      BY <2>5, FS_Subset, GoodsReceiptAssumption
    <2>7. \A i \in X : See(t)'[i] = db'[i] /\ db'[i].reserved \in Nat
      <3>1. \A i \in Item : db'[i] \in ItemType
        BY Tables DEF Versions, Sound, SoundRow
      <3> QED
        BY <1>1, <2>5, <3>1, ItemNat, Tables
    <2>8. Lent(t, w, g)' = SumFunction(f)
      BY DEF Lent, Extra
    <2> HIDE DEF X
    <2>9. f \in [X -> Int] /\ \A i \in X : f[i] = 0
      BY <2>7
    <2> HIDE DEF f
    <2>10. SumFunction(f) = 0
      BY <2>6, <2>9, FunctionZero
    <2> QED
      BY <2>3, <2>4, <2>8, <2>10
  <1>3. MovesOwn(t)' /\ LendsBacked(t)'
    BY <1>2 DEF MovesOwn, LendsBacked
  <1>4. ClosedFree(t)'
    BY <1>1, Tables DEF ClosedFree, FreeWhenClosed, At, Idle
  <1>5. OrdersNone(t)'
    BY <1>1, Tables DEF OrdersNone
  <1>6. InPlace(t)'
    BY DEF InPlace, HoldsOrders, HoldsGoods, KnowsFree, KnowsItems, KnowsDue, At, Receiving, Idle
  <1> QED
    BY <1>3, <1>4, <1>5, <1>6 DEF Backs

\* Of the rows it holds another request sees what it saw, and of the others what is
\* committed; and what it has reserved is what it had.
LEMMA CommitSees ==
    ASSUME Versions, NEW t \in Txn, NEW rows, Committed(t, rows), NEW u \in Txn \ {t}
    PROVE  /\ \A x \in Row : IF x \in DOMAIN mine[u] THEN db'[x] = db[x] /\ See(u)'[x] = See(u)[x]
                             ELSE See(u)'[x] = db'[x] /\ See(u)[x] = db[x]
           /\ DOMAIN mine[u] \subseteq Row
  <1>1. /\ mine'[u] = mine[u] /\ DOMAIN mine[u] \cap DOMAIN rows = {}
        /\ DOMAIN mine[u] \cap DOMAIN mine[t] = {} /\ DOMAIN db' = Row /\ DOMAIN db = Row
        /\ DOMAIN mine[u] \subseteq Row
    BY DEF Committed, Versions, Sound
  <1>2. ASSUME NEW x \in Row, x \in DOMAIN mine[u] PROVE db'[x] = db[x] /\ See(u)'[x] = See(u)[x]
    <2>1. db'[x] = See(t)[x] /\ See(t)[x] = db[x]
      BY <1>1, <1>2 DEF Committed, See, Over
    <2>2. See(u)'[x] = mine[u][x] /\ See(u)[x] = mine[u][x]
      BY <1>1, <1>2 DEF See, Over
    <2> QED
      BY <2>1, <2>2
  <1>3. ASSUME NEW x \in Row, x \notin DOMAIN mine[u] PROVE See(u)'[x] = db'[x] /\ See(u)[x] = db[x]
    BY <1>1, <1>3 DEF See, Over
  <1> QED
    BY <1>1, <1>2, <1>3

\* A commit changes the reservations of orders that the request holds only, and orders no item.
LEMMA CommitOwn ==
    ASSUME BackedInvariant, NEW t \in Txn, Settles(t)
    PROVE  /\ \A w \in Order, g \in Good : db'[g].net[w] # db[g].net[w] => w \in DOMAIN mine[t]
           /\ \A i \in Item : db'[i].status = "ORDERED" => db[i].status = "ORDERED"
  <1>1. Backs(t) /\ Versions
    BY DEF BackedInvariant
  <1>2. ASSUME NEW w \in Order, NEW g \in Good, w \notin DOMAIN mine[t] PROVE db'[g].net[w] = db[g].net[w]
    <2>1. Pending(t, w, g) = 0 /\ Moved(t, w, g) = 0
      BY <1>1, <1>2, PendingHeld DEF Backs, MovesOwn
    <2>2. db'[g].net[w] = See(t)[g].net[w] - Pending(t, w, g)
      BY DEF Settles
    <2>3. See(t)[g].net[w] \in Nat /\ db[g].net[w] \in Nat
      BY <1>1, SeesTyped, StockNat
    <2>4. See(t)[g].net[w] - db[g].net[w] = 0
      BY <2>1 DEF Moved
    <2> DEFINE a == See(t)[g].net[w]
               b == db[g].net[w]
               c == db'[g].net[w]
    <2>5. a \in Nat /\ b \in Nat /\ c = a - 0 /\ a - b = 0
      BY <2>1, <2>2, <2>3, <2>4
    <2> HIDE DEF a, b, c
    <2>6. c = b
      BY <2>5
    <2> QED
      BY <2>6 DEF b, c
  <1>3. \A i \in Item : db'[i].status = "ORDERED" => db[i].status = "ORDERED"
    BY <1>1 DEF Settles, Backs, OrdersNone
  <1> QED
    BY <1>2, <1>3

\* What another request has reserved stays backed.
LEMMA CommitBacks ==
    ASSUME BackedInvariant, BookInvariant', Versions', FreeWhenClosed', NEW t \in Txn, NEW rows,
           Committed(t, rows), Settles(t), NEW u \in Txn \ {t}
    PROVE  Backs(u)'
  <1>1. BookInvariant /\ Versions /\ Backs(u) /\ InPlace(u)
    BY DEF BackedInvariant
  <1>2. mine'[u] = mine[u] /\ seen'[u] = seen[u] /\ job'[u] = job[u] /\ DOMAIN mine[u] \cap DOMAIN mine[t] = {}
    BY DEF Committed
  <1>3. \A x \in Row : IF x \in DOMAIN mine[u] THEN db'[x] = db[x] /\ See(u)'[x] = See(u)[x]
                       ELSE See(u)'[x] = db'[x] /\ See(u)[x] = db[x]
    BY <1>1, CommitSees
  <1>4. ASSUME NEW w \in Order, NEW g \in Good PROVE Moved(u, w, g)' = Moved(u, w, g)
    <2>1. CASE g \in DOMAIN mine[u]
      BY <1>3, <2>1, Tables DEF Moved
    <2>2. CASE g \notin DOMAIN mine[u]
      <3>1. See(u)'[g] = db'[g] /\ See(u)[g] = db[g]
        BY <1>3, <2>2, Tables
      <3>2. db'[g].net[w] \in Nat /\ db[g].net[w] \in Nat
        <4>1. SoundStock(g, db'[g]) /\ SoundStock(g, db[g])
          BY <1>1, Tables DEF Versions, Sound, SoundRow
        <4> QED
          BY <4>1, StockNat
      <3> QED
        BY <3>1, <3>2 DEF Moved
    <2> QED
      BY <2>1, <2>2
  <1>5. ASSUME NEW w \in Order, NEW g \in Good PROVE Lent(u, w, g)' = Lent(u, w, g)
    <2> DEFINE X == OfOrder(w, g)
    <2>1. \A i \in X : i \in Item
      BY DEF OfOrder
    <2>2. \A i \in X : See(u)'[i].reserved - db'[i].reserved = See(u)[i].reserved - db[i].reserved
      <3> SUFFICES ASSUME NEW i \in X
                   PROVE  See(u)'[i].reserved - db'[i].reserved = See(u)[i].reserved - db[i].reserved
        OBVIOUS
      <3>1. CASE i \in DOMAIN mine[u]
        BY <1>3, <2>1, <3>1, Tables
      <3>2. CASE i \notin DOMAIN mine[u]
        <4>1. See(u)'[i] = db'[i] /\ See(u)[i] = db[i]
          BY <1>3, <2>1, <3>2, Tables
        <4>2. db'[i].reserved \in Nat /\ db[i].reserved \in Nat
          <5>1. i \in Item
            BY <2>1
          <5>2. db'[i] \in ItemType /\ db[i] \in ItemType
            BY <1>1, <5>1, Tables DEF Versions, Sound, SoundRow
          <5> QED
            BY <5>2, ItemNat
        <4> QED
          BY <4>1, <4>2
      <3> QED
        BY <3>1, <3>2
    <2>3. OfOrder(w, g)' = OfOrder(w, g)
      BY DEF OfOrder
    <2> QED
      BY <2>2, <2>3 DEF Lent, Extra
  <1>6. ASSUME NEW w \in Order, NEW g \in Good PROVE Pending(u, w, g)' = Pending(u, w, g)
    <2>1. CASE At(u, "release", "movement")
      <3>1. job[u].arg \in DOMAIN mine[u] /\ job[u].arg \in Row
        BY <1>1, <2>1, Tables DEF InPlace, KnowsDue, At, BookInvariant, Sees, JobShaped
      <3>2. Due(u)' = Due(u)
        BY <1>2, <1>3, <3>1 DEF Due
      <3> QED
        BY <1>2, <3>2 DEF Pending, At, OfOrder
    <2>2. CASE ~At(u, "release", "movement")
      BY <1>2, <2>2 DEF Pending, At
    <2> QED
      BY <2>1, <2>2
  <1>7. MovesOwn(u)'
    BY <1>1, <1>2, <1>4 DEF Backs, MovesOwn
  <1>8. LendsBacked(u)'
    BY <1>1, <1>2, <1>4, <1>5, <1>6 DEF Backs, LendsBacked, Finishing
  <1>9. OrdersNone(u)'
    <2> SUFFICES ASSUME NEW i \in Item, See(u)'[i].status = "ORDERED" PROVE db'[i].status = "ORDERED"
      BY DEF OrdersNone
    <2> QED
      BY <1>1, <1>3, Tables DEF Backs, OrdersNone
  <1>10. ClosedFree(u)'
    <2> SUFFICES ASSUME NEW w \in Order, NEW g \in Good,
                        db'[w] # "IN_PROGRESS" \/ (At(u, "finish", "items") /\ w = job[u].arg)
                 PROVE  See(u)'[g].net[w] = 0
      BY <1>2 DEF ClosedFree, At
    <2>1. CASE w \in DOMAIN mine[u]
      <3>1. db'[w] = db[w]
        BY <1>3, <2>1, Tables
      <3>2. See(u)[g].net[w] = 0
        BY <1>1, <3>1 DEF Backs, ClosedFree
      <3>3. w \notin DOMAIN mine[t]
        BY <1>2, <2>1
      <3>4. db'[g].net[w] = db[g].net[w]
        BY <3>3, CommitOwn
      <3> QED
        BY <1>3, <3>2, <3>4, Tables
    <2>2. CASE w \notin DOMAIN mine[u]
      <3>1. db'[w] # "IN_PROGRESS"
        BY <1>1, <2>2 DEF At, BookInvariant, Sees, JobShaped, Finishing
      <3>2. db'[g].net[w] = 0
        BY <3>1 DEF FreeWhenClosed
      <3>3. Moved(u, w, g)' = 0
        BY <1>1, <1>4, <2>2 DEF Backs, MovesOwn
      <3>4. See(u)'[g].net[w] - db'[g].net[w] = 0
        BY <3>3 DEF Moved
      <3>5. See(u)'[g].net[w] \in Nat
        <4>1. SoundStock(g, See(u)'[g])
          <5>1. See(u)'[g] = IF g \in DOMAIN mine'[u] THEN mine'[u][g] ELSE db'[g]
            BY Tables DEF See, Over, Versions
          <5> QED
            BY <5>1, Tables DEF Versions, Sound, SoundRow
        <4> QED
          BY <4>1, StockNat
      <3> QED
        BY <3>2, <3>4, <3>5
    <2> QED
      BY <2>1, <2>2
  <1> QED
    BY <1>7, <1>8, <1>9, <1>10 DEF Backs

\* And it still holds and knows what its place needs.
LEMMA CommitInPlace ==
    ASSUME BackedInvariant, NEW t \in Txn, NEW rows, Committed(t, rows), Settles(t), NEW u \in Txn \ {t}
    PROVE  InPlace(u)'
  <1>1. BookInvariant /\ Versions /\ InPlace(u)
    BY DEF BackedInvariant
  <1>2. mine'[u] = mine[u] /\ seen'[u] = seen[u] /\ job'[u] = job[u] /\ DOMAIN mine[u] \cap DOMAIN mine[t] = {}
    BY DEF Committed
  <1>3. /\ \A x \in Row : IF x \in DOMAIN mine[u] THEN db'[x] = db[x] /\ See(u)'[x] = See(u)[x]
                          ELSE See(u)'[x] = db'[x] /\ See(u)[x] = db[x]
        /\ DOMAIN mine[u] \subseteq Row
    BY <1>1, CommitSees
  <1>4. HoldsOrders(u)'
    <2>1. \A i \in Item : db'[i].status = "ORDERED" => db[i].status = "ORDERED"
      BY CommitOwn
    <2>2. ASSUME NEW i \in Item, See(u)'[i].status = "ORDERED" PROVE See(u)[i].status = "ORDERED"
      BY <1>3, <2>1, <2>2, Tables
    <2>3. Wanting(job[u].arg, See(u)') \subseteq Wanting(job[u].arg, See(u))
      BY <2>2, WantingShrinks
    <2> QED
      BY <1>1, <1>2, <2>3 DEF InPlace, HoldsOrders, Receiving
  <1>5. HoldsGoods(u)' /\ KnowsItems(u)'
    BY <1>1, <1>2 DEF InPlace, HoldsGoods, KnowsItems, Receiving
  <1>6. KnowsFree(u)'
    <2> SUFFICES ASSUME At(u, "receive", "allocate")
                 PROVE  \A x \in GoodsOf(job[u].arg) \cup (Order \cap DOMAIN mine[u]) : See(u)'[x] = See(u)[x]
      BY <1>1, <1>2 DEF InPlace, KnowsFree, At
    <2>1. GoodsOf(job[u].arg) \subseteq DOMAIN mine[u]
      BY <1>1 DEF InPlace, HoldsGoods, At, Receiving
    <2> QED
      BY <1>3, <2>1
  <1>7. KnowsDue(u)'
    <2> SUFFICES ASSUME job[u].op = "release", job[u].step = "movement"
                 PROVE  LET i == job[u].arg
                        IN /\ {i, ItemOrder[i]} \subseteq DOMAIN mine[u]
                           /\ 0 < Due(u)' /\ Due(u)' <= See(u)'[ItemGood[i]].net[ItemOrder[i]]
      BY <1>1, <1>2 DEF InPlace, KnowsDue
    <2> DEFINE i == job[u].arg
               w == ItemOrder[i]
               g == ItemGood[i]
    <2>1. i \in Item /\ w \in Order /\ g \in Good
      BY <1>1, GoodsReceiptAssumption DEF BookInvariant, Sees, JobShaped
    <2>2. /\ {i, w} \subseteq DOMAIN mine[u] /\ 0 < Due(u) /\ Due(u) <= See(u)[g].net[w]
      BY <1>1 DEF InPlace, KnowsDue
    <2>3. Due(u)' = Due(u)
      BY <1>2, <1>3, <2>2 DEF Due
    <2>4. w \notin DOMAIN mine[t]
      BY <1>2, <2>2
    <2>5. db'[g].net[w] = db[g].net[w]
      BY <2>1, <2>4, CommitOwn
    <2>6. See(u)'[g].net[w] = See(u)[g].net[w]
      BY <1>3, <2>1, <2>5, Tables
    <2> QED
      BY <2>2, <2>3, <2>6
  <1> QED
    BY <1>4, <1>5, <1>6, <1>7 DEF InPlace

\* A commit that leaves what it should keeps every reservation backed.
LEMMA CommitBacked ==
    ASSUME BackedInvariant, BookInvariant', NEW t \in Txn, NEW rows, Commit(t, rows), Sound(rows),
           Posts(t), Settles(t)
    PROVE  BackedInvariant'
  <1>1. BookInvariant /\ Versions
    BY DEF BackedInvariant
  <1>2. Committed(t, rows)
    BY <1>1, CommitCommits DEF Sound
  <1>3. Versions'
    BY <1>1, <1>2, CommitVersions
  <1>4. FreeWhenClosed'
    BY CommitFree
  <1>5. ShownIsHeld'
    BY <1>3, <1>4, CommitShown
  <1>6. ASSUME NEW u \in Txn PROVE Backs(u)' /\ InPlace(u)'
    <2>1. CASE u = t
      BY <1>2, <1>3, <1>4, <2>1, IdleBacked DEF Committed
    <2>2. CASE u # t
      BY <1>2, <1>3, <1>4, <2>2, CommitBacks, CommitInPlace
    <2> QED
      BY <2>1, <2>2
  <1> QED
    BY <1>3, <1>4, <1>5, <1>6 DEF BackedInvariant
-----------------------------------------------------------------------------
(* Each commit, and the theorems. *)

\* A commit that writes neither goods nor items.
LEMMA SettlesBeside ==
    ASSUME Versions, NEW t \in Txn, NEW rows, Committed(t, rows), DOMAIN rows \cap (Good \cup Item) = {},
           Aside(t), ~Finishing(t)
    PROVE  Settles(t)
  <1>1. \A x \in Good \cup Item : db'[x] = See(t)[x]
    BY Tables DEF Committed
  <1>2. \A i \in Item : See(t)[i].reserved \in Nat
    BY SeesTyped, ItemNat
  <1>3. \A w \in Order, g \in Good : See(t)[g].net[w] \in Nat /\ Pending(t, w, g) = 0
    BY SeesTyped, StockNat DEF Pending, Aside
  <1> QED
    BY <1>1, <1>2, <1>3 DEF Settles

\* The end of a receipt or a transition.
LEMMA BackedSetStatus ==
    ASSUME BackedInvariant, BookInvariant', NEW t \in Txn, SetStatus(t)
    PROVE  BackedInvariant'
  <1> DEFINE rows == [x \in {PO} |-> job[t].to]
  <1>1. BookInvariant /\ Versions
    BY DEF BackedInvariant
  <1>2. Commit(t, rows) /\ job[t].step = "status"
    BY DEF SetStatus
  <1>3. Posts(t) /\ ~Finishing(t)
    BY <1>1, PostsSetStatus
  <1>4. job[t].to \in DOMAIN PO_TRANSITIONS
    BY <1>1, <1>2 DEF BookInvariant, Sees, JobShaped
  <1>5. Sound(rows) /\ DOMAIN rows = {PO}
    BY <1>4, Tables DEF Sound, SoundRow, Row
  <1> HIDE DEF rows
  <1>6. Committed(t, rows)
    BY <1>1, <1>2, <1>5, CommitCommits DEF Sound
  <1>7. Aside(t) /\ DOMAIN rows \cap (Good \cup Item) = {}
    BY <1>2, <1>5, Tables DEF Aside, At
  <1>8. Settles(t)
    BY <1>1, <1>3, <1>6, <1>7, SettlesBeside
  <1> QED
    BY <1>2, <1>3, <1>5, <1>8, CommitBacked

\* The end of the return of what was not confirmed.
LEMMA BackedEndUnconfirmed ==
    ASSUME BackedInvariant, BookInvariant', NEW t \in Txn, EndUnconfirmed(t)
    PROVE  BackedInvariant'
  <1>1. BookInvariant /\ Versions
    BY DEF BackedInvariant
  <1>2. Commit(t, NoRows) /\ job[t].step = "end"
    BY DEF EndUnconfirmed, At
  <1>3. Posts(t) /\ ~Finishing(t)
    BY <1>1, PostsEndUnconfirmed DEF PostsBeside
  <1>4. Committed(t, NoRows)
    BY <1>1, <1>2, NoRowsSound, CommitCommits
  <1>5. Aside(t)
    BY <1>2 DEF Aside, At
  <1>6. Settles(t)
    BY <1>1, <1>3, <1>4, <1>5, NoRowsSound, SettlesBeside
  <1> QED
    BY <1>2, <1>3, <1>6, NoRowsSound, CommitBacked

\* What an item becomes when its order is closed.
ItemClosed(v, to) ==
    [v EXCEPT !.status = IF @ = "OPEN" THEN "CANCELLED" ELSE @,
              !.reserved = IF to = "CANCELLED" THEN 0 ELSE @]

\* It is an item, shows no more, is ordered only if it was, and shows nothing on a cancellation.
LEMMA ClosedItem ==
    ASSUME NEW v \in ItemType, NEW to
    PROVE  /\ ItemClosed(v, to) \in ItemType
           /\ ItemClosed(v, to).reserved <= v.reserved
           /\ ItemClosed(v, to).status = "ORDERED" => v.status = "ORDERED"
           /\ to = "CANCELLED" => ItemClosed(v, to).reserved = 0
  <1> DEFINE s == IF v.status = "OPEN" THEN "CANCELLED" ELSE v.status
             n == IF to = "CANCELLED" THEN 0 ELSE v.reserved
             e == ItemClosed(v, to)
  <1>1. v.reserved \in Nat /\ v.status \in {"none", "OPEN", "ORDERED", "RECEIVED", "CANCELLED"}
    BY DEF ItemType
  <1>2. /\ s \in {"none", "OPEN", "ORDERED", "RECEIVED", "CANCELLED"} /\ (s = "ORDERED" => v.status = "ORDERED")
        /\ n \in Nat /\ n <= v.reserved /\ (to = "CANCELLED" => n = 0)
    BY <1>1
  <1>3. e = [v EXCEPT !.status = s, !.reserved = n]
    BY DEF ItemClosed
  <1> HIDE DEF s, n, e
  <1>4. e \in ItemType /\ e.status = s /\ e.reserved = n
    BY <1>2, <1>3 DEF ItemType
  <1> QED
    BY <1>2, <1>4 DEF e

\* The items of an order that was cancelled show nothing any more.
LEMMA BackedCancelItems ==
    ASSUME BackedInvariant, BookInvariant', NEW t \in Txn, CancelItems(t)
    PROVE  BackedInvariant'
  <1> DEFINE w == job[t].arg
             of == {i \in Item : ItemOrder[i] = w}
             Closed(r) == [r EXCEPT !.status = IF @ = "OPEN" THEN "CANCELLED" ELSE @,
                                    !.reserved = IF job[t].to = "CANCELLED" THEN 0 ELSE @]
             new == [x \in of |-> Closed(See(t)[x])]
             rows == Changed(new, Restrict(See(t), of))
  <1>1. BookInvariant /\ Versions /\ Backs(t)
    BY DEF BackedInvariant
  <1>2. Commit(t, rows) /\ job[t].op = "finish" /\ job[t].step = "items"
    BY DEF CancelItems, At
  <1>3. Posts(t)
    BY <1>1, PostsCancelItems DEF PostsBeside
  <1>4. ASSUME NEW i \in of
        PROVE  /\ new[i] \in ItemType /\ new[i].reserved <= See(t)[i].reserved
               /\ new[i].status = "ORDERED" => See(t)[i].status = "ORDERED"
               /\ job[t].to = "CANCELLED" => new[i].reserved = 0
    <2> DEFINE v == See(t)[i]
               to == job[t].to
    <2>1. v \in ItemType
      BY <1>1, SeesTyped
    <2>2. new[i] = ItemClosed(v, to)
      BY DEF ItemClosed
    <2> HIDE DEF v, to, new
    <2>3. /\ ItemClosed(v, to) \in ItemType /\ ItemClosed(v, to).reserved <= v.reserved
          /\ ItemClosed(v, to).status = "ORDERED" => v.status = "ORDERED"
          /\ to = "CANCELLED" => ItemClosed(v, to).reserved = 0
      BY <2>1, ClosedItem
    <2> QED
      BY <2>2, <2>3 DEF v, to
  <1>5. of \subseteq Item /\ \A i \in Item : ItemOrder[i] = w => i \in of
    OBVIOUS
  <1> HIDE DEF new, of
  <1>6. DOMAIN rows \subseteq of /\ \A x \in of : IF x \in DOMAIN rows THEN rows[x] = new[x] ELSE new[x] = See(t)[x]
    <2> DEFINE part == Restrict(See(t), of)
    <2>1. DOMAIN part = of /\ \A x \in of : part[x] = See(t)[x]
      BY DEF Restrict
    <2> HIDE DEF part
    <2>2. rows = [x \in {y \in DOMAIN part : new[y] # part[y]} |-> new[x]]
      BY DEF Changed, Restrict, part
    <2> QED
      BY <2>1, <2>2
  <1> HIDE DEF rows
  <1>7. Sound(rows)
    BY <1>4, <1>5, <1>6, Tables DEF Sound, SoundRow
  <1>8. Committed(t, rows)
    BY <1>1, <1>2, <1>7, CommitCommits DEF Sound
  <1>9. ASSUME NEW i \in Item
        PROVE  /\ db'[i].reserved <= See(t)[i].reserved
               /\ db'[i].status = "ORDERED" => See(t)[i].status = "ORDERED"
               /\ job[t].to = "CANCELLED" /\ ItemOrder[i] = w => db'[i].reserved = 0
    <2>1. db'[i] = IF i \in DOMAIN rows THEN rows[i] ELSE See(t)[i]
      BY <1>8, Tables DEF Committed
    <2>2. CASE i \in of
      <3>1. db'[i] = new[i]
        BY <1>6, <2>1, <2>2
      <3> QED
        BY <1>4, <2>2, <3>1
    <2>3. CASE i \notin of
      <3>1. db'[i] = See(t)[i] /\ ItemOrder[i] # w
        BY <1>5, <1>6, <2>1, <2>3
      <3>2. See(t)[i].reserved \in Nat
        BY <1>1, SeesTyped, ItemNat
      <3> QED
        BY <3>1, <3>2
    <2> QED
      BY <2>2, <2>3
  <1>10. ASSUME NEW v \in Order, NEW g \in Good PROVE db'[g].net[v] = See(t)[g].net[v] - Pending(t, v, g)
    <2>1. db'[g] = See(t)[g]
      BY <1>5, <1>6, <1>8, Tables DEF Committed
    <2>2. Pending(t, v, g) = 0 /\ See(t)[g].net[v] \in Nat
      BY <1>1, <1>2, SeesTyped, StockNat DEF Pending, At
    <2> QED
      BY <2>1, <2>2
  <1>11. Settles(t)
    BY <1>2, <1>9, <1>10 DEF Settles
  <1> QED
    BY <1>2, <1>3, <1>7, <1>11, CommitBacked

\* A row of the stock from which a part of what an order has is released.
LEMMA StockReleased ==
    ASSUME NEW g \in Good, NEW v, SoundStock(g, v), NEW w \in Order, NEW n \in Nat, n <= v.net[w],
           NEW e, e = StockFreed(v, v.reserved - n, w, v.net[w] - n)
    PROVE  /\ SoundStock(g, e)
           /\ e.net = [v.net EXCEPT ![w] = v.net[w] - n]
  <1> DEFINE m == v.net[w] - n
  <1>1. /\ v \in StockType /\ v.quantity \in Nat /\ v.reserved \in Nat /\ v.net[w] \in Nat
        /\ v.reserved <= v.quantity /\ v.net[w] <= Need[w][g]
    BY DEF SoundStock, StockType
  <1>2. m \in Nat /\ m <= Need[w][g]
    <2>1. Need[w][g] \in Nat
      BY GoodsReceiptAssumption
    <2> QED
      BY <1>1, <2>1
  <1>3. e = [quantity |-> v.quantity, reserved |-> v.reserved - n, net |-> [v.net EXCEPT ![w] = m]]
    BY <1>1, FreedStock
  <1>4. v.reserved - n = v.reserved + m - v.net[w] /\ v.reserved - n <= v.quantity
    BY <1>1
  <1> HIDE DEF m
  <1>5. /\ DOMAIN e = DOMAIN v /\ e = [quantity |-> e.quantity, reserved |-> e.reserved, net |-> e.net]
        /\ e.quantity \in Int /\ e.reserved = v.reserved + m - v.net[w]
        /\ e.net = [v.net EXCEPT ![w] = m] /\ e.reserved <= e.quantity
    BY <1>1, <1>3, <1>4 DEF StockType
  <1>6. SoundStock(g, e)
    BY <1>2, <1>5, StockReserves
  <1> QED
    BY <1>5, <1>6 DEF m

\* What an item showed less is released.
LEMMA BackedReleaseMovement ==
    ASSUME BackedInvariant, BookInvariant', NEW t \in Txn, ReleaseMovement(t)
    PROVE  BackedInvariant'
  <1> DEFINE i == job[t].arg
             h == ItemGood[i]
             w == ItemOrder[i]
             n == seen[t][i].reserved - See(t)[i].reserved
             rows == [g \in {h} |-> [See(t)[g] EXCEPT !.reserved = @ - n, !.net[w] = @ - n]]
  <1>1. BookInvariant /\ Versions /\ Backs(t) /\ KnowsDue(t)
    BY DEF BackedInvariant, InPlace
  <1>2. Commit(t, rows) /\ job[t].op = "release" /\ job[t].step = "movement"
    BY DEF ReleaseMovement, At
  <1>3. Posts(t) /\ ~Finishing(t)
    BY <1>1, PostsReleaseMovement DEF PostsBeside
  <1>4. i \in Item /\ h \in Good /\ w \in Order
    BY <1>1, <1>2, GoodsReceiptAssumption DEF BookInvariant, Sees, JobShaped
  <1>5. ASSUME NEW v \in Order, NEW g \in Good
        PROVE  Pending(t, v, g) = IF v = w /\ g = h THEN n ELSE 0
    BY <1>2, <1>4 DEF Pending, Due, At, OfOrder
  <1>6. n \in Nat /\ n <= See(t)[h].net[w]
    <2>1. Pending(t, w, h) = n /\ n = Due(t)
      BY <1>4, <1>5 DEF Due
    <2>2. 0 < Due(t)
      BY <1>1, <1>2 DEF KnowsDue
    <2>3. Pending(t, w, h) \in Nat /\ (Pending(t, w, h) # 0 => Pending(t, w, h) <= See(t)[h].net[w])
      BY <1>4, PendingHeld
    <2> HIDE DEF n
    <2> QED
      BY <2>1, <2>2, <2>3
  <1>7. /\ DOMAIN rows = {h} /\ SoundStock(h, rows[h])
        /\ rows[h].net = [See(t)[h].net EXCEPT ![w] = See(t)[h].net[w] - n]
    <2> DEFINE v == See(t)[h]
               e == rows[h]
    <2>1. DOMAIN rows = {h}
      OBVIOUS
    <2>2. SoundStock(h, v)
      BY <1>1, <1>4, SeesTyped
    <2>3. e = StockFreed(v, v.reserved - n, w, v.net[w] - n)
      <3> DEFINE c == [v EXCEPT !.reserved = @ - n]
      <3>1. e = [c EXCEPT !.net[w] = @ - n]
        OBVIOUS
      <3>2. c = [v EXCEPT !.reserved = v.reserved - n]
        OBVIOUS
      <3>3. v \in StockType
        BY <2>2 DEF SoundStock
      <3>4. c.net = v.net
        BY <3>3 DEF StockType
      <3>5. [c EXCEPT !.net[w] = @ - n] = [c EXCEPT !.net[w] = c.net[w] - n]
        OBVIOUS
      <3>6. [c EXCEPT !.net[w] = c.net[w] - n] = [c EXCEPT !.net[w] = v.net[w] - n]
        BY <3>4
      <3>7. StockFreed(v, v.reserved - n, w, v.net[w] - n) = [c EXCEPT !.net[w] = v.net[w] - n]
        BY DEF StockFreed
      <3> QED
        BY <3>1, <3>5, <3>6, <3>7
    <2>4. n \in Nat /\ n <= v.net[w] /\ h \in Good /\ w \in Order
      BY <1>4, <1>6
    <2> HIDE DEF v, e, rows, n, h, w
    <2>5. SoundStock(h, e) /\ e.net = [v.net EXCEPT ![w] = v.net[w] - n]
      BY <2>2, <2>3, <2>4, StockReleased
    <2> QED
      BY <2>1, <2>5 DEF v, e
  <1> HIDE DEF rows
  <1>8. Sound(rows)
    BY <1>4, <1>7, Tables DEF Sound, SoundRow
  <1>9. Committed(t, rows)
    BY <1>1, <1>2, <1>8, CommitCommits DEF Sound
  <1>10. ASSUME NEW x \in Item
         PROVE  /\ db'[x].reserved <= See(t)[x].reserved
                /\ db'[x].status = "ORDERED" => See(t)[x].status = "ORDERED"
    <2>1. db'[x] = See(t)[x]
      BY <1>4, <1>7, <1>9, Tables DEF Committed
    <2>2. See(t)[x].reserved \in Nat
      BY <1>1, SeesTyped, ItemNat
    <2> QED
      BY <2>1, <2>2
  <1>11. ASSUME NEW v \in Order, NEW g \in Good PROVE db'[g].net[v] = See(t)[g].net[v] - Pending(t, v, g)
    <2>1. db'[g] = IF g = h THEN rows[h] ELSE See(t)[g]
      BY <1>7, <1>9, Tables DEF Committed
    <2>2. See(t)[g].net[v] \in Nat /\ See(t)[g].net \in [Order -> Nat]
      <3>1. SoundStock(g, See(t)[g])
        BY <1>1, SeesTyped
      <3> QED
        BY <3>1 DEF SoundStock, StockType
    <2>3. Pending(t, v, g) = IF v = w /\ g = h THEN n ELSE 0
      BY <1>5
    <2> HIDE DEF n, w, h
    <2>4. CASE g = h
      <3>1. db'[g].net = [See(t)[g].net EXCEPT ![w] = See(t)[g].net[w] - n]
        BY <1>7, <2>1, <2>4
      <3>2. db'[g].net[v] = IF v = w THEN See(t)[g].net[w] - n ELSE See(t)[g].net[v]
        BY <2>2, <3>1
      <3> QED
        BY <2>2, <2>3, <2>4, <3>2
    <2>5. CASE g # h
      BY <2>1, <2>2, <2>3, <2>5
    <2> QED
      BY <2>4, <2>5
  <1>12. Settles(t)
    BY <1>3, <1>10, <1>11 DEF Settles
  <1> QED
    BY <1>2, <1>3, <1>8, <1>12, CommitBacked

\* A request that fails takes back all it has reserved.
LEMMA BackedAbort ==
    ASSUME BackedInvariant, BookInvariant', NEW t \in Txn, Abort(t)
    PROVE  BackedInvariant'
  <1>1. /\ mine' = [mine EXCEPT ![t] = NoRows] /\ seen' = [seen EXCEPT ![t] = NoRows]
        /\ job' = [job EXCEPT ![t] = Idle] /\ db' = db
    BY DEF Abort
  <1>2. BookInvariant /\ Versions
    BY DEF BackedInvariant
  <1>3. job'[t] = Idle /\ \A u \in Txn \ {t} : job'[u] = job[u]
    BY <1>1, <1>2, NewJob DEF BookInvariant
  <1>4. /\ mine'[t] = NoRows /\ seen'[t] = NoRows
        /\ \A u \in Txn \ {t} : mine'[u] = mine[u] /\ seen'[u] = seen[u]
    BY <1>1, <1>2 DEF BookInvariant
  <1>5. Versions'
    <2>1. Sound(NoRows) /\ IsRows(NoRows)
      BY NoRowsSound DEF IsRows, NoRows
    <2>2. \A u \in Txn : Sound(mine'[u]) /\ Sound(seen'[u]) /\ IsRows(seen'[u])
      BY <1>2, <1>4, <2>1 DEF Versions
    <2> QED
      BY <1>1, <1>2, <2>2 DEF Versions
  <1>6. FreeWhenClosed' /\ ShownIsHeld'
    BY <1>1 DEF BackedInvariant, FreeWhenClosed, ShownIsHeld, Total
  <1>7. ASSUME NEW u \in Txn PROVE Backs(u)' /\ InPlace(u)'
    <2>1. CASE u = t
      BY <1>3, <1>4, <1>5, <1>6, <2>1, IdleBacked
    <2>2. CASE u # t
      <3>1. mine'[u] = mine[u] /\ seen'[u] = seen[u] /\ job'[u] = job[u]
        BY <1>3, <1>4, <2>2
      <3> QED
        BY <1>1, <3>1, OthersBack DEF BackedInvariant
    <2> QED
      BY <2>1, <2>2
  <1> QED
    BY <1>5, <1>6, <1>7 DEF BackedInvariant
-----------------------------------------------------------------------------
\* At the start nothing is reserved and no item shows anything.
LEMMA BackedInit == Init => BackedInvariant
  <1> SUFFICES ASSUME Init PROVE BackedInvariant
    OBVIOUS
  <1>1. BookInvariant
    BY BookInit
  <1>2. /\ mine = [t \in Txn |-> NoRows] /\ seen = [t \in Txn |-> NoRows] /\ job = [t \in Txn |-> Idle]
    BY DEF Init
  <1> DEFINE none == [w \in Order |-> 0]
  <1>3. /\ DOMAIN db = Row
        /\ \A l \in Line : db[l] = 0
        /\ \A g \in Good : db[g] = [quantity |-> 0, reserved |-> 0, net |-> none]
        /\ \A w \in Order : db[w] = "IN_PROGRESS"
        /\ db[PO] = "ORDERED" /\ db[Account] = 0
    <2>1. DOMAIN db = Row
      BY DEF Init
    <2>2. \A l \in Line : db[l] = 0
      BY Tables DEF Init
    <2>3. \A g \in Good : db[g] = [quantity |-> 0, reserved |-> 0, net |-> none]
      BY Tables DEF Init
    <2>4. \A w \in Order : db[w] = "IN_PROGRESS"
      BY Tables DEF Init
    <2>5. db[Account] = 0
      BY Tables DEF Init
    <2>6. db[PO] = "ORDERED"
      BY GoodsReceiptAssumption DEF Init, Row
    <2> QED
      BY <2>1, <2>2, <2>3, <2>4, <2>5, <2>6
  <1>4. \A i \in Item : db[i] \in ItemType /\ db[i].reserved = 0
    <2> SUFFICES ASSUME NEW i \in Item PROVE db[i] \in ItemType /\ db[i].reserved = 0
      OBVIOUS
    <2>1. db[i] = IF i \in Range(Items) THEN NewItem("ORDERED", Wanted[i]) ELSE NoItem
      BY Tables DEF Init
    <2>2. Wanted[i] \in Nat
      BY GoodsReceiptAssumption
    <2> QED
      BY <2>1, <2>2 DEF NewItem, NoItem, ItemType
  <1>5. none \in [Order -> Nat] /\ \A w \in Order : none[w] = 0
    OBVIOUS
  <1> HIDE DEF none
  <1>6. SumFunction([w \in Order |-> none[w]]) = 0
    <2> DEFINE f == [w \in Order |-> none[w]]
    <2>1. f \in [Order -> Int] /\ \A w \in Order : f[w] = 0
      BY <1>5
    <2>2. IsFiniteSet(Order)
      BY GoodsReceiptAssumption
    <2> HIDE DEF f
    <2>3. SumFunction(f) = 0
      BY <2>1, <2>2, FunctionZero
    <2> QED
      BY <2>3 DEF f
  <1>7. ASSUME NEW g \in Good PROVE SoundStock(g, db[g]) /\ db[g].net = none
    <2> DEFINE v == db[g]
    <2>1. v = [quantity |-> 0, reserved |-> 0, net |-> none]
      BY <1>3
    <2> HIDE DEF v
    <2>2. v \in StockType /\ v.reserved = 0 /\ v.quantity = 0 /\ v.net = none
      BY <1>5, <2>1 DEF StockType
    <2>3. v.reserved = SumFunction([w \in Order |-> v.net[w]])
      BY <1>6, <2>2
    <2>4. \A w \in Order : v.net[w] <= Need[w][g]
      <3>1. \A w \in Order : Need[w][g] \in Nat
        BY GoodsReceiptAssumption
      <3> QED
        BY <1>5, <2>2, <3>1
    <2> QED
      BY <2>2, <2>3, <2>4 DEF SoundStock, v
  <1>8. Sound(db)
    <2> SUFFICES ASSUME NEW x \in Row PROVE SoundRow(x, db[x])
      BY <1>3 DEF Sound
    <2>1. /\ x \in Line => db[x] \in Nat
          /\ x \in Good => SoundStock(x, db[x])
          /\ x \in Item => db[x] \in ItemType
          /\ x \in Order => db[x] \in {"IN_PROGRESS", "COMPLETED", "CANCELLED"}
          /\ x = PO => db[x] \in DOMAIN PO_TRANSITIONS
          /\ x = Account => db[x] \in Nat
      BY <1>3, <1>4, <1>7 DEF PO_TRANSITIONS
    <2> QED
      BY <2>1 DEF SoundRow
  <1>9. Versions
    BY <1>2, <1>3, <1>8, NoRowsSound DEF Versions, IsRows, NoRows
  <1>10. FreeWhenClosed
    BY <1>3 DEF FreeWhenClosed
  <1>11. ShownIsHeld
    <2> SUFFICES ASSUME NEW w \in Order, NEW g \in Good
                 PROVE  Total(db, OfOrder(w, g), "reserved") <= db[g].net[w]
      BY DEF ShownIsHeld
    <2> DEFINE X == OfOrder(w, g)
               f == [i \in X |-> db[i].reserved]
    <2>1. X \in SUBSET Item
      BY DEF OfOrder
    <2> HIDE DEF X
    <2>2. IsFiniteSet(X) /\ f \in [X -> Int] /\ Total(db, X, "reserved") = SumFunction(f)
      BY <1>4, <2>1, TotalSum
    <2>3. \A i \in X : f[i] = 0
      BY <1>4, <2>1
    <2> HIDE DEF f
    <2>4. Total(db, X, "reserved") = 0
      BY <2>2, <2>3, FunctionZero
    <2>5. db[g].net[w] = 0
      BY <1>5, <1>7
    <2> QED
      BY <2>4, <2>5 DEF X
  <1>12. ASSUME NEW t \in Txn PROVE Backs(t) /\ InPlace(t)
    <2>1. mine[t] = NoRows /\ job[t] = Idle
      BY <1>2
    <2>2. \A x \in Row : See(t)[x] = db[x]
      BY <1>3, <2>1 DEF See, Over, NoRows
    <2>3. ASSUME NEW w \in Order, NEW g \in Good
          PROVE  Moved(t, w, g) = 0 /\ Lent(t, w, g) = 0 /\ Pending(t, w, g) = 0
      <3>1. Moved(t, w, g) = 0
        <4>1. See(t)[g] = db[g] /\ db[g].net[w] = 0
          BY <1>5, <1>7, <2>2, Tables
        <4> QED
          BY <4>1 DEF Moved
      <3>2. Pending(t, w, g) = 0
        BY <2>1 DEF Pending, At, Idle
      <3> DEFINE X == OfOrder(w, g)
                 f == [i \in X |-> See(t)[i].reserved - db[i].reserved]
      <3>3. X \in SUBSET Item /\ IsFiniteSet(X)
        <4>1. X \in SUBSET Item
          BY DEF OfOrder
        <4> QED
          BY <4>1, FS_Subset, GoodsReceiptAssumption
      <3>4. Lent(t, w, g) = SumFunction(f)
        BY DEF Lent, Extra
      <3> HIDE DEF X
      <3>5. f \in [X -> Int] /\ \A i \in X : f[i] = 0
        BY <1>4, <2>2, <3>3, Tables
      <3> HIDE DEF f
      <3>6. SumFunction(f) = 0
        BY <3>3, <3>5, FunctionZero
      <3> QED
        BY <3>1, <3>2, <3>4, <3>6
    <2>4. MovesOwn(t) /\ LendsBacked(t)
      BY <2>3 DEF MovesOwn, LendsBacked
    <2>5. ClosedFree(t)
      BY <1>3, <2>1 DEF ClosedFree, At, Idle
    <2>6. OrdersNone(t)
      BY <2>2, Tables DEF OrdersNone
    <2>7. InPlace(t)
      BY <2>1 DEF InPlace, HoldsOrders, HoldsGoods, KnowsFree, KnowsItems, KnowsDue, At, Receiving, Idle
    <2> QED
      BY <2>4, <2>5, <2>6, <2>7 DEF Backs
  <1> QED
    BY <1>1, <1>9, <1>10, <1>11, <1>12 DEF BackedInvariant

\* Every step keeps every reservation backed.
LEMMA BackedStep == BackedInvariant /\ [Next]_vars => BackedInvariant'
  <1> SUFFICES ASSUME BackedInvariant, [Next]_vars PROVE BackedInvariant'
    OBVIOUS
  <1>1. BookInvariant'
    BY BookStep DEF BackedInvariant
  <1>2. ASSUME NEW t \in Txn, ReceiveStep(t) PROVE BackedInvariant'
    BY <1>1, <1>2, BackedStartReceive, BackedLockOrders, BackedReceiveLines, BackedPostReceipt, BackedReadItems,
       BackedAllocate, BackedCharge, BackedRereadLines, BackedCloseForLists, BackedSetStatus DEF ReceiveStep
  <1>3. ASSUME NEW t \in Txn, OtherStep(t) PROVE BackedInvariant'
    BY <1>1, <1>3, BackedStartTransition, BackedStartFinish, BackedReleaseStock, BackedCancelItems,
       BackedStartRelease, BackedReleaseItem, BackedReleaseMovement, BackedStartUnconfirmed,
       BackedReadUnconfirmed, BackedEndUnconfirmed, BackedReturnUnconfirmed DEF OtherStep
  <1>4. ASSUME NEW t \in Txn, Abort(t) PROVE BackedInvariant'
    BY <1>1, <1>4, BackedAbort
  <1>5. CASE UNCHANGED vars
    <2>1. UNCHANGED <<db, mine, job, seen, key, receipts>>
      BY <1>5 DEF vars
    <2>2. Versions' /\ FreeWhenClosed'
      BY <2>1 DEF BackedInvariant, Versions, FreeWhenClosed
    <2>3. ShownIsHeld'
      BY <2>1 DEF BackedInvariant, ShownIsHeld, Total
    <2>4. \A t \in Txn : Backs(t)' /\ InPlace(t)'
      BY <2>1, OthersBack DEF BackedInvariant
    <2> QED
      BY <1>1, <2>2, <2>3, <2>4 DEF BackedInvariant
  <1> QED
    BY <1>2, <1>3, <1>4, <1>5 DEF Next

\* Every version of every row, committed, held or read, is of its type: nothing a
\* request computes goes below zero.
THEOREM ReceiptTypeCorrect == Spec => []TypeOK
  <1>1. BackedInvariant => TypeOK
    <2> SUFFICES ASSUME BackedInvariant PROVE TypeOK
      OBVIOUS
    <2>1. Versions /\ key \in [Key -> {"free", "reserved", "done"}] /\ receipts \in [Key -> Nat]
      BY DEF BackedInvariant, BookInvariant, KeyInvariant, KeysTyped
    <2>2. ASSUME NEW rows, Sound(rows) PROVE DOMAIN rows \subseteq Row /\ RowsTyped(rows)
      <3>1. DOMAIN rows \subseteq Row /\ \A x \in DOMAIN rows : SoundRow(x, rows[x])
        BY <2>2 DEF Sound
      <3> QED
        BY <3>1 DEF RowsTyped, SoundRow, SoundStock
    <2> QED
      BY <2>1, <2>2 DEF TypeOK, Versions
  <1> QED
    BY BackedInit, BackedStep, <1>1, PTL DEF Spec

\* Whatever receipts, releases and closings of work orders race: what is reserved is
\* in stock, belongs to orders in progress within their need, and the items of an
\* order show no more of it than there is.
THEOREM ReservationsAlwaysBacked == Spec => []ReservedIsBacked
  <1>1. BackedInvariant => ReservedIsBacked
    <2> SUFFICES ASSUME BackedInvariant PROVE ReservedIsBacked
      OBVIOUS
    <2>1. Versions /\ FreeWhenClosed /\ ShownIsHeld
      BY DEF BackedInvariant
    <2>2. \A g \in Good : SoundStock(g, db[g])
      BY <2>1, Tables DEF Versions, Sound, SoundRow
    <2> QED
      BY <2>1, <2>2 DEF ReservedIsBacked, SoundStock, FreeWhenClosed, ShownIsHeld
  <1> QED
    BY BackedInit, BackedStep, <1>1, PTL DEF Spec
=============================================================================
