------------------------- MODULE SupplierOrderProofs -------------------------
(***************************************************************************)
(* Proofs about SupplierOrder, for any external orders, any number of      *)
(* steps and attempts, any faults and any of the pollers: an external      *)
(* order is with the supplier at most once, what the rows say of it is     *)
(* true, what was sent stays sent, and the whole implements                *)
(* SupplierPlacement.                                                      *)
(***************************************************************************)
EXTENDS SupplierOrder, TLAPS

\* Statuses a row keeps once it was sent, until the supplier calls it off.
Sent == Placed \cup {"UNKNOWN"}

\* What the columns of one row tell about the supplier.
RowTells(r, o) ==
    /\ r.status = "NONE" => r = NoRow
    /\ r.mark = "DONE" => r.status \in Sent \cup {"CANCELLED"}
    /\ r.status \in Sent => r.mark # "none"
    /\ r.mark = "none" => (r.ext <=> r.step >= NonRepeatable)
    /\ r.mark = "none" /\ ~r.ext => held[o] = 0 /\ Flying(o) = 0
    /\ r.ext => held[o] > 0
    /\ r.status \in Placed => held[o] > 0
    /\ r.status = "SHIPPED" => stage[o] = "SHIPPED"

RowsTell == \A o \in Order : RowTells(row[o], o)

StagesTell == \A o \in Order : stage[o] # "NONE" => held[o] > 0

\* What the worker may rely on where it is.
Working == {"connect", "reconcile", "step", "call", "answer", "error"}
WorkerKnows ==
    /\ wire # "none" <=> worker.pc = "answer"
    /\ worker.pc \in Working => Current.status = "SENDING"
    /\ worker.pc = "step" => Current.mark = "none"
    /\ worker.pc \in {"call", "answer"} =>
          /\ Current.mark = "PENDING" /\ ~Current.ext /\ Current.step < NonRepeatable
          /\ late[worker.at] = 0
          /\ held[worker.at] = IF wire = "accepted" THEN 1 ELSE 0

\* What a poller read before it asked still holds when it writes.
PollersKnow ==
    \A p \in Pollers :
        LET q == poller[p] IN
        q.pc \in {"ask", "write"} =>
            /\ row[q.at].status \in Sent \cup {"CANCELLED"} /\ row[q.at].mark # "none"
            /\ q.seen \in {"PLACED", "CONFIRMED", "UNKNOWN"}
            /\ q.seen # "UNKNOWN" => held[q.at] > 0
            /\ q.pc = "write" => /\ q.got # "NONE" => held[q.at] > 0
                                 /\ q.got = "SHIPPED" => stage[q.at] = "SHIPPED"

SendInvariant ==
    /\ TypeOK
    /\ OrderedAtMostOnce
    /\ RowsTell
    /\ StagesTell
    /\ WorkerKnows
    /\ PollersKnow
-----------------------------------------------------------------------------
(* Types. *)

LEMMA AnyOrderTyped == AnyOrder \in Order
  BY SupplierOrderAssumption DEF AnyOrder

LEMMA IdleTyped == IdleWorker \in WorkerType /\ IdlePoller \in PollerType /\ NoRow \in RowType
  BY AnyOrderTyped, SupplierOrderAssumption
  DEF IdleWorker, IdlePoller, NoRow, WorkerType, PollerType, RowType, Summaries

LEMMA SummaryTyped ==
    ASSUME NEW rows PROVE SummarizeSupplierApiStatus(rows) \in Summaries
  BY DEF SummarizeSupplierApiStatus, Summaries

Statuses == {"NONE", "QUEUED", "SENDING", "FAILED", "UNKNOWN", "CANCELLED"} \cup Placed
Marks == {"none", "PENDING", "RECONCILE", "DONE"}

\* The rows a step may write.
LEMMA RowTyped ==
    ASSUME NEW r \in RowType
    PROVE  /\ \A s \in Statuses : [r EXCEPT !.status = s] \in RowType
           /\ \A s \in Statuses, e, b \in BOOLEAN :
                [r EXCEPT !.status = s, !.mark = "DONE", !.ext = e, !.poll = b] \in RowType
           /\ \A s \in Statuses : [r EXCEPT !.status = s, !.ext = TRUE, !.poll = TRUE] \in RowType
           /\ \A s \in Statuses, b \in BOOLEAN : [r EXCEPT !.status = s, !.poll = b] \in RowType
           /\ [r EXCEPT !.poll = TRUE] \in RowType
           /\ \A m \in Marks : [r EXCEPT !.mark = m] \in RowType
           /\ \A n \in 0..Steps : [r EXCEPT !.step = n, !.mark = "none"] \in RowType
           /\ \A n \in 0..Steps : [r EXCEPT !.step = n, !.mark = "none", !.ext = TRUE] \in RowType
  <1>1. \A s \in Statuses : [r EXCEPT !.status = s] \in RowType
    BY DEF RowType, Statuses
  <1>2. \A s \in Statuses, e, b \in BOOLEAN :
           [r EXCEPT !.status = s, !.mark = "DONE", !.ext = e, !.poll = b] \in RowType
    BY DEF RowType, Statuses
  <1>3. \A s \in Statuses : [r EXCEPT !.status = s, !.ext = TRUE, !.poll = TRUE] \in RowType
    BY DEF RowType, Statuses
  <1>4. \A s \in Statuses, b \in BOOLEAN : [r EXCEPT !.status = s, !.poll = b] \in RowType
    BY DEF RowType, Statuses
  <1>5. [r EXCEPT !.poll = TRUE] \in RowType
    BY DEF RowType
  <1>6. \A m \in Marks : [r EXCEPT !.mark = m] \in RowType
    BY DEF RowType, Marks
  <1>7. \A n \in 0..Steps : /\ [r EXCEPT !.step = n, !.mark = "none"] \in RowType
                            /\ [r EXCEPT !.step = n, !.mark = "none", !.ext = TRUE] \in RowType
    BY DEF RowType
  <1> QED
    BY <1>1, <1>2, <1>3, <1>4, <1>5, <1>6, <1>7

LEMMA SetRowTyped ==
    ASSUME TypeOK, NEW r \in RowType, SetRow(r)
    PROVE  row' \in [Order -> RowType]
  BY DEF SetRow, TypeOK

LEMMA CurrentTyped == TypeOK => Current \in RowType /\ worker.at \in Order
  BY DEF TypeOK, Current, WorkerType

\* Where the worker goes, it stays a worker.
LEMMA WorkerTyped ==
    ASSUME TypeOK,
           NEW pc \in {"idle", "plan", "list", "next", "claim", "connect", "reconcile", "step",
                       "call", "answer", "error", "refresh", "summary"}
    PROVE  /\ [worker EXCEPT !.pc = pc] \in WorkerType
           /\ \A e \in {"done", "limit", "retry", "final"} : [worker EXCEPT !.pc = pc, !.end = e] \in WorkerType
           /\ \A t \in SUBSET Order : [worker EXCEPT !.pc = pc, !.todo = t] \in WorkerType
           /\ \A t \in SUBSET Order, o \in Order : [worker EXCEPT !.pc = pc, !.at = o, !.todo = t] \in WorkerType
           /\ \A u \in Summaries : [worker EXCEPT !.pc = pc, !.sum = u] \in WorkerType
  <1>0. worker \in WorkerType
    BY DEF TypeOK
  <1>1. [worker EXCEPT !.pc = pc] \in WorkerType
    BY <1>0 DEF WorkerType
  <1>2. ASSUME NEW e \in {"done", "limit", "retry", "final"}
        PROVE  [worker EXCEPT !.pc = pc, !.end = e] \in WorkerType
    BY <1>0 DEF WorkerType
  <1>3. ASSUME NEW t \in SUBSET Order
        PROVE  [worker EXCEPT !.pc = pc, !.todo = t] \in WorkerType
    BY <1>0 DEF WorkerType
  <1>4. ASSUME NEW t \in SUBSET Order, NEW o \in Order
        PROVE  [worker EXCEPT !.pc = pc, !.at = o, !.todo = t] \in WorkerType
    BY <1>0 DEF WorkerType
  <1>5. ASSUME NEW u \in Summaries
        PROVE  [worker EXCEPT !.pc = pc, !.sum = u] \in WorkerType
    BY <1>0 DEF WorkerType
  <1> QED
    BY <1>1, <1>2, <1>3, <1>4, <1>5

LEMMA NonRepeatableTyped == NonRepeatable \in 0..Steps
  BY SupplierOrderAssumption

LEMMA GotoTyped ==
    ASSUME TypeOK,
           NEW pc \in {"list", "next", "connect", "reconcile", "step", "call", "answer", "refresh"},
           Goto(pc)
    PROVE  worker' \in WorkerType
  BY WorkerTyped DEF Goto

LEMMA ManyRowsTyped ==
    ASSUME TypeOK
    PROVE  /\ CancelQueued \in [Order -> RowType]
           /\ Requeued \in [Order -> RowType]
           /\ \A plan : Planned(plan) \in [Order -> RowType]
           /\ EnsurePlanned => row' \in [Order -> RowType]
  <1>1. CancelQueued \in [Order -> RowType] /\ Requeued \in [Order -> RowType]
    BY RowTyped DEF CancelQueued, Requeued, TypeOK, Statuses
  <1>2. \A plan : Planned(plan) \in [Order -> RowType]
    BY RowTyped, IdleTyped DEF Planned, TypeOK, Statuses
  <1> QED
    BY <1>1, <1>2 DEF EnsurePlanned

LEMMA AbandonedTyped == TypeOK => Abandoned \in [Order -> Nat]
  BY DEF TypeOK, Abandoned, WorkerType

LEMMA FaultTyped == TypeOK /\ Fault => faults' \in 0..MaxFaults
  BY SupplierOrderAssumption DEF TypeOK, Fault

LEMMA ThrowsTyped == TypeOK /\ Throws => worker' \in WorkerType /\ faults' \in 0..MaxFaults
  BY WorkerTyped, FaultTyped DEF Throws, Throw, TypeOK

LEMMA PolledTyped ==
    ASSUME NEW r \in RowType, NEW seen \in {"NONE"} \cup POLLABLE_SUPPLIER_ORDER_STATUSES,
           NEW got \in {"NONE", "CANCELLED"} \cup Placed
    PROVE  Polled(r, seen, got) \in RowType
  <1>1. seen \in Statuses /\ got \in Statuses
    BY DEF Statuses, Placed, POLLABLE_SUPPLIER_ORDER_STATUSES
  <1> DEFINE b == (IF got = "NONE" THEN seen ELSE got) \notin TERMINAL_SUPPLIER_ORDER_STATUSES
  <1>2. b \in BOOLEAN
    OBVIOUS
  <1> QED
    BY <1>1, <1>2, RowTyped DEF Polled, Statuses, Placed

\* One action at a time; the conjuncts it leaves alone are UNCHANGED.
LEMMA TypeStep == TypeOK /\ [Next]_vars => TypeOK'
  <1> SUFFICES ASSUME TypeOK, [Next]_vars PROVE TypeOK'
    OBVIOUS
  <1>1. CASE EnqueuePlace
    BY <1>1, FaultTyped DEF TypeOK, EnqueuePlace, Add
  <1>2. CASE Sweep
    BY <1>2 DEF TypeOK, Sweep, Add
  <1>3. CASE Transition
    <2>1. PICK api \in Summaries :
              /\ po' = [po EXCEPT !.status = "ORDERED", !.api = api]
              /\ button' = IF api = "QUEUED" THEN "planned" ELSE "idle"
      BY <1>3 DEF Transition, TypeOK, Summaries
    <2> QED
      BY <1>3, <2>1 DEF Transition, TypeOK
  <1>4. CASE SendCheck
    BY <1>4 DEF TypeOK, SendCheck
  <1>5. CASE SendCommit
    BY <1>5, ManyRowsTyped DEF TypeOK, SendCommit, Summaries
  <1>6. CASE ToggleConnection
    BY <1>6 DEF TypeOK, ToggleConnection
  <1>7. CASE CancelCommit
    BY <1>7, ManyRowsTyped DEF TypeOK, CancelCommit
  <1>8. CASE PickUp
    BY <1>8, IdleTyped, AnyOrderTyped DEF TypeOK, PickUp, IdleWorker, WorkerType, Summaries
  <1>9. CASE Plan
    <2>1. row' \in [Order -> RowType]
      BY <1>9, ManyRowsTyped DEF Plan, TypeOK
    <2>2. worker' \in WorkerType
      BY <1>9, GotoTyped, IdleTyped DEF Plan
    <2>3. po' = po \/ po' = [po EXCEPT !.api = "FAILED"]
      BY <1>9 DEF Plan
    <2>4. job' = job \/ job' = [at |-> "none", tries |-> 0]
      BY <1>9 DEF Plan
    <2> QED
      BY <1>9, <2>1, <2>2, <2>3, <2>4 DEF Plan, TypeOK, Summaries
  <1>10. CASE List
    <2> DEFINE t == {o \in Order : row[o].status \in {"QUEUED", "SENDING"}}
    <2>1. [worker EXCEPT !.pc = "next", !.todo = t] \in WorkerType
      BY WorkerTyped
    <2> QED
      BY <1>10, <2>1 DEF TypeOK, List
  <1>11. CASE NextOrder
    <2>1. worker.todo \in SUBSET Order
      BY DEF TypeOK, WorkerType
    <2>2. [worker EXCEPT !.pc = "refresh", !.at = AnyOrder, !.todo = {}] \in WorkerType
      BY WorkerTyped, AnyOrderTyped
    <2>3. \A o \in worker.todo :
             [worker EXCEPT !.pc = "claim", !.at = o, !.todo = worker.todo \ {o}] \in WorkerType
      BY <2>1, WorkerTyped
    <2>4. worker' \in WorkerType
      BY <1>11, <2>2, <2>3 DEF NextOrder
    <2>5. UNCHANGED <<po, row, enabled, job, wire, late, held, stage, button, cancel, poller, faults>>
      BY <1>11 DEF NextOrder
    <2> QED
      BY <2>4, <2>5 DEF TypeOK
  <1>12. CASE Claim
    <2>1. [Current EXCEPT !.status = "SENDING"] \in RowType
      BY CurrentTyped, RowTyped, NonRepeatableTyped DEF Statuses
    <2>2. row' \in [Order -> RowType]
      BY <1>12, <2>1, SetRowTyped DEF Claim, TypeOK
    <2>3. worker' \in WorkerType
      BY <1>12, GotoTyped DEF Claim, TypeOK
    <2> QED
      BY <1>12, <2>2, <2>3 DEF TypeOK, Claim
  <1>13. CASE Connect
    <2>1. [Current EXCEPT !.status = "FAILED"] \in RowType
      BY CurrentTyped, RowTyped, NonRepeatableTyped DEF Statuses
    <2>2. row' \in [Order -> RowType]
      BY <1>13, <2>1, SetRowTyped DEF Connect, TypeOK
    <2>3. worker' \in WorkerType
      BY <1>13, GotoTyped DEF Connect, TypeOK
    <2> QED
      BY <1>13, <2>2, <2>3 DEF TypeOK, Connect
  <1>14. CASE Reconcile
    <2>1. Current \in RowType /\ Current.ext \in BOOLEAN /\ Current.poll \in BOOLEAN
      BY CurrentTyped DEF RowType
    <2>2. /\ Settled("PLACED", TRUE, TRUE) \in RowType
          /\ Settled("UNKNOWN", Current.ext, Current.poll) \in RowType
      BY <2>1, RowTyped DEF Settled, Statuses, Placed
    <2>3. row' \in [Order -> RowType]
      BY <1>14, <2>2, SetRowTyped DEF Reconcile
    <2>4. worker' \in WorkerType
      BY <1>14, GotoTyped DEF Reconcile
    <2> QED
      BY <1>14, <2>3, <2>4 DEF TypeOK, Reconcile
  <1>15. CASE ReconcileFails
    BY <1>15, ThrowsTyped DEF TypeOK, ReconcileFails
  <1>16. CASE RepeatableStep
    <2>1. NextStep \in 0..Steps
      BY <1>16, SupplierOrderAssumption DEF RepeatableStep
    <2>2. [Current EXCEPT !.step = NextStep, !.mark = "none"] \in RowType
      BY <2>1, CurrentTyped, RowTyped
    <2>3. row' \in [Order -> RowType]
      BY <1>16, <2>2, SetRowTyped DEF RepeatableStep, TypeOK
    <2>4. worker' \in WorkerType /\ faults' \in 0..MaxFaults
      BY <1>16, ThrowsTyped DEF RepeatableStep, TypeOK
    <2> QED
      BY <1>16, <2>3, <2>4 DEF TypeOK, RepeatableStep
  <1>17. CASE MarkPending
    <2>1. [Current EXCEPT !.mark = "PENDING"] \in RowType
      BY CurrentTyped, RowTyped, NonRepeatableTyped DEF Marks
    <2>2. row' \in [Order -> RowType]
      BY <1>17, <2>1, SetRowTyped DEF MarkPending, TypeOK
    <2>3. worker' \in WorkerType
      BY <1>17, GotoTyped DEF MarkPending, TypeOK
    <2> QED
      BY <1>17, <2>2, <2>3 DEF TypeOK, MarkPending
  <1>18. CASE Call
    <2>1. worker' \in WorkerType
      BY <1>18, GotoTyped DEF Call, TypeOK
    <2>2. wire' \in {"none", "flying", "accepted", "refused"}
      BY <1>18 DEF Call
    <2> QED
      BY <1>18, <2>1, <2>2 DEF TypeOK, Call
  <1>19. CASE AnswerOk
    <2>1. [Current EXCEPT !.step = NonRepeatable, !.mark = "none", !.ext = TRUE] \in RowType
      BY CurrentTyped, RowTyped, NonRepeatableTyped
    <2>2. row' \in [Order -> RowType]
      BY <1>19, <2>1, SetRowTyped DEF AnswerOk, TypeOK
    <2>3. worker' \in WorkerType
      BY <1>19, GotoTyped DEF AnswerOk, TypeOK
    <2> QED
      BY <1>19, <2>2, <2>3 DEF TypeOK, AnswerOk
  <1>20. CASE AnswerRefused
    <2>1. [Current EXCEPT !.mark = "none"] \in RowType
      BY CurrentTyped, RowTyped, NonRepeatableTyped DEF Marks
    <2>2. row' \in [Order -> RowType]
      BY <1>20, <2>1, SetRowTyped DEF AnswerRefused, TypeOK
    <2>3. worker' \in WorkerType
      BY <1>20, ThrowsTyped DEF AnswerRefused, TypeOK
    <2> QED
      BY <1>20, <2>2, <2>3, ThrowsTyped DEF TypeOK, AnswerRefused
  <1>21. CASE AnswerLost
    <2>1. [Current EXCEPT !.mark = "RECONCILE"] \in RowType
      BY CurrentTyped, RowTyped, NonRepeatableTyped DEF Marks
    <2>2. row' \in [Order -> RowType]
      BY <1>21, <2>1, SetRowTyped DEF AnswerLost, TypeOK
    <2>3. worker' \in WorkerType
      BY <1>21, WorkerTyped DEF AnswerLost, Throw, TypeOK
    <2> QED
      BY <1>21, <2>2, <2>3, AbandonedTyped DEF TypeOK, AnswerLost
  <1>22. CASE PersistFails
    <2>1. worker' \in WorkerType
      BY <1>22, WorkerTyped DEF PersistFails, Throw
    <2> QED
      BY <1>22, <2>1, FaultTyped, AbandonedTyped DEF TypeOK, PersistFails
  <1>23. CASE ApplyPlaced
    <2>1. \A s \in {"PLACED", "CONFIRMED"} : Settled(s, TRUE, TRUE) \in RowType
      BY CurrentTyped, RowTyped DEF Settled, Statuses, Placed
    <2>2. \E s \in {"PLACED", "CONFIRMED"} : SetRow(Settled(s, TRUE, TRUE))
      BY <1>23 DEF ApplyPlaced
    <2>3. row' \in [Order -> RowType]
      BY <2>1, <2>2, SetRowTyped
    <2>4. worker' \in WorkerType
      BY <1>23, GotoTyped DEF ApplyPlaced
    <2> QED
      BY <1>23, <2>3, <2>4 DEF TypeOK, ApplyPlaced
  <1>24. CASE HandleError
    <2>1. [Current EXCEPT !.status = IF NeedsReconcile(Current) THEN "UNKNOWN" ELSE "FAILED"] \in RowType
      BY CurrentTyped, RowTyped DEF Statuses
    <2>2. row' \in [Order -> RowType]
      BY <1>24, <2>1, SetRowTyped DEF HandleError, TypeOK
    <2>3. /\ [worker EXCEPT !.pc = "refresh", !.todo = {}] \in WorkerType
          /\ [worker EXCEPT !.pc = "next", !.end = "done"] \in WorkerType
      BY WorkerTyped
    <2>4. worker' \in WorkerType
      BY <1>24, <2>3 DEF HandleError
    <2> QED
      BY <1>24, <2>2, <2>4 DEF TypeOK, HandleError
  <1>25. CASE RefreshRead
    <2> DEFINE u == SummarizeSupplierApiStatus(row)
    <2>1. u \in Summaries
      BY SummaryTyped
    <2> HIDE DEF u
    <2>2. [worker EXCEPT !.pc = "summary", !.sum = u] \in WorkerType
      BY <2>1, WorkerTyped
    <2> QED
      BY <1>25, <2>2 DEF TypeOK, RefreshRead, u
  <1>26. CASE RefreshWrite
    BY <1>26, IdleTyped DEF TypeOK, RefreshWrite, WorkerType
  <1>27. CASE Crash
    BY <1>27, IdleTyped, AbandonedTyped, FaultTyped DEF TypeOK, Crash
  <1>28. CASE Accept
    BY <1>28 DEF TypeOK, Accept, Take, Placed, WorkerType
  <1>29. CASE Refuse
    BY <1>29 DEF TypeOK, Refuse
  <1>30. ASSUME NEW force \in BOOLEAN, CancelCheck(force) PROVE TypeOK'
    BY <1>30 DEF TypeOK, CancelCheck
  <1>31. ASSUME NEW o \in Order, LateAccept(o) PROVE TypeOK'
    BY <1>31 DEF TypeOK, LateAccept, Take, Placed
  <1>32. ASSUME NEW o \in Order, LateDrop(o) PROVE TypeOK'
    BY <1>32 DEF TypeOK, LateDrop
  <1>33. ASSUME NEW o \in Order, Proceed(o) PROVE TypeOK'
    BY <1>33 DEF TypeOK, Proceed, Placed
  <1>34. ASSUME NEW p \in Pollers, PollerStep(p) PROVE TypeOK'
    <2>1. poller[p] \in PollerType /\ poller[p].at \in Order
      BY DEF TypeOK, PollerType
    <2>2. ASSUME NEW o \in Order, PollRead(p, o) PROVE TypeOK'
      <3>1. row[o].status \in POLLABLE_SUPPLIER_ORDER_STATUSES
        BY <2>2 DEF PollRead
      <3>2. [poller[p] EXCEPT !.pc = "ask", !.at = o, !.seen = row[o].status] \in PollerType
        BY <2>1, <3>1 DEF PollerType
      <3> QED
        BY <2>2, <3>2 DEF TypeOK, PollRead
    <2>3. CASE PollAsk(p)
      <3>1. PICK got \in {"NONE", "CANCELLED"} \cup Placed :
                poller' = [poller EXCEPT ![p] = [poller[p] EXCEPT !.pc = "write", !.got = got]]
        BY <2>1, <2>3 DEF TypeOK, PollAsk, Placed
      <3>2. [poller[p] EXCEPT !.pc = "write", !.got = got] \in PollerType
        BY <2>1 DEF PollerType
      <3> QED
        BY <2>3, <3>1, <3>2 DEF TypeOK, PollAsk
    <2>4. CASE PollFails(p)
      <3>1. poller' \in [Pollers -> PollerType]
        BY <2>1, <2>4 DEF TypeOK, PollFails, PollerType
      <3>2. row' \in [Order -> RowType]
        BY <2>1, <2>4, RowTyped DEF TypeOK, PollFails
      <3> QED
        BY <2>4, <3>1, <3>2, FaultTyped DEF TypeOK, PollFails
    <2>5. CASE PollWrite(p)
      <3>1. poller' \in [Pollers -> PollerType]
        BY <2>1, <2>5 DEF TypeOK, PollWrite, PollerType
      <3>2. row' \in [Order -> RowType]
        BY <2>1, <2>5, PolledTyped DEF TypeOK, PollWrite, PollerType
      <3> QED
        BY <2>5, <3>1, <3>2 DEF TypeOK, PollWrite
    <2>6. CASE PollRefreshRead(p)
      <3> DEFINE u == SummarizeSupplierApiStatus(row)
      <3>1. u \in Summaries
        BY SummaryTyped
      <3> HIDE DEF u
      <3>2. [IdlePoller EXCEPT !.pc = "summary", !.sum = u] \in PollerType
        BY <3>1, IdleTyped DEF PollerType
      <3> QED
        BY <2>6, <3>2 DEF TypeOK, PollRefreshRead, u
    <2>7. CASE PollRefreshWrite(p)
      BY <2>1, <2>7, IdleTyped DEF TypeOK, PollRefreshWrite, PollerType
    <2> QED
      BY <1>34, <2>2, <2>3, <2>4, <2>5, <2>6, <2>7 DEF PollerStep
  <1>35. CASE UNCHANGED vars
    BY <1>35 DEF TypeOK, vars
  <1> QED
    BY <1>1, <1>2, <1>3, <1>4, <1>5, <1>6, <1>7, <1>8, <1>9, <1>10, <1>11, <1>12, <1>13, <1>14, <1>15, <1>16, <1>17, <1>18, <1>19, <1>20, <1>21, <1>22, <1>23, <1>24, <1>25, <1>26, <1>27, <1>28, <1>29, <1>30, <1>31, <1>32, <1>33, <1>34, <1>35
    DEF Next, UserStep, WorkerStep, SupplierStep
-----------------------------------------------------------------------------
(* The invariant. *)

LEMMA FlyingTyped == TypeOK => \A o \in Order : Flying(o) \in Nat
  BY DEF TypeOK, Flying

LEMMA InvariantInit == Init => SendInvariant
  <1> SUFFICES ASSUME Init PROVE SendInvariant
    OBVIOUS
  <1>1. TypeOK
    BY IdleTyped, SupplierOrderAssumption DEF Init, TypeOK, Summaries
  <1>2. \A o \in Order : Flying(o) = 0 /\ row[o] = NoRow /\ held[o] = 0 /\ stage[o] = "NONE"
    BY DEF Init, Flying
  <1>3. OrderedAtMostOnce /\ StagesTell
    BY <1>2 DEF OrderedAtMostOnce, StagesTell, Init
  <1>4. RowsTell
    BY <1>2, SupplierOrderAssumption DEF RowsTell, RowTells, NoRow, Sent, Placed
  <1>5. WorkerKnows
    BY DEF Init, WorkerKnows, IdleWorker, Working
  <1>6. PollersKnow
    BY DEF Init, PollersKnow, IdlePoller
  <1> QED
    BY <1>1, <1>3, <1>4, <1>5, <1>6 DEF SendInvariant

\* Steps that touch neither the rows nor the supplier nor the processes.
LEMMA Unmoved ==
    ASSUME SendInvariant, TypeOK', UNCHANGED <<row, worker, wire, late, held, stage, poller>>
    PROVE  SendInvariant'
  BY DEF SendInvariant, OrderedAtMostOnce, RowsTell, RowTells, StagesTell, WorkerKnows, Current,
         PollersKnow, Flying

\* Steps of the worker, outside a call, that leave the rows alone.
LEMMA WorkerWalks ==
    ASSUME SendInvariant, TypeOK', worker.pc # "answer", worker'.pc # "answer",
           UNCHANGED <<row, wire, late, held, stage, poller>>, WorkerKnows'
    PROVE  SendInvariant'
  <1>1. \A o \in Order : Flying(o)' = Flying(o)
    BY DEF Flying, SendInvariant, WorkerKnows
  <1> QED
    BY <1>1 DEF SendInvariant, OrderedAtMostOnce, RowsTell, RowTells, StagesTell, PollersKnow

\* Steps in which the worker writes its row, which no poller is about.
LEMMA WorkerWrites ==
    ASSUME SendInvariant, NEW r \in RowType, SetRow(r), RowTells(r, worker.at),
           Current.status \in {"QUEUED", "SENDING"}, UNCHANGED <<held, stage, poller>>,
           \A o \in Order : Flying(o)' = Flying(o)
    PROVE  /\ OrderedAtMostOnce' /\ RowsTell' /\ StagesTell' /\ PollersKnow'
           /\ row'[worker.at] = r
  <1>1. TypeOK /\ worker.at \in Order
    BY CurrentTyped DEF SendInvariant
  <1>2. row' = [row EXCEPT ![worker.at] = r] /\ row \in [Order -> RowType]
    BY <1>1 DEF SetRow, TypeOK
  <1>3. row'[worker.at] = r /\ \A o \in Order \ {worker.at} : row'[o] = row[o]
    BY <1>1, <1>2
  <1>4. OrderedAtMostOnce' /\ StagesTell'
    BY DEF SendInvariant, OrderedAtMostOnce, StagesTell
  <1>5. RowsTell'
    BY <1>3 DEF SendInvariant, RowsTell, RowTells
  <1>6. PollersKnow'
    <2> SUFFICES ASSUME NEW p \in Pollers, poller[p].pc \in {"ask", "write"}
                 PROVE  poller[p].at \in Order \ {worker.at}
      BY <1>3 DEF SendInvariant, PollersKnow
    <2>1. poller[p].at \in Order
      BY <1>1 DEF TypeOK, PollerType
    <2>2. row[poller[p].at].status \in Sent \cup {"CANCELLED"}
      BY DEF SendInvariant, PollersKnow
    <2> QED
      BY <2>1, <2>2 DEF Sent, Placed, Current
  <1> QED
    BY <1>3, <1>4, <1>5, <1>6

\* Steps that change the status of many rows: what is queued is cancelled,
\* what failed or is free is queued.
LEMMA ManyRows ==
    ASSUME SendInvariant, TypeOK',
           row' \in {CancelQueued, Requeued} \/ \E plan \in SUBSET Free : row' = Planned(plan),
           UNCHANGED <<wire, late, held, stage, poller>>,
           worker' = worker \/ (worker.pc = "plan" /\ worker'.pc \in {"refresh", "list"})
    PROVE  SendInvariant'
  <1>1. \A o \in Order : Flying(o)' = Flying(o)
    BY DEF Flying, SendInvariant, WorkerKnows
  <1>2. \A o \in Order :
           \/ row'[o] = row[o]
           \/ /\ row[o].status \in {"QUEUED", "FAILED", "NONE"}
              /\ row'[o].status \in {"CANCELLED", "QUEUED"}
              /\ row'[o] = [row[o] EXCEPT !.status = row'[o].status]
    <2>1. \A o \in Order : row[o].status = "NONE" => row[o] = NoRow
      BY DEF SendInvariant, RowsTell, RowTells
    <2>2. \A o \in Order : row[o] \in RowType
      BY DEF SendInvariant, TypeOK
    <2>3. CASE row' = CancelQueued
      BY <2>2, <2>3 DEF CancelQueued, RowType
    <2>4. CASE row' = Requeued
      BY <2>2, <2>4 DEF Requeued, RowType
    <2>5. ASSUME NEW plan \in SUBSET Free, row' = Planned(plan)
          PROVE  \A o \in Order :
                    \/ row'[o] = row[o]
                    \/ /\ row[o].status = "NONE" /\ row'[o].status = "QUEUED"
                       /\ row'[o] = [row[o] EXCEPT !.status = row'[o].status]
      BY <2>1, <2>2, <2>5 DEF Planned, Free, NoRow
    <2> QED
      BY <2>3, <2>4, <2>5
  <1>3. \A o \in Order : row[o] \in RowType
    BY DEF SendInvariant, TypeOK
  <1>4. \A o \in Order : row'[o] = row[o] \/
           /\ row[o].status \in {"QUEUED", "FAILED", "NONE"}
           /\ row'[o].status \in {"CANCELLED", "QUEUED"}
           /\ row'[o].mark = row[o].mark /\ row'[o].step = row[o].step /\ row'[o].ext = row[o].ext
    BY <1>2, <1>3 DEF RowType
  <1>5. RowsTell'
    <2> SUFFICES ASSUME NEW o \in Order PROVE RowTells(row[o], o)'
      BY DEF RowsTell
    <2>1. RowTells(row[o], o)
      BY DEF SendInvariant, RowsTell
    <2>2. CASE row'[o] = row[o]
      BY <1>1, <2>1, <2>2 DEF RowTells
    <2>3. CASE /\ row[o].status \in {"QUEUED", "FAILED", "NONE"}
               /\ row'[o].status \in {"CANCELLED", "QUEUED"}
               /\ row'[o].mark = row[o].mark /\ row'[o].step = row[o].step /\ row'[o].ext = row[o].ext
      BY <1>1, <2>1, <2>3 DEF RowTells, Sent, Placed
    <2> QED
      BY <1>4, <2>2, <2>3
  <1>6. PollersKnow'
    BY <1>4 DEF SendInvariant, PollersKnow, Sent, Placed, TypeOK, PollerType
  <1>7. WorkerKnows'
    <2>1. CASE worker' = worker
      <3>1. worker.at \in Order
        BY CurrentTyped DEF SendInvariant
      <3>2. worker.pc \in Working => row'[worker.at] = row[worker.at]
        BY <1>4, <3>1 DEF SendInvariant, WorkerKnows, Current
      <3> QED
        BY <2>1, <3>2 DEF SendInvariant, WorkerKnows, Current, Working
    <2>2. CASE worker.pc = "plan" /\ worker'.pc \in {"refresh", "list"}
      BY <2>2 DEF SendInvariant, WorkerKnows, Working
    <2> QED
      BY <2>1, <2>2
  <1> QED
    BY <1>1, <1>5, <1>6, <1>7 DEF SendInvariant, OrderedAtMostOnce, StagesTell

\* The worker's steps that write its row.
LEMMA WorkerStepKeeps ==
    ASSUME SendInvariant, TypeOK', WorkerStep
    PROVE  SendInvariant'
  <1> USE DEF SendInvariant
  <1>0. /\ worker.at \in Order /\ Current \in RowType /\ worker \in WorkerType
        /\ RowTells(Current, worker.at) /\ NonRepeatable \in 1..Steps
    BY CurrentTyped, SupplierOrderAssumption DEF RowsTell, Current, TypeOK
  <1>1. CASE PickUp
    <2>1. WorkerKnows'
      <3>1. worker'.pc = "plan" /\ wire' = wire
        BY <1>1 DEF PickUp, IdleWorker
      <3>2. wire # "none" <=> worker.pc = "answer"
        BY DEF WorkerKnows
      <3>3. worker.pc = "idle"
        BY <1>1 DEF PickUp
      <3> QED
        BY <3>1, <3>2, <3>3 DEF WorkerKnows, Working
    <2> QED
      BY <1>1, <2>1, WorkerWalks DEF PickUp, IdleWorker, WorkerType, TypeOK
  <1>2. CASE List
    <2>1. WorkerKnows'
      <3>1. worker'.pc = "next" /\ wire' = wire /\ worker.pc = "list"
        BY <1>2, <1>0 DEF List, WorkerType
      <3>2. wire # "none" <=> worker.pc = "answer"
        BY DEF WorkerKnows
      <3> QED
        BY <3>1, <3>2 DEF WorkerKnows, Working
    <2> QED
      BY <1>2, <2>1, WorkerWalks DEF List, WorkerType, TypeOK
  <1>3. CASE NextOrder
    <2>1. worker'.pc \in {"claim", "refresh"} /\ UNCHANGED <<row, wire, late, held, stage, poller>>
      BY <1>3, <1>0 DEF NextOrder, WorkerType
    <2>2. worker.pc # "answer" /\ (worker'.pc = "error" => worker'.at = worker.at /\ worker.pc = "reconcile")
      BY <1>3, <1>0 DEF NextOrder, WorkerType
    <2>3. WorkerKnows'
      BY <2>1, <2>2 DEF WorkerKnows, Current, Working
    <2> QED
      BY <2>1, <2>2, <2>3, WorkerWalks
  <1>4. CASE ReconcileFails
    <2>1. worker'.pc \in {"error"} /\ UNCHANGED <<row, wire, late, held, stage, poller>>
      BY <1>4, <1>0 DEF ReconcileFails, Throws, Throw, WorkerType
    <2>2. worker.pc # "answer" /\ (worker'.pc = "error" => worker'.at = worker.at /\ worker.pc = "reconcile")
      BY <1>4, <1>0 DEF ReconcileFails, Throws, Throw, WorkerType
    <2>3. WorkerKnows'
      BY <2>1, <2>2 DEF WorkerKnows, Current, Working
    <2> QED
      BY <2>1, <2>2, <2>3, WorkerWalks
  <1>5. CASE RefreshRead
    <2>1. WorkerKnows'
      BY <1>5 DEF RefreshRead, SendInvariant, WorkerKnows, Current, Working, WorkerType, TypeOK
    <2> QED
      BY <1>5, <2>1, WorkerWalks DEF RefreshRead, WorkerType, TypeOK
  <1>6. CASE RefreshWrite
    <2>1. WorkerKnows'
      BY <1>6 DEF RefreshWrite, SendInvariant, WorkerKnows, Current, Working, IdleWorker, WorkerType, TypeOK
    <2> QED
      BY <1>6, <2>1, WorkerWalks DEF RefreshWrite, IdleWorker, WorkerType, TypeOK
  <1>7. CASE Plan
    <2>1. CASE po.status = "CANCELLED" /\ row' = CancelQueued /\ Goto("refresh")
      BY <1>7, <2>1, ManyRows, <1>0 DEF Plan, Goto, WorkerType
    <2>2. CASE EnsurePlanned /\ Goto("list")
      <3>1. row' = Requeued \/ \E plan \in SUBSET Free : row' = Planned(plan)
        BY <2>2 DEF EnsurePlanned
      <3> QED
        BY <1>7, <2>2, <3>1, ManyRows, <1>0 DEF Plan, Goto, WorkerType
    <2>3. CASE worker' = IdleWorker /\ UNCHANGED row /\ worker.pc = "plan"
      <3>1. WorkerKnows'
        BY <1>7, <2>3 DEF Plan, WorkerKnows, IdleWorker, Working
      <3> QED
        BY <1>7, <2>3, <3>1, WorkerWalks DEF Plan, IdleWorker
    <2> QED
      BY <1>7, <2>1, <2>2, <2>3 DEF Plan
  <1>8. CASE Claim
    <2>1. CASE Current.status \notin {"QUEUED", "SENDING"}
      <3>1. WorkerKnows'
        BY <1>8, <2>1, <1>0 DEF Claim, Goto, WorkerKnows, Working, WorkerType
      <3> QED
        BY <1>8, <2>1, <3>1, <1>0, WorkerWalks DEF Claim, Goto, WorkerType
    <2>2. CASE Current.status \in {"QUEUED", "SENDING"}
      <3> DEFINE r == [Current EXCEPT !.status = "SENDING"]
      <3>1. r \in RowType /\ SetRow(r) /\ worker'.at = worker.at /\ worker'.pc = "connect"
        BY <1>8, <2>2, <1>0, RowTyped DEF Claim, Goto, WorkerType, Statuses
      <3>2. RowTells(r, worker.at)
        BY <2>2, <1>0 DEF RowTells, RowType, Sent, Placed, NoRow
      <3>3. \A o \in Order : Flying(o)' = Flying(o)
        BY <1>8, <3>1 DEF Claim, Flying
      <3>4. r.status = "SENDING"
        BY <1>0 DEF RowType
      <3> HIDE DEF r
      <3>5. OrderedAtMostOnce' /\ RowsTell' /\ StagesTell' /\ PollersKnow' /\ row'[worker.at] = r
        BY <1>8, <2>2, <3>1, <3>2, <3>3, WorkerWrites DEF Claim
      <3>6. WorkerKnows'
        BY <1>8, <3>1, <3>4, <3>5 DEF Claim, WorkerKnows, Current
      <3> QED
        BY <3>5, <3>6
    <2> QED
      BY <2>1, <2>2
  <1>9. CASE MarkPending
    <2> DEFINE r == [Current EXCEPT !.mark = "PENDING"]
    <2>1. /\ r \in RowType /\ SetRow(r) /\ worker'.at = worker.at
          /\ worker'.pc = "call" /\ Current.status = "SENDING"
      BY <1>9, <1>0, RowTyped, NonRepeatableTyped DEF MarkPending, Goto, Throw, Throws, WorkerType, Marks, WorkerKnows, Working
    <2>7. /\ Current.mark = "none" /\ Current.step + 1 = NonRepeatable /\ ~Current.ext
          /\ held[worker.at] = 0 /\ Flying(worker.at) = 0 /\ late[worker.at] = 0
      <3>1. Current.mark = "none" /\ Current.step + 1 = NonRepeatable
        BY <1>9 DEF MarkPending, WorkerKnows, NextStep
      <3>2. ~Current.ext
        BY <3>1, <1>0 DEF RowTells, RowType
      <3> QED
        BY <3>1, <3>2, <1>0 DEF RowTells, Flying, TypeOK
    <2>2. RowTells(r, worker.at)
      BY <1>9, <1>0, <2>1, <2>7 DEF MarkPending, WorkerKnows, RowTells, RowType, Sent, Placed, Flying, TypeOK, NextStep
    <2>3. \A o \in Order : Flying(o)' = Flying(o)
      BY <1>9, <1>0, <2>1 DEF MarkPending, WorkerKnows, Flying
    <2>4. r.status = "SENDING" /\ r.mark = "PENDING" /\ ~r.ext /\ r.step < NonRepeatable /\ held[worker.at] = 0 /\ late[worker.at] = 0 /\ wire = "none"
      BY <1>9, <1>0, <2>1, <2>7 DEF MarkPending, WorkerKnows, RowType
    <2> HIDE DEF r
    <2>5. OrderedAtMostOnce' /\ RowsTell' /\ StagesTell' /\ PollersKnow' /\ row'[worker.at] = r
      BY <1>9, <2>1, <2>2, <2>3, WorkerWrites DEF MarkPending
    <2>6. WorkerKnows'
      BY <1>9, <1>0, <2>1, <2>4, <2>5 DEF MarkPending, WorkerKnows, Current, Working
    <2> QED
      BY <2>5, <2>6
  <1>10. CASE AnswerOk
    <2> DEFINE r == [Current EXCEPT !.step = NonRepeatable, !.mark = "none", !.ext = TRUE]
    <2>1. /\ r \in RowType /\ SetRow(r) /\ worker'.at = worker.at
          /\ worker'.pc = "step" /\ Current.status = "SENDING"
      BY <1>10, <1>0, RowTyped, NonRepeatableTyped DEF AnswerOk, Goto, Throw, Throws, WorkerType, Marks, WorkerKnows, Working
    <2>2. RowTells(r, worker.at)
      BY <1>10, <1>0, <2>1 DEF AnswerOk, WorkerKnows, RowTells, RowType, Sent, Placed, Flying, TypeOK
    <2>3. \A o \in Order : Flying(o)' = Flying(o)
      BY <1>10, <1>0, <2>1 DEF AnswerOk, WorkerKnows, Flying
    <2>4. r.status = "SENDING" /\ r.mark = "none"
      BY <1>10, <1>0, <2>1 DEF AnswerOk, WorkerKnows, RowType
    <2> HIDE DEF r
    <2>5. OrderedAtMostOnce' /\ RowsTell' /\ StagesTell' /\ PollersKnow' /\ row'[worker.at] = r
      BY <1>10, <2>1, <2>2, <2>3, WorkerWrites DEF AnswerOk
    <2>6. WorkerKnows'
      BY <1>10, <1>0, <2>1, <2>4, <2>5 DEF AnswerOk, WorkerKnows, Current, Working
    <2> QED
      BY <2>5, <2>6
  <1>11. CASE AnswerRefused
    <2> DEFINE r == [Current EXCEPT !.mark = "none"]
    <2>1. /\ r \in RowType /\ SetRow(r) /\ worker'.at = worker.at
          /\ worker'.pc = "error" /\ Current.status = "SENDING"
      BY <1>11, <1>0, RowTyped, NonRepeatableTyped DEF AnswerRefused, Goto, Throw, Throws, WorkerType, Marks, WorkerKnows, Working
    <2>2. RowTells(r, worker.at)
      BY <1>11, <1>0, <2>1 DEF AnswerRefused, WorkerKnows, RowTells, RowType, Sent, Placed, Flying, TypeOK
    <2>3. \A o \in Order : Flying(o)' = Flying(o)
      BY <1>11, <1>0, <2>1 DEF AnswerRefused, WorkerKnows, Flying
    <2>4. r.status = "SENDING"
      BY <1>11, <1>0, <2>1 DEF AnswerRefused, WorkerKnows, RowType
    <2> HIDE DEF r
    <2>5. OrderedAtMostOnce' /\ RowsTell' /\ StagesTell' /\ PollersKnow' /\ row'[worker.at] = r
      BY <1>11, <2>1, <2>2, <2>3, WorkerWrites DEF AnswerRefused
    <2>6. WorkerKnows'
      BY <1>11, <1>0, <2>1, <2>4, <2>5 DEF AnswerRefused, WorkerKnows, Current, Working
    <2> QED
      BY <2>5, <2>6
  <1>12. CASE AnswerLost
    <2> DEFINE r == [Current EXCEPT !.mark = "RECONCILE"]
    <2>1. /\ r \in RowType /\ SetRow(r) /\ worker'.at = worker.at
          /\ worker'.pc = "error" /\ Current.status = "SENDING"
      BY <1>12, <1>0, RowTyped, NonRepeatableTyped DEF AnswerLost, Goto, Throw, Throws, WorkerType, Marks, WorkerKnows, Working
    <2>2. RowTells(r, worker.at)
      BY <1>12, <1>0, <2>1 DEF AnswerLost, WorkerKnows, RowTells, RowType, Sent, Placed, Flying, TypeOK
    <2>3. \A o \in Order : Flying(o)' = Flying(o)
      BY <1>12, <1>0, <2>1 DEF AnswerLost, WorkerKnows, Flying, Abandoned, TypeOK
    <2>4. r.status = "SENDING"
      BY <1>12, <1>0, <2>1 DEF AnswerLost, WorkerKnows, RowType
    <2> HIDE DEF r
    <2>5. OrderedAtMostOnce' /\ RowsTell' /\ StagesTell' /\ PollersKnow' /\ row'[worker.at] = r
      BY <1>12, <2>1, <2>2, <2>3, WorkerWrites DEF AnswerLost
    <2>6. WorkerKnows'
      BY <1>12, <1>0, <2>1, <2>4, <2>5 DEF AnswerLost, WorkerKnows, Current, Working
    <2> QED
      BY <2>5, <2>6
  <1>13. CASE Reconcile
    <2> DEFINE r == IF held[worker.at] > 0 THEN Settled("PLACED", TRUE, TRUE) ELSE Settled("UNKNOWN", Current.ext, Current.poll)
    <2>7. Settled("PLACED", TRUE, TRUE) \in RowType /\ Settled("UNKNOWN", Current.ext, Current.poll) \in RowType
      <3>1. Current.ext \in BOOLEAN /\ Current.poll \in BOOLEAN
        BY <1>0 DEF RowType
      <3> QED
        BY <1>0, <3>1, RowTyped DEF Settled, Statuses, Placed
    <2>1. /\ r \in RowType /\ SetRow(r) /\ worker'.at = worker.at
          /\ worker'.pc = "next" /\ Current.status = "SENDING"
      BY <1>13, <2>7, <1>0 DEF Reconcile, Goto, WorkerType, WorkerKnows, Working
    <2>2. RowTells(r, worker.at)
      BY <1>13, <1>0, <2>1 DEF Reconcile, WorkerKnows, RowTells, RowType, Sent, Placed, Flying, TypeOK, Settled
    <2>3. \A o \in Order : Flying(o)' = Flying(o)
      BY <1>13, <1>0, <2>1 DEF Reconcile, WorkerKnows, Flying
    <2>4. TRUE
      BY <1>13, <1>0, <2>1 DEF Reconcile, WorkerKnows, RowType, Settled
    <2> HIDE DEF r
    <2>5. OrderedAtMostOnce' /\ RowsTell' /\ StagesTell' /\ PollersKnow' /\ row'[worker.at] = r
      BY <1>13, <2>1, <2>2, <2>3, WorkerWrites DEF Reconcile
    <2>6. WorkerKnows'
      BY <1>13, <1>0, <2>1, <2>4, <2>5 DEF Reconcile, WorkerKnows, Current, Working
    <2> QED
      BY <2>5, <2>6
  <1>14. CASE HandleError /\ row' # row
    <2> DEFINE r == [Current EXCEPT !.status = IF NeedsReconcile(Current) THEN "UNKNOWN" ELSE "FAILED"]
    <2>1. /\ r \in RowType /\ SetRow(r) /\ worker'.at = worker.at
          /\ worker'.pc = "next" /\ Current.status = "SENDING"
      BY <1>14, <1>0, RowTyped, NonRepeatableTyped DEF HandleError, Goto, Throw, Throws, WorkerType, Statuses, WorkerKnows, Working
    <2>2. RowTells(r, worker.at)
      BY <1>14, <1>0, <2>1 DEF HandleError, WorkerKnows, RowTells, RowType, Sent, Placed, Flying, TypeOK, NeedsReconcile
    <2>3. \A o \in Order : Flying(o)' = Flying(o)
      BY <1>14, <1>0, <2>1 DEF HandleError, WorkerKnows, Flying
    <2>4. TRUE
      BY <1>14, <1>0, <2>1 DEF HandleError, WorkerKnows, RowType, NeedsReconcile
    <2> HIDE DEF r
    <2>5. OrderedAtMostOnce' /\ RowsTell' /\ StagesTell' /\ PollersKnow' /\ row'[worker.at] = r
      BY <1>14, <2>1, <2>2, <2>3, WorkerWrites DEF HandleError
    <2>6. WorkerKnows'
      BY <1>14, <1>0, <2>1, <2>4, <2>5 DEF HandleError, WorkerKnows, Current, Working
    <2> QED
      BY <2>5, <2>6
  <1>15. CASE HandleError /\ UNCHANGED row
    <2>1. worker'.pc \in {"refresh", "next"} /\ worker.pc = "error"
      BY <1>15, <1>0 DEF HandleError, WorkerType
    <2>2. WorkerKnows'
      BY <1>15, <2>1 DEF HandleError, WorkerKnows, Working
    <2> QED
      BY <1>15, <2>1, <2>2, WorkerWalks DEF HandleError
  <1>16. CASE ApplyPlaced
    <2>1. PICK s \in {"PLACED", "CONFIRMED"} : SetRow(Settled(s, TRUE, TRUE))
      BY <1>16 DEF ApplyPlaced
    <2> DEFINE r == Settled(s, TRUE, TRUE)
    <2>2. /\ r \in RowType /\ worker'.at = worker.at
          /\ worker'.pc = "next" /\ Current.status = "SENDING" /\ Current.mark = "none"
      BY <1>16, <1>0, RowTyped DEF ApplyPlaced, Goto, WorkerType, Statuses, Settled, Placed,
         WorkerKnows, Working
    <2>3. Current.ext
      <3>1. Current.step + 1 > Steps
        BY <1>16, <2>2 DEF ApplyPlaced, NextStep
      <3>2. Current.step \in Int /\ Steps \in Int /\ NonRepeatable <= Steps /\ NonRepeatable \in Int
        BY <1>0, SupplierOrderAssumption DEF RowType
      <3>3. Current.step >= NonRepeatable
        BY <3>1, <3>2
      <3> QED
        BY <3>3, <2>2, <1>0 DEF RowTells
    <2>4. RowTells(r, worker.at)
      BY <1>0, <2>3 DEF Settled, RowTells, RowType, Sent, Placed
    <2>5. \A o \in Order : Flying(o)' = Flying(o)
      BY <1>16, <2>2 DEF ApplyPlaced, Flying
    <2> HIDE DEF r
    <2>6. OrderedAtMostOnce' /\ RowsTell' /\ StagesTell' /\ PollersKnow'
      BY <1>16, <2>1, <2>2, <2>4, <2>5, WorkerWrites DEF ApplyPlaced, r
    <2>7. WorkerKnows'
      BY <1>16, <2>2 DEF ApplyPlaced, WorkerKnows, Working
    <2> QED
      BY <2>6, <2>7
  <1>17. CASE RepeatableStep
    <2>1. CASE Throws /\ UNCHANGED row
      <3>1. worker' = [worker EXCEPT !.pc = "error", !.end = worker'.end]
        BY <2>1, <1>0 DEF Throws, Throw, WorkerType
      <3>2. WorkerKnows' /\ worker'.pc = "error" /\ worker.pc = "step"
        BY <1>17, <2>1, <3>1, <1>0 DEF RepeatableStep, WorkerKnows, Current, Working, WorkerType
      <3> QED
        BY <1>17, <2>1, <3>2, WorkerWalks DEF RepeatableStep
    <2>2. CASE SetRow([Current EXCEPT !.step = NextStep, !.mark = "none"]) /\ UNCHANGED <<worker, faults>>
      <3> DEFINE r == [Current EXCEPT !.step = NextStep, !.mark = "none"]
      <3>1. /\ Current.mark = "none" /\ Current.status = "SENDING" /\ NextStep = Current.step + 1
            /\ worker.pc = "step" /\ NextStep \in 0..Steps /\ NextStep # NonRepeatable
        BY <1>17 DEF RepeatableStep, WorkerKnows, Working, NextStep
      <3>2. r \in RowType
        BY <3>1, <1>0, RowTyped
      <3>3. RowTells(r, worker.at)
        BY <3>1, <1>0 DEF RowTells, RowType, Sent, Placed
      <3>4. r.status = "SENDING" /\ r.mark = "none"
        BY <3>1, <1>0 DEF RowType
      <3>5. \A o \in Order : Flying(o)' = Flying(o)
        BY <1>17, <2>2 DEF RepeatableStep, Flying
      <3> HIDE DEF r
      <3>6. OrderedAtMostOnce' /\ RowsTell' /\ StagesTell' /\ PollersKnow' /\ row'[worker.at] = r
        BY <1>17, <2>2, <3>1, <3>2, <3>3, <3>5, WorkerWrites DEF RepeatableStep, r
      <3>7. WorkerKnows'
        BY <1>17, <2>2, <3>1, <3>4, <3>6 DEF RepeatableStep, WorkerKnows, Current, Working
      <3> QED
        BY <3>6, <3>7
    <2> QED
      BY <1>17, <2>1, <2>2 DEF RepeatableStep
  <1>18. CASE Connect
    <2>1. CASE enabled
      <3>1. /\ worker' = [worker EXCEPT !.pc = IF NeedsReconcile(Current) THEN "reconcile" ELSE "step"]
            /\ UNCHANGED row /\ worker.pc = "connect" /\ Current.status = "SENDING"
        BY <1>18, <2>1 DEF Connect, Goto, WorkerKnows, Working
      <3>2. ~NeedsReconcile(Current) => Current.mark = "none"
        BY <3>1, <1>0 DEF NeedsReconcile, RowTells, RowType, Sent, Placed
      <3>3. WorkerKnows' /\ worker'.pc # "answer"
        BY <1>18, <3>1, <3>2, <1>0 DEF Connect, WorkerKnows, Current, Working, WorkerType
      <3> QED
        BY <1>18, <3>1, <3>3, WorkerWalks DEF Connect
    <2>2. CASE ~enabled
      <3> DEFINE r == [Current EXCEPT !.status = "FAILED"]
      <3>1. /\ r \in RowType /\ SetRow(r) /\ worker'.at = worker.at
            /\ worker'.pc = "next" /\ Current.status = "SENDING"
        BY <1>18, <2>2, <1>0, RowTyped DEF Connect, Goto, WorkerType, Statuses, WorkerKnows, Working
      <3>2. RowTells(r, worker.at)
        BY <3>1, <1>0 DEF RowTells, RowType, Sent, Placed
      <3>3. \A o \in Order : Flying(o)' = Flying(o)
        BY <1>18, <3>1 DEF Connect, Flying
      <3> HIDE DEF r
      <3>4. OrderedAtMostOnce' /\ RowsTell' /\ StagesTell' /\ PollersKnow'
        BY <1>18, <3>1, <3>2, <3>3, WorkerWrites DEF Connect
      <3>5. WorkerKnows'
        BY <1>18, <3>1 DEF Connect, WorkerKnows, Working
      <3> QED
        BY <3>4, <3>5
    <2> QED
      BY <2>1, <2>2
  <1>19. CASE Call
    <2>1. wire' = "flying" /\ worker' = [worker EXCEPT !.pc = "answer"] /\ worker.pc = "call"
      BY <1>19 DEF Call, Goto
    <2>2. late[worker.at] = 0 /\ held[worker.at] = 0 /\ Current.mark = "PENDING" /\ wire = "none"
      BY <2>1 DEF WorkerKnows
    <2>3. /\ \A o \in Order : o = worker.at => Flying(o)' = 1
          /\ \A o \in Order \ {worker.at} : Flying(o)' = Flying(o)
      BY <1>19, <2>1, <2>2, <1>0 DEF Call, Flying, WorkerType
    <2>4. OrderedAtMostOnce'
      <3> SUFFICES ASSUME NEW o \in Order PROVE held[o] + Flying(o)' <= 1
        BY <1>19 DEF Call, OrderedAtMostOnce
      <3>1. CASE o = worker.at
        BY <2>2, <2>3, <3>1
      <3>2. CASE o # worker.at
        BY <2>3, <3>2 DEF OrderedAtMostOnce
      <3> QED
        BY <3>1, <3>2
    <2>5. RowsTell'
      BY <1>19, <2>2, <2>3 DEF Call, RowsTell, RowTells, Current
    <2>6. WorkerKnows'
      BY <1>19, <2>1, <2>2, <1>0 DEF Call, WorkerKnows, Current, Working, WorkerType
    <2> QED
      BY <1>19, <2>4, <2>5, <2>6 DEF Call, StagesTell, PollersKnow
  <1>20. CASE PersistFails
    <2>1. worker' = [worker EXCEPT !.pc = "error", !.end = "retry"] /\ worker.pc = "answer"
      BY <1>20 DEF PersistFails, Throw
    <2>2. \A o \in Order : Flying(o)' = Flying(o)
      BY <1>20, <2>1, <1>0 DEF PersistFails, WorkerKnows, Flying, Abandoned, TypeOK, WorkerType
    <2>3. WorkerKnows'
      BY <1>20, <2>1, <1>0 DEF PersistFails, WorkerKnows, Current, Working, WorkerType
    <2> QED
      BY <1>20, <2>2, <2>3 DEF PersistFails, OrderedAtMostOnce, RowsTell, RowTells, StagesTell, PollersKnow
  <1> QED
    BY <1>1, <1>2, <1>3, <1>4, <1>5, <1>6, <1>7, <1>8, <1>9, <1>10, <1>11, <1>12, <1>13, <1>14, <1>15, <1>16, <1>17, <1>18, <1>19, <1>20 DEF WorkerStep

LEMMA CrashKeeps ==
    ASSUME SendInvariant, TypeOK', Crash
    PROVE  SendInvariant'
  <1> USE DEF SendInvariant
  <1>1. worker' = IdleWorker /\ wire' = "none" /\ UNCHANGED <<row, held, stage, poller>>
    BY DEF Crash
  <1>2. \A o \in Order : Flying(o)' = Flying(o)
    BY CurrentTyped DEF Crash, WorkerKnows, Flying, Abandoned, TypeOK
  <1>3. WorkerKnows'
    BY <1>1 DEF WorkerKnows, IdleWorker, Working
  <1> QED
    BY <1>1, <1>2, <1>3 DEF OrderedAtMostOnce, RowsTell, RowTells, StagesTell, PollersKnow

\* A request that is accepted was the only one under way.
LEMMA Taken ==
    ASSUME SendInvariant, NEW o \in Order,
           (Accept /\ o = worker.at) \/ LateAccept(o)
    PROVE  Flying(o) = 1 /\ held[o] = 0 /\ Flying(o)' = 0
  <1> USE DEF SendInvariant
  <1>1. CASE Accept /\ o = worker.at
    BY <1>1 DEF Accept, Flying, WorkerKnows, TypeOK
  <1>2. CASE LateAccept(o)
    <2>1. late[o] >= 1 /\ late[o] \in Nat /\ held[o] \in Nat
      BY <1>2 DEF LateAccept, TypeOK
    <2>2. late[o] = 1 /\ held[o] = 0 /\ ~(wire = "flying" /\ worker.at = o)
      BY <2>1 DEF OrderedAtMostOnce, Flying
    <2> QED
      BY <1>2, <2>1, <2>2 DEF LateAccept, Flying, TypeOK
  <1> QED
    BY <1>1, <1>2

LEMMA Dropped ==
    ASSUME SendInvariant, NEW o \in Order, LateDrop(o)
    PROVE  Flying(o) = 1 /\ Flying(o)' = 0
  <1>1. late[o] >= 1 /\ late[o] \in Nat /\ held[o] \in Nat
    BY DEF LateDrop, SendInvariant, TypeOK
  <1>2. late[o] = 1 /\ ~(wire = "flying" /\ worker.at = o)
    BY <1>1 DEF SendInvariant, OrderedAtMostOnce, Flying
  <1> QED
    BY <1>1, <1>2 DEF LateDrop, Flying, SendInvariant, TypeOK

\* A request accepted, in time or late.
LEMMA AcceptKeeps ==
    ASSUME SendInvariant, TypeOK', NEW o \in Order,
           (Accept /\ o = worker.at) \/ LateAccept(o)
    PROVE  SendInvariant'
  <1> USE DEF SendInvariant
  <1>1. Flying(o) = 1 /\ held[o] = 0 /\ Flying(o)' = 0
    BY Taken
  <1>2. /\ held' = [held EXCEPT ![o] = 1] /\ UNCHANGED <<row, worker, poller>>
        /\ stage' = [stage EXCEPT ![o] = IF stage[o] = "NONE" THEN "PLACED" ELSE stage[o]]
        /\ \A v \in Order \ {o} : Flying(v)' = Flying(v)
    <2>1. CASE Accept /\ o = worker.at
      <3>1. /\ held' = [held EXCEPT ![o] = held[o] + 1] /\ UNCHANGED <<row, worker, poller, late>>
            /\ wire' # "flying"
            /\ stage' = [stage EXCEPT ![o] = IF stage[o] = "NONE" THEN "PLACED" ELSE stage[o]]
        BY <2>1 DEF Accept, Take
      <3>2. \A v \in Order \ {o} : Flying(v)' = Flying(v)
        BY <2>1, <3>1 DEF Flying
      <3> QED
        BY <1>1, <3>1, <3>2
    <2>2. CASE LateAccept(o)
      <3>1. /\ held' = [held EXCEPT ![o] = held[o] + 1] /\ UNCHANGED <<row, worker, poller, wire>>
            /\ stage' = [stage EXCEPT ![o] = IF stage[o] = "NONE" THEN "PLACED" ELSE stage[o]]
            /\ \A v \in Order \ {o} : late'[v] = late[v]
        BY <2>2 DEF LateAccept, Take, TypeOK
      <3>2. \A v \in Order \ {o} : Flying(v)' = Flying(v)
        BY <3>1 DEF Flying
      <3> QED
        BY <1>1, <3>1, <3>2
    <2> QED
      BY <2>1, <2>2
  <1>3. held'[o] = 1 /\ \A v \in Order \ {o} : held'[v] = held[v] /\ stage'[v] = stage[v]
    BY <1>2 DEF TypeOK
  <1>4. stage[o] = "NONE" /\ stage'[o] = "PLACED"
    BY <1>1, <1>2 DEF StagesTell, TypeOK
  <1>5. OrderedAtMostOnce'
    <2> SUFFICES ASSUME NEW v \in Order PROVE held'[v] + Flying(v)' <= 1
      BY DEF OrderedAtMostOnce
    <2>1. CASE v = o
      BY <1>1, <1>3, <2>1
    <2>2. CASE v # o
      BY <1>2, <1>3, <2>2 DEF OrderedAtMostOnce
    <2> QED
      BY <2>1, <2>2
  <1>6. RowsTell' /\ StagesTell' /\ PollersKnow'
    <2>1. RowsTell'
      <3> SUFFICES ASSUME NEW v \in Order PROVE RowTells(row[v], v)'
        BY DEF RowsTell
      <3>1. CASE v = o
        BY <1>1, <1>2, <1>3, <1>4, <3>1 DEF RowsTell, RowTells
      <3>2. CASE v # o
        BY <1>2, <1>3, <3>2 DEF RowsTell, RowTells
      <3> QED
        BY <3>1, <3>2
    <2>2. StagesTell'
      BY <1>3 DEF StagesTell
    <2>3. PollersKnow'
      <3>1. \A v \in Order : /\ held[v] > 0 => held'[v] > 0
                             /\ stage[v] = "SHIPPED" => stage'[v] = "SHIPPED"
        BY <1>3, <1>4
      <3>2. \A p \in Pollers : poller[p].at \in Order
        BY DEF TypeOK, PollerType
      <3> QED
        BY <1>2, <3>1, <3>2 DEF PollersKnow
    <2> QED
      BY <2>1, <2>2, <2>3
  <1>7. WorkerKnows'
    <2>1. CASE Accept /\ o = worker.at
      BY <1>1, <1>2, <1>3, <2>1 DEF Accept, WorkerKnows, Current
    <2>2. CASE LateAccept(o)
      <3>1. late'[worker.at] = late[worker.at] \/ o = worker.at
        BY <2>2, CurrentTyped DEF LateAccept, TypeOK
      <3>2. worker.pc \in {"call", "answer"} => o # worker.at
        BY <2>2, CurrentTyped DEF LateAccept, WorkerKnows
      <3> QED
        BY <1>2, <1>3, <2>2, <3>1, <3>2, CurrentTyped DEF LateAccept, WorkerKnows, Current
    <2> QED
      BY <2>1, <2>2
  <1> QED
    BY <1>5, <1>6, <1>7

\* A request that comes to nothing, and what the supplier does with an order.
LEMMA SupplierKeeps ==
    ASSUME SendInvariant, TypeOK', SupplierStep
    PROVE  SendInvariant'
  <1> USE DEF SendInvariant
  <1>0. worker.at \in Order
    BY CurrentTyped
  <1>1. CASE Accept
    BY <1>0, <1>1, AcceptKeeps
  <1>2. CASE Refuse
    <2>1. \A v \in Order : Flying(v)' <= Flying(v) /\ Flying(v)' \in Nat /\ Flying(v) \in Nat
      BY <1>2 DEF Refuse, Flying, TypeOK
    <2>2. OrderedAtMostOnce'
      BY <1>2, <2>1 DEF Refuse, OrderedAtMostOnce, TypeOK
    <2>3. RowsTell'
      BY <1>2, <2>1 DEF Refuse, RowsTell, RowTells
    <2> QED
      BY <1>2, <2>2, <2>3 DEF Refuse, StagesTell, WorkerKnows, Current, PollersKnow
  <1>3. ASSUME NEW o \in Order, LateAccept(o) PROVE SendInvariant'
    BY <1>3, AcceptKeeps
  <1>4. ASSUME NEW o \in Order, LateDrop(o) PROVE SendInvariant'
    <2>1. \A v \in Order : /\ late'[v] <= late[v] /\ late'[v] \in Nat /\ late[v] \in Nat
                           /\ Flying(v)' <= Flying(v) /\ Flying(v)' \in Nat /\ Flying(v) \in Nat
      BY <1>4 DEF LateDrop, Flying, TypeOK
    <2>2. OrderedAtMostOnce'
      BY <1>4, <2>1 DEF LateDrop, OrderedAtMostOnce, TypeOK
    <2>3. RowsTell'
      BY <1>4, <2>1 DEF LateDrop, RowsTell, RowTells
    <2>4. WorkerKnows'
      BY <1>0, <1>4, <2>1 DEF LateDrop, WorkerKnows, Current
    <2> QED
      BY <1>4, <2>2, <2>3, <2>4 DEF LateDrop, StagesTell, PollersKnow
  <1>5. ASSUME NEW o \in Order, Proceed(o) PROVE SendInvariant'
    <2>1. UNCHANGED <<row, worker, wire, late, held, poller>> /\ stage[o] \in {"PLACED", "CONFIRMED"}
      BY <1>5 DEF Proceed
    <2>2. \A v \in Order : /\ stage[v] = "SHIPPED" => stage'[v] = "SHIPPED"
                           /\ stage'[v] # "NONE" => stage[v] # "NONE"
      BY <1>5, <2>1 DEF Proceed, TypeOK
    <2>3. \A p \in Pollers : poller[p].at \in Order
      BY DEF TypeOK, PollerType
    <2>4. \A v \in Order : Flying(v)' = Flying(v)
      BY <2>1 DEF Flying
    <2>5. RowsTell'
      <3> SUFFICES ASSUME NEW v \in Order PROVE RowTells(row[v], v)'
        BY DEF RowsTell
      <3>1. RowTells(row[v], v)
        BY DEF RowsTell
      <3>2. row' = row /\ held' = held /\ Flying(v)' = Flying(v)
        BY <2>1, <2>4
      <3>3. stage[v] = "SHIPPED" => stage'[v] = "SHIPPED"
        BY <2>2
      <3> QED
        BY <3>1, <3>2, <3>3 DEF RowTells
    <2>6. PollersKnow'
      <3> SUFFICES ASSUME NEW p \in Pollers, poller[p].pc \in {"ask", "write"}
                   PROVE  stage[poller[p].at] = "SHIPPED" => stage'[poller[p].at] = "SHIPPED"
        BY <2>1 DEF PollersKnow
      <3> QED
        BY <2>2, <2>3
    <2>7. StagesTell' /\ OrderedAtMostOnce'
      BY <2>1, <2>2, <2>4 DEF OrderedAtMostOnce, StagesTell
    <2>8. WorkerKnows'
      BY <2>1 DEF WorkerKnows, Current
    <2> QED
      BY <2>5, <2>6, <2>7, <2>8
  <1> QED
    BY <1>1, <1>2, <1>3, <1>4, <1>5 DEF SupplierStep

LEMMA PollerKeeps ==
    ASSUME SendInvariant, TypeOK', NEW p \in Pollers, PollerStep(p)
    PROVE  SendInvariant'
  <1> USE DEF SendInvariant
  <1> DEFINE q == poller[p]
  <1>0. /\ q \in PollerType /\ q.at \in Order /\ row[q.at] \in RowType
        /\ \A v \in Pollers : poller[v].at \in Order
        /\ worker.at \in Order
    BY CurrentTyped DEF TypeOK, PollerType
  <1>1. ASSUME NEW o \in Order, PollRead(p, o) PROVE SendInvariant'
    <2>1. /\ poller'[p].pc = "ask" /\ poller'[p].at = o /\ poller'[p].seen = row[o].status
          /\ row[o].status \in {"PLACED", "CONFIRMED", "UNKNOWN"}
          /\ \A v \in Pollers \ {p} : poller'[v] = poller[v]
      BY <1>0, <1>1 DEF PollRead, TypeOK, PollerType, POLLABLE_SUPPLIER_ORDER_STATUSES
    <2>2. /\ row[o].mark # "none"
          /\ row[o].status # "UNKNOWN" => held[o] > 0
      BY <2>1 DEF RowsTell, RowTells, Sent, Placed
    <2>3. UNCHANGED <<row, worker, wire, late, held, stage>>
      BY <1>1 DEF PollRead
    <2>4. PollersKnow'
      <3> SUFFICES ASSUME NEW v \in Pollers, poller'[v].pc \in {"ask", "write"}
                   PROVE  /\ row[poller'[v].at].status \in Sent \cup {"CANCELLED"} /\ row[poller'[v].at].mark # "none"
                          /\ poller'[v].seen \in {"PLACED", "CONFIRMED", "UNKNOWN"}
                          /\ poller'[v].seen # "UNKNOWN" => held[poller'[v].at] > 0
                          /\ poller'[v].pc = "write" => /\ poller'[v].got # "NONE" => held[poller'[v].at] > 0
                                                        /\ poller'[v].got = "SHIPPED" => stage[poller'[v].at] = "SHIPPED"
        BY <2>3 DEF PollersKnow
      <3>1. CASE v = p
        BY <2>1, <2>2, <3>1 DEF Sent, Placed
      <3>2. CASE v # p
        <4>1. poller'[v] = poller[v]
          BY <2>1, <3>2
        <4> QED
          BY <4>1 DEF PollersKnow
      <3> QED
        BY <3>1, <3>2
    <2> QED
      BY <2>3, <2>4 DEF OrderedAtMostOnce, RowsTell, RowTells, StagesTell, WorkerKnows, Current, Flying
  <1>2. CASE PollAsk(p)
    <2>1. PICK got \in IF q.seen = "UNKNOWN"
                     THEN {IF held[q.at] > 0 THEN "PLACED" ELSE "NONE"} ELSE {stage[q.at], "NONE"} :
              poller' = [poller EXCEPT ![p] = [q EXCEPT !.pc = "write", !.got = got]]
      BY <1>2 DEF PollAsk
    <2>2. /\ poller'[p].at = q.at /\ poller'[p].seen = q.seen /\ poller'[p].got = got
          /\ \A v \in Pollers \ {p} : poller'[v] = poller[v]
      BY <1>0, <2>1 DEF TypeOK, PollerType
    <2>3. /\ got # "NONE" => held[q.at] > 0
          /\ got = "SHIPPED" => stage[q.at] = "SHIPPED"
      BY <1>0, <2>1 DEF StagesTell
    <2>4. UNCHANGED <<row, worker, wire, late, held, stage>> /\ q.pc = "ask"
      BY <1>2 DEF PollAsk
    <2>5. PollersKnow'
      BY <2>2, <2>3, <2>4 DEF PollersKnow
    <2> QED
      BY <2>4, <2>5 DEF OrderedAtMostOnce, RowsTell, RowTells, StagesTell, WorkerKnows, Current, Flying
  <1>3. ASSUME NEW r \in RowType, row' = [row EXCEPT ![q.at] = r], q.pc \in {"ask", "write"},
               RowTells(r, q.at), r.status \in Sent \cup {"CANCELLED"}, r.mark = row[q.at].mark,
               poller' = [poller EXCEPT ![p].pc = "refresh"],
               UNCHANGED <<worker, wire, late, held, stage>>
        PROVE  SendInvariant'
    <2>1. \A v \in Order : Flying(v)' = Flying(v)
      BY <1>3 DEF Flying
    <2>2. row'[q.at] = r /\ \A v \in Order \ {q.at} : row'[v] = row[v]
      BY <1>0, <1>3 DEF TypeOK
    <2>3. RowsTell'
      BY <1>3, <2>1, <2>2 DEF RowsTell, RowTells
    <2>4. poller'[p].pc = "refresh" /\ \A v \in Pollers \ {p} : poller'[v] = poller[v]
      BY <1>0, <1>3 DEF TypeOK, PollerType
    <2>5. row[q.at].mark # "none" /\ row[q.at].status \in Sent \cup {"CANCELLED"}
      BY <1>3 DEF PollersKnow
    <2>6. PollersKnow'
      BY <1>0, <1>3, <2>2, <2>4, <2>5 DEF PollersKnow
    <2>7. WorkerKnows'
      <3>1. worker.pc \in Working => worker.at # q.at
        BY <2>5 DEF WorkerKnows, Current, Sent, Placed
      <3> QED
        BY <1>0, <1>3, <2>2, <3>1 DEF WorkerKnows, Current, Working
    <2> QED
      BY <1>3, <2>1, <2>3, <2>6, <2>7 DEF OrderedAtMostOnce, StagesTell
  <1>4. CASE PollFails(p)
    <2> DEFINE r == IF p = "due" THEN [row[q.at] EXCEPT !.poll = TRUE] ELSE row[q.at]
    <2>1. r \in RowType /\ r.mark = row[q.at].mark /\ r.status = row[q.at].status
      BY <1>0 DEF RowType
    <2>2. row' = [row EXCEPT ![q.at] = r]
      BY <1>0, <1>4 DEF PollFails, TypeOK
    <2>3. RowTells(row[q.at], q.at) /\ row[q.at].status \in Sent \cup {"CANCELLED"}
      BY <1>0, <1>4 DEF RowsTell, PollersKnow, PollFails
    <2>4. RowTells(r, q.at)
      BY <1>0, <2>3 DEF RowTells, RowType, Sent, Placed
    <2>5. poller' = [poller EXCEPT ![p].pc = "refresh"]
      BY <1>4 DEF PollFails
    <2> QED
      BY <1>3, <1>4, <2>1, <2>2, <2>3, <2>4, <2>5 DEF PollFails
  <1>5. CASE PollWrite(p)
    <2> DEFINE r == Polled(row[q.at], q.seen, q.got)
    <2>1. /\ q.seen \in {"PLACED", "CONFIRMED", "UNKNOWN"} /\ q.pc = "write"
          /\ q.got \in {"NONE", "CANCELLED"} \cup Placed
          /\ q.seen # "UNKNOWN" => held[q.at] > 0
          /\ q.got # "NONE" => held[q.at] > 0
          /\ q.got = "SHIPPED" => stage[q.at] = "SHIPPED"
          /\ row[q.at].mark # "none" /\ row[q.at].status \in Sent \cup {"CANCELLED"}
          /\ RowTells(row[q.at], q.at)
      BY <1>0, <1>5 DEF PollWrite, PollersKnow, PollerType, RowsTell
    <2>2. r \in RowType
      BY <1>0, PolledTyped DEF PollerType
    <2>3. /\ r.mark = row[q.at].mark /\ r.status \in Sent \cup {"CANCELLED"}
          /\ r.ext => held[q.at] > 0
          /\ r.status \in Placed => held[q.at] > 0
          /\ r.status = "SHIPPED" => stage[q.at] = "SHIPPED"
      BY <1>0, <2>1 DEF Polled, RowType, RowTells, Sent, Placed
    <2>4. RowTells(r, q.at)
      <3> HIDE DEF r
      <3> QED
        BY <2>1, <2>3 DEF RowTells, Sent, Placed
    <2>5. row' = [row EXCEPT ![q.at] = r] /\ poller' = [poller EXCEPT ![p].pc = "refresh"]
      BY <1>5 DEF PollWrite
    <2> HIDE DEF r
    <2> QED
      BY <1>3, <1>5, <2>1, <2>2, <2>3, <2>4, <2>5 DEF PollWrite
  <1>6. CASE PollRefreshRead(p) \/ PollRefreshWrite(p)
    <2>1. /\ poller'[p].pc \in {"summary", "idle"} /\ UNCHANGED <<row, worker, wire, late, held, stage>>
          /\ \A v \in Pollers \ {p} : poller'[v] = poller[v]
      <3>1. poller \in [Pollers -> PollerType]
        BY DEF TypeOK
      <3>2. CASE PollRefreshRead(p)
        <4> DEFINE s == [IdlePoller EXCEPT !.pc = "summary", !.sum = SummarizeSupplierApiStatus(row)]
        <4>1. s.pc = "summary"
          BY DEF IdlePoller
        <4>2. poller' = [poller EXCEPT ![p] = s]
          BY <3>2 DEF PollRefreshRead
        <4> HIDE DEF s
        <4> QED
          BY <3>1, <3>2, <4>1, <4>2 DEF PollRefreshRead
      <3>3. CASE PollRefreshWrite(p)
        BY <3>1, <3>3 DEF PollRefreshWrite, IdlePoller
      <3> QED
        BY <1>6, <3>2, <3>3
    <2>2. PollersKnow'
      BY <2>1 DEF PollersKnow
    <2> QED
      BY <2>1, <2>2 DEF OrderedAtMostOnce, RowsTell, RowTells, StagesTell, WorkerKnows, Current, Flying
  <1> QED
    BY <1>1, <1>2, <1>4, <1>5, <1>6 DEF PollerStep

LEMMA InvariantStep == SendInvariant /\ [Next]_vars => SendInvariant'
  <1> SUFFICES ASSUME SendInvariant, [Next]_vars PROVE SendInvariant'
    OBVIOUS
  <1>1. TypeOK'
    BY TypeStep DEF SendInvariant
  <1>2. CASE EnqueuePlace \/ Sweep \/ Transition \/ SendCheck \/ ToggleConnection \/ UNCHANGED vars
    BY <1>1, <1>2, Unmoved DEF EnqueuePlace, Sweep, Transition, SendCheck, ToggleConnection, vars
  <1>3. ASSUME NEW force \in BOOLEAN, CancelCheck(force) PROVE SendInvariant'
    BY <1>1, <1>3, Unmoved DEF CancelCheck
  <1>4. CASE SendCommit
    <2>1. CASE UNCHANGED row
      BY <1>1, <1>4, <2>1, Unmoved DEF SendCommit
    <2>2. CASE EnsurePlanned
      BY <1>1, <1>4, <2>2, ManyRows DEF SendCommit, EnsurePlanned
    <2> QED
      BY <1>4, <2>1, <2>2 DEF SendCommit
  <1>5. CASE CancelCommit
    <2>1. CASE UNCHANGED row
      BY <1>1, <1>5, <2>1, Unmoved DEF CancelCommit
    <2>2. CASE row' = CancelQueued
      BY <1>1, <1>5, <2>2, ManyRows DEF CancelCommit
    <2> QED
      BY <1>5, <2>1, <2>2 DEF CancelCommit
  <1>6. CASE WorkerStep
    BY <1>1, <1>6, WorkerStepKeeps
  <1>7. CASE Crash
    BY <1>1, <1>7, CrashKeeps
  <1>8. CASE SupplierStep
    BY <1>1, <1>8, SupplierKeeps
  <1>9. ASSUME NEW p \in Pollers, PollerStep(p) PROVE SendInvariant'
    BY <1>1, <1>9, PollerKeeps
  <1> QED
    BY <1>2, <1>3, <1>4, <1>5, <1>6, <1>7, <1>8, <1>9 DEF Next, UserStep
-----------------------------------------------------------------------------
(* What a step writes, and what it sends. *)

\* The writes of a step: many rows that were never sent, or one row, which
\* stays sent if it was.
LEMMA RowWrites ==
    ASSUME SendInvariant, [Next]_vars
    PROVE  \/ \A o \in Order : \/ row'[o].status = row[o].status
                               \/ row[o].status \notin Sent /\ row'[o].status \notin Placed
           \/ \E o \in Order : \E r :
                  /\ row' = [row EXCEPT ![o] = r]
                  /\ row[o].status \in Sent => r.status \in Sent \cup {"CANCELLED"}
  <1> USE DEF SendInvariant
  <1> DEFINE Many == \A o \in Order : \/ row'[o].status = row[o].status
                                      \/ row[o].status \notin Sent /\ row'[o].status \notin Placed
             One == \E o \in Order : \E r :
                        /\ row' = [row EXCEPT ![o] = r]
                        /\ row[o].status \in Sent => r.status \in Sent \cup {"CANCELLED"}
  <1>0. row \in [Order -> RowType] /\ worker.at \in Order
    BY CurrentTyped DEF TypeOK
  <1>1. CASE UNCHANGED row
    BY <1>1
  <1>2. CASE row' = CancelQueued \/ EnsurePlanned
    <2>1. ASSUME row' = CancelQueued, NEW o \in Order
          PROVE  \/ row'[o].status = row[o].status
                 \/ row[o].status \notin Sent /\ row'[o].status \notin Placed
      <3>1. CASE row[o].status = "QUEUED"
        <4>1. row[o] \in RowType /\ row'[o] = [row[o] EXCEPT !.status = "CANCELLED"]
          BY <1>0, <2>1, <3>1 DEF CancelQueued
        <4>2. row'[o].status = "CANCELLED"
          BY <4>1 DEF RowType
        <4> QED
          BY <3>1, <4>2 DEF Sent, Placed
      <3>2. CASE row[o].status # "QUEUED"
        BY <2>1, <3>2 DEF CancelQueued
      <3> QED
        BY <3>1, <3>2
    <2>2. ASSUME row' = Requeued, NEW o \in Order
          PROVE  \/ row'[o].status = row[o].status
                 \/ row[o].status \notin Sent /\ row'[o].status \notin Placed
      <3>1. CASE row[o].status = "FAILED"
        <4>1. row[o] \in RowType /\ row'[o] = [row[o] EXCEPT !.status = "QUEUED"]
          BY <1>0, <2>2, <3>1 DEF Requeued
        <4>2. row'[o].status = "QUEUED"
          BY <4>1 DEF RowType
        <4> QED
          BY <3>1, <4>2 DEF Sent, Placed
      <3>2. CASE row[o].status # "FAILED"
        BY <2>2, <3>2 DEF Requeued
      <3> QED
        BY <3>1, <3>2
    <2>3. ASSUME NEW plan \in SUBSET Free \ {{}}, row' = Planned(plan) PROVE Many
      BY <1>0, <2>3 DEF Planned, Free, NoRow, RowType, Sent, Placed
    <2> QED
      BY <1>2, <2>1, <2>2, <2>3 DEF EnsurePlanned
  <1>3. ASSUME NEW r, SetRow(r), Current.status \in {"QUEUED", "SENDING"} PROVE One
    BY <1>0, <1>3 DEF SetRow, Current, Sent, Placed
  <1>4. CASE WorkerStep
    <2>1. CASE Plan
      BY <1>1, <1>2, <2>1 DEF Plan
    <2>2. CASE Claim
      BY <1>1, <1>3, <2>2 DEF Claim
    <2>3. CASE PickUp \/ List \/ NextOrder \/ ReconcileFails \/ Call \/ PersistFails
               \/ RefreshRead \/ RefreshWrite
      BY <1>1, <2>3 DEF PickUp, List, NextOrder, ReconcileFails, Call, PersistFails, RefreshRead, RefreshWrite
    <2>4. CASE Connect \/ Reconcile \/ RepeatableStep \/ MarkPending \/ AnswerOk \/ AnswerRefused
               \/ AnswerLost \/ ApplyPlaced \/ HandleError
      <3>1. Current.status = "SENDING"
        BY <2>4 DEF Connect, Reconcile, RepeatableStep, MarkPending, AnswerOk, AnswerRefused,
                    AnswerLost, ApplyPlaced, HandleError, WorkerKnows, Working
      <3>2. UNCHANGED row \/ \E r : SetRow(r)
        BY <2>4 DEF Connect, Reconcile, RepeatableStep, MarkPending, AnswerOk, AnswerRefused,
                    AnswerLost, ApplyPlaced, HandleError
      <3> QED
        BY <1>1, <1>3, <3>1, <3>2
    <2> QED
      BY <1>4, <2>1, <2>2, <2>3, <2>4 DEF WorkerStep
  <1>5. ASSUME NEW p \in Pollers, PollerStep(p) PROVE Many \/ One
    <2> DEFINE q == poller[p]
    <2>0. q \in PollerType /\ q.at \in Order
      BY DEF TypeOK, PollerType
    <2>1. CASE PollFails(p)
      <3>1. CASE p = "due"
        <4> DEFINE r == [row[q.at] EXCEPT !.poll = TRUE]
        <4>1. r.status = row[q.at].status /\ row' = [row EXCEPT ![q.at] = r]
          BY <1>0, <2>0, <2>1, <3>1 DEF PollFails, RowType
        <4> HIDE DEF r
        <4> QED
          BY <2>0, <4>1
      <3>2. CASE p # "due"
        BY <1>1, <2>1, <3>2 DEF PollFails
      <3> QED
        BY <3>1, <3>2
    <2>2. CASE PollWrite(p)
      <3> DEFINE r == Polled(row[q.at], q.seen, q.got)
      <3>1. q.seen \in {"PLACED", "CONFIRMED", "UNKNOWN"} /\ q.got \in {"NONE", "CANCELLED"} \cup Placed
            /\ row[q.at].status \in Sent \cup {"CANCELLED"} /\ row[q.at] \in RowType
        BY <1>0, <2>0, <2>2 DEF PollWrite, PollersKnow, PollerType
      <3>2. r.status \in Sent \cup {"CANCELLED"}
        BY <3>1 DEF Polled, RowType, Sent, Placed
      <3>3. row' = [row EXCEPT ![q.at] = r]
        BY <2>2 DEF PollWrite
      <3> HIDE DEF r
      <3> QED
        BY <2>0, <3>2, <3>3
    <2>3. CASE UNCHANGED row
      BY <1>1, <2>3
    <2> QED
      BY <1>5, <2>1, <2>2, <2>3 DEF PollerStep, PollRead, PollAsk, PollRefreshRead, PollRefreshWrite
  <1>6. CASE SendCommit \/ CancelCommit
    BY <1>1, <1>2, <1>6 DEF SendCommit, CancelCommit
  <1>7. CASE EnqueuePlace \/ Sweep \/ Transition \/ SendCheck \/ ToggleConnection \/ Crash
             \/ SupplierStep \/ UNCHANGED vars \/ \E force \in BOOLEAN : CancelCheck(force)
    BY <1>1, <1>7 DEF EnqueuePlace, Sweep, Transition, SendCheck, ToggleConnection, Crash, vars,
                      SupplierStep, Accept, Refuse, LateAccept, LateDrop, Proceed, CancelCheck
  <1> QED
    BY <1>4, <1>5, <1>6, <1>7 DEF Next, UserStep

\* Only a call sends a request; only the supplier takes one.
LEMMA WireQuiet ==
    ASSUME SendInvariant, [Next]_vars, ~Call, ~SupplierStep
    PROVE  held' = held /\ \A o \in Order : Flying(o)' = Flying(o)
  <1> USE DEF SendInvariant
  <1>0. worker.at \in Order
    BY CurrentTyped
  <1>1. CASE EnqueuePlace \/ Sweep \/ UserStep \/ UNCHANGED vars
    <2>1. UNCHANGED <<worker, wire, late, held>>
      BY <1>1 DEF EnqueuePlace, Sweep, UserStep, Transition, SendCheck, SendCommit, ToggleConnection,
                  CancelCheck, CancelCommit, vars
    <2> QED
      BY <2>1 DEF Flying
  <1>2. ASSUME NEW p \in Pollers, PollerStep(p)
        PROVE  held' = held /\ \A o \in Order : Flying(o)' = Flying(o)
    <2>1. UNCHANGED <<worker, wire, late, held>>
      BY <1>2 DEF PollerStep, PollRead, PollAsk, PollFails, PollWrite, PollRefreshRead, PollRefreshWrite
    <2> QED
      BY <2>1 DEF Flying
  <1>3. CASE PickUp \/ Plan \/ List \/ NextOrder \/ Claim \/ Connect \/ Reconcile \/ ReconcileFails
             \/ RepeatableStep \/ MarkPending \/ ApplyPlaced \/ HandleError \/ RefreshRead \/ RefreshWrite
    <2>1. worker.pc # "answer" /\ UNCHANGED <<wire, late, held>>
      BY <1>3 DEF PickUp, Plan, List, NextOrder, Claim, Connect, Reconcile, ReconcileFails, RepeatableStep,
                  MarkPending, ApplyPlaced, HandleError, RefreshRead, RefreshWrite
    <2> QED
      BY <2>1 DEF WorkerKnows, Flying
  <1>4. CASE AnswerOk \/ AnswerRefused
    BY <1>4 DEF AnswerOk, AnswerRefused, Flying
  <1>5. CASE AnswerLost \/ PersistFails \/ Crash
    <2>1. wire' = "none" /\ late' = Abandoned /\ held' = held
      BY <1>5 DEF AnswerLost, PersistFails, Crash
    <2> QED
      BY <1>0, <2>1 DEF Flying, Abandoned, TypeOK
  <1> QED
    BY <1>1, <1>2, <1>3, <1>4, <1>5 DEF Next, WorkerStep
-----------------------------------------------------------------------------
(* Theorems. *)

LEMMA InvariantHolds == Spec => []SendInvariant
  BY InvariantInit, InvariantStep, PTL DEF Spec

\* The columns, the job, the worker, the pollers and the wire keep their
\* types through every step, for any orders, steps and attempts.
THEOREM SupplierTypeCorrect == Spec => []TypeOK
  BY InvariantHolds, PTL DEF SendInvariant

\* BR-SCON-011 for every value of the constants: an external order is never
\* with the supplier twice, nor once with another request on its way,
\* whatever answers are lost and wherever the worker stops.
THEOREM OrderedOnce == Spec => []OrderedAtMostOnce
  BY InvariantHolds, PTL DEF SendInvariant

\* A row that reports a status of the supplier's never runs ahead of it.
THEOREM KnownTrue == Spec => []KnownIsTrue
  <1>1. SendInvariant => KnownIsTrue
    BY DEF SendInvariant, RowsTell, RowTells, KnownIsTrue
  <1> QED
    BY <1>1, InvariantHolds, PTL

\* A row that failed, or waits, with a clear step and no external id has
\* nothing at the supplier: to send it again orders nothing twice.
THEOREM FailedNothing == Spec => []FailedLeftNothing
  <1>1. SendInvariant => FailedLeftNothing
    <2> SUFFICES ASSUME SendInvariant, NEW o \in Order, row[o].status \in {"FAILED", "QUEUED"},
                        ~NeedsReconcile(row[o]), ~row[o].ext
                 PROVE  held[o] = 0 /\ Flying(o) = 0
      BY DEF FailedLeftNothing
    <2>1. row[o] \in RowType /\ RowTells(row[o], o)
      BY DEF SendInvariant, TypeOK, RowsTell
    <2>2. row[o].mark = "none"
      BY <2>1 DEF RowType, RowTells, NeedsReconcile, Sent, Placed
    <2> QED
      BY <2>1, <2>2 DEF RowTells
  <1> QED
    BY <1>1, InvariantHolds, PTL

\* No late write of a poller or of the worker puts a row that was sent back
\* among those to be placed.
THEOREM SentStays == Spec => SentStaysSent
  <1>1. SendInvariant /\ [Next]_vars
          => \A o \in Order : row[o].status \in Placed \cup {"UNKNOWN"}
                              => row'[o].status \in Placed \cup {"UNKNOWN", "CANCELLED"}
    <2> SUFFICES ASSUME SendInvariant, [Next]_vars, NEW o \in Order, row[o].status \in Sent
                 PROVE  row'[o].status \in Sent \cup {"CANCELLED"}
      BY DEF Sent
    <2>1. row \in [Order -> RowType]
      BY DEF SendInvariant, TypeOK
    <2> QED
      BY <2>1, RowWrites
  <1> QED
    BY <1>1, InvariantHolds, PTL DEF Spec, SentStaysSent

\* Every step of the sending is one of SupplierPlacement's or changes nothing
\* of it: a call asks for what is neither under way nor held, the supplier
\* accepts or drops it, and a row that is written tells what is held.
LEMMA StepMaps ==
    ASSUME SendInvariant, SendInvariant', [Next]_vars
    PROVE  [Placement!PNext]_(Placement!pvars)
  <1> USE DEF asked, placed, known
  <1>0. /\ row \in [Order -> RowType] /\ worker.at \in Order
        /\ \A o \in Order : /\ held[o] \in Nat /\ held'[o] \in Nat
                            /\ late[o] \in Nat /\ late'[o] \in Nat
    BY CurrentTyped DEF SendInvariant, TypeOK
  <1>1. CASE ~Call /\ ~SupplierStep
    <2>1. placed' = placed /\ asked' = asked
      BY <1>1, WireQuiet
    <2>2. CASE \A o \in Order : \/ row'[o].status = row[o].status
                                \/ row[o].status \notin Sent /\ row'[o].status \notin Placed
      <3>1. known' = known
        BY <2>2 DEF Sent
      <3> QED
        BY <2>1, <3>1 DEF Placement!pvars
    <2>3. ASSUME NEW o \in Order, NEW r, row' = [row EXCEPT ![o] = r]
          PROVE  [Placement!PNext]_(Placement!pvars)
      <3>1. CASE r.status \in Placed
        <4>1. o \in placed /\ known' = known \cup {o}
          BY <1>0, <2>1, <2>3, <3>1 DEF SendInvariant, RowsTell, RowTells
        <4> QED
          BY <2>1, <4>1 DEF Placement!PNext, Placement!Learn
      <3>2. CASE r.status \notin Placed
        <4>1. known' = known \ {o}
          BY <1>0, <2>3, <3>2
        <4> QED
          BY <2>1, <4>1 DEF Placement!PNext, Placement!Forget
      <3> QED
        BY <3>1, <3>2
    <2>4. CASE \E o \in Order : \E r : row' = [row EXCEPT ![o] = r]
      <3>1. PICK o \in Order : \E r : row' = [row EXCEPT ![o] = r]
        BY <2>4
      <3> QED
        BY <2>3, <3>1
    <2> QED
      BY <2>2, <2>4, RowWrites
  <1>2. CASE Call
    <2>1. wire = "none" /\ held[worker.at] = 0 /\ late[worker.at] = 0
      BY <1>2 DEF Call, SendInvariant, WorkerKnows
    <2>2. /\ worker.at \notin asked \cup placed
          /\ asked' = asked \cup {worker.at}
      BY <1>0, <1>2, <2>1 DEF Call, Goto, Flying, SendInvariant, TypeOK, WorkerType
    <2>3. placed' = placed /\ known' = known
      BY <1>2 DEF Call
    <2> QED
      BY <1>0, <2>2, <2>3 DEF Placement!PNext, Placement!Ask
  <1>3. CASE SupplierStep
    <2>0. UNCHANGED <<row, worker>>
      BY <1>3 DEF SupplierStep, Accept, Refuse, LateAccept, LateDrop, Proceed
    <2>1. known' = known
      BY <2>0
    <2>2. ASSUME NEW o \in Order, (Accept /\ o = worker.at) \/ LateAccept(o)
          PROVE  [Placement!PNext]_(Placement!pvars)
      <3>1. Flying(o) = 1 /\ Flying(o)' = 0
        BY <1>0, <2>2, Taken
      <3>2. held' = [held EXCEPT ![o] = held[o] + 1] /\ held \in [Order -> Nat]
        BY <2>2 DEF Accept, LateAccept, Take, SendInvariant, TypeOK
      <3>3. placed' = placed \cup {o}
        BY <3>2
      <3>4. \A v \in Order \ {o} : Flying(v)' = Flying(v)
        BY <1>0, <2>0, <2>2 DEF Accept, LateAccept, Flying, SendInvariant, TypeOK
      <3>5. o \in asked /\ asked' = asked \ {o}
        BY <3>1, <3>4
      <3> QED
        BY <2>1, <3>3, <3>5 DEF Placement!PNext, Placement!Accept
    <2>3. ASSUME NEW o \in Order, Flying(o)' = 0, Flying(o) = 1, held' = held,
                 \A v \in Order \ {o} : Flying(v)' = Flying(v)
          PROVE  [Placement!PNext]_(Placement!pvars)
      <3>1. o \in asked /\ asked' = asked \ {o} /\ placed' = placed
        BY <2>3
      <3> QED
        BY <2>1, <3>1 DEF Placement!PNext, Placement!Drop
    <2>4. CASE Refuse
      <3>1. Flying(worker.at) = 1
        BY <1>0, <2>4 DEF Refuse, SendInvariant, WorkerKnows, Flying
      <3>2. /\ \A v \in Order : v = worker.at => Flying(v)' = 0
            /\ \A v \in Order \ {worker.at} : Flying(v)' = Flying(v)
        BY <1>0, <2>4, <3>1 DEF Refuse, Flying, SendInvariant, WorkerKnows
      <3>3. PICK o \in Order : o = worker.at
        BY <1>0
      <3>4. Flying(o) = 1 /\ Flying(o)' = 0 /\ held' = held
        BY <2>4, <3>1, <3>2, <3>3 DEF Refuse
      <3> QED
        BY <2>3, <3>2, <3>3, <3>4
    <2>5. ASSUME NEW o \in Order, LateDrop(o) PROVE [Placement!PNext]_(Placement!pvars)
      <3>1. Flying(o) = 1 /\ Flying(o)' = 0
        BY <2>5, Dropped
      <3>2. \A v \in Order \ {o} : Flying(v)' = Flying(v)
        BY <2>5 DEF LateDrop, Flying, SendInvariant, TypeOK
      <3> QED
        BY <2>3, <2>5, <3>1, <3>2 DEF LateDrop
    <2>6. ASSUME NEW o \in Order, Proceed(o) PROVE [Placement!PNext]_(Placement!pvars)
      <3>1. placed' = placed /\ asked' = asked
        BY <2>6 DEF Proceed, Flying
      <3> QED
        BY <2>1, <3>1 DEF Placement!pvars
    <2> QED
      BY <1>0, <1>3, <2>2, <2>4, <2>5, <2>6 DEF SupplierStep
  <1> QED
    BY <1>1, <1>2, <1>3

\* The sending implements the promise of SupplierPlacement: it asks again
\* only for what the supplier certainly did not get, and knows as placed
\* only what is held.
THEOREM ImplementsPlacement == Spec => PlacementSpec
  <1>1. Init => Placement!PInit
    BY DEF Init, Placement!PInit, asked, placed, known, Flying, NoRow, Placed
  <1> QED
    BY <1>1, StepMaps, InvariantHolds, PTL DEF Spec, PlacementSpec, Placement!PSpec
=============================================================================
