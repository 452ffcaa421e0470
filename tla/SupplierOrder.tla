---------------------------- MODULE SupplierOrder ----------------------------
(***************************************************************************)
(* One purchase order sent to its suppliers through their APIs: a job that *)
(* places the external orders step by step, two pollers that follow what   *)
(* became of them, and the users who send and cancel.                      *)
(*                                                                         *)
(* A request whose answer is lost may still reach the supplier later.  A   *)
(* worker may stop between any two steps; BullMQ then gives its job to     *)
(* another worker, or fails the job after a second stall.  One worker at a *)
(* time executes the job (its id is fixed); the copies of a row it works   *)
(* with are the row, as only the worker writes the step of a row that is   *)
(* QUEUED or SENDING.                                                      *)
(*                                                                         *)
(* Left out: lines and confirmed quantities (PARTIALLY_CONFIRMED and READY *)
(* count as CONFIRMED, REJECTED as CANCELLED), and the 30 days after which *)
(* polling stops.                                                          *)
(***************************************************************************)
EXTENDS Integers, FiniteSets

CONSTANTS
    Order,          \* external orders
    Steps,          \* how many steps the adapter has
    NonRepeatable,  \* the one that creates the order at the supplier
    MaxAttempts,    \* attempts of the job
    Pollers,        \* which of poll-due and poll-now run
    MaxFaults       \* bound: crashes, lost enqueues, rate limits, failed writes

ASSUME SupplierOrderAssumption ==
    /\ Order # {}
    /\ Steps \in Nat /\ NonRepeatable \in 1..Steps
    /\ Pollers \subseteq {"due", "now"}
    /\ MaxAttempts \in Nat \ {0} /\ MaxFaults \in Nat

VARIABLES
    po,         \* the purchase order: status, supplierApiStatus, cancelled by force
    row,        \* external order -> its SupplierOrder row
    enabled,    \* the supplier connection is enabled
    job,        \* the place job: where it is and its attemptsMade
    worker,     \* the worker that executes it
    wire,       \* the request the worker waits on
    late,       \* external order -> requests nobody waits on any more
    held,       \* external order -> how many orders the supplier holds
    stage,      \* external order -> what the supplier did with it
    button,     \* a send in progress
    cancel,     \* a cancellation in progress
    poller,     \* the pollers
    faults

vars == <<po, row, enabled, job, worker, wire, late, held, stage,
          button, cancel, poller, faults>>

SENT_SUPPLIER_ORDER_STATUSES == {"SENDING", "PLACED", "CONFIRMED", "SHIPPED", "UNKNOWN"}
POLLABLE_SUPPLIER_ORDER_STATUSES == {"PLACED", "CONFIRMED", "UNKNOWN"}
TERMINAL_SUPPLIER_ORDER_STATUSES == {"SHIPPED", "CANCELLED"}
Placed == {"PLACED", "CONFIRMED", "SHIPPED"}

AnyOrder == CHOOSE o \in Order : TRUE
NoRow == [status |-> "NONE", step |-> 0, mark |-> "none", ext |-> FALSE, poll |-> FALSE]
IdleWorker == [pc |-> "idle", at |-> AnyOrder, todo |-> {}, end |-> "done", sum |-> "NOT_SENT"]
IdlePoller == [pc |-> "idle", at |-> AnyOrder, seen |-> "NONE", got |-> "NONE", sum |-> "NOT_SENT"]

Init ==
    /\ po = [status |-> "DRAFT", api |-> "NOT_SENT", forced |-> FALSE]
    /\ row = [o \in Order |-> NoRow]
    /\ enabled \in BOOLEAN
    /\ job = [at |-> "none", tries |-> 0]
    /\ worker = IdleWorker
    /\ wire = "none"
    /\ late = [o \in Order |-> 0]
    /\ held = [o \in Order |-> 0]
    /\ stage = [o \in Order |-> "NONE"]
    /\ button = "idle"
    /\ cancel = [pc |-> "idle", from |-> "DRAFT", force |-> FALSE]
    /\ poller = [p \in Pollers |-> IdlePoller]
    /\ faults = 0

\* Mutant: a worker that stopped in a step is not reconciled.
NeedsReconcileNotPending(r) == r.mark = "RECONCILE"

\* The step column ends in :PENDING or is RECONCILE.
NeedsReconcile(r) == r.mark \in {"PENDING", "RECONCILE"}

SummarizeSupplierApiStatus(rows) ==
    LET live == {rows[o].status : o \in Order} \ {"NONE", "CANCELLED"} IN
    CASE live = {} -> "NOT_SENT"
      [] "UNKNOWN" \in live -> "NEEDS_ATTENTION"
      [] "FAILED" \in live -> "FAILED"
      [] {"QUEUED", "SENDING"} \cap live # {} -> "QUEUED"
      [] OTHER -> "SENT"

Fault == faults < MaxFaults /\ faults' = faults + 1
-----------------------------------------------------------------------------
(* The queue.  A live job with the same id swallows an add.                *)

Add(j) == IF j.at = "none" THEN [at |-> "waiting", tries |-> 0] ELSE j

\* Redis is out of reach, or the process stops before the add: sweep.
EnqueuePlace ==
    /\ button = "planned"
    /\ button' = "idle"
    /\ \/ job' = Add(job) /\ UNCHANGED faults
       \/ Fault /\ UNCHANGED job
    /\ UNCHANGED <<po, row, enabled, worker, wire, late, held, stage, cancel, poller>>

Sweep ==
    /\ po.api = "QUEUED"
    /\ job' = Add(job)
    /\ UNCHANGED <<po, row, enabled, worker, wire, late, held, stage, button, cancel, poller, faults>>
-----------------------------------------------------------------------------
(* The users.                                                              *)

\* DRAFT -> ORDERED; in the mode ON_ORDERED it also queues the sending.
Transition ==
    /\ button = "idle" /\ po.status = "DRAFT"
    /\ \E api \in {po.api} \cup (IF enabled THEN {"QUEUED"} ELSE {}) :
          /\ po' = [po EXCEPT !.status = "ORDERED", !.api = api]
          /\ button' = IF api = "QUEUED" THEN "planned" ELSE "idle"
    /\ UNCHANGED <<row, enabled, job, worker, wire, late, held, stage, cancel, poller, faults>>

\* send, up to its transaction; a draft is moved to ORDERED first.
SendCheck ==
    /\ button = "idle"
    /\ po.status = "ORDERED" /\ po.api \in {"NOT_SENT", "FAILED"}
    /\ button' = "checked"
    /\ UNCHANGED <<po, row, enabled, job, worker, wire, late, held, stage, cancel, poller, faults>>

Active == {o \in Order : row[o].status \notin {"NONE", "CANCELLED"}}
Free == {o \in Order : row[o].status = "NONE"}

\* Mutant: sending again takes up the unknown ones too.
RequeuedUnknown == [o \in Order |-> IF row[o].status \in {"FAILED", "UNKNOWN"}
                                    THEN [row[o] EXCEPT !.status = "QUEUED"] ELSE row[o]]

\* ensurePlannedInTx where an active row exists: only FAILED rows are queued.
Requeued == [o \in Order |-> IF row[o].status = "FAILED"
                             THEN [row[o] EXCEPT !.status = "QUEUED"] ELSE row[o]]

Planned(plan) == [o \in Order |-> IF o \in plan
                                  THEN [NoRow EXCEPT !.status = "QUEUED"] ELSE row[o]]

\* ensurePlannedInTx; buildPlan throws when the connection is disabled.
EnsurePlanned ==
    IF Active # {} THEN row' = Requeued
    ELSE enabled /\ \E plan \in SUBSET Free \ {{}} : row' = Planned(plan)

CannotPlan == Active = {} /\ (~enabled \/ Free = {})

SendCommit ==
    /\ button = "checked"
    /\ \/ /\ EnsurePlanned
          /\ button' = "planned"
          /\ po' = IF po.api \in {"NOT_SENT", "FAILED", "QUEUED"}
                   THEN [po EXCEPT !.api = "QUEUED"] ELSE po
       \/ CannotPlan /\ button' = "idle" /\ UNCHANGED <<po, row>>
    /\ UNCHANGED <<enabled, job, worker, wire, late, held, stage, cancel, poller, faults>>

ToggleConnection ==
    /\ enabled' = ~enabled
    /\ UNCHANGED <<po, row, job, worker, wire, late, held, stage, button, cancel, poller, faults>>

\* assertCancellable counts what was sent.
CancelCheck(force) ==
    /\ cancel.pc = "idle" /\ po.status # "CANCELLED"
    /\ \/ force
       \/ \A o \in Order : /\ row[o].status \notin SENT_SUPPLIER_ORDER_STATUSES
                           /\ row[o].ext => row[o].status = "CANCELLED"
    /\ cancel' = [pc |-> "checked", from |-> po.status, force |-> force]
    /\ UNCHANGED <<po, row, enabled, job, worker, wire, late, held, stage, button, poller, faults>>

\* The nextPollAt of a QUEUED row, which assertCancellable clears, is null.
CancelQueued == [o \in Order |-> IF row[o].status = "QUEUED"
                                 THEN [row[o] EXCEPT !.status = "CANCELLED"] ELSE row[o]]

\* It then cancels what is still queued, and setStatus moves the order if it
\* has the status read; else everything is rolled back.
CancelCommit ==
    /\ cancel.pc = "checked"
    /\ cancel' = [cancel EXCEPT !.pc = "idle"]
    /\ IF po.status = cancel.from
       THEN /\ row' = CancelQueued
            /\ po' = [po EXCEPT !.status = "CANCELLED", !.forced = cancel.force]
       ELSE UNCHANGED <<row, po>>
    /\ UNCHANGED <<enabled, job, worker, wire, late, held, stage, button, poller, faults>>
-----------------------------------------------------------------------------
(* The worker: SupplierOrderSender.run.                                    *)

Goto(pc) == worker' = [worker EXCEPT !.pc = pc]
SetRow(r) == row' = [row EXCEPT ![worker.at] = r]
Current == row[worker.at]

PickUp ==
    /\ job.at = "waiting" /\ worker.pc = "idle"
    /\ job' = [job EXCEPT !.at = "active"]
    /\ worker' = [IdleWorker EXCEPT !.pc = "plan"]
    /\ UNCHANGED <<po, row, enabled, wire, late, held, stage, button, cancel, poller, faults>>

\* Under the lock of the purchase order: cancelled meanwhile, planned (or
\* planned before), or impossible to plan, which fails the job.
Plan ==
    /\ worker.pc = "plan"
    /\ \/ /\ po.status = "CANCELLED"
          /\ row' = CancelQueued
          /\ Goto("refresh")
          /\ UNCHANGED <<po, job>>
       \/ /\ po.status # "CANCELLED"
          /\ EnsurePlanned
          /\ Goto("list")
          /\ UNCHANGED <<po, job>>
       \/ /\ po.status # "CANCELLED" /\ CannotPlan
          /\ po' = [po EXCEPT !.api = "FAILED"]
          /\ job' = [at |-> "none", tries |-> 0]
          /\ worker' = IdleWorker
          /\ UNCHANGED row
    /\ UNCHANGED <<enabled, wire, late, held, stage, button, cancel, poller, faults>>

List ==
    /\ worker.pc = "list"
    /\ worker' = [worker EXCEPT !.pc = "next",
                     !.todo = {o \in Order : row[o].status \in {"QUEUED", "SENDING"}}]
    /\ UNCHANGED <<po, row, enabled, job, wire, late, held, stage, button, cancel, poller, faults>>

\* The loop; poCancelled leaves it.
NextOrder ==
    /\ worker.pc = "next"
    /\ IF worker.todo = {} \/ po.status = "CANCELLED"
       THEN worker' = [worker EXCEPT !.pc = "refresh", !.at = AnyOrder, !.todo = {}]
       ELSE \E o \in worker.todo :
               worker' = [worker EXCEPT !.pc = "claim", !.at = o, !.todo = @ \ {o}]
    /\ UNCHANGED <<po, row, enabled, job, wire, late, held, stage, button, cancel, poller, faults>>

\* Mutant: only a QUEUED row is claimed.
ClaimQueuedOnly ==
    /\ worker.pc = "claim"
    /\ IF Current.status = "QUEUED"
       THEN SetRow([Current EXCEPT !.status = "SENDING"]) /\ Goto("connect")
       ELSE Goto("next") /\ UNCHANGED row
    /\ UNCHANGED <<po, enabled, job, wire, late, held, stage, button, cancel, poller, faults>>

Claim ==
    /\ worker.pc = "claim"
    /\ IF Current.status \in {"QUEUED", "SENDING"}
       THEN SetRow([Current EXCEPT !.status = "SENDING"]) /\ Goto("connect")
       ELSE Goto("next") /\ UNCHANGED row
    /\ UNCHANGED <<po, enabled, job, wire, late, held, stage, button, cancel, poller, faults>>

\* Without its connection the row fails and keeps its step.
Connect ==
    /\ worker.pc = "connect"
    /\ IF ~enabled
       THEN SetRow([Current EXCEPT !.status = "FAILED"]) /\ Goto("next")
       ELSE Goto(IF NeedsReconcile(Current) THEN "reconcile" ELSE "step") /\ UNCHANGED row
    /\ UNCHANGED <<po, enabled, job, wire, late, held, stage, button, cancel, poller, faults>>

Settled(status, ext, poll) ==
    [Current EXCEPT !.status = status, !.mark = "DONE", !.ext = ext, !.poll = poll]

\* Mutant: the order counts as placed whatever the search says.
ReconcileFound ==
    /\ worker.pc = "reconcile"
    /\ SetRow(Settled("PLACED", TRUE, TRUE))
    /\ Goto("next")
    /\ UNCHANGED <<po, enabled, job, wire, late, held, stage, button, cancel, poller, faults>>

\* The supplier is asked by reference, nothing is sent.
Reconcile ==
    /\ worker.pc = "reconcile"
    /\ IF held[worker.at] > 0
       THEN SetRow(Settled("PLACED", TRUE, TRUE))
       ELSE SetRow(Settled("UNKNOWN", Current.ext, Current.poll))
    /\ Goto("next")
    /\ UNCHANGED <<po, enabled, job, wire, late, held, stage, button, cancel, poller, faults>>

\* Where an exception leaves placeOne: a rate limit, what a retry may mend,
\* what it will not.
Throw(kind) == worker' = [worker EXCEPT !.pc = "error", !.end = kind]
Throws == \/ Fault /\ Throw("limit")
          \/ (\E kind \in {"retry", "final"} : Throw(kind)) /\ UNCHANGED faults

ReconcileFails ==
    /\ worker.pc = "reconcile" /\ Throws
    /\ UNCHANGED <<po, row, enabled, job, wire, late, held, stage, button, cancel, poller>>

\* The next step; a step column that names no step counts as none done.
NextStep == IF Current.mark = "none" THEN Current.step + 1 ELSE 1

\* Mutant: the runner does not stop at the last step.
RepeatableStepTooFar ==
    /\ worker.pc = "step"
    /\ NextStep \in 1..(Steps + 1) \ {NonRepeatable}
    /\ \/ /\ SetRow([Current EXCEPT !.step = NextStep, !.mark = "none"])
          /\ UNCHANGED <<worker, faults>>
       \/ Throws /\ UNCHANGED row
    /\ UNCHANGED <<po, enabled, job, wire, late, held, stage, button, cancel, poller>>

\* A repeatable step: what it does is done again without harm.
RepeatableStep ==
    /\ worker.pc = "step"
    /\ NextStep \in 1..Steps \ {NonRepeatable}
    /\ \/ /\ SetRow([Current EXCEPT !.step = NextStep, !.mark = "none"])
          /\ UNCHANGED <<worker, faults>>
       \/ Throws /\ UNCHANGED row
    /\ UNCHANGED <<po, enabled, job, wire, late, held, stage, button, cancel, poller>>

\* Mutant: nothing is written before the call.
MarkPendingNot ==
    /\ worker.pc = "step" /\ NextStep = NonRepeatable
    /\ UNCHANGED row
    /\ Goto("call")
    /\ UNCHANGED <<po, enabled, job, wire, late, held, stage, button, cancel, poller, faults>>

\* The other one is marked before it is called.
MarkPending ==
    /\ worker.pc = "step" /\ NextStep = NonRepeatable
    /\ SetRow([Current EXCEPT !.mark = "PENDING"])
    /\ Goto("call")
    /\ UNCHANGED <<po, enabled, job, wire, late, held, stage, button, cancel, poller, faults>>

Call ==
    /\ worker.pc = "call"
    /\ wire' = "flying"
    /\ Goto("answer")
    /\ UNCHANGED <<po, row, enabled, job, late, held, stage, button, cancel, poller, faults>>

AnswerOk ==
    /\ worker.pc = "answer" /\ wire = "accepted"
    /\ wire' = "none"
    /\ SetRow([Current EXCEPT !.step = NonRepeatable, !.mark = "none", !.ext = TRUE])
    /\ Goto("step")
    /\ UNCHANGED <<po, enabled, job, late, held, stage, button, cancel, poller, faults>>

\* A definite refusal: the step is taken back.
AnswerRefused ==
    /\ worker.pc = "answer" /\ wire = "refused"
    /\ wire' = "none"
    /\ SetRow([Current EXCEPT !.mark = "none"])
    /\ Throws
    /\ UNCHANGED <<po, enabled, job, late, held, stage, button, cancel, poller>>

\* Nobody waits for the request any more.
Abandoned == IF wire = "flying" THEN [late EXCEPT ![worker.at] = @ + 1] ELSE late

\* Mutant: a lost answer counts as a refusal.
AnswerLostRefused ==
    /\ worker.pc = "answer"
    /\ wire' = "none" /\ late' = Abandoned
    /\ SetRow([Current EXCEPT !.mark = "none"])
    /\ Throw("retry")
    /\ UNCHANGED <<po, enabled, job, held, stage, button, cancel, poller, faults>>

\* No answer, or one that says nothing.
AnswerLost ==
    /\ worker.pc = "answer"
    /\ wire' = "none" /\ late' = Abandoned
    /\ SetRow([Current EXCEPT !.mark = "RECONCILE"])
    /\ Throw("retry")
    /\ UNCHANGED <<po, enabled, job, held, stage, button, cancel, poller, faults>>

\* The answer came, but the write that should record it fails.
PersistFails ==
    /\ worker.pc = "answer" /\ Fault
    /\ wire' = "none" /\ late' = Abandoned
    /\ Throw("retry")
    /\ UNCHANGED <<po, row, enabled, job, held, stage, button, cancel, poller>>

ApplyPlaced ==
    /\ worker.pc = "step" /\ NextStep > Steps
    /\ \E status \in {"PLACED"} \cup ({stage[worker.at]} \cap {"CONFIRMED"}) :
          SetRow(Settled(status, TRUE, TRUE))
    /\ Goto("next")
    /\ UNCHANGED <<po, enabled, job, wire, late, held, stage, button, cancel, poller, faults>>

LastAttempt == job.tries + 1 >= MaxAttempts

\* handleSupplierJobError.  A final error of one order lets the loop go on
\* to the others; any other ends the run.
HandleError ==
    /\ worker.pc = "error"
    /\ \/ /\ worker.end = "limit" \/ (worker.end = "retry" /\ ~LastAttempt)
          /\ worker' = [worker EXCEPT !.pc = "refresh", !.todo = {}]
          /\ UNCHANGED row
       \/ /\ worker.end = "final" \/ (worker.end = "retry" /\ LastAttempt)
          /\ SetRow([Current EXCEPT !.status = IF NeedsReconcile(Current)
                                               THEN "UNKNOWN" ELSE "FAILED"])
          /\ worker' = [worker EXCEPT !.pc = "next", !.end = "done"]
    /\ UNCHANGED <<po, enabled, job, wire, late, held, stage, button, cancel, poller, faults>>

\* refreshSummary reads the rows ...
RefreshRead ==
    /\ worker.pc = "refresh"
    /\ worker' = [worker EXCEPT !.pc = "summary", !.sum = SummarizeSupplierApiStatus(row)]
    /\ UNCHANGED <<po, row, enabled, job, wire, late, held, stage, button, cancel, poller, faults>>

\* ... and writes the summary whatever was written since.  The job ends.
RefreshWrite ==
    /\ worker.pc = "summary"
    /\ po' = [po EXCEPT !.api = worker.sum]
    /\ job' = CASE worker.end = "limit" -> [at |-> "waiting", tries |-> job.tries]
               [] worker.end = "retry" -> [at |-> "waiting", tries |-> job.tries + 1]
               [] OTHER -> [at |-> "none", tries |-> 0]
    /\ worker' = IdleWorker
    /\ UNCHANGED <<row, enabled, wire, late, held, stage, button, cancel, poller, faults>>

\* The process stops, or stalls: the job goes to another worker, or fails.
Crash ==
    /\ worker.pc # "idle" /\ Fault
    /\ worker' = IdleWorker
    /\ wire' = "none" /\ late' = Abandoned
    /\ job' \in {[job EXCEPT !.at = "waiting"], [at |-> "none", tries |-> 0]}
    /\ UNCHANGED <<po, row, enabled, held, stage, button, cancel, poller>>

WorkerStep ==
    \/ PickUp \/ Plan \/ List \/ NextOrder \/ Claim \/ Connect \/ Reconcile
    \/ ReconcileFails \/ RepeatableStep \/ MarkPending \/ Call \/ AnswerOk
    \/ AnswerRefused \/ AnswerLost \/ PersistFails \/ ApplyPlaced \/ HandleError
    \/ RefreshRead \/ RefreshWrite
-----------------------------------------------------------------------------
(* The supplier.                                                           *)

Take(o) ==
    /\ held' = [held EXCEPT ![o] = @ + 1]
    /\ stage' = [stage EXCEPT ![o] = IF @ = "NONE" THEN "PLACED" ELSE @]

Accept ==
    /\ wire = "flying"
    /\ wire' = "accepted" /\ Take(worker.at)
    /\ UNCHANGED <<po, row, enabled, job, worker, late, button, cancel, poller, faults>>

Refuse ==
    /\ wire = "flying"
    /\ wire' = "refused"
    /\ UNCHANGED <<po, row, enabled, job, worker, late, held, stage, button, cancel, poller, faults>>

\* A request nobody waits for arrives after all, or never does.
LateAccept(o) ==
    /\ late[o] > 0
    /\ late' = [late EXCEPT ![o] = @ - 1] /\ Take(o)
    /\ UNCHANGED <<po, row, enabled, job, worker, wire, button, cancel, poller, faults>>

LateDrop(o) ==
    /\ late[o] > 0
    /\ late' = [late EXCEPT ![o] = @ - 1]
    /\ UNCHANGED <<po, row, enabled, job, worker, wire, held, stage, button, cancel, poller, faults>>

Proceed(o) ==
    /\ \/ stage[o] = "PLACED" /\ \E s \in {"CONFIRMED", "CANCELLED"} : stage' = [stage EXCEPT ![o] = s]
       \/ stage[o] = "CONFIRMED" /\ stage' = [stage EXCEPT ![o] = "SHIPPED"]
    /\ UNCHANGED <<po, row, enabled, job, worker, wire, late, held, button, cancel, poller, faults>>
-----------------------------------------------------------------------------
(* The pollers: poll-due for rows whose nextPollAt has come, poll-now for  *)
(* the rows of an order whose status a user asks for.                      *)

PollRead(p, o) ==
    /\ poller[p].pc = "idle"
    /\ row[o].status \in POLLABLE_SUPPLIER_ORDER_STATUSES
    /\ p = "due" => row[o].poll
    /\ row[o].status = "UNKNOWN" \/ row[o].ext
    /\ poller' = [poller EXCEPT ![p] = [@ EXCEPT !.pc = "ask", !.at = o, !.seen = row[o].status]]
    /\ UNCHANGED <<po, row, enabled, job, worker, wire, late, held, stage, button, cancel, faults>>

\* What is found by reference, or the status, which may be a raw one the
\* adapter does not know.
PollAsk(p) ==
    LET o == poller[p].at IN
    /\ poller[p].pc = "ask"
    /\ \E got \in IF poller[p].seen = "UNKNOWN"
                  THEN {IF held[o] > 0 THEN "PLACED" ELSE "NONE"}
                  ELSE {stage[o], "NONE"} :
          poller' = [poller EXCEPT ![p] = [@ EXCEPT !.pc = "write", !.got = got]]
    /\ UNCHANGED <<po, row, enabled, job, worker, wire, late, held, stage, button, cancel, faults>>

\* poll-due tries again later.
PollFails(p) ==
    /\ poller[p].pc = "ask" /\ Fault
    /\ poller' = [poller EXCEPT ![p] = [@ EXCEPT !.pc = "refresh"]]
    /\ row' = IF p = "due" THEN [row EXCEPT ![poller[p].at].poll = TRUE] ELSE row
    /\ UNCHANGED <<po, enabled, job, worker, wire, late, held, stage, button, cancel>>

\* The copy of the row read before the call decides what is written.
Polled(r, seen, got) ==
    LET status == IF got = "NONE" THEN seen ELSE got IN
    IF seen = "UNKNOWN"
    THEN IF got = "NONE" THEN [r EXCEPT !.poll = TRUE]
         ELSE [r EXCEPT !.status = "PLACED", !.ext = TRUE, !.poll = TRUE]
    ELSE [r EXCEPT !.status = status, !.poll = status \notin TERMINAL_SUPPLIER_ORDER_STATUSES]

PollWrite(p) ==
    LET q == poller[p] IN
    /\ q.pc = "write"
    /\ row' = [row EXCEPT ![q.at] = Polled(@, q.seen, q.got)]
    /\ poller' = [poller EXCEPT ![p].pc = "refresh"]
    /\ UNCHANGED <<po, enabled, job, worker, wire, late, held, stage, button, cancel, faults>>

PollRefreshRead(p) ==
    /\ poller[p].pc = "refresh"
    /\ poller' = [poller EXCEPT ![p] = [IdlePoller EXCEPT !.pc = "summary",
                                          !.sum = SummarizeSupplierApiStatus(row)]]
    /\ UNCHANGED <<po, row, enabled, job, worker, wire, late, held, stage, button, cancel, faults>>

PollRefreshWrite(p) ==
    /\ poller[p].pc = "summary"
    /\ po' = [po EXCEPT !.api = poller[p].sum]
    /\ poller' = [poller EXCEPT ![p] = IdlePoller]
    /\ UNCHANGED <<row, enabled, job, worker, wire, late, held, stage, button, cancel, faults>>
-----------------------------------------------------------------------------
UserStep == Transition \/ SendCheck \/ SendCommit \/ ToggleConnection
            \/ (\E force \in BOOLEAN : CancelCheck(force)) \/ CancelCommit

SupplierStep == Accept \/ Refuse \/ \E o \in Order : LateAccept(o) \/ LateDrop(o) \/ Proceed(o)

PollerStep(p) == \/ \E o \in Order : PollRead(p, o)
                 \/ PollAsk(p) \/ PollFails(p) \/ PollWrite(p)
                 \/ PollRefreshRead(p) \/ PollRefreshWrite(p)

Next == \/ UserStep \/ EnqueuePlace \/ Sweep \/ WorkerStep \/ Crash \/ SupplierStep
        \/ \E p \in Pollers : PollerStep(p)

Spec == Init /\ [][Next]_vars

\* A started request is carried through, the sweep keeps coming, and a
\* worker that is not stopped goes on.
FairSpec == Spec /\ WF_vars(WorkerStep) /\ WF_vars(Sweep /\ job.at = "none")
                 /\ WF_vars(SendCommit) /\ WF_vars(EnqueuePlace) /\ WF_vars(CancelCommit)
                 /\ \A p \in Pollers : WF_vars(PollerStep(p) /\ poller[p].pc # "idle")
-----------------------------------------------------------------------------
(* Properties.                                                             *)

RowType == [status: {"NONE", "QUEUED", "SENDING", "FAILED", "UNKNOWN", "CANCELLED"} \cup Placed,
            step: 0..Steps, mark: {"none", "PENDING", "RECONCILE", "DONE"},
            ext: BOOLEAN, poll: BOOLEAN]

Summaries == {"NOT_SENT", "QUEUED", "SENT", "FAILED", "NEEDS_ATTENTION"}

WorkerType == [pc: {"idle", "plan", "list", "next", "claim", "connect", "reconcile", "step",
                    "call", "answer", "error", "refresh", "summary"},
               at: Order, todo: SUBSET Order, end: {"done", "limit", "retry", "final"},
               sum: Summaries]

PollerType == [pc: {"idle", "ask", "write", "refresh", "summary"}, at: Order,
               seen: {"NONE"} \cup POLLABLE_SUPPLIER_ORDER_STATUSES,
               got: {"NONE", "CANCELLED"} \cup Placed, sum: Summaries]

\* The values the columns, the job and the processes take.
TypeOK ==
    /\ po \in [status: {"DRAFT", "ORDERED", "CANCELLED"}, api: Summaries, forced: BOOLEAN]
    /\ row \in [Order -> RowType]
    /\ enabled \in BOOLEAN
    /\ job \in [at: {"none", "waiting", "active"}, tries: Nat]
    /\ worker \in WorkerType
    /\ wire \in {"none", "flying", "accepted", "refused"}
    /\ late \in [Order -> Nat] /\ held \in [Order -> Nat]
    /\ stage \in [Order -> {"NONE", "CANCELLED"} \cup Placed]
    /\ button \in {"idle", "checked", "planned"}
    /\ cancel \in [pc: {"idle", "checked"}, from: {"DRAFT", "ORDERED", "CANCELLED"}, force: BOOLEAN]
    /\ poller \in [Pollers -> PollerType]
    /\ faults \in 0..MaxFaults

\* Requests for an external order the supplier may still act on.
Flying(o) == late[o] + (IF wire = "flying" /\ worker.at = o THEN 1 ELSE 0)

\* BR-SCON-011: whatever is lost, and wherever the worker stops, an external
\* order is never with the supplier twice, nor once with a second request on
\* its way.
OrderedAtMostOnce == \A o \in Order : held[o] + Flying(o) <= 1

\* A row that reports a status of the supplier's never runs ahead of it: the
\* supplier has the order, and ships what the row calls shipped.
KnownIsTrue ==
    \A o \in Order : /\ row[o].status \in Placed => held[o] > 0
                     /\ row[o].status = "SHIPPED" => stage[o] = "SHIPPED"

\* A row that failed with a clear step and no external id failed for good:
\* the supplier has nothing of it, so that sending it again is safe.
FailedLeftNothing ==
    \A o \in Order : /\ row[o].status \in {"FAILED", "QUEUED"}
                     /\ ~NeedsReconcile(row[o]) /\ ~row[o].ext
                     => held[o] = 0 /\ Flying(o) = 0

\* What was sent stays sent: no late write of a poller or of the worker puts
\* a row back among those to be placed.
SentStaysSent ==
    [][\A o \in Order : row[o].status \in Placed \cup {"UNKNOWN"}
                        => row'[o].status \in Placed \cup {"UNKNOWN", "CANCELLED"}]_vars

\* The whole is an implementation of what SupplierPlacement promises.
asked == {o \in Order : Flying(o) > 0}
placed == {o \in Order : held[o] > 0}
known == {o \in Order : row[o].status \in Placed}
Placement == INSTANCE SupplierPlacement WITH held <- placed
PlacementSpec == Placement!PSpec

\* The summary QUEUED, under which the button does nothing, is left: the job
\* may be lost, or end over a row queued meanwhile, and is started again.
QueuedIsLeft == (po.api = "QUEUED" /\ po.status # "CANCELLED")
                    ~> (po.api # "QUEUED" \/ po.status = "CANCELLED")

\* BR-SCON-014: without force an order is not cancelled once something was,
\* or may have been, sent.  It fails, and no run checks it: see README, observations.
CancelledWithoutForceIsUnsent ==
    po.status = "CANCELLED" /\ ~po.forced
        => \A o \in Order : stage[o] # "CANCELLED" => held[o] = 0 /\ Flying(o) = 0

\* Every row that is to be polled has a time for it.  It fails, and no run checks it.
PollableIsPolled ==
    \A o \in Order : row[o].status \in POLLABLE_SUPPLIER_ORDER_STATUSES => row[o].poll
=============================================================================
