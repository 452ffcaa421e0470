---------------------------- MODULE OnlinePayment ----------------------------
(***************************************************************************)
(* Online payments of one invoice by QR code.  An intent is registered at  *)
(* the gateway, a chain of delayed jobs asks the gateway for its status,   *)
(* and what the gateway calls paid becomes a Payment.                      *)
(*                                                                         *)
(* BullMQ delivers a job at least once: a worker that stops, or only stops *)
(* answering, loses the job to another one, and may still be at work on it.*)
(* A second loss fails the job.  Jobs have one attempt, so an error that   *)
(* leaves process() fails the job too; a failed job stays in the queue's   *)
(* failed set and keeps its id.                                            *)
(*                                                                         *)
(* Between two awaits a worker does one step.  The gateway may be out of   *)
(* reach at any time.                                                      *)
(***************************************************************************)
EXTENDS Integers, FiniteSets

CONSTANTS
    Intents,        \* ids of intents
    Workers,        \* concurrent executions of the processor
    Amount,         \* intent -> its amount
    InvoiceAmount,  \* the amount of the invoice
    MAX_POLL_ATTEMPTS,
    MAX_FINALIZE_ATTEMPTS,
    MaxLosses,      \* bound: jobs taken from their worker in a run
    MaxFaults       \* bound: failed calls of the database or Redis in a run

ASSUME OnlinePaymentAssumption ==
    /\ Amount \in [Intents -> Nat \ {0}]
    /\ InvoiceAmount \in Nat
    /\ MAX_POLL_ATTEMPTS \in Nat /\ MAX_FINALIZE_ATTEMPTS \in Nat
    /\ MaxLosses \in Nat /\ MaxFaults \in Nat

VARIABLES
    intent,     \* intent id -> its row
    gateway,    \* intent id -> its state at the gateway
    payment,    \* intent id -> how many payments refer to it
    paid,       \* what is paid on the invoice
    queue,      \* jobs waiting or delayed
    failed,     \* ids of failed jobs
    worker,     \* worker -> the job it executes and where it is
    used        \* how much of each bound the run has used

vars == <<intent, gateway, payment, paid, queue, failed, worker, used>>

Idle == [pc |-> "idle"]

Job(i, kind, step) == [intent |-> i, kind |-> kind, step |-> step, stalled |-> FALSE]

\* pollJobId.
Id(job) == <<job.intent, job.kind, job.step>>

Init ==
    /\ intent = [i \in Intents |-> [status |-> "NONE", late |-> FALSE, linked |-> FALSE,
                                    registered |-> FALSE, error |-> FALSE]]
    /\ gateway = [i \in Intents |-> "none"]
    /\ payment = [i \in Intents |-> 0]
    /\ paid = 0
    /\ queue = {}
    /\ failed = {}
    /\ worker = [w \in Workers |-> Idle]
    /\ used = [losses |-> 0, faults |-> 0]

-----------------------------------------------------------------------------
(* The queue, the database and their faults.  Definitions named Faulty... are
   plausible errors, used only to show that a property notices them. *)

Busy(w) == worker[w] # Idle
Owns(w, job) == Busy(w) /\ worker[w].owner /\ Id(worker[w].job) = Id(job)
Known(job) ==
    \/ Id(job) \in failed
    \/ \E j \in queue : Id(j) = Id(job)
    \/ \E w \in Workers : Owns(w, job)

\* add ignores a job whose id is still known.
Added(job) == IF Known(job) THEN queue ELSE queue \cup {job}

MayFault == used.faults < MaxFaults
Fault == MayFault /\ used' = [used EXCEPT !.faults = @ + 1]
NoFault == UNCHANGED used

At(w, pc) == worker[w].pc = pc
Of(w) == worker[w].job.intent
GoTo(w, pc) == worker' = [worker EXCEPT ![w].pc = pc]

\* The execution ends well; only its owner takes the job out of the queue.
Ends(w) == worker' = [worker EXCEPT ![w] = Idle]

\* The execution ends with an error.
Throws(w) ==
    /\ failed' = IF worker[w].owner THEN failed \cup {Id(worker[w].job)} ELSE failed
    /\ Ends(w)

-----------------------------------------------------------------------------
(* createIntent, the client and the clock. *)

CreateIntent(i) ==
    /\ intent[i].status = "NONE"
    /\ Amount[i] <= InvoiceAmount - paid
    /\ intent' = [intent EXCEPT ![i].status = "PENDING"]
    /\ UNCHANGED <<gateway, payment, paid, queue, failed, worker, used>>

\* The gateway registers the invoice and polling starts; an error of the queue is
\* only logged.
Register(i) ==
    /\ intent[i].status = "PENDING" /\ ~intent[i].registered
    /\ gateway' = [gateway EXCEPT ![i] = "open"]
    /\ intent' = [intent EXCEPT ![i].registered = TRUE]
    /\ \/ NoFault /\ queue' = Added(Job(i, "p", 0))
       \/ Fault /\ UNCHANGED queue
    /\ UNCHANGED <<payment, paid, failed, worker>>

\* The gateway refuses, or its answer is lost.
RegisterFails(i) ==
    /\ intent[i].status = "PENDING" /\ ~intent[i].registered
    /\ intent' = [intent EXCEPT ![i].status = "FAILED", ![i].error = TRUE]
    /\ UNCHANGED <<gateway, payment, paid, queue, failed, worker, used>>

GatewayDecides(i) ==
    /\ gateway[i] = "open"
    /\ \E s \in {"paid", "failed", "expired"} : gateway' = [gateway EXCEPT ![i] = s]
    /\ UNCHANGED <<intent, payment, paid, queue, failed, worker, used>>

DeadlinePasses(i) ==
    /\ intent[i].registered /\ ~intent[i].late
    /\ intent' = [intent EXCEPT ![i].late = TRUE]
    /\ UNCHANGED <<gateway, payment, paid, queue, failed, worker, used>>

\* Another payment of the invoice, at the desk.
PayAtDesk(amount) ==
    /\ amount <= InvoiceAmount - paid
    /\ paid' = paid + amount
    /\ UNCHANGED <<intent, gateway, payment, queue, failed, worker, used>>

-----------------------------------------------------------------------------
(* process: one job. *)

\* Faulty: an intent that is PAID is taken for finished.
FaultyFirstStep(row, job) ==
    CASE row.status = "PENDING" /\ row.registered ->
            IF job.kind = "p" /\ job.step >= MAX_POLL_ATTEMPTS THEN "expire" ELSE "ask"
      [] OTHER -> "end"

\* Faulty: any closed intent without a payment is taken for a paid one.
FaultyReconciled(row, job) ==
    CASE row.status \notin {"NONE", "PENDING"} /\ ~row.linked -> "look"
      [] row.status = "PENDING" /\ row.registered ->
            IF job.kind = "p" /\ job.step >= MAX_POLL_ATTEMPTS THEN "expire" ELSE "ask"
      [] OTHER -> "end"

\* What the row it reads tells a worker to do.
FirstStep(row, job) ==
    CASE row.status = "PAID" /\ ~row.linked -> "look"
      [] row.status = "PENDING" /\ row.registered ->
            IF job.kind = "p" /\ job.step >= MAX_POLL_ATTEMPTS THEN "expire" ELSE "ask"
      [] OTHER -> "end"

Take(w, job) ==
    /\ ~Busy(w) /\ job \in queue
    /\ queue' = queue \ {job}
    /\ LET row == intent[job.intent]
           pc == FirstStep(row, job)
       IN  \/ /\ worker' = [worker EXCEPT ![w] =
                     IF pc = "end" THEN Idle
                     ELSE [pc |-> pc, job |-> job, late |-> row.late, owner |-> TRUE]]
              /\ NoFault
              /\ UNCHANGED failed
           \/ Fault /\ failed' = failed \cup {Id(job)} /\ UNCHANGED worker
    /\ UNCHANGED <<intent, gateway, payment, paid>>

\* What the gateway's answer leads to; "pending" closes a late intent only.
AfterAnswer(answer, late) ==
    CASE answer = "paid" -> "cas"
      [] answer = "failed" -> "fail"
      [] answer = "expired" -> "expire"
      [] OTHER -> IF late THEN "expire" ELSE "next"

Ask(w) ==
    /\ At(w, "ask")
    /\ GoTo(w, AfterAnswer(gateway[Of(w)], worker[w].late))
    /\ UNCHANGED <<intent, gateway, payment, paid, queue, failed, used>>

\* The gateway does not answer: the deadline does not close the intent.
AskUnanswered(w) ==
    /\ At(w, "ask")
    /\ GoTo(w, "next")
    /\ UNCHANGED <<intent, gateway, payment, paid, queue, failed, used>>

\* Faulty: the next job has the id of the one that runs (Bug #804).
FaultyNextJob(w) == Job(Of(w), "p", worker[w].job.step)
NextJob(w) == Job(Of(w), "p", worker[w].job.step + 1)

EnqueueNextPoll(w) ==
    /\ At(w, "next")
    /\ \/ NoFault /\ queue' = Added(NextJob(w)) /\ Ends(w) /\ UNCHANGED failed
       \/ Fault /\ Throws(w) /\ UNCHANGED queue
    /\ UNCHANGED <<intent, gateway, payment, paid>>

\* Faulty: the status is written whatever it is by now.
FaultyStillPending(i) == TRUE
StillPending(i) == intent[i].status = "PENDING"

\* transition, or the last resort at the limit of polls; its errors are swallowed.
Close(w) ==
    /\ At(w, "fail") \/ At(w, "expire")
    /\ \/ /\ NoFault
          /\ intent' =
                IF ~StillPending(Of(w)) THEN intent
                ELSE [intent EXCEPT
                        ![Of(w)].status = IF At(w, "fail") THEN "FAILED" ELSE "EXPIRED",
                        ![Of(w)].error = TRUE]
       \/ Fault /\ UNCHANGED intent
    /\ Ends(w)
    /\ UNCHANGED <<gateway, payment, paid, queue, failed>>

\* The gateway is not configured any more: the intent fails unasked.
GatewayGone(w) ==
    /\ At(w, "ask")
    /\ GoTo(w, "fail")
    /\ UNCHANGED <<intent, gateway, payment, paid, queue, failed, used>>

MarkPaid(w) ==
    /\ At(w, "cas")
    /\ \/ /\ NoFault
          /\ IF StillPending(Of(w))
             THEN intent' = [intent EXCEPT ![Of(w)].status = "PAID"] /\ GoTo(w, "look")
             ELSE UNCHANGED intent /\ Ends(w)
          /\ UNCHANGED failed
       \/ Fault /\ Throws(w) /\ UNCHANGED intent
    /\ UNCHANGED <<gateway, payment, paid, queue>>

-----------------------------------------------------------------------------
(* finalizePayment. *)

Look(w) ==
    /\ At(w, "look")
    /\ \/ NoFault /\ GoTo(w, IF payment[Of(w)] > 0 THEN "link" ELSE "create")
       \/ Fault /\ GoTo(w, "note")
    /\ UNCHANGED <<intent, gateway, payment, paid, queue, failed>>

\* Faulty: payments do not carry the unique id of their intent (Bug #688).
FaultyNewForIntent(i) == TRUE
\* The unique index on Payment.onlinePaymentIntentId.
NewForIntent(i) == payment[i] = 0

\* Faulty: the remainder of the invoice is not looked at again.
FaultyFitsInvoice(i) == TRUE
FitsInvoice(i) == Amount[i] <= InvoiceAmount - paid

\* payments.create commits; what follows the commit may still throw.
Create(w) ==
    /\ At(w, "create")
    /\ FitsInvoice(Of(w)) /\ NewForIntent(Of(w))
    /\ payment' = [payment EXCEPT ![Of(w)] = @ + 1]
    /\ paid' = paid + Amount[Of(w)]
    /\ \/ NoFault /\ GoTo(w, "link")
       \/ Fault /\ GoTo(w, "note")
    /\ UNCHANGED <<intent, gateway, queue, failed>>

\* P2002: the payment exists, and is linked by a write whose error is swallowed, unless
\* the payment cannot be read.
CreateDuplicate(w) ==
    /\ At(w, "create")
    /\ FitsInvoice(Of(w)) /\ ~NewForIntent(Of(w))
    /\ \/ NoFault /\ GoTo(w, "relink")
       \/ Fault /\ GoTo(w, "note")
    /\ UNCHANGED <<intent, gateway, payment, paid, queue, failed>>

\* The invoice takes no more, its CAS loses to another payment, or the transaction fails.
CreateFails(w) ==
    /\ At(w, "create")
    /\ GoTo(w, "note")
    /\ UNCHANGED <<intent, gateway, payment, paid, queue, failed, used>>

Linked(i) == [intent EXCEPT ![i].linked = TRUE, ![i].error = FALSE]

Link(w) ==
    /\ At(w, "link") \/ At(w, "relink")
    /\ \/ NoFault /\ intent' = Linked(Of(w)) /\ Ends(w)
       \/ Fault /\ UNCHANGED intent
          /\ IF At(w, "link") THEN GoTo(w, "note") ELSE Ends(w)
    /\ UNCHANGED <<gateway, payment, paid, queue, failed>>

\* The error is noted on the intent, which stays PAID; either write may be lost.
NoteFailure(w) ==
    /\ At(w, "note")
    /\ \/ NoFault /\ intent' = [intent EXCEPT ![Of(w)].error = TRUE]
       \/ Fault /\ UNCHANGED intent
    /\ GoTo(w, "again")
    /\ UNCHANGED <<gateway, payment, paid, queue, failed>>

FinalizeAttempts(job) == IF job.kind = "f" THEN job.step ELSE 0

FinalizeAgain(w) == FinalizeAttempts(worker[w].job) < MAX_FINALIZE_ATTEMPTS

EnqueueFinalize(w) ==
    /\ At(w, "again")
    /\ \/ NoFault
          /\ queue' = IF FinalizeAgain(w)
                      THEN Added(Job(Of(w), "f", FinalizeAttempts(worker[w].job) + 1))
                      ELSE queue
       \/ Fault /\ UNCHANGED queue
    /\ Ends(w)
    /\ UNCHANGED <<intent, gateway, payment, paid, failed>>

-----------------------------------------------------------------------------
(* BullMQ takes a job from a worker that has not renewed its lock. *)

Lose(w) ==
    /\ Busy(w) /\ worker[w].owner /\ used.losses < MaxLosses
    /\ LET job == worker[w].job IN
         IF job.stalled
         THEN failed' = failed \cup {Id(job)} /\ UNCHANGED queue
         ELSE queue' = queue \cup {[job EXCEPT !.stalled = TRUE]} /\ UNCHANGED failed
    /\ used' = [used EXCEPT !.losses = @ + 1]
    /\ UNCHANGED <<intent, gateway, payment, paid>>

\* The process of the worker has stopped, or it goes on without its job.
Crash(w) == Lose(w) /\ worker' = [worker EXCEPT ![w] = Idle]
Stall(w) == Lose(w) /\ worker' = [worker EXCEPT ![w].owner = FALSE]

-----------------------------------------------------------------------------
Work(w) ==
    \/ Ask(w) \/ AskUnanswered(w) \/ GatewayGone(w)
    \/ EnqueueNextPoll(w) \/ Close(w) \/ MarkPaid(w)
    \/ Look(w) \/ Create(w) \/ CreateDuplicate(w) \/ CreateFails(w)
    \/ Link(w) \/ NoteFailure(w) \/ EnqueueFinalize(w)

TakeAny(w) == \E job \in queue : Take(w, job)

Next ==
    \/ \E i \in Intents :
          \/ CreateIntent(i) \/ Register(i) \/ RegisterFails(i)
          \/ GatewayDecides(i) \/ DeadlinePasses(i) \/ PayAtDesk(Amount[i])
    \/ \E w \in Workers : TakeAny(w) \/ Work(w) \/ Crash(w) \/ Stall(w)

Spec == Init /\ [][Next]_vars

\* Some worker takes a waiting job, and an execution goes on to its end.
Fairness ==
    /\ WF_vars(\E w \in Workers : TakeAny(w))
    /\ \A w \in Workers : WF_vars(Work(w))

FairSpec == Spec /\ Fairness

-----------------------------------------------------------------------------
(* Properties. *)

Ids == Intents \X {"p", "f"} \X Nat
Jobs == [intent : Intents, kind : {"p", "f"}, step : Nat, stalled : BOOLEAN]
Executions ==
    {Idle} \cup [pc : {"ask", "next", "fail", "expire", "cas", "look", "create",
                       "link", "relink", "note", "again"},
                 job : Jobs, late : BOOLEAN, owner : BOOLEAN]

TypeOK ==
    /\ intent \in [Intents -> [status : {"NONE", "PENDING", "PAID", "FAILED", "EXPIRED"},
                               late : BOOLEAN, linked : BOOLEAN, registered : BOOLEAN,
                               error : BOOLEAN]]
    /\ gateway \in [Intents -> {"none", "open", "paid", "failed", "expired"}]
    /\ payment \in [Intents -> Nat]
    /\ paid \in 0..InvoiceAmount
    /\ queue \subseteq Jobs
    /\ failed \subseteq Ids
    /\ worker \in [Workers -> Executions]
    /\ used \in [losses : 0..MaxLosses, faults : 0..MaxFaults]

\* A payment of the client is credited at most once, although its job may be executed
\* by two workers at once, repeated after a crash and retried after an error
\* (BR-PAY-008, Bug #688).
CreditedOnce == \A i \in Intents : payment[i] <= 1

\* Only money that the gateway has confirmed is credited, only to an intent that says
\* so, and an intent that is linked to a payment has one.
CreditedIsConfirmed ==
    \A i \in Intents :
        /\ payment[i] > 0 => intent[i].status = "PAID"
        /\ intent[i].status = "PAID" => gateway[i] = "paid"
        /\ intent[i].linked => payment[i] > 0

\* What an intent has come to is final: workers with an older answer of the gateway do
\* not change it (the CAS from PENDING).
OutcomeIsFinal ==
    [][\A i \in Intents :
        intent[i].status \in {"PAID", "FAILED", "EXPIRED"} =>
            intent'[i].status = intent[i].status]_vars

\* An intent that is polled does not stay PENDING for ever, whatever the gateway does,
\* unless a call of the database or of Redis fails or its job fails (BR-PAY-007).
PollingEnds ==
    \A i \in Intents :
        intent[i].status = "PENDING" /\ intent[i].registered
            ~> \/ intent[i].status # "PENDING"
               \/ used.faults > 0
               \/ \E id \in failed : id[1] = i

\* Money that has arrived is credited, or its failure can be seen.
ArrivedIsSettled ==
    \A i \in Intents :
        intent[i].status = "PAID"
            ~> payment[i] > 0 \/ intent[i].error \/ \E id \in failed : id[1] = i
=============================================================================
