--------------------------- MODULE PaymentAftermath ---------------------------
(* What follows a payment of a client once it is committed.  A job asks the     *)
(* fiscal service for a receipt, another grants the client points, an operator  *)
(* repeats a receipt that failed, and the payment may be reversed meanwhile.    *)
(* BullMQ delivers a job at least once; PostgreSQL runs at READ COMMITTED.      *)
EXTENDS Integers, FiniteSets, FiniteSetsExt

CONSTANTS
    Payment,
    Points,         \* what a payment earns
    Client,         \* requests served at the same time
    Job,            \* ids of receipt jobs that exist at the same time
    Worker,         \* executions of the points job
    Attempts,       \* of a receipt job
    Nobody,
    MaxFaults       \* bound: answers of Redis and of the fiscal service lost in a run

ASSUME PaymentAftermathAssumption ==
    /\ IsFiniteSet(Payment) /\ IsFiniteSet(Client) /\ IsFiniteSet(Job)
    /\ Points \in [Payment -> Nat \ {0}]
    /\ Attempts \in Nat \ {0} /\ MaxFaults \in Nat
    /\ Client \cap Worker = {} /\ Nobody \notin Client \cup Worker

VARIABLES
    payment,    \* the rows
    held,       \* who holds the row of a payment
    client,     \* what each request is doing
    job,        \* receipt jobs, with the execution they are in
    queue,      \* payments whose points job is not acknowledged
    worker,     \* executions of points jobs
    loyalty,    \* the account of the client and its ledger
    receipts,   \* receipts the fiscal service has issued for a payment
    faults      \* answers lost so far, by kind
vars == <<payment, held, client, job, queue, worker, loyalty, receipts, faults>>

NoJob == [payment |-> Nobody, step |-> "none", left |-> 0]
IdleClient == [op |-> "none", payment |-> Nobody, step |-> "idle", status |-> "NULL", earned |-> FALSE]
IdleWorker == [payment |-> Nobody, step |-> "idle"]

Init ==
    /\ payment = [p \in Payment |-> [status |-> "ABSENT", receipt |-> FALSE, reversed |-> FALSE]]
    /\ held = [p \in Payment |-> Nobody]
    /\ client = [c \in Client |-> IdleClient]
    /\ job = [j \in Job |-> NoJob]
    /\ queue = {}
    /\ worker = [w \in Worker |-> IdleWorker]
    /\ loyalty = [balance |-> 0, redeemed |-> 0, earned |-> {}, reversed |-> {},
                  deducted |-> [p \in Payment |-> 0]]
    /\ receipts = [p \in Payment |-> 0]
    /\ faults = [add |-> 0, sale |-> 0]
-----------------------------------------------------------------------------
Fault(kind) ==
    /\ faults.add + faults.sale < MaxFaults
    /\ faults' = [faults EXCEPT ![kind] = @ + 1]

\* A single UPDATE of a payment: it waits for a transaction that holds the row.
SetStatus(p, status) == held[p] = Nobody /\ payment' = [payment EXCEPT ![p].status = status]

\* A failure to write it is only logged.
SetStatusOrNot(p, status) == SetStatus(p, status) \/ UNCHANGED payment

Released(a) == [p \in Payment |-> IF held[p] = a THEN Nobody ELSE held[p]]
Step(c, step) == client' = [client EXCEPT ![c].step = step]
At(c, op, step) == client[c].op \in op /\ client[c].step = step
-----------------------------------------------------------------------------
(* Requests: a payment and what it sets off, a receipt repeated, a reversal. *)

\* The payment is committed; its method asks for a receipt or does not.
CreatePayment(c, p, status) ==
    /\ client[c] = IdleClient
    /\ payment[p].status = "ABSENT"
    /\ payment' = [payment EXCEPT ![p].status = status]
    /\ client' = [client EXCEPT ![c] = [IdleClient EXCEPT !.op = "create", !.payment = p,
                                           !.step = IF status = "QUEUED" THEN "receipt" ELSE "points"]]
    /\ UNCHANGED <<held, job, queue, worker, loyalty, receipts, faults>>

\* retryFiscal: only a receipt that failed, of a payment that stands.
RetryFiscal(c, p) ==
    /\ client[c] = IdleClient
    /\ payment[p].status = "FAILED" /\ ~payment[p].receipt /\ ~payment[p].reversed
    /\ SetStatus(p, "QUEUED")
    /\ client' = [client EXCEPT ![c] = [IdleClient EXCEPT !.op = "retry", !.payment = p, !.step = "receipt"]]
    /\ UNCHANGED <<held, job, queue, worker, loyalty, receipts, faults>>

AddJob(p) ==
    \E j \in Job :
        /\ job[j] = NoJob
        /\ job' = [job EXCEPT ![j] = [payment |-> p, step |-> "waiting", left |-> Attempts]]

AfterReceipt(c) ==
    client' = [client EXCEPT ![c] = IF @.op = "create" THEN [@ EXCEPT !.step = "points"] ELSE IdleClient]

\* The receipt job is put into the queue; when Redis does not take it, or its answer
\* is lost, the payment is marked FAILED.
EnqueueReceipt(c) ==
    /\ At(c, {"create", "retry"}, "receipt")
    /\ \/ AddJob(client[c].payment) /\ AfterReceipt(c) /\ UNCHANGED faults
       \/ Step(c, "failed") /\ UNCHANGED <<job, faults>>
       \/ AddJob(client[c].payment) /\ Step(c, "failed") /\ Fault("add")
    /\ UNCHANGED <<payment, held, queue, worker, loyalty, receipts>>

MarkFailed(c) ==
    /\ At(c, {"create", "retry"}, "failed")
    /\ SetStatusOrNot(client[c].payment, "FAILED")
    /\ AfterReceipt(c)
    /\ UNCHANGED <<held, job, queue, worker, loyalty, receipts, faults>>

\* queueEarn; a failure is only logged.
QueueEarn(c) ==
    /\ At(c, {"create"}, "points")
    /\ queue' \in {queue, queue \cup {client[c].payment}}
    /\ client' = [client EXCEPT ![c] = IdleClient]
    /\ UNCHANGED <<payment, held, job, worker, loyalty, receipts, faults>>

\* reverse, up to its first write: no receipt, and none under way.
StartReverse(c, p) ==
    /\ client[c] = IdleClient
    /\ payment[p].status \notin {"ABSENT", "DONE", "QUEUED"}
    /\ ~payment[p].receipt /\ ~payment[p].reversed
    /\ client' = [client EXCEPT ![c] = [IdleClient EXCEPT !.op = "reverse", !.payment = p, !.step = "claim",
                                                          !.status = payment[p].status]]
    /\ UNCHANGED <<payment, held, job, queue, worker, loyalty, receipts, faults>>

\* Mutant: the receipt may have been issued since it was read.
FaultyClaimable(c, p) == ~payment[p].reversed

\* Its first write: the payment is as it was read.
Claimable(c, p) ==
    ~payment[p].reversed /\ ~payment[p].receipt /\ payment[p].status = client[c].status
ClaimPayment(c) ==
    LET p == client[c].payment IN
    /\ At(c, {"reverse"}, "claim")
    /\ held[p] = Nobody
    /\ Claimable(c, p)
    /\ held' = [held EXCEPT ![p] = c]
    /\ Step(c, "earns")
    /\ UNCHANGED <<payment, job, queue, worker, loyalty, receipts, faults>>

\* reverseEarn reads what the payment has earned,
ReadEarns(c) ==
    LET p == client[c].payment IN
    /\ At(c, {"reverse"}, "earns")
    /\ client' = [client EXCEPT ![c].step = "deduct",
                                ![c].earned = p \in loyalty.earned \ loyalty.reversed]
    /\ UNCHANGED <<payment, held, job, queue, worker, loyalty, receipts, faults>>

\* and under the lock of the account takes back what is left of it.
Deducted(p) ==
    LET points == IF Points[p] < loyalty.balance THEN Points[p] ELSE loyalty.balance
    IN [loyalty EXCEPT !.balance = @ - points, !.reversed = @ \cup {p}, !.deducted[p] = points]
CommitReverse(c) ==
    LET p == client[c].payment IN
    /\ At(c, {"reverse"}, "deduct")
    /\ loyalty' = IF client[c].earned THEN Deducted(p) ELSE loyalty
    /\ payment' = [payment EXCEPT ![p].reversed = TRUE,
                                  ![p].status = IF @ = "FAILED" THEN "SKIPPED" ELSE @]
    /\ held' = Released(c)
    /\ client' = [client EXCEPT ![c] = IdleClient]
    /\ UNCHANGED <<job, queue, worker, receipts, faults>>

\* A condition that failed, a lost connection or the end of the process.
StopRequest(c) ==
    /\ client[c] # IdleClient
    /\ client' = [client EXCEPT ![c] = IdleClient]
    /\ held' = Released(c)
    /\ UNCHANGED <<payment, job, queue, worker, loyalty, receipts, faults>>
-----------------------------------------------------------------------------
(* The receipt job. *)

EndJob(j) == job' = [job EXCEPT ![j] = NoJob]
AttemptFails(j) ==
    job' = [job EXCEPT ![j].left = @ - 1, ![j].step = IF job[j].left = 1 THEN "failed" ELSE "waiting"]

\* Nothing is left to do for a payment that has its receipt, or is reversed.
TakeJob(j) ==
    LET p == job[j].payment IN
    /\ job[j].step = "waiting"
    /\ IF payment[p].receipt \/ payment[p].reversed THEN EndJob(j)
       ELSE job' = [job EXCEPT ![j].step = "sell"]
    /\ UNCHANGED <<payment, held, client, queue, worker, loyalty, receipts, faults>>

\* The branch has no fiscal service.
SkipReceipt(j) ==
    /\ job[j].step = "sell"
    /\ SetStatusOrNot(job[j].payment, "SKIPPED")
    /\ EndJob(j)
    /\ UNCHANGED <<held, client, queue, worker, loyalty, receipts, faults>>

\* No open shift, or the service refuses or is out of reach.
NoReceipt(j) ==
    /\ job[j].step = "sell"
    /\ AttemptFails(j)
    /\ UNCHANGED <<payment, held, client, queue, worker, loyalty, receipts, faults>>

\* The service issues a receipt; its answer may be lost.
SellReceipt(j) ==
    /\ job[j].step = "sell"
    /\ receipts' = [receipts EXCEPT ![job[j].payment] = @ + 1]
    /\ \/ job' = [job EXCEPT ![j].step = "sold"] /\ UNCHANGED faults
       \/ AttemptFails(j) /\ Fault("sale")
    /\ UNCHANGED <<payment, held, client, queue, worker, loyalty>>

\* The receipt is written to the payment, unless it has one.
WriteReceipt(j) ==
    LET p == job[j].payment IN
    /\ job[j].step = "sold"
    /\ held[p] = Nobody
    /\ payment' = IF payment[p].receipt THEN payment
                  ELSE [payment EXCEPT ![p].receipt = TRUE, ![p].status = "DONE"]
    /\ EndJob(j)
    /\ UNCHANGED <<held, client, queue, worker, loyalty, receipts, faults>>

\* The write fails, or the worker stops before it.
LoseReceipt(j) ==
    /\ job[j].step = "sold"
    /\ \/ AttemptFails(j)
       \/ job' = [job EXCEPT ![j].step = "waiting"]
    /\ Fault("sale")
    /\ UNCHANGED <<payment, held, client, queue, worker, loyalty, receipts>>

\* onFailed, after the last attempt.
OnFailed(j) ==
    /\ job[j].step = "failed"
    /\ SetStatusOrNot(job[j].payment, "FAILED")
    /\ EndJob(j)
    /\ UNCHANGED <<held, client, queue, worker, loyalty, receipts, faults>>
-----------------------------------------------------------------------------
(* The points job, and points that are spent. *)

TakeEarn(w, p) ==
    /\ p \in queue
    /\ worker[w] = IdleWorker
    /\ worker' = [worker EXCEPT ![w] = [payment |-> p, step |-> "hold"]]
    /\ UNCHANGED <<payment, held, client, job, queue, loyalty, receipts, faults>>

\* Acknowledged, or not: then it is delivered again.
Finish(w) ==
    /\ worker' = [worker EXCEPT ![w] = IdleWorker]
    /\ queue' \in {queue, queue \ {worker[w].payment}}

\* Mutant: the payment is looked at and not held.
FaultyHolding(w, p) == held

\* earn writes the payment without changing it, so as to hold it.
Holding(w, p) == [held EXCEPT ![p] = w]
HoldPayment(w) ==
    LET p == worker[w].payment IN
    /\ worker[w].step = "hold"
    /\ held[p] = Nobody /\ ~payment[p].reversed
    /\ held' = Holding(w, p)
    /\ worker' = [worker EXCEPT ![w].step = "grant"]
    /\ UNCHANGED <<payment, client, job, queue, loyalty, receipts, faults>>

\* One EARN for a payment.
Grant(w) ==
    LET p == worker[w].payment IN
    /\ worker[w].step = "grant"
    /\ loyalty' = IF p \in loyalty.earned THEN loyalty
                  ELSE [loyalty EXCEPT !.balance = @ + Points[p], !.earned = @ \cup {p}]
    /\ held' = Released(w)
    /\ Finish(w)
    /\ UNCHANGED <<payment, client, job, receipts, faults>>

\* The payment is reversed, the programme is off, the worker or the transaction
\* fails, or the attempts are used up: nothing is granted.
NoGrant(w) ==
    /\ worker[w] # IdleWorker
    /\ held' = Released(w)
    /\ Finish(w)
    /\ UNCHANGED <<payment, client, job, loyalty, receipts, faults>>

\* redeem: no more than there is.
Redeem(n) ==
    /\ n <= loyalty.balance
    /\ loyalty' = [loyalty EXCEPT !.balance = @ - n, !.redeemed = @ + n]
    /\ UNCHANGED <<payment, held, client, job, queue, worker, receipts, faults>>
-----------------------------------------------------------------------------
Most == MapThenSumSet(LAMBDA p : Points[p], Payment)

ClientStep(c) ==
    \/ \E p \in Payment : \/ \E status \in {"NULL", "QUEUED"} : CreatePayment(c, p, status)
                          \/ RetryFiscal(c, p) \/ StartReverse(c, p)
    \/ EnqueueReceipt(c) \/ MarkFailed(c) \/ QueueEarn(c)
    \/ ClaimPayment(c) \/ ReadEarns(c) \/ CommitReverse(c) \/ StopRequest(c)
JobStep(j) ==
    \/ TakeJob(j) \/ SkipReceipt(j) \/ NoReceipt(j) \/ SellReceipt(j)
    \/ WriteReceipt(j) \/ LoseReceipt(j) \/ OnFailed(j)
PointsStep ==
    \/ \E w \in Worker : \/ \E p \in Payment : TakeEarn(w, p)
                         \/ HoldPayment(w) \/ Grant(w) \/ NoGrant(w)
    \/ \E n \in 1..Most : Redeem(n)

Next == (\E c \in Client : ClientStep(c)) \/ (\E j \in Job : JobStep(j)) \/ PointsStep
Spec == Init /\ [][Next]_vars
-----------------------------------------------------------------------------
Sum(f, X) == MapThenSumSet(LAMBDA p : f[p], X)

\* A payment that is reversed, however its points job was delayed or repeated, has
\* its points taken back, and no other payment has.
PointsFollowReversals ==
    \A p \in Payment : p \in loyalty.earned /\ payment[p].reversed <=> p \in loyalty.reversed

\* Points follow the payments; the balance is what was granted less what was taken
\* back and spent, never below zero; only points already spent stay with the client.
PointsExplained ==
    /\ PointsFollowReversals
    /\ loyalty.balance >= 0
    /\ loyalty.balance = Sum(Points, loyalty.earned)
                         - Sum(loyalty.deducted, loyalty.reversed) - loyalty.redeemed
    /\ Sum(Points, loyalty.reversed) - Sum(loyalty.deducted, loyalty.reversed) <= loyalty.redeemed

\* A reversed payment has no receipt and gets none, whatever its jobs and requests do,
\* unless Redis lost an answer; receipts the service could not tell of are its own.
ReversedHasNoReceipt ==
    \A p \in Payment :
        payment[p].reversed /\ faults.add = 0 =>
            /\ ~payment[p].receipt /\ payment[p].status \notin {"QUEUED", "DONE"}
            /\ receipts[p] <= faults.sale

\* And every other payment has one receipt: each one more needs an answer of the
\* fiscal service, or of Redis, that got lost.
ReceiptsExplained ==
    /\ ReversedHasNoReceipt
    /\ \A p \in Payment : /\ receipts[p] <= 1 + faults.sale + faults.add
                          /\ payment[p].receipt => receipts[p] > 0
=============================================================================
