------------------------ MODULE PaymentAftermathProofs ------------------------
(* Proofs about PaymentAftermath, for any payments and any number of requests,  *)
(* jobs, workers, attempts and lost answers.                                    *)
(* Beside the invariant of the steps stand two accounts: of the points that     *)
(* were granted and taken back, and of the receipts a payment may still get.    *)
EXTENDS PaymentAftermath, SumTheorems, TLAPS

Status == {"ABSENT", "NULL", "QUEUED", "FAILED", "SKIPPED", "DONE"}
Named == Payment \cup {Nobody}
PaymentType == [status: Status, receipt: BOOLEAN, reversed: BOOLEAN]
ClientType == [op: {"none", "create", "retry", "reverse"}, payment: Named,
               step: {"idle", "receipt", "failed", "points", "claim", "earns", "deduct"},
               status: Status, earned: BOOLEAN]
JobType == [payment: Named, step: {"none", "waiting", "sell", "sold", "failed"}, left: Int]
WorkerType == [payment: Named, step: {"idle", "hold", "grant"}]
LoyaltyType == [balance: Int, redeemed: Int, earned: SUBSET Payment, reversed: SUBSET Payment,
                deducted: [Payment -> Int]]

Typed ==
    /\ payment \in [Payment -> PaymentType]
    /\ held \in [Payment -> Client \cup Worker \cup {Nobody}]
    /\ client \in [Client -> ClientType]
    /\ job \in [Job -> JobType]
    /\ queue \subseteq Payment
    /\ worker \in [Worker -> WorkerType]
    /\ loyalty \in LoyaltyType
    /\ receipts \in [Payment -> Nat]
    /\ faults \in [add: Nat, sale: Nat]

Enqueuing(c) == client[c].op \in {"create", "retry"} /\ client[c].step \in {"receipt", "failed"}
Claiming(c) == client[c].op = "reverse" /\ client[c].step = "claim"
Reversing(c) == client[c].op = "reverse" /\ client[c].step \in {"earns", "deduct"}
Active(j) == job[j].step # "none"
Settled(p) == payment[p].status \notin {"ABSENT", "QUEUED", "DONE"} /\ ~payment[p].receipt
Pending(p) == payment[p].status = "QUEUED" /\ ~payment[p].receipt /\ ~payment[p].reversed

\* Whoever works on a payment works on one.
Referenced == 
    /\ \A c \in Client : client[c].op # "none" => client[c].payment \in Payment
    /\ \A j \in Job : Active(j) => job[j].payment \in Payment
    /\ \A w \in Worker : worker[w].step # "idle" => worker[w].payment \in Payment

\* A reversal that has made its claim and a worker that grants points hold the
\* payment, and nobody changes it, or what it has earned, meanwhile.
ClaimsRead == \A c \in Client : Claiming(c) => client[c].status \notin {"ABSENT", "QUEUED", "DONE"}
ReversalsHold ==
    \A c \in Client : Reversing(c) =>
        /\ held[client[c].payment] = c
        /\ Settled(client[c].payment) /\ ~payment[client[c].payment].reversed
        /\ client[c].step = "deduct" =>
              (client[c].earned <=> client[c].payment \in loyalty.earned \ loyalty.reversed)
GrantsHold ==
    \A w \in Worker : worker[w].step = "grant" =>
        held[worker[w].payment] = w /\ ~payment[worker[w].payment].reversed
NothingAbsent ==
    \A p \in Payment : payment[p].status = "ABSENT" => ~payment[p].receipt /\ ~payment[p].reversed
Holders == ClaimsRead /\ ReversalsHold /\ GrantsHold /\ NothingAbsent /\ PointsFollowReversals

\* As long as Redis lost no answer, one request or one job cares for the receipt of
\* a payment, which is QUEUED then; a receipt that was issued is on the payment,
\* about to be written, or was lost.
RequestsCare == \A c \in Client : Enqueuing(c) => Pending(client[c].payment)
JobsCare == \A j \in Job : Active(j) => Pending(job[j].payment)
OneRequest ==
    \A c, d \in Client : Enqueuing(c) /\ Enqueuing(d) /\ client[c].payment = client[d].payment => c = d
OneJob == \A i, j \in Job : Active(i) /\ Active(j) /\ job[i].payment = job[j].payment => i = j
RequestOrJob ==
    \A c \in Client, j \in Job : Enqueuing(c) /\ Active(j) => client[c].payment # job[j].payment
Accounted ==
    \A p \in Payment :
        \/ receipts[p] <= faults.sale
        \/ payment[p].receipt
        \/ /\ receipts[p] <= faults.sale + 1
           /\ \E j \in Job : job[j].step = "sold" /\ job[j].payment = p
ReversedSettled == \A p \in Payment : payment[p].reversed => Settled(p) /\ receipts[p] <= faults.sale
OneCares ==
    RequestsCare /\ JobsCare /\ OneRequest /\ OneJob /\ RequestOrJob /\ Accounted /\ ReversedSettled

AftermathInvariant == Typed /\ Referenced /\ Holders /\ (faults.add = 0 => OneCares)
-----------------------------------------------------------------------------
(* Records and single writes. *)

\* A status that a request or a job writes, or fails to write, holding nothing: a
\* payment that somebody holds stays, and nothing but the status changes.
StatusGoes(p, status) ==
    /\ payment' \in [Payment -> PaymentType]
    /\ \A q \in Payment : q # p \/ held[p] # Nobody => payment'[q] = payment[q]
    /\ \A q \in Payment : /\ payment'[q].receipt = payment[q].receipt
                           /\ payment'[q].reversed = payment[q].reversed
                           /\ payment'[q].status \in {status, payment[q].status}

LEMMA StatusWritten ==
    ASSUME Typed, NEW p \in Payment, NEW status \in {"QUEUED", "FAILED", "SKIPPED"},
           SetStatusOrNot(p, status)
    PROVE  StatusGoes(p, status)
  BY DEF Typed, SetStatusOrNot, SetStatus, PaymentType, Status, StatusGoes

LEMMA ClientWritten ==
    ASSUME NEW r \in ClientType, NEW s \in {"points", "failed", "deduct"}, NEW e \in BOOLEAN
    PROVE  /\ [r EXCEPT !.step = s] \in ClientType
           /\ [r EXCEPT !.step = s].op = r.op /\ [r EXCEPT !.step = s].payment = r.payment
           /\ [r EXCEPT !.step = s].step = s
           /\ [r EXCEPT !.step = s, !.earned = e] \in ClientType
  BY DEF ClientType

LEMMA IdleTyped == /\ IdleClient \in ClientType /\ IdleClient.op = "none" /\ IdleClient.step = "idle"
                   /\ NoJob \in JobType /\ NoJob.step = "none"
  BY DEF IdleClient, NoJob, ClientType, JobType, Named, Status

LEMMA JobWritten ==
    ASSUME NEW r \in JobType, NEW s \in {"sell", "sold", "failed", "waiting"}
    PROVE  /\ [r EXCEPT !.step = s] \in JobType
           /\ [r EXCEPT !.step = s].payment = r.payment /\ [r EXCEPT !.step = s].step = s
  BY DEF JobType

LEMMA PaymentGetsReceipt ==
    ASSUME NEW r \in PaymentType
    PROVE  LET new == [r EXCEPT !.receipt = TRUE, !.status = "DONE"]
           IN new \in PaymentType /\ new.receipt /\ new.status = "DONE" /\ new.reversed = r.reversed
  BY DEF PaymentType, Status

LEMMA PointsSpent ==
    ASSUME NEW l \in LoyaltyType, NEW b \in Int, NEW n \in Int
    PROVE  [l EXCEPT !.balance = b, !.redeemed = n] \in LoyaltyType
  BY DEF LoyaltyType

\* What a request and a job do next: nothing else changes.
RequestGoes(c, ops, steps) ==
    /\ client' \in [Client -> ClientType]
    /\ \A d \in Client \ {c} : client'[d] = client[d]
    /\ client'[c].op \in ops /\ client'[c].step \in steps
    /\ client'[c].op # "none" => client'[c].payment = client[c].payment
JobGoes(j, steps) ==
    /\ job' \in [Job -> JobType]
    /\ \A i \in Job \ {j} : job'[i] = job[i]
    /\ job'[j].step \in steps
    /\ job'[j].step # "none" => job'[j].payment = job[j].payment

LEMMA RequestGoesOn ==
    ASSUME Typed, NEW c \in Client, client[c].op \in {"create", "retry"}, AfterReceipt(c)
    PROVE  RequestGoes(c, {"none", "create"}, {"idle", "points"})
  <1>1. CASE client[c].op = "create"
    <2> DEFINE r == [client[c] EXCEPT !.step = "points"]
    <2>1. r \in ClientType /\ r.op = "create" /\ r.step = "points" /\ r.payment = client[c].payment
      BY <1>1, ClientWritten DEF Typed
    <2>2. client' = [client EXCEPT ![c] = r]
      BY <1>1 DEF AfterReceipt, Typed
    <2> HIDE DEF r
    <2> QED BY <2>1, <2>2 DEF RequestGoes, Typed
  <1>2. CASE client[c].op # "create"
    <2>1. client' = [client EXCEPT ![c] = IdleClient]
      BY <1>2 DEF AfterReceipt, Typed
    <2> QED BY <2>1, IdleTyped DEF RequestGoes, Typed
  <1> QED BY <1>1, <1>2

LEMMA JobStepped ==
    ASSUME Typed, NEW j \in Job, NEW r \in JobType, job' = [job EXCEPT ![j] = r],
           r.step = "none" \/ r.payment = job[j].payment
    PROVE  JobGoes(j, {r.step})
  BY DEF JobGoes, Typed

LEMMA AttemptEnds ==
    ASSUME Typed, NEW j \in Job, AttemptFails(j)
    PROVE  JobGoes(j, {"failed", "waiting"})
  <1> DEFINE s == IF job[j].left = 1 THEN "failed" ELSE "waiting"
             n == job[j].left - 1
             r == [job[j] EXCEPT !.left = n, !.step = s]
  <1>1. s \in {"failed", "waiting"} /\ n \in Int
    BY DEF Typed, JobType
  <1>2. job' = [job EXCEPT ![j] = r]
    BY DEF AttemptFails
  <1> HIDE DEF s, n
  <1>3. r \in JobType /\ r.payment = job[j].payment /\ r.step = s
    <2>1. job[j] \in JobType
      BY DEF Typed
    <2> QED BY <1>1, <2>1 DEF JobType
  <1> HIDE DEF r
  <1> QED BY <1>1, <1>2, <1>3 DEF JobGoes, Typed

LEMMA JobEnds ==
    ASSUME Typed, NEW j \in Job, EndJob(j)
    PROVE  JobGoes(j, {"none"})
  BY IdleTyped, JobStepped DEF EndJob
-----------------------------------------------------------------------------
(* Every step keeps the invariant. *)

LEMMA CreatePaymentKeeps ==
    ASSUME AftermathInvariant, NEW c \in Client, NEW p \in Payment, NEW status \in {"NULL", "QUEUED"},
           CreatePayment(c, p, status)
    PROVE  AftermathInvariant'
  <1> USE DEF AftermathInvariant, Typed, PaymentType, ClientType, JobType, WorkerType, Status, Named
  <1>1. Typed'
    <2>1. payment' \in [Payment -> PaymentType]
      BY PaymentAftermathAssumption DEF CreatePayment, IdleClient
    <2>2. client' \in [Client -> ClientType]
      BY PaymentAftermathAssumption DEF CreatePayment, IdleClient
    <2> QED BY <2>1, <2>2 DEF CreatePayment
  <1>2. Referenced'
    BY DEF Referenced, Active, CreatePayment, IdleClient
  <1>3. Holders'
    BY PaymentAftermathAssumption DEF Referenced, Holders, ClaimsRead, ReversalsHold, GrantsHold,
       NothingAbsent, PointsFollowReversals, Claiming, Reversing, Settled, LoyaltyType, CreatePayment,
       IdleClient
  <1>4. ASSUME faults'.add = 0 PROVE OneCares'
    <2> USE DEF Enqueuing, Active, Pending, Settled
    <2>1. faults.add = 0 /\ OneCares
      BY <1>4 DEF CreatePayment, IdleClient
    <2> QED BY <1>4, <2>1 DEF Referenced, Holders, ReversalsHold, NothingAbsent, Reversing, OneCares,
               RequestsCare, JobsCare, OneRequest, OneJob, RequestOrJob, Accounted, ReversedSettled,
               CreatePayment, IdleClient
  <1> QED BY <1>1, <1>2, <1>3, <1>4

LEMMA RetryFiscalKeeps ==
    ASSUME AftermathInvariant, NEW c \in Client, NEW p \in Payment, RetryFiscal(c, p)
    PROVE  AftermathInvariant'
  <1> USE DEF AftermathInvariant, Typed, PaymentType, ClientType, JobType, WorkerType, Status, Named
  <1>1. Typed'
    <2>1. payment' \in [Payment -> PaymentType]
      BY PaymentAftermathAssumption DEF RetryFiscal, IdleClient, SetStatus
    <2>2. client' \in [Client -> ClientType]
      BY PaymentAftermathAssumption DEF RetryFiscal, IdleClient, SetStatus
    <2> QED BY <2>1, <2>2 DEF RetryFiscal
  <1>2. Referenced'
    BY DEF Referenced, Active, RetryFiscal, IdleClient, SetStatus
  <1>3. Holders'
    BY PaymentAftermathAssumption DEF Referenced, Holders, ClaimsRead, ReversalsHold, GrantsHold,
       NothingAbsent, PointsFollowReversals, Claiming, Reversing, Settled, LoyaltyType, RetryFiscal,
       IdleClient, SetStatus
  <1>4. ASSUME faults'.add = 0 PROVE OneCares'
    <2> USE DEF Enqueuing, Active, Pending, Settled
    <2>1. faults.add = 0 /\ OneCares
      BY <1>4 DEF RetryFiscal, IdleClient, SetStatus
    <2> QED BY <1>4, <2>1 DEF Referenced, Holders, ReversalsHold, NothingAbsent, Reversing, OneCares,
               RequestsCare, JobsCare, OneRequest, OneJob, RequestOrJob, Accounted, ReversedSettled,
               RetryFiscal, IdleClient, SetStatus
  <1> QED BY <1>1, <1>2, <1>3, <1>4

LEMMA EnqueueReceiptKeeps ==
    ASSUME AftermathInvariant, NEW c \in Client, EnqueueReceipt(c)
    PROVE  AftermathInvariant'
  <1> USE DEF AftermathInvariant
  <1>a. /\ client[c].op \in {"create", "retry"} /\ client[c].step = "receipt" /\ client[c].payment \in Payment
        /\ UNCHANGED <<payment, held, queue, worker, loyalty, receipts>>
    BY DEF EnqueueReceipt, At, Referenced
  <1>b. RequestGoes(c, {"none", "create", "retry"}, {"idle", "points", "failed"})
    <2>1. CASE AfterReceipt(c)
      BY <1>a, <2>1, RequestGoesOn DEF RequestGoes
    <2>2. CASE Step(c, "failed")
      <3> DEFINE r == [client[c] EXCEPT !.step = "failed"]
      <3>1. r \in ClientType /\ r.op = client[c].op /\ r.payment = client[c].payment /\ r.step = "failed"
        BY ClientWritten DEF Typed
      <3>2. client' = [client EXCEPT ![c] = r]
        BY <2>2 DEF Step
      <3> HIDE DEF r
      <3> QED BY <1>a, <3>1, <3>2 DEF RequestGoes, Typed
    <2> QED BY <2>1, <2>2 DEF EnqueueReceipt
  <1>c. \/ job' = job
        \/ \E j \in Job : /\ job' \in [Job -> JobType] /\ job[j].step = "none"
                          /\ \A i \in Job \ {j} : job'[i] = job[i]
                          /\ job'[j].step = "waiting" /\ job'[j].payment = client[c].payment
    <2> SUFFICES ASSUME AddJob(client[c].payment)
                 PROVE  \E j \in Job : /\ job' \in [Job -> JobType] /\ job[j].step = "none"
                                       /\ \A i \in Job \ {j} : job'[i] = job[i]
                                       /\ job'[j].step = "waiting" /\ job'[j].payment = client[c].payment
      BY DEF EnqueueReceipt
    <2> DEFINE n == [payment |-> client[c].payment, step |-> "waiting", left |-> Attempts]
    <2>1. n \in JobType /\ n.step = "waiting" /\ n.payment = client[c].payment
      BY <1>a, PaymentAftermathAssumption DEF JobType, Named
    <2>2. PICK j \in Job : job[j] = NoJob /\ job' = [job EXCEPT ![j] = n]
      BY DEF AddJob
    <2> HIDE DEF n
    <2> QED BY <2>1, <2>2, IdleTyped DEF Typed
  <1>d. /\ faults' \in [add: Nat, sale: Nat] /\ faults'.sale = faults.sale
        /\ faults' = faults \/ faults'.add # 0
        /\ faults' = faults => UNCHANGED job \/ client'[c].step # "failed"
    <2>1. CASE AddJob(client[c].payment) /\ AfterReceipt(c) /\ UNCHANGED faults
      BY <1>a, <2>1, RequestGoesOn DEF RequestGoes, Typed
    <2>2. CASE UNCHANGED <<job, faults>>
      BY <2>2 DEF Typed
    <2>3. CASE Fault("add")
      BY <2>3 DEF Fault, Typed
    <2> QED BY <2>1, <2>2, <2>3 DEF EnqueueReceipt
  <1>e. ASSUME NEW j \in Job, job'[j].step # "none"
        PROVE  \/ job'[j] = job[j]
               \/ job' # job /\ job'[j].step = "waiting" /\ job'[j].payment = client[c].payment
    <2>1. CASE job' = job
      BY <2>1
    <2>2. CASE job' # job
      <3>1. PICK i \in Job : /\ job' \in [Job -> JobType] /\ job[i].step = "none"
                             /\ \A k \in Job \ {i} : job'[k] = job[k]
                             /\ job'[i].step = "waiting" /\ job'[i].payment = client[c].payment
        BY <1>c, <2>2
      <3> QED BY <2>2, <3>1
    <2> QED BY <2>1, <2>2
  <1>1. Typed'
    BY <1>a, <1>b, <1>c, <1>d DEF Typed, RequestGoes
  <1>2. Referenced'
    <2>1. \A d \in Client : client'[d].op # "none" => client'[d].payment \in Payment
      BY <1>a, <1>b DEF Referenced, RequestGoes
    <2>2. \A j \in Job : job'[j].step # "none" => job'[j].payment \in Payment
      BY <1>a, <1>e DEF Referenced, Active
    <2>3. \A w \in Worker : worker'[w].step # "idle" => worker'[w].payment \in Payment
      BY <1>a DEF Referenced
    <2> QED BY <2>1, <2>2, <2>3 DEF Referenced, Active
  <1>3. Holders'
    <2>1. ClaimsRead'
      BY <1>a, <1>b, <1>c, <1>d DEF Referenced, Holders, ClaimsRead, Claiming, RequestGoes
    <2>2. ReversalsHold'
      BY <1>a, <1>b, <1>c, <1>d, PaymentAftermathAssumption DEF Referenced, Holders, ReversalsHold,
         Reversing, Settled, RequestGoes
    <2>3. GrantsHold'
      BY <1>a, <1>b, <1>c, <1>d, PaymentAftermathAssumption DEF Referenced, Holders, GrantsHold, RequestGoes
    <2>4. NothingAbsent' /\ PointsFollowReversals'
      BY <1>a, <1>b, <1>c, <1>d DEF Holders, NothingAbsent, PointsFollowReversals, RequestGoes
    <2> QED BY <2>1, <2>2, <2>3, <2>4 DEF Holders
  <1>4. ASSUME faults'.add = 0 PROVE OneCares'
    <2> USE DEF Enqueuing, Active, Pending, Settled
    <2>1. faults.add = 0 /\ OneCares
      BY <1>a, <1>b, <1>c, <1>d, <1>4 DEF RequestGoes
    <2>2. RequestsCare'
      BY <1>a, <1>b, <1>c, <1>d, <1>4, <2>1 DEF Referenced, OneCares, RequestsCare, JobsCare,
         OneRequest, RequestOrJob, NothingAbsent, Holders, RequestGoes
    <2>c. Pending(client[c].payment)
      BY <1>a, <2>1 DEF OneCares, RequestsCare
    <2>3. JobsCare'
      <3>1. ASSUME NEW j \in Job, job'[j].step # "none" PROVE Pending(job'[j].payment)
        BY <1>e, <2>1, <2>c, <3>1 DEF OneCares, JobsCare
      <3> QED BY <1>a, <3>1 DEF JobsCare
    <2>4. OneRequest'
      BY <1>a, <1>b, <1>c, <1>d, <1>4, <2>1 DEF Referenced, OneCares, OneRequest, RequestsCare,
         NothingAbsent, Holders, RequestGoes
    <2>5. OneJob'
      BY <1>a, <1>b, <1>c, <1>d, <1>4, <2>1 DEF Referenced, OneCares, OneJob, RequestOrJob, RequestGoes
    <2>6. RequestOrJob'
      <3> SUFFICES ASSUME NEW d \in Client, NEW j \in Job, Enqueuing(d)', job'[j].step # "none",
                          client'[d].payment = job'[j].payment
                   PROVE  FALSE
        BY DEF RequestOrJob
      <3>1. Enqueuing(d) /\ client'[d].payment = client[d].payment
        BY <1>a, <1>b DEF RequestGoes
      <3>2. job'[j].step = "waiting" /\ job'[j].payment = client[c].payment /\ job' # job
        BY <1>e, <2>1, <3>1 DEF OneCares, RequestOrJob
      <3>3. d = c
        BY <1>a, <2>1, <3>1, <3>2 DEF OneCares, OneRequest
      <3> QED BY <1>a, <1>b, <1>d, <1>4, <2>1, <3>2, <3>3 DEF RequestGoes
    <2>7. Accounted'
      BY <1>a, <1>b, <1>c, <1>d, <1>4, <2>1 DEF Referenced, OneCares, Typed, Accounted, JobsCare,
         OneJob, Holders, NothingAbsent, RequestGoes
    <2>8. ReversedSettled'
      BY <1>a, <1>b, <1>c, <1>d, <1>4, <2>1 DEF Referenced, OneCares, Typed, ReversedSettled,
         RequestsCare, JobsCare, Accounted, Holders, ReversalsHold, Reversing, RequestGoes
    <2> QED BY <2>2, <2>3, <2>4, <2>5, <2>6, <2>7, <2>8 DEF OneCares
  <1> QED BY <1>1, <1>2, <1>3, <1>4

LEMMA MarkFailedKeeps ==
    ASSUME AftermathInvariant, NEW c \in Client, MarkFailed(c)
    PROVE  AftermathInvariant'
  <1> USE DEF AftermathInvariant
  <1>a. /\ client[c].op \in {"create", "retry"} /\ client[c].step = "failed" /\ client[c].payment \in Payment
        /\ UNCHANGED <<held, job, queue, worker, loyalty, receipts, faults>>
    BY DEF MarkFailed, At, Referenced
  <1>b. RequestGoes(c, {"none", "create"}, {"idle", "points"})
    BY <1>a, RequestGoesOn DEF MarkFailed
  <1>c. StatusGoes(client[c].payment, "FAILED")
    BY <1>a, StatusWritten DEF MarkFailed
  <1>1. Typed'
    BY <1>a, <1>b, <1>c DEF Typed, RequestGoes, StatusGoes
  <1>2. Referenced'
    BY <1>a, <1>b, <1>c DEF Referenced, Active, RequestGoes, StatusGoes
  <1>3. Holders'
    <2>1. ClaimsRead'
      BY <1>a, <1>b, <1>c DEF Referenced, Holders, ClaimsRead, Claiming, RequestGoes, StatusGoes
    <2>2. ReversalsHold'
      BY <1>a, <1>b, <1>c, PaymentAftermathAssumption DEF Referenced, Holders, ReversalsHold, Reversing,
         Settled, RequestGoes, StatusGoes
    <2>3. GrantsHold'
      BY <1>a, <1>b, <1>c, PaymentAftermathAssumption DEF Referenced, Holders, GrantsHold, RequestGoes,
         StatusGoes
    <2>4. NothingAbsent' /\ PointsFollowReversals'
      BY <1>a, <1>b, <1>c DEF Holders, NothingAbsent, PointsFollowReversals, RequestGoes, StatusGoes
    <2> QED BY <2>1, <2>2, <2>3, <2>4 DEF Holders
  <1>4. ASSUME faults'.add = 0 PROVE OneCares'
    <2> USE DEF Enqueuing, Active, Pending, Settled
    <2>1. faults.add = 0 /\ OneCares
      BY <1>a, <1>b, <1>c, <1>4 DEF RequestGoes, StatusGoes
    <2>2. RequestsCare'
      BY <1>a, <1>b, <1>c, <1>4, <2>1 DEF Referenced, OneCares, RequestsCare, JobsCare, OneRequest,
         RequestOrJob, NothingAbsent, Holders, RequestGoes, StatusGoes
    <2>3. JobsCare'
      BY <1>a, <1>b, <1>c, <1>4, <2>1 DEF Referenced, OneCares, RequestsCare, JobsCare, OneJob,
         RequestOrJob, NothingAbsent, Holders, RequestGoes, StatusGoes
    <2>4. OneRequest'
      BY <1>a, <1>b, <1>c, <1>4, <2>1 DEF Referenced, OneCares, OneRequest, RequestsCare, NothingAbsent,
         Holders, RequestGoes, StatusGoes
    <2>5. OneJob'
      BY <1>a, <1>b, <1>c, <1>4, <2>1 DEF Referenced, OneCares, OneJob, RequestOrJob, RequestGoes,
         StatusGoes
    <2>6. RequestOrJob'
      BY <1>a, <1>b, <1>c, <1>4, <2>1 DEF Referenced, OneCares, RequestOrJob, OneJob, JobsCare,
         RequestsCare, RequestGoes, StatusGoes
    <2>7. Accounted'
      BY <1>a, <1>b, <1>c, <1>4, <2>1 DEF Referenced, OneCares, Typed, Accounted, JobsCare, OneJob,
         Holders, NothingAbsent, RequestGoes, StatusGoes
    <2>8. ReversedSettled'
      BY <1>a, <1>b, <1>c, <1>4, <2>1 DEF Referenced, OneCares, Typed, ReversedSettled, RequestsCare,
         JobsCare, Accounted, Holders, ReversalsHold, Reversing, RequestGoes, StatusGoes
    <2> QED BY <2>2, <2>3, <2>4, <2>5, <2>6, <2>7, <2>8 DEF OneCares
  <1> QED BY <1>1, <1>2, <1>3, <1>4

LEMMA QueueEarnKeeps ==
    ASSUME AftermathInvariant, NEW c \in Client, QueueEarn(c)
    PROVE  AftermathInvariant'
  <1> USE DEF AftermathInvariant, Typed, PaymentType, ClientType, JobType, WorkerType, Status, Named
  <1>1. Typed'
    <2>1. queue' \subseteq Payment
      BY DEF Referenced, QueueEarn, At
    <2>2. client' \in [Client -> ClientType]
      BY PaymentAftermathAssumption DEF QueueEarn, At, IdleClient
    <2> QED BY <2>1, <2>2 DEF QueueEarn
  <1>2. Referenced'
    BY DEF Referenced, Active, QueueEarn, At, IdleClient
  <1>3. Holders'
    BY PaymentAftermathAssumption DEF Referenced, Holders, ClaimsRead, ReversalsHold, GrantsHold,
       NothingAbsent, PointsFollowReversals, Claiming, Reversing, Settled, LoyaltyType, QueueEarn, At,
       IdleClient
  <1>4. ASSUME faults'.add = 0 PROVE OneCares'
    <2> USE DEF Enqueuing, Active, Pending, Settled
    <2>1. faults.add = 0 /\ OneCares
      BY <1>4 DEF QueueEarn, At, IdleClient
    <2> QED BY <1>4, <2>1 DEF Referenced, Holders, ReversalsHold, NothingAbsent, Reversing, OneCares,
               RequestsCare, JobsCare, OneRequest, OneJob, RequestOrJob, Accounted, ReversedSettled,
               QueueEarn, At, IdleClient
  <1> QED BY <1>1, <1>2, <1>3, <1>4

LEMMA StartReverseKeeps ==
    ASSUME AftermathInvariant, NEW c \in Client, NEW p \in Payment, StartReverse(c, p)
    PROVE  AftermathInvariant'
  <1> USE DEF AftermathInvariant, Typed, PaymentType, ClientType, JobType, WorkerType, Status, Named
  <1>1. Typed'
    BY PaymentAftermathAssumption DEF LoyaltyType, StartReverse, IdleClient
  <1>2. Referenced'
    BY DEF Referenced, Active, StartReverse, IdleClient
  <1>3. Holders'
    BY PaymentAftermathAssumption DEF Referenced, Holders, ClaimsRead, ReversalsHold, GrantsHold,
       NothingAbsent, PointsFollowReversals, Claiming, Reversing, Settled, LoyaltyType, StartReverse,
       IdleClient
  <1>4. ASSUME faults'.add = 0 PROVE OneCares'
    <2> USE DEF Enqueuing, Active, Pending, Settled
    <2>1. faults.add = 0 /\ OneCares
      BY <1>4 DEF StartReverse, IdleClient
    <2> QED BY <1>4, <2>1 DEF Referenced, Holders, ReversalsHold, NothingAbsent, Reversing, OneCares,
               RequestsCare, JobsCare, OneRequest, OneJob, RequestOrJob, Accounted, ReversedSettled,
               StartReverse, IdleClient
  <1> QED BY <1>1, <1>2, <1>3, <1>4

LEMMA ClaimPaymentKeeps ==
    ASSUME AftermathInvariant, NEW c \in Client, ClaimPayment(c)
    PROVE  AftermathInvariant'
  <1> USE DEF AftermathInvariant, Typed, PaymentType, ClientType, JobType, WorkerType, Status, Named
  <1>1. Typed'
    <2>1. held' \in [Payment -> Client \cup Worker \cup {Nobody}]
      BY PaymentAftermathAssumption DEF ClaimPayment, At, Claimable, Step
    <2>2. client' \in [Client -> ClientType]
      BY PaymentAftermathAssumption DEF ClaimPayment, At, Claimable, Step
    <2> QED BY <2>1, <2>2 DEF ClaimPayment
  <1>2. Referenced'
    BY DEF Referenced, Active, ClaimPayment, At, Claimable, Step
  <1>3. Holders'
    BY PaymentAftermathAssumption DEF Referenced, Holders, ClaimsRead, ReversalsHold, GrantsHold,
       NothingAbsent, PointsFollowReversals, Claiming, Reversing, Settled, LoyaltyType, ClaimPayment,
       At, Claimable, Step
  <1>4. ASSUME faults'.add = 0 PROVE OneCares'
    <2> USE DEF Enqueuing, Active, Pending, Settled
    <2>1. faults.add = 0 /\ OneCares
      BY <1>4 DEF ClaimPayment, At, Claimable, Step
    <2> QED BY <1>4, <2>1 DEF Referenced, Holders, ReversalsHold, NothingAbsent, Reversing, OneCares,
               RequestsCare, JobsCare, OneRequest, OneJob, RequestOrJob, Accounted, ReversedSettled,
               ClaimPayment, At, Claimable, Step
  <1> QED BY <1>1, <1>2, <1>3, <1>4

LEMMA ReadEarnsKeeps ==
    ASSUME AftermathInvariant, NEW c \in Client, ReadEarns(c)
    PROVE  AftermathInvariant'
  <1> USE DEF AftermathInvariant, Typed, PaymentType, ClientType, JobType, WorkerType, Status, Named
  <1>1. Typed'
    <2>1. client' \in [Client -> ClientType]
      <3> DEFINE e == client[c].payment \in loyalty.earned \ loyalty.reversed
      <3>1. e \in BOOLEAN
        OBVIOUS
      <3>2. client' = [client EXCEPT ![c] = [client[c] EXCEPT !.step = "deduct", !.earned = e]]
        BY DEF ReadEarns
      <3> HIDE DEF e, ClientType
      <3>3. [client[c] EXCEPT !.step = "deduct", !.earned = e] \in ClientType
        BY <3>1, ClientWritten
      <3> QED BY <3>2, <3>3
    <2> QED BY <2>1 DEF ReadEarns
  <1>2. Referenced'
    BY DEF Referenced, Active, ReadEarns, At
  <1>3. Holders'
    BY PaymentAftermathAssumption DEF Referenced, Holders, ClaimsRead, ReversalsHold, GrantsHold,
       NothingAbsent, PointsFollowReversals, Claiming, Reversing, Settled, LoyaltyType, ReadEarns, At
  <1>4. ASSUME faults'.add = 0 PROVE OneCares'
    <2> USE DEF Enqueuing, Active, Pending, Settled
    <2>1. faults.add = 0 /\ OneCares
      BY <1>4 DEF ReadEarns, At
    <2> QED BY <1>4, <2>1 DEF Referenced, Holders, ReversalsHold, NothingAbsent, Reversing, OneCares,
               RequestsCare, JobsCare, OneRequest, OneJob, RequestOrJob, Accounted, ReversedSettled,
               ReadEarns, At
  <1> QED BY <1>1, <1>2, <1>3, <1>4

LEMMA CommitReverseKeeps ==
    ASSUME AftermathInvariant, NEW c \in Client, CommitReverse(c)
    PROVE  AftermathInvariant'
  <1> USE DEF AftermathInvariant
  <1>a. /\ Reversing(c) /\ client[c].step = "deduct" /\ client[c].payment \in Payment
        /\ UNCHANGED <<job, queue, worker, receipts, faults>>
    BY DEF CommitReverse, At, Reversing, Referenced
  <1>b. RequestGoes(c, {"none"}, {"idle"})
    BY IdleTyped DEF CommitReverse, RequestGoes, Typed
  <1>c. /\ held[client[c].payment] = c /\ Settled(client[c].payment) /\ ~payment[client[c].payment].reversed
        /\ client[c].earned <=> client[c].payment \in loyalty.earned \ loyalty.reversed
    BY <1>a DEF Holders, ReversalsHold
  <1>d. /\ payment' \in [Payment -> PaymentType]
        /\ \A q \in Payment \ {client[c].payment} : payment'[q] = payment[q]
        /\ payment'[client[c].payment].reversed /\ ~payment'[client[c].payment].receipt
        /\ payment'[client[c].payment].status \notin {"ABSENT", "QUEUED", "DONE"}
    <2> DEFINE r == [payment[client[c].payment] EXCEPT !.reversed = TRUE,
                                                      !.status = IF @ = "FAILED" THEN "SKIPPED" ELSE @]
    <2>1. payment' = [payment EXCEPT ![client[c].payment] = r]
      BY DEF CommitReverse
    <2>2. payment[client[c].payment] \in PaymentType
      BY <1>a DEF Typed
    <2>3. r \in PaymentType /\ r.reversed /\ r.receipt = payment[client[c].payment].receipt
      BY <2>2 DEF PaymentType, Status
    <2>4. r.status \in {"SKIPPED", payment[client[c].payment].status}
      BY <2>2 DEF PaymentType
    <2> HIDE DEF r
    <2> QED BY <1>a, <1>c, <2>1, <2>3, <2>4 DEF Typed, Settled
  <1>e. /\ held' \in [Payment -> Client \cup Worker \cup {Nobody}]
        /\ \A q \in Payment : held[q] # c => held'[q] = held[q]
    BY DEF CommitReverse, Released, Typed
  <1>f. /\ loyalty' \in LoyaltyType /\ loyalty'.earned = loyalty.earned
        /\ loyalty'.reversed = loyalty.reversed \cup IF client[c].earned THEN {client[c].payment} ELSE {}
    <2>1. CASE client[c].earned
      <3>1. loyalty' = Deducted(client[c].payment)
        BY <2>1 DEF CommitReverse
      <3> DEFINE n == IF Points[client[c].payment] < loyalty.balance THEN Points[client[c].payment] ELSE loyalty.balance
      <3>2. n \in Int /\ loyalty.balance - n \in Int /\ loyalty \in LoyaltyType
        BY <1>a, PaymentAftermathAssumption DEF Typed, LoyaltyType
      <3>3. loyalty' = [loyalty EXCEPT !.balance = loyalty.balance - n, !.reversed = @ \cup {client[c].payment},
                                       !.deducted[client[c].payment] = n]
        BY <3>1 DEF Deducted
      <3> HIDE DEF n
      <3>4. loyalty' \in LoyaltyType
        BY <1>a, <3>2, <3>3 DEF LoyaltyType
      <3>5. loyalty'.earned = loyalty.earned /\ loyalty'.reversed = loyalty.reversed \cup {client[c].payment}
        BY <3>2, <3>3 DEF LoyaltyType
      <3> QED BY <2>1, <3>4, <3>5
    <2>2. CASE ~client[c].earned
      BY <2>2 DEF CommitReverse, Typed
    <2> QED BY <2>1, <2>2
  <1>1. Typed'
    BY <1>a, <1>b, <1>c, <1>d, <1>e, <1>f DEF Typed, RequestGoes
  <1>2. Referenced'
    BY <1>a, <1>b, <1>c, <1>d, <1>e, <1>f DEF Referenced, Active, RequestGoes
  <1>3. Holders'
    <2>1. ClaimsRead'
      BY <1>a, <1>b, <1>c, <1>d, <1>e, <1>f DEF Referenced, Holders, ClaimsRead, Claiming, RequestGoes
    <2>2. ReversalsHold'
      BY <1>a, <1>b, <1>c, <1>d, <1>e, <1>f, PaymentAftermathAssumption DEF Referenced, Holders,
         ReversalsHold, Reversing, Settled, RequestGoes
    <2>3. GrantsHold'
      BY <1>a, <1>b, <1>c, <1>d, <1>e, <1>f, PaymentAftermathAssumption DEF Referenced, Holders,
         GrantsHold, RequestGoes
    <2>4. NothingAbsent' /\ PointsFollowReversals'
      BY <1>a, <1>b, <1>c, <1>d, <1>e, <1>f DEF Holders, NothingAbsent, PointsFollowReversals, RequestGoes
    <2> QED BY <2>1, <2>2, <2>3, <2>4 DEF Holders
  <1>4. ASSUME faults'.add = 0 PROVE OneCares'
    <2> USE DEF Enqueuing, Active, Pending, Settled
    <2>1. faults.add = 0 /\ OneCares
      BY <1>a, <1>b, <1>c, <1>d, <1>e, <1>f, <1>4 DEF RequestGoes
    <2>2. RequestsCare'
      BY <1>a, <1>b, <1>c, <1>d, <1>e, <1>f, <1>4, <2>1 DEF Referenced, OneCares, RequestsCare,
         JobsCare, OneRequest, RequestOrJob, NothingAbsent, Holders, RequestGoes
    <2>3. JobsCare'
      BY <1>a, <1>b, <1>c, <1>d, <1>e, <1>f, <1>4, <2>1 DEF Referenced, OneCares, RequestsCare,
         JobsCare, OneJob, RequestOrJob, NothingAbsent, Holders, RequestGoes
    <2>4. OneRequest'
      BY <1>a, <1>b, <1>c, <1>d, <1>e, <1>f, <1>4, <2>1 DEF Referenced, OneCares, OneRequest,
         RequestsCare, NothingAbsent, Holders, RequestGoes
    <2>5. OneJob'
      BY <1>a, <1>b, <1>c, <1>d, <1>e, <1>f, <1>4, <2>1 DEF Referenced, OneCares, OneJob, RequestOrJob,
         RequestGoes
    <2>6. RequestOrJob'
      BY <1>a, <1>b, <1>c, <1>d, <1>e, <1>f, <1>4, <2>1 DEF Referenced, OneCares, RequestOrJob, OneJob,
         JobsCare, RequestsCare, RequestGoes
    <2>7. Accounted'
      BY <1>a, <1>b, <1>c, <1>d, <1>e, <1>f, <1>4, <2>1 DEF Referenced, OneCares, Typed, Accounted,
         JobsCare, OneJob, Holders, NothingAbsent, RequestGoes
    <2>8. ReversedSettled'
      BY <1>a, <1>b, <1>c, <1>d, <1>e, <1>f, <1>4, <2>1 DEF Referenced, OneCares, Typed,
         ReversedSettled, RequestsCare, JobsCare, Accounted, Holders, ReversalsHold, Reversing,
         RequestGoes
    <2> QED BY <2>2, <2>3, <2>4, <2>5, <2>6, <2>7, <2>8 DEF OneCares
  <1> QED BY <1>1, <1>2, <1>3, <1>4

LEMMA StopRequestKeeps ==
    ASSUME AftermathInvariant, NEW c \in Client, StopRequest(c)
    PROVE  AftermathInvariant'
  <1> USE DEF AftermathInvariant, Typed, PaymentType, ClientType, JobType, WorkerType, Status, Named
  <1>1. Typed'
    BY PaymentAftermathAssumption DEF LoyaltyType, StopRequest, Released, IdleClient
  <1>2. Referenced'
    BY DEF Referenced, Active, StopRequest, Released, IdleClient
  <1>3. Holders'
    BY PaymentAftermathAssumption DEF Referenced, Holders, ClaimsRead, ReversalsHold, GrantsHold,
       NothingAbsent, PointsFollowReversals, Claiming, Reversing, Settled, LoyaltyType, StopRequest,
       Released, IdleClient
  <1>4. ASSUME faults'.add = 0 PROVE OneCares'
    <2> USE DEF Enqueuing, Active, Pending, Settled
    <2>1. faults.add = 0 /\ OneCares
      BY <1>4 DEF StopRequest, Released, IdleClient
    <2> QED BY <1>4, <2>1 DEF Referenced, Holders, ReversalsHold, NothingAbsent, Reversing, OneCares,
               RequestsCare, JobsCare, OneRequest, OneJob, RequestOrJob, Accounted, ReversedSettled,
               StopRequest, Released, IdleClient
  <1> QED BY <1>1, <1>2, <1>3, <1>4

LEMMA TakeJobKeeps ==
    ASSUME AftermathInvariant, NEW j \in Job, TakeJob(j)
    PROVE  AftermathInvariant'
  <1> USE DEF AftermathInvariant
  <1>a. /\ job[j].step = "waiting" /\ job[j].payment \in Payment
        /\ UNCHANGED <<payment, held, client, queue, worker, loyalty, receipts, faults>>
    BY DEF TakeJob, Referenced, Active
  <1>b. JobGoes(j, {"none", "sell"})
    <2>1. CASE EndJob(j)
      BY <2>1, JobEnds DEF JobGoes
    <2>2. CASE job' = [job EXCEPT ![j].step = "sell"]
      <3> DEFINE r == [job[j] EXCEPT !.step = "sell"]
      <3>1. job[j] \in JobType /\ job' = [job EXCEPT ![j] = r]
        BY <2>2 DEF Typed
      <3>2. r \in JobType /\ r.payment = job[j].payment /\ r.step = "sell"
        BY <3>1, JobWritten
      <3> HIDE DEF r
      <3>3. JobGoes(j, {"sell"})
        BY <3>1, <3>2, JobStepped
      <3> QED BY <3>3 DEF JobGoes
    <2> QED BY <2>1, <2>2 DEF TakeJob
  <1>1. Typed'
    BY <1>a, <1>b DEF Typed, JobGoes
  <1>2. Referenced'
    BY <1>a, <1>b DEF Referenced, Active, JobGoes
  <1>3. Holders'
    <2>1. ClaimsRead'
      BY <1>a, <1>b DEF Referenced, Holders, ClaimsRead, Claiming, JobGoes
    <2>2. ReversalsHold'
      BY <1>a, <1>b, PaymentAftermathAssumption DEF Referenced, Holders, ReversalsHold, Reversing,
         Settled, JobGoes
    <2>3. GrantsHold'
      BY <1>a, <1>b, PaymentAftermathAssumption DEF Referenced, Holders, GrantsHold, JobGoes
    <2>4. NothingAbsent' /\ PointsFollowReversals'
      BY <1>a, <1>b DEF Holders, NothingAbsent, PointsFollowReversals, JobGoes
    <2> QED BY <2>1, <2>2, <2>3, <2>4 DEF Holders
  <1>4. ASSUME faults'.add = 0 PROVE OneCares'
    <2> USE DEF Enqueuing, Active, Pending, Settled
    <2>1. faults.add = 0 /\ OneCares
      BY <1>a, <1>b, <1>4 DEF JobGoes
    <2>2. RequestsCare'
      BY <1>a, <1>b, <1>4, <2>1 DEF Referenced, OneCares, RequestsCare, JobsCare, OneRequest,
         RequestOrJob, NothingAbsent, Holders, JobGoes
    <2>3. JobsCare'
      BY <1>a, <1>b, <1>4, <2>1 DEF Referenced, OneCares, RequestsCare, JobsCare, OneJob, RequestOrJob,
         NothingAbsent, Holders, JobGoes
    <2>4. OneRequest'
      BY <1>a, <1>b, <1>4, <2>1 DEF Referenced, OneCares, OneRequest, RequestsCare, NothingAbsent,
         Holders, JobGoes
    <2>5. OneJob'
      BY <1>a, <1>b, <1>4, <2>1 DEF Referenced, OneCares, OneJob, RequestOrJob, JobGoes
    <2>6. RequestOrJob'
      BY <1>a, <1>b, <1>4, <2>1 DEF Referenced, OneCares, RequestOrJob, OneJob, JobsCare, RequestsCare,
         JobGoes
    <2>7. Accounted'
      BY <1>a, <1>b, <1>4, <2>1 DEF Referenced, OneCares, Typed, Accounted, JobsCare, OneJob, Holders,
         NothingAbsent, JobGoes
    <2>8. ReversedSettled'
      BY <1>a, <1>b, <1>4, <2>1 DEF Referenced, OneCares, Typed, ReversedSettled, RequestsCare,
         JobsCare, Accounted, Holders, ReversalsHold, Reversing, JobGoes
    <2> QED BY <2>2, <2>3, <2>4, <2>5, <2>6, <2>7, <2>8 DEF OneCares
  <1> QED BY <1>1, <1>2, <1>3, <1>4

LEMMA SkipReceiptKeeps ==
    ASSUME AftermathInvariant, NEW j \in Job, SkipReceipt(j)
    PROVE  AftermathInvariant'
  <1> USE DEF AftermathInvariant
  <1>a. /\ job[j].step \in {"sell", "failed"} /\ job[j].payment \in Payment
        /\ UNCHANGED <<held, client, queue, worker, loyalty, receipts, faults>>
    BY DEF SkipReceipt, Referenced, Active
  <1>b. JobGoes(j, {"none"})
    BY JobEnds DEF SkipReceipt
  <1>c. StatusGoes(job[j].payment, "SKIPPED")
    BY <1>a, StatusWritten DEF SkipReceipt
  <1>1. Typed'
    BY <1>a, <1>b, <1>c DEF Typed, JobGoes, StatusGoes
  <1>2. Referenced'
    BY <1>a, <1>b, <1>c DEF Referenced, Active, JobGoes, StatusGoes
  <1>3. Holders'
    <2>1. ClaimsRead'
      BY <1>a, <1>b, <1>c DEF Referenced, Holders, ClaimsRead, Claiming, JobGoes, StatusGoes
    <2>2. ReversalsHold'
      BY <1>a, <1>b, <1>c, PaymentAftermathAssumption DEF Referenced, Holders, ReversalsHold, Reversing,
         Settled, JobGoes, StatusGoes
    <2>3. GrantsHold'
      BY <1>a, <1>b, <1>c, PaymentAftermathAssumption DEF Referenced, Holders, GrantsHold, JobGoes,
         StatusGoes
    <2>4. NothingAbsent' /\ PointsFollowReversals'
      BY <1>a, <1>b, <1>c DEF Holders, NothingAbsent, PointsFollowReversals, JobGoes, StatusGoes
    <2> QED BY <2>1, <2>2, <2>3, <2>4 DEF Holders
  <1>4. ASSUME faults'.add = 0 PROVE OneCares'
    <2> USE DEF Enqueuing, Active, Pending, Settled
    <2>1. faults.add = 0 /\ OneCares
      BY <1>a, <1>b, <1>c, <1>4 DEF JobGoes, StatusGoes
    <2>2. RequestsCare'
      BY <1>a, <1>b, <1>c, <1>4, <2>1 DEF Referenced, OneCares, RequestsCare, JobsCare, OneRequest,
         RequestOrJob, NothingAbsent, Holders, JobGoes, StatusGoes
    <2>3. JobsCare'
      BY <1>a, <1>b, <1>c, <1>4, <2>1 DEF Referenced, OneCares, RequestsCare, JobsCare, OneJob,
         RequestOrJob, NothingAbsent, Holders, JobGoes, StatusGoes
    <2>4. OneRequest'
      BY <1>a, <1>b, <1>c, <1>4, <2>1 DEF Referenced, OneCares, OneRequest, RequestsCare, NothingAbsent,
         Holders, JobGoes, StatusGoes
    <2>5. OneJob'
      BY <1>a, <1>b, <1>c, <1>4, <2>1 DEF Referenced, OneCares, OneJob, RequestOrJob, JobGoes, StatusGoes
    <2>6. RequestOrJob'
      BY <1>a, <1>b, <1>c, <1>4, <2>1 DEF Referenced, OneCares, RequestOrJob, OneJob, JobsCare,
         RequestsCare, JobGoes, StatusGoes
    <2>7. Accounted'
      BY <1>a, <1>b, <1>c, <1>4, <2>1 DEF Referenced, OneCares, Typed, Accounted, JobsCare, OneJob,
         Holders, NothingAbsent, JobGoes, StatusGoes
    <2>8. ReversedSettled'
      BY <1>a, <1>b, <1>c, <1>4, <2>1 DEF Referenced, OneCares, Typed, ReversedSettled, RequestsCare,
         JobsCare, Accounted, Holders, ReversalsHold, Reversing, JobGoes, StatusGoes
    <2> QED BY <2>2, <2>3, <2>4, <2>5, <2>6, <2>7, <2>8 DEF OneCares
  <1> QED BY <1>1, <1>2, <1>3, <1>4

LEMMA NoReceiptKeeps ==
    ASSUME AftermathInvariant, NEW j \in Job, NoReceipt(j)
    PROVE  AftermathInvariant'
  <1> USE DEF AftermathInvariant
  <1>a. /\ job[j].step = "sell" /\ job[j].payment \in Payment
        /\ UNCHANGED <<payment, held, client, queue, worker, loyalty, receipts, faults>>
    BY DEF NoReceipt, Referenced, Active
  <1>b. JobGoes(j, {"failed", "waiting"})
    BY AttemptEnds DEF NoReceipt
  <1>1. Typed'
    BY <1>a, <1>b DEF Typed, JobGoes
  <1>2. Referenced'
    BY <1>a, <1>b DEF Referenced, Active, JobGoes
  <1>3. Holders'
    <2>1. ClaimsRead'
      BY <1>a, <1>b DEF Referenced, Holders, ClaimsRead, Claiming, JobGoes
    <2>2. ReversalsHold'
      BY <1>a, <1>b, PaymentAftermathAssumption DEF Referenced, Holders, ReversalsHold, Reversing,
         Settled, JobGoes
    <2>3. GrantsHold'
      BY <1>a, <1>b, PaymentAftermathAssumption DEF Referenced, Holders, GrantsHold, JobGoes
    <2>4. NothingAbsent' /\ PointsFollowReversals'
      BY <1>a, <1>b DEF Holders, NothingAbsent, PointsFollowReversals, JobGoes
    <2> QED BY <2>1, <2>2, <2>3, <2>4 DEF Holders
  <1>4. ASSUME faults'.add = 0 PROVE OneCares'
    <2> USE DEF Enqueuing, Active, Pending, Settled
    <2>1. faults.add = 0 /\ OneCares
      BY <1>a, <1>b, <1>4 DEF JobGoes
    <2>2. RequestsCare'
      BY <1>a, <1>b, <1>4, <2>1 DEF Referenced, OneCares, RequestsCare, JobsCare, OneRequest,
         RequestOrJob, NothingAbsent, Holders, JobGoes
    <2>3. JobsCare'
      BY <1>a, <1>b, <1>4, <2>1 DEF Referenced, OneCares, RequestsCare, JobsCare, OneJob, RequestOrJob,
         NothingAbsent, Holders, JobGoes
    <2>4. OneRequest'
      BY <1>a, <1>b, <1>4, <2>1 DEF Referenced, OneCares, OneRequest, RequestsCare, NothingAbsent,
         Holders, JobGoes
    <2>5. OneJob'
      BY <1>a, <1>b, <1>4, <2>1 DEF Referenced, OneCares, OneJob, RequestOrJob, JobGoes
    <2>6. RequestOrJob'
      BY <1>a, <1>b, <1>4, <2>1 DEF Referenced, OneCares, RequestOrJob, OneJob, JobsCare, RequestsCare,
         JobGoes
    <2>7. Accounted'
      BY <1>a, <1>b, <1>4, <2>1 DEF Referenced, OneCares, Typed, Accounted, JobsCare, OneJob, Holders,
         NothingAbsent, JobGoes
    <2>8. ReversedSettled'
      BY <1>a, <1>b, <1>4, <2>1 DEF Referenced, OneCares, Typed, ReversedSettled, RequestsCare,
         JobsCare, Accounted, Holders, ReversalsHold, Reversing, JobGoes
    <2> QED BY <2>2, <2>3, <2>4, <2>5, <2>6, <2>7, <2>8 DEF OneCares
  <1> QED BY <1>1, <1>2, <1>3, <1>4

LEMMA SellReceiptKeeps ==
    ASSUME AftermathInvariant, NEW j \in Job, SellReceipt(j)
    PROVE  AftermathInvariant'
  <1> USE DEF AftermathInvariant
  <1>a. /\ job[j].step = "sell" /\ job[j].payment \in Payment
        /\ UNCHANGED <<payment, held, client, queue, worker, loyalty>>
    BY DEF SellReceipt, Referenced, Active
  <1>b. /\ receipts' \in [Payment -> Nat] /\ receipts'[job[j].payment] = receipts[job[j].payment] + 1
        /\ \A q \in Payment \ {job[j].payment} : receipts'[q] = receipts[q]
    BY <1>a DEF SellReceipt, Typed
  <1>c. /\ JobGoes(j, {"sold", "failed", "waiting"})
        /\ faults' \in [add: Nat, sale: Nat] /\ faults'.add = faults.add
        /\ \/ job'[j].step = "sold" /\ faults'.sale = faults.sale
           \/ faults'.sale = faults.sale + 1
    <2>1. CASE AttemptFails(j) /\ Fault("sale")
      BY <2>1, AttemptEnds DEF JobGoes, Fault, Typed
    <2>2. CASE job' = [job EXCEPT ![j].step = "sold"] /\ UNCHANGED faults
      <3> DEFINE r == [job[j] EXCEPT !.step = "sold"]
      <3>1. job[j] \in JobType /\ job' = [job EXCEPT ![j] = r]
        BY <2>2 DEF Typed
      <3>2. r \in JobType /\ r.payment = job[j].payment /\ r.step = "sold"
        BY <3>1, JobWritten
      <3> HIDE DEF r
      <3>3. JobGoes(j, {"sold"})
        BY <3>1, <3>2, JobStepped
      <3> QED BY <2>2, <3>3 DEF JobGoes, Typed
    <2> QED BY <2>1, <2>2 DEF SellReceipt
  <1>1. Typed'
    BY <1>a, <1>b, <1>c DEF Typed, JobGoes
  <1>2. Referenced'
    BY <1>a, <1>b, <1>c DEF Referenced, Active, JobGoes
  <1>3. Holders'
    <2>1. ClaimsRead'
      BY <1>a, <1>b, <1>c DEF Referenced, Holders, ClaimsRead, Claiming, JobGoes
    <2>2. ReversalsHold'
      BY <1>a, <1>b, <1>c, PaymentAftermathAssumption DEF Referenced, Holders, ReversalsHold, Reversing,
         Settled, JobGoes
    <2>3. GrantsHold'
      BY <1>a, <1>b, <1>c, PaymentAftermathAssumption DEF Referenced, Holders, GrantsHold, JobGoes
    <2>4. NothingAbsent' /\ PointsFollowReversals'
      BY <1>a, <1>b, <1>c DEF Holders, NothingAbsent, PointsFollowReversals, JobGoes
    <2> QED BY <2>1, <2>2, <2>3, <2>4 DEF Holders
  <1>4. ASSUME faults'.add = 0 PROVE OneCares'
    <2> USE DEF Enqueuing, Active, Pending, Settled
    <2>1. faults.add = 0 /\ OneCares
      BY <1>a, <1>b, <1>c, <1>4 DEF JobGoes
    <2>2. RequestsCare'
      BY <1>a, <1>b, <1>c, <1>4, <2>1 DEF Referenced, OneCares, RequestsCare, JobsCare, OneRequest,
         RequestOrJob, NothingAbsent, Holders, JobGoes
    <2>3. JobsCare'
      BY <1>a, <1>b, <1>c, <1>4, <2>1 DEF Referenced, OneCares, RequestsCare, JobsCare, OneJob,
         RequestOrJob, NothingAbsent, Holders, JobGoes
    <2>4. OneRequest'
      BY <1>a, <1>b, <1>c, <1>4, <2>1 DEF Referenced, OneCares, OneRequest, RequestsCare, NothingAbsent,
         Holders, JobGoes
    <2>5. OneJob'
      BY <1>a, <1>b, <1>c, <1>4, <2>1 DEF Referenced, OneCares, OneJob, RequestOrJob, JobGoes
    <2>6. RequestOrJob'
      BY <1>a, <1>b, <1>c, <1>4, <2>1 DEF Referenced, OneCares, RequestOrJob, OneJob, JobsCare,
         RequestsCare, JobGoes
    <2>7. Accounted'
      BY <1>a, <1>b, <1>c, <1>4, <2>1 DEF Referenced, OneCares, Typed, Accounted, JobsCare, OneJob,
         Holders, NothingAbsent, JobGoes
    <2>8. ReversedSettled'
      BY <1>a, <1>b, <1>c, <1>4, <2>1 DEF Referenced, OneCares, Typed, ReversedSettled, RequestsCare,
         JobsCare, Accounted, Holders, ReversalsHold, Reversing, JobGoes
    <2> QED BY <2>2, <2>3, <2>4, <2>5, <2>6, <2>7, <2>8 DEF OneCares
  <1> QED BY <1>1, <1>2, <1>3, <1>4

LEMMA WriteReceiptKeeps ==
    ASSUME AftermathInvariant, NEW j \in Job, WriteReceipt(j)
    PROVE  AftermathInvariant'
  <1> USE DEF AftermathInvariant
  <1>a. /\ job[j].step = "sold" /\ job[j].payment \in Payment /\ held[job[j].payment] = Nobody
        /\ UNCHANGED <<held, client, queue, worker, loyalty, receipts, faults>>
    BY DEF WriteReceipt, Referenced, Active
  <1>b. JobGoes(j, {"none"})
    BY JobEnds DEF WriteReceipt
  <1>c. /\ payment' \in [Payment -> PaymentType]
        /\ \A q \in Payment \ {job[j].payment} : payment'[q] = payment[q]
        /\ payment'[job[j].payment].receipt
        /\ payment'[job[j].payment].reversed = payment[job[j].payment].reversed
        /\ payment'[job[j].payment].status \in {"DONE", payment[job[j].payment].status}
        /\ payment[job[j].payment].receipt \/ payment'[job[j].payment].status = "DONE"
    <2>1. CASE payment[job[j].payment].receipt
      BY <1>a, <2>1 DEF WriteReceipt, Typed
    <2>2. CASE ~payment[job[j].payment].receipt
      <3> DEFINE r == [payment[job[j].payment] EXCEPT !.receipt = TRUE, !.status = "DONE"]
      <3>1. /\ r \in PaymentType /\ r.receipt /\ r.status = "DONE"
            /\ r.reversed = payment[job[j].payment].reversed
        <4>1. payment[job[j].payment] \in PaymentType
          BY <1>a DEF Typed
        <4> QED BY <4>1, PaymentGetsReceipt
      <3>2. payment' = [payment EXCEPT ![job[j].payment] = r]
        BY <2>2 DEF WriteReceipt
      <3> HIDE DEF r
      <3> QED BY <1>a, <2>2, <3>1, <3>2 DEF Typed
    <2> QED BY <2>1, <2>2
  <1>1. Typed'
    BY <1>a, <1>b, <1>c DEF Typed, JobGoes
  <1>2. Referenced'
    BY <1>a, <1>b, <1>c DEF Referenced, Active, JobGoes
  <1>3. Holders'
    <2>1. ClaimsRead'
      BY <1>a, <1>b, <1>c DEF Referenced, Holders, ClaimsRead, Claiming, JobGoes
    <2>2. ReversalsHold'
      BY <1>a, <1>b, <1>c, PaymentAftermathAssumption DEF Referenced, Holders, ReversalsHold, Reversing,
         Settled, JobGoes
    <2>3. GrantsHold'
      BY <1>a, <1>b, <1>c, PaymentAftermathAssumption DEF Referenced, Holders, GrantsHold, JobGoes
    <2>4. NothingAbsent' /\ PointsFollowReversals'
      BY <1>a, <1>b, <1>c DEF Holders, NothingAbsent, PointsFollowReversals, JobGoes
    <2> QED BY <2>1, <2>2, <2>3, <2>4 DEF Holders
  <1>4. ASSUME faults'.add = 0 PROVE OneCares'
    <2> USE DEF Enqueuing, Active, Pending, Settled
    <2>1. faults.add = 0 /\ OneCares
      BY <1>a, <1>b, <1>c, <1>4 DEF JobGoes
    <2>2. RequestsCare'
      BY <1>a, <1>b, <1>c, <1>4, <2>1 DEF Referenced, OneCares, RequestsCare, JobsCare, OneRequest,
         RequestOrJob, NothingAbsent, Holders, JobGoes
    <2>3. JobsCare'
      BY <1>a, <1>b, <1>c, <1>4, <2>1 DEF Referenced, OneCares, RequestsCare, JobsCare, OneJob,
         RequestOrJob, NothingAbsent, Holders, JobGoes
    <2>4. OneRequest'
      BY <1>a, <1>b, <1>c, <1>4, <2>1 DEF Referenced, OneCares, OneRequest, RequestsCare, NothingAbsent,
         Holders, JobGoes
    <2>5. OneJob'
      BY <1>a, <1>b, <1>c, <1>4, <2>1 DEF Referenced, OneCares, OneJob, RequestOrJob, JobGoes
    <2>6. RequestOrJob'
      BY <1>a, <1>b, <1>c, <1>4, <2>1 DEF Referenced, OneCares, RequestOrJob, OneJob, JobsCare,
         RequestsCare, JobGoes
    <2>7. Accounted'
      BY <1>a, <1>b, <1>c, <1>4, <2>1 DEF Referenced, OneCares, Typed, Accounted, JobsCare, OneJob,
         Holders, NothingAbsent, JobGoes
    <2>8. ReversedSettled'
      BY <1>a, <1>b, <1>c, <1>4, <2>1 DEF Referenced, OneCares, Typed, ReversedSettled, RequestsCare,
         JobsCare, Accounted, Holders, ReversalsHold, Reversing, JobGoes
    <2> QED BY <2>2, <2>3, <2>4, <2>5, <2>6, <2>7, <2>8 DEF OneCares
  <1> QED BY <1>1, <1>2, <1>3, <1>4

LEMMA LoseReceiptKeeps ==
    ASSUME AftermathInvariant, NEW j \in Job, LoseReceipt(j)
    PROVE  AftermathInvariant'
  <1> USE DEF AftermathInvariant
  <1>a. /\ job[j].step = "sold" /\ job[j].payment \in Payment
        /\ UNCHANGED <<payment, held, client, queue, worker, loyalty, receipts>>
    BY DEF LoseReceipt, Referenced, Active
  <1>b. faults' \in [add: Nat, sale: Nat] /\ faults'.add = faults.add /\ faults'.sale = faults.sale + 1
    BY DEF LoseReceipt, Fault, Typed
  <1>c. JobGoes(j, {"failed", "waiting"})
    <2>1. CASE AttemptFails(j)
      BY <2>1, AttemptEnds
    <2>2. CASE job' = [job EXCEPT ![j].step = "waiting"]
      <3> DEFINE r == [job[j] EXCEPT !.step = "waiting"]
      <3>1. job[j] \in JobType /\ job' = [job EXCEPT ![j] = r]
        BY <2>2 DEF Typed
      <3>2. r \in JobType /\ r.payment = job[j].payment /\ r.step = "waiting"
        BY <3>1, JobWritten
      <3> HIDE DEF r
      <3>3. JobGoes(j, {"waiting"})
        BY <3>1, <3>2, JobStepped
      <3> QED BY <3>3 DEF JobGoes
    <2> QED BY <2>1, <2>2 DEF LoseReceipt
  <1>1. Typed'
    BY <1>a, <1>b, <1>c DEF Typed, JobGoes
  <1>2. Referenced'
    BY <1>a, <1>b, <1>c DEF Referenced, Active, JobGoes
  <1>3. Holders'
    <2>1. ClaimsRead'
      BY <1>a, <1>b, <1>c DEF Referenced, Holders, ClaimsRead, Claiming, JobGoes
    <2>2. ReversalsHold'
      BY <1>a, <1>b, <1>c, PaymentAftermathAssumption DEF Referenced, Holders, ReversalsHold, Reversing,
         Settled, JobGoes
    <2>3. GrantsHold'
      BY <1>a, <1>b, <1>c, PaymentAftermathAssumption DEF Referenced, Holders, GrantsHold, JobGoes
    <2>4. NothingAbsent' /\ PointsFollowReversals'
      BY <1>a, <1>b, <1>c DEF Holders, NothingAbsent, PointsFollowReversals, JobGoes
    <2> QED BY <2>1, <2>2, <2>3, <2>4 DEF Holders
  <1>4. ASSUME faults'.add = 0 PROVE OneCares'
    <2> USE DEF Enqueuing, Active, Pending, Settled
    <2>1. faults.add = 0 /\ OneCares
      BY <1>a, <1>b, <1>c, <1>4 DEF JobGoes
    <2>2. RequestsCare'
      BY <1>a, <1>b, <1>c, <1>4, <2>1 DEF Referenced, OneCares, RequestsCare, JobsCare, OneRequest,
         RequestOrJob, NothingAbsent, Holders, JobGoes
    <2>3. JobsCare'
      BY <1>a, <1>b, <1>c, <1>4, <2>1 DEF Referenced, OneCares, RequestsCare, JobsCare, OneJob,
         RequestOrJob, NothingAbsent, Holders, JobGoes
    <2>4. OneRequest'
      BY <1>a, <1>b, <1>c, <1>4, <2>1 DEF Referenced, OneCares, OneRequest, RequestsCare, NothingAbsent,
         Holders, JobGoes
    <2>5. OneJob'
      BY <1>a, <1>b, <1>c, <1>4, <2>1 DEF Referenced, OneCares, OneJob, RequestOrJob, JobGoes
    <2>6. RequestOrJob'
      BY <1>a, <1>b, <1>c, <1>4, <2>1 DEF Referenced, OneCares, RequestOrJob, OneJob, JobsCare,
         RequestsCare, JobGoes
    <2>7. Accounted'
      BY <1>a, <1>b, <1>c, <1>4, <2>1 DEF Referenced, OneCares, Typed, Accounted, JobsCare, OneJob,
         Holders, NothingAbsent, JobGoes
    <2>8. ReversedSettled'
      BY <1>a, <1>b, <1>c, <1>4, <2>1 DEF Referenced, OneCares, Typed, ReversedSettled, RequestsCare,
         JobsCare, Accounted, Holders, ReversalsHold, Reversing, JobGoes
    <2> QED BY <2>2, <2>3, <2>4, <2>5, <2>6, <2>7, <2>8 DEF OneCares
  <1> QED BY <1>1, <1>2, <1>3, <1>4

LEMMA OnFailedKeeps ==
    ASSUME AftermathInvariant, NEW j \in Job, OnFailed(j)
    PROVE  AftermathInvariant'
  <1> USE DEF AftermathInvariant
  <1>a. /\ job[j].step \in {"sell", "failed"} /\ job[j].payment \in Payment
        /\ UNCHANGED <<held, client, queue, worker, loyalty, receipts, faults>>
    BY DEF OnFailed, Referenced, Active
  <1>b. JobGoes(j, {"none"})
    BY JobEnds DEF OnFailed
  <1>c. StatusGoes(job[j].payment, "FAILED")
    BY <1>a, StatusWritten DEF OnFailed
  <1>1. Typed'
    BY <1>a, <1>b, <1>c DEF Typed, JobGoes, StatusGoes
  <1>2. Referenced'
    BY <1>a, <1>b, <1>c DEF Referenced, Active, JobGoes, StatusGoes
  <1>3. Holders'
    <2>1. ClaimsRead'
      BY <1>a, <1>b, <1>c DEF Referenced, Holders, ClaimsRead, Claiming, JobGoes, StatusGoes
    <2>2. ReversalsHold'
      BY <1>a, <1>b, <1>c, PaymentAftermathAssumption DEF Referenced, Holders, ReversalsHold, Reversing,
         Settled, JobGoes, StatusGoes
    <2>3. GrantsHold'
      BY <1>a, <1>b, <1>c, PaymentAftermathAssumption DEF Referenced, Holders, GrantsHold, JobGoes,
         StatusGoes
    <2>4. NothingAbsent' /\ PointsFollowReversals'
      BY <1>a, <1>b, <1>c DEF Holders, NothingAbsent, PointsFollowReversals, JobGoes, StatusGoes
    <2> QED BY <2>1, <2>2, <2>3, <2>4 DEF Holders
  <1>4. ASSUME faults'.add = 0 PROVE OneCares'
    <2> USE DEF Enqueuing, Active, Pending, Settled
    <2>1. faults.add = 0 /\ OneCares
      BY <1>a, <1>b, <1>c, <1>4 DEF JobGoes, StatusGoes
    <2>2. RequestsCare'
      BY <1>a, <1>b, <1>c, <1>4, <2>1 DEF Referenced, OneCares, RequestsCare, JobsCare, OneRequest,
         RequestOrJob, NothingAbsent, Holders, JobGoes, StatusGoes
    <2>3. JobsCare'
      BY <1>a, <1>b, <1>c, <1>4, <2>1 DEF Referenced, OneCares, RequestsCare, JobsCare, OneJob,
         RequestOrJob, NothingAbsent, Holders, JobGoes, StatusGoes
    <2>4. OneRequest'
      BY <1>a, <1>b, <1>c, <1>4, <2>1 DEF Referenced, OneCares, OneRequest, RequestsCare, NothingAbsent,
         Holders, JobGoes, StatusGoes
    <2>5. OneJob'
      BY <1>a, <1>b, <1>c, <1>4, <2>1 DEF Referenced, OneCares, OneJob, RequestOrJob, JobGoes, StatusGoes
    <2>6. RequestOrJob'
      BY <1>a, <1>b, <1>c, <1>4, <2>1 DEF Referenced, OneCares, RequestOrJob, OneJob, JobsCare,
         RequestsCare, JobGoes, StatusGoes
    <2>7. Accounted'
      BY <1>a, <1>b, <1>c, <1>4, <2>1 DEF Referenced, OneCares, Typed, Accounted, JobsCare, OneJob,
         Holders, NothingAbsent, JobGoes, StatusGoes
    <2>8. ReversedSettled'
      BY <1>a, <1>b, <1>c, <1>4, <2>1 DEF Referenced, OneCares, Typed, ReversedSettled, RequestsCare,
         JobsCare, Accounted, Holders, ReversalsHold, Reversing, JobGoes, StatusGoes
    <2> QED BY <2>2, <2>3, <2>4, <2>5, <2>6, <2>7, <2>8 DEF OneCares
  <1> QED BY <1>1, <1>2, <1>3, <1>4

LEMMA TakeEarnKeeps ==
    ASSUME AftermathInvariant, NEW w \in Worker, NEW p \in Payment, TakeEarn(w, p)
    PROVE  AftermathInvariant'
  <1> USE DEF AftermathInvariant, Typed, PaymentType, ClientType, JobType, WorkerType, Status, Named
  <1>1. Typed'
    BY PaymentAftermathAssumption DEF LoyaltyType, TakeEarn, IdleWorker
  <1>2. Referenced'
    BY DEF Referenced, Active, TakeEarn, IdleWorker
  <1>3. Holders'
    BY PaymentAftermathAssumption DEF Referenced, Holders, ClaimsRead, ReversalsHold, GrantsHold,
       NothingAbsent, PointsFollowReversals, Claiming, Reversing, Settled, LoyaltyType, TakeEarn,
       IdleWorker
  <1>4. ASSUME faults'.add = 0 PROVE OneCares'
    <2> USE DEF Enqueuing, Active, Pending, Settled
    <2>1. faults.add = 0 /\ OneCares
      BY <1>4 DEF TakeEarn, IdleWorker
    <2> QED BY <1>4, <2>1 DEF Referenced, Holders, ReversalsHold, NothingAbsent, Reversing, OneCares,
               RequestsCare, JobsCare, OneRequest, OneJob, RequestOrJob, Accounted, ReversedSettled,
               TakeEarn, IdleWorker
  <1> QED BY <1>1, <1>2, <1>3, <1>4

LEMMA HoldPaymentKeeps ==
    ASSUME AftermathInvariant, NEW w \in Worker, HoldPayment(w)
    PROVE  AftermathInvariant'
  <1> USE DEF AftermathInvariant, Typed, PaymentType, ClientType, JobType, WorkerType, Status, Named
  <1>1. Typed'
    <2>1. held' \in [Payment -> Client \cup Worker \cup {Nobody}]
      BY PaymentAftermathAssumption DEF HoldPayment, Holding
    <2>2. worker' \in [Worker -> WorkerType]
      BY PaymentAftermathAssumption DEF HoldPayment, Holding
    <2> QED BY <2>1, <2>2 DEF HoldPayment
  <1>2. Referenced'
    BY DEF Referenced, Active, HoldPayment, Holding
  <1>3. Holders'
    BY PaymentAftermathAssumption DEF Referenced, Holders, ClaimsRead, ReversalsHold, GrantsHold,
       NothingAbsent, PointsFollowReversals, Claiming, Reversing, Settled, LoyaltyType, HoldPayment,
       Holding
  <1>4. ASSUME faults'.add = 0 PROVE OneCares'
    <2> USE DEF Enqueuing, Active, Pending, Settled
    <2>1. faults.add = 0 /\ OneCares
      BY <1>4 DEF HoldPayment, Holding
    <2> QED BY <1>4, <2>1 DEF Referenced, Holders, ReversalsHold, NothingAbsent, Reversing, OneCares,
               RequestsCare, JobsCare, OneRequest, OneJob, RequestOrJob, Accounted, ReversedSettled,
               HoldPayment, Holding
  <1> QED BY <1>1, <1>2, <1>3, <1>4

LEMMA GrantKeeps ==
    ASSUME AftermathInvariant, NEW w \in Worker, Grant(w)
    PROVE  AftermathInvariant'
  <1> USE DEF AftermathInvariant, Typed, PaymentType, ClientType, JobType, WorkerType, Status, Named
  <1>1. Typed'
    <2>1. loyalty' \in LoyaltyType
      <3>1. worker[w].payment \in Payment
        BY DEF Grant, Referenced
      <3> DEFINE b == loyalty.balance + Points[worker[w].payment]
      <3>2. b \in Int
        BY <3>1, PaymentAftermathAssumption DEF LoyaltyType
      <3>3. loyalty' \in {loyalty, [loyalty EXCEPT !.balance = b, !.earned = @ \cup {worker[w].payment}]}
        BY DEF Grant
      <3>4. loyalty \in LoyaltyType
        OBVIOUS
      <3> HIDE DEF b, AftermathInvariant, Typed, PaymentType, ClientType, JobType, WorkerType
      <3>5. [loyalty EXCEPT !.balance = b, !.earned = @ \cup {worker[w].payment}] \in LoyaltyType
        BY <3>1, <3>2, <3>4 DEF LoyaltyType
      <3> QED BY <3>3, <3>4, <3>5
    <2>2. held' \in [Payment -> Client \cup Worker \cup {Nobody}]
      BY PaymentAftermathAssumption DEF Grant, Released, Finish, IdleWorker
    <2>3. worker' \in [Worker -> WorkerType]
      BY PaymentAftermathAssumption DEF Grant, Released, Finish, IdleWorker
    <2>4. queue' \subseteq Payment
      BY PaymentAftermathAssumption DEF Grant, Released, Finish, IdleWorker
    <2> QED BY <2>1, <2>2, <2>3, <2>4 DEF Grant
  <1>2. Referenced'
    BY DEF Referenced, Active, Grant, Released, Finish, IdleWorker
  <1>3. Holders'
    BY PaymentAftermathAssumption DEF Referenced, Holders, ClaimsRead, ReversalsHold, GrantsHold,
       NothingAbsent, PointsFollowReversals, Claiming, Reversing, Settled, LoyaltyType, Grant, Released,
       Finish, IdleWorker
  <1>4. ASSUME faults'.add = 0 PROVE OneCares'
    <2> USE DEF Enqueuing, Active, Pending, Settled
    <2>1. faults.add = 0 /\ OneCares
      BY <1>4 DEF Grant, Released, Finish, IdleWorker
    <2> QED BY <1>4, <2>1 DEF Referenced, Holders, ReversalsHold, NothingAbsent, Reversing, OneCares,
               RequestsCare, JobsCare, OneRequest, OneJob, RequestOrJob, Accounted, ReversedSettled,
               Grant, Released, Finish, IdleWorker
  <1> QED BY <1>1, <1>2, <1>3, <1>4

LEMMA NoGrantKeeps ==
    ASSUME AftermathInvariant, NEW w \in Worker, NoGrant(w)
    PROVE  AftermathInvariant'
  <1> USE DEF AftermathInvariant, Typed, PaymentType, ClientType, JobType, WorkerType, Status, Named
  <1>1. Typed'
    BY PaymentAftermathAssumption DEF LoyaltyType, NoGrant, Released, Finish, IdleWorker
  <1>2. Referenced'
    BY DEF Referenced, Active, NoGrant, Released, Finish, IdleWorker
  <1>3. Holders'
    BY PaymentAftermathAssumption DEF Referenced, Holders, ClaimsRead, ReversalsHold, GrantsHold,
       NothingAbsent, PointsFollowReversals, Claiming, Reversing, Settled, LoyaltyType, NoGrant,
       Released, Finish, IdleWorker
  <1>4. ASSUME faults'.add = 0 PROVE OneCares'
    <2> USE DEF Enqueuing, Active, Pending, Settled
    <2>1. faults.add = 0 /\ OneCares
      BY <1>4 DEF NoGrant, Released, Finish, IdleWorker
    <2> QED BY <1>4, <2>1 DEF Referenced, Holders, ReversalsHold, NothingAbsent, Reversing, OneCares,
               RequestsCare, JobsCare, OneRequest, OneJob, RequestOrJob, Accounted, ReversedSettled,
               NoGrant, Released, Finish, IdleWorker
  <1> QED BY <1>1, <1>2, <1>3, <1>4

LEMMA RedeemKeeps ==
    ASSUME AftermathInvariant, NEW n \in 1..Most, Redeem(n)
    PROVE  AftermathInvariant'
  <1> USE DEF AftermathInvariant, Typed, PaymentType, ClientType, JobType, WorkerType, Status, Named
  <1>1. Typed'
    <2>1. loyalty' \in LoyaltyType
      <3> DEFINE b == loyalty.balance - n
                 r == loyalty.redeemed + n
      <3>1. b \in Int /\ r \in Int
        BY DEF LoyaltyType
      <3>2. loyalty' = [loyalty EXCEPT !.balance = b, !.redeemed = r]
        BY DEF Redeem
      <3> HIDE DEF b, r
      <3> QED BY <3>1, <3>2, PointsSpent
    <2> QED BY <2>1 DEF Redeem
  <1>2. Referenced'
    BY DEF Referenced, Active, Redeem
  <1>3. Holders'
    BY PaymentAftermathAssumption DEF Referenced, Holders, ClaimsRead, ReversalsHold, GrantsHold,
       NothingAbsent, PointsFollowReversals, Claiming, Reversing, Settled, LoyaltyType, Redeem
  <1>4. ASSUME faults'.add = 0 PROVE OneCares'
    <2> USE DEF Enqueuing, Active, Pending, Settled
    <2>1. faults.add = 0 /\ OneCares
      BY <1>4 DEF Redeem
    <2> QED BY <1>4, <2>1 DEF Referenced, Holders, ReversalsHold, NothingAbsent, Reversing, OneCares,
               RequestsCare, JobsCare, OneRequest, OneJob, RequestOrJob, Accounted, ReversedSettled,
               Redeem
  <1> QED BY <1>1, <1>2, <1>3, <1>4

\* The invariant behind the two results: Typed, Referenced, Holders and OneCares.
THEOREM AftermathKept == Spec => []AftermathInvariant
  <1>1. Init => AftermathInvariant
    <2> SUFFICES ASSUME Init PROVE AftermathInvariant
      OBVIOUS
    <2>1. Typed
      BY DEF Init, Typed, NoJob, IdleClient, IdleWorker, PaymentType, ClientType, JobType, WorkerType,
             LoyaltyType, Status, Named
    <2>2. \A c \in Client : client[c] = IdleClient
      BY DEF Init
    <2>3. \A j \in Job : job[j] = NoJob
      BY DEF Init
    <2>4. Referenced
      BY <2>2, <2>3 DEF Init, Referenced, Active, NoJob, IdleClient, IdleWorker
    <2>5. Holders
      BY <2>2 DEF Init, Holders, ClaimsRead, ReversalsHold, GrantsHold, NothingAbsent,
             PointsFollowReversals, Claiming, Reversing, IdleClient, IdleWorker
    <2>6. OneCares
      BY <2>2, <2>3 DEF Init, OneCares, RequestsCare, JobsCare, OneRequest, OneJob, RequestOrJob, Accounted,
             ReversedSettled, Enqueuing, Active, IdleClient, NoJob
    <2> QED BY <2>1, <2>4, <2>5, <2>6 DEF AftermathInvariant
  <1>2. AftermathInvariant /\ [Next]_vars => AftermathInvariant'
    <2> SUFFICES ASSUME AftermathInvariant, [Next]_vars PROVE AftermathInvariant'
      OBVIOUS
    <2>1. CASE \E c \in Client : ClientStep(c)
      BY <2>1, CreatePaymentKeeps, RetryFiscalKeeps, StartReverseKeeps, EnqueueReceiptKeeps,
         MarkFailedKeeps,
         QueueEarnKeeps, ClaimPaymentKeeps, ReadEarnsKeeps, CommitReverseKeeps, StopRequestKeeps DEF ClientStep
    <2>2. CASE \E j \in Job : JobStep(j)
      BY <2>2, TakeJobKeeps, SkipReceiptKeeps, NoReceiptKeeps, SellReceiptKeeps, WriteReceiptKeeps,
         LoseReceiptKeeps, OnFailedKeeps DEF JobStep
    <2>3. CASE PointsStep
      BY <2>3, TakeEarnKeeps, HoldPaymentKeeps, GrantKeeps, NoGrantKeeps, RedeemKeeps DEF PointsStep
    <2>4. CASE UNCHANGED vars
      BY <2>4 DEF vars, AftermathInvariant, Typed, Referenced, Holders, ClaimsRead, ReversalsHold,
         GrantsHold,
             NothingAbsent, PointsFollowReversals, OneCares, RequestsCare, JobsCare, OneRequest, OneJob,
             RequestOrJob, Accounted, ReversedSettled, Enqueuing, Claiming, Reversing, Active, Settled, Pending
    <2> QED BY <2>1, <2>2, <2>3, <2>4 DEF Next
  <1> QED BY <1>1, <1>2, PTL DEF Spec

\* However a points job is delayed, repeated or raced by a reversal: a payment that
\* earned points and is reversed has them taken back, and no other has.
THEOREM PointsTakenBack == Spec => []PointsFollowReversals
  <1>1. AftermathInvariant => PointsFollowReversals
    BY DEF AftermathInvariant, Holders
  <1> QED BY <1>1, AftermathKept, PTL

\* Unless Redis lost an answer, a reversed payment has no receipt and gets none, but
\* those whose number the fiscal service could not tell.
THEOREM NoReceiptOfReversed == Spec => []ReversedHasNoReceipt
  <1>1. AftermathInvariant => ReversedHasNoReceipt
    BY DEF AftermathInvariant, OneCares, ReversedSettled, Settled, ReversedHasNoReceipt
  <1> QED BY <1>1, AftermathKept, PTL
-----------------------------------------------------------------------------
(* The points on the account. *)

Granted == Sum(Points, loyalty.earned)
TakenBack == Sum(loyalty.deducted, loyalty.reversed)
Forgone == Sum(Points, loyalty.reversed)

\* What PointsExplained says of the account, and that only points that were granted
\* are taken back.
PointsBooked ==
    /\ loyalty.reversed \subseteq loyalty.earned
    /\ loyalty.balance >= 0
    /\ loyalty.balance = Granted - TakenBack - loyalty.redeemed
    /\ Forgone - TakenBack <= loyalty.redeemed

\* The sums of the module are those of SumTheorems.
LEMMA SumIs ==
    ASSUME NEW f, NEW X
    PROVE  Sum(f, X) = SumFunctionOnSet(f, X)
  BY DEF Sum, MapThenSumSet, SumFunctionOnSet, FoldFunctionOnSet

\* They are integers, and reversed points are some of the granted ones.
LEMMA PointsTyped ==
    ASSUME NEW l \in LoyaltyType
    PROVE  /\ IsFiniteSet(l.earned) /\ IsFiniteSet(l.reversed)
           /\ Sum(Points, l.earned) \in Int /\ Sum(Points, l.reversed) \in Int
           /\ Sum(l.deducted, l.reversed) \in Int
           /\ l.reversed \subseteq l.earned => Sum(Points, l.reversed) <= Sum(Points, l.earned)
  <1>1. /\ l.earned \subseteq Payment /\ l.reversed \subseteq Payment
        /\ l.deducted \in [Payment -> Int]
    BY DEF LoyaltyType
  <1>2. IsFiniteSet(l.earned) /\ IsFiniteSet(l.reversed)
    BY <1>1, PaymentAftermathAssumption, FS_Subset
  <1>3. \A p \in Payment : Points[p] \in Nat /\ Points[p] \in Int /\ l.deducted[p] \in Int
    BY <1>1, PaymentAftermathAssumption
  <1>4. /\ SumFunctionOnSet(Points, l.earned) \in Int
        /\ SumFunctionOnSet(Points, l.reversed) \in Int
        /\ SumFunctionOnSet(l.deducted, l.reversed) \in Int
    BY <1>1, <1>2, <1>3, SumInt
  <1>5. l.reversed \subseteq l.earned =>
            SumFunctionOnSet(Points, l.reversed) <= SumFunctionOnSet(Points, l.earned)
    BY <1>1, <1>2, <1>3, SumSubset
  <1> QED
    BY <1>2, <1>4, <1>5, SumIs

\* One payment more in a sum.
LEMMA PointsAdded ==
    ASSUME NEW f \in [Payment -> Int], NEW X \in SUBSET Payment, NEW p \in Payment \ X
    PROVE  Sum(f, X \cup {p}) = Sum(f, X) + f[p]
  <1>1. IsFiniteSet(X)
    BY PaymentAftermathAssumption, FS_Subset
  <1>2. Summable(f, X \cup {p})
    BY DEF Summable
  <1>3. SumFunctionOnSet(f, X \cup {p}) = SumFunctionOnSet(f, X) + f[p]
    BY <1>1, <1>2, SumExtends
  <1> QED
    BY <1>3, SumIs

\* Points are granted to a payment that has none.
LEMMA GrantKeepsPoints ==
    ASSUME AftermathInvariant, PointsBooked, NEW w \in Worker, Grant(w)
    PROVE  PointsBooked'
  <1> DEFINE p == worker[w].payment
  <1>1. p \in Payment /\ loyalty \in LoyaltyType
    BY DEF Grant, AftermathInvariant, Referenced, Typed
  <1>2. CASE loyalty' = loyalty
    BY <1>2 DEF PointsBooked, Granted, TakenBack, Forgone
  <1>3. CASE loyalty' # loyalty
    <2> DEFINE balance == loyalty.balance + Points[p]
               earned == loyalty.earned \cup {p}
    <2>1. p \notin loyalty.earned
          /\ loyalty' = [loyalty EXCEPT !.balance = balance, !.earned = earned]
      BY <1>3 DEF Grant
    <2>2. /\ loyalty'.balance = balance /\ loyalty'.earned = earned
          /\ loyalty'.reversed = loyalty.reversed /\ loyalty'.deducted = loyalty.deducted
          /\ loyalty'.redeemed = loyalty.redeemed
      <3> HIDE DEF balance, earned
      <3> QED
        BY <1>1, <2>1 DEF LoyaltyType
    <2>3. Points \in [Payment -> Int] /\ Points[p] \in Nat
      BY <1>1, PaymentAftermathAssumption
    <2>4. loyalty.earned \in SUBSET Payment
      BY <1>1 DEF LoyaltyType
    <2>5. Sum(Points, earned) = Sum(Points, loyalty.earned) + Points[p]
      <3> HIDE DEF p
      <3> QED
        BY <1>1, <2>1, <2>3, <2>4, PointsAdded
    <2>6. Granted' = Granted + Points[p] /\ TakenBack' = TakenBack /\ Forgone' = Forgone
      BY <2>2, <2>5 DEF Granted, TakenBack, Forgone
    <2>7. Granted \in Int /\ TakenBack \in Int
      BY <1>1, PointsTyped DEF Granted, TakenBack
    <2>8. loyalty.balance \in Int /\ loyalty.redeemed \in Int
      BY <1>1 DEF LoyaltyType
    <2>9. loyalty'.balance >= 0 /\ loyalty'.balance = Granted' - TakenBack' - loyalty'.redeemed
      <3> DEFINE n == Points[p]
                 b == loyalty.balance
                 r == loyalty.redeemed
                 g == Granted
                 t == TakenBack
      <3>1. b >= 0 /\ b = g - t - r /\ n \in Nat /\ b \in Int /\ r \in Int /\ g \in Int /\ t \in Int
        BY <2>3, <2>7, <2>8 DEF PointsBooked
      <3> HIDE DEF n, b, r, g, t
      <3>2. b + n >= 0 /\ b + n = (g + n) - t - r
        BY <3>1
      <3> QED
        BY <2>2, <2>6, <3>2 DEF n, b, r, g, t
    <2> QED
      BY <2>2, <2>6, <2>9 DEF PointsBooked
  <1> QED
    BY <1>2, <1>3

\* A reversal takes back the points of its payment, or as many as are left.
LEMMA CommitReverseKeepsPoints ==
    ASSUME AftermathInvariant, PointsBooked, NEW c \in Client, CommitReverse(c)
    PROVE  PointsBooked'
  <1> DEFINE p == client[c].payment
  <1>1. /\ p \in Payment /\ loyalty \in LoyaltyType
        /\ client[c].earned => p \in loyalty.earned \ loyalty.reversed
    BY DEF CommitReverse, At, AftermathInvariant, Referenced, Typed, Holders, ReversalsHold, Reversing
  <1>2. CASE ~client[c].earned
    BY <1>2 DEF CommitReverse, PointsBooked, Granted, TakenBack, Forgone
  <1>3. CASE client[c].earned
    <2> DEFINE n == IF Points[p] < loyalty.balance THEN Points[p] ELSE loyalty.balance
               balance == loyalty.balance - n
               reversed == loyalty.reversed \cup {p}
               deducted == [loyalty.deducted EXCEPT ![p] = n]
    <2>1. /\ loyalty.earned \in SUBSET Payment /\ loyalty.reversed \in SUBSET Payment
          /\ loyalty.deducted \in [Payment -> Int]
          /\ loyalty.balance \in Int /\ loyalty.redeemed \in Int
      BY <1>1 DEF LoyaltyType
    <2>2. Points \in [Payment -> Int] /\ Points[p] \in Nat
      BY <1>1, PaymentAftermathAssumption
    <2>3. /\ n \in Int /\ n <= loyalty.balance
          /\ n = Points[p] \/ (n = loyalty.balance /\ n <= Points[p])
      BY <2>1, <2>2
    <2>4. loyalty' = [loyalty EXCEPT !.balance = balance, !.reversed = reversed, !.deducted = deducted]
      BY <1>3 DEF CommitReverse, Deducted
    <2>5. /\ loyalty'.balance = balance /\ loyalty'.reversed = reversed
          /\ loyalty'.deducted = deducted
          /\ loyalty'.earned = loyalty.earned /\ loyalty'.redeemed = loyalty.redeemed
      <3> HIDE DEF balance, reversed, deducted
      <3> QED
        BY <1>1, <2>4 DEF LoyaltyType
    <2>6. p \in loyalty.earned /\ p \in Payment \ loyalty.reversed
      BY <1>1, <1>3
    <2>7. deducted \in [Payment -> Int] /\ deducted[p] = n
          /\ \A q \in loyalty.reversed : deducted[q] = loyalty.deducted[q]
      <3> HIDE DEF n, p
      <3> QED
        BY <2>1, <2>3, <2>6
    <2>8. TakenBack' = TakenBack + n
      <3> HIDE DEF n, deducted, p
      <3>1. Sum(deducted, loyalty.reversed \cup {p}) = Sum(deducted, loyalty.reversed) + deducted[p]
        BY <2>1, <2>6, <2>7, PointsAdded
      <3>2. Sum(deducted, loyalty.reversed) = Sum(loyalty.deducted, loyalty.reversed)
        <4>1. IsFiniteSet(loyalty.reversed)
          BY <1>1, PointsTyped
        <4>2. SumFunctionOnSet(deducted, loyalty.reversed)
                  = SumFunctionOnSet(loyalty.deducted, loyalty.reversed)
          BY <2>7, <4>1, SumAgree
        <4> QED
          BY <4>2, SumIs
      <3> QED
        BY <2>5, <2>7, <3>1, <3>2 DEF TakenBack
    <2>9. Forgone' = Forgone + Points[p] /\ Granted' = Granted
      <3> HIDE DEF p
      <3>1. Sum(Points, loyalty.reversed \cup {p}) = Sum(Points, loyalty.reversed) + Points[p]
        BY <2>1, <2>2, <2>6, PointsAdded
      <3> QED
        BY <2>5, <3>1 DEF Forgone, Granted
    <2>10. reversed \subseteq loyalty.earned
      BY <2>6 DEF PointsBooked
    <2>11. Forgone + Points[p] <= Granted
      <3> HIDE DEF p
      <3>1. reversed \in SUBSET loyalty.earned /\ \A q \in loyalty.earned : Points[q] \in Nat
        BY <2>1, <2>10, PaymentAftermathAssumption
      <3>2. IsFiniteSet(loyalty.earned)
        BY <1>1, PointsTyped
      <3> HIDE DEF reversed
      <3>3. SumFunctionOnSet(Points, reversed) <= SumFunctionOnSet(Points, loyalty.earned)
        BY <3>1, <3>2, SumSubset
      <3>4. Sum(Points, reversed) <= Granted
        BY <3>3, SumIs DEF Granted
      <3>5. Sum(Points, reversed) = Forgone + Points[p]
        BY <2>1, <2>2, <2>6, PointsAdded DEF Forgone, reversed
      <3> QED
        BY <3>4, <3>5
    <2>12. /\ Granted \in Int /\ TakenBack \in Int /\ Forgone \in Int
      BY <1>1, PointsTyped DEF Granted, TakenBack, Forgone
    <2>13. /\ loyalty'.balance >= 0
           /\ loyalty'.balance = Granted' - TakenBack' - loyalty'.redeemed
           /\ Forgone' - TakenBack' <= loyalty'.redeemed
      <3> DEFINE m == Points[p]
                 b == loyalty.balance
                 r == loyalty.redeemed
                 g == Granted
                 t == TakenBack
                 f == Forgone
      <3>1. /\ b >= 0 /\ b = g - t - r /\ f - t <= r /\ f + m <= g
            /\ n <= b /\ (n = m \/ (n = b /\ n <= m))
            /\ m \in Nat /\ n \in Int /\ b \in Int /\ r \in Int
            /\ g \in Int /\ t \in Int /\ f \in Int
        BY <2>1, <2>2, <2>3, <2>11, <2>12 DEF PointsBooked
      <3> HIDE DEF m, n, b, r, g, t, f
      <3>2. b - n >= 0 /\ b - n = g - (t + n) - r /\ (f + m) - (t + n) <= r
        BY <3>1
      <3> QED
        BY <2>5, <2>8, <2>9, <3>2 DEF m, b, r, g, t, f
    <2> QED
      BY <2>5, <2>10, <2>13 DEF PointsBooked
  <1> QED
    BY <1>2, <1>3

\* Points that are spent are counted.
LEMMA RedeemKeepsPoints ==
    ASSUME AftermathInvariant, PointsBooked, NEW n \in 1..Most, Redeem(n)
    PROVE  PointsBooked'
  <1> DEFINE balance == loyalty.balance - n
             redeemed == loyalty.redeemed + n
  <1>1. loyalty \in LoyaltyType /\ n \in Nat /\ n <= loyalty.balance
    BY DEF AftermathInvariant, Typed, Redeem
  <1>2. loyalty' = [loyalty EXCEPT !.balance = balance, !.redeemed = redeemed]
    BY DEF Redeem
  <1>3. /\ loyalty'.balance = balance /\ loyalty'.redeemed = redeemed
        /\ loyalty'.earned = loyalty.earned /\ loyalty'.reversed = loyalty.reversed
        /\ loyalty'.deducted = loyalty.deducted
    <2> HIDE DEF balance, redeemed
    <2> QED
      BY <1>1, <1>2 DEF LoyaltyType
  <1>4. Granted' = Granted /\ TakenBack' = TakenBack /\ Forgone' = Forgone
    BY <1>3 DEF Granted, TakenBack, Forgone
  <1>5. /\ Granted \in Int /\ TakenBack \in Int /\ Forgone \in Int
        /\ loyalty.balance \in Int /\ loyalty.redeemed \in Int
    BY <1>1, PointsTyped DEF Granted, TakenBack, Forgone, LoyaltyType
  <1>6. /\ loyalty'.balance >= 0
        /\ loyalty'.balance = Granted' - TakenBack' - loyalty'.redeemed
        /\ Forgone' - TakenBack' <= loyalty'.redeemed
    <2> DEFINE b == loyalty.balance
               r == loyalty.redeemed
               g == Granted
               t == TakenBack
               f == Forgone
    <2>1. /\ b = g - t - r /\ f - t <= r /\ n <= b /\ n \in Nat
          /\ b \in Int /\ r \in Int /\ g \in Int /\ t \in Int /\ f \in Int
      BY <1>1, <1>5 DEF PointsBooked
    <2> HIDE DEF b, r, g, t, f
    <2>2. b - n >= 0 /\ b - n = g - t - (r + n) /\ f - t <= r + n
      BY <2>1
    <2> QED
      BY <1>3, <1>4, <2>2 DEF b, r, g, t, f
  <1> QED
    BY <1>3, <1>6 DEF PointsBooked

\* No other step changes the account.
LEMMA NextKeepsPoints ==
    ASSUME AftermathInvariant, PointsBooked, [Next]_vars
    PROVE  PointsBooked'
  <1>1. CASE loyalty' = loyalty
    BY <1>1 DEF PointsBooked, Granted, TakenBack, Forgone
  <1>2. ASSUME NEW c \in Client, ClientStep(c) PROVE loyalty' = loyalty \/ CommitReverse(c)
    BY <1>2 DEF ClientStep, CreatePayment, RetryFiscal, StartReverse, EnqueueReceipt, MarkFailed,
                QueueEarn, ClaimPayment, ReadEarns, StopRequest
  <1>3. ASSUME NEW j \in Job, JobStep(j) PROVE loyalty' = loyalty
    BY <1>3 DEF JobStep, TakeJob, SkipReceipt, NoReceipt, SellReceipt, WriteReceipt, LoseReceipt, OnFailed
  <1>4. CASE PointsStep
    <2>1. \/ loyalty' = loyalty
          \/ \E w \in Worker : Grant(w)
          \/ \E n \in 1..Most : Redeem(n)
      BY <1>4 DEF PointsStep, TakeEarn, HoldPayment, NoGrant
    <2> QED
      BY <1>1, <2>1, GrantKeepsPoints, RedeemKeepsPoints
  <1>5. UNCHANGED vars => loyalty' = loyalty
    BY DEF vars
  <1> QED
    BY <1>1, <1>2, <1>3, <1>4, <1>5, CommitReverseKeepsPoints DEF Next

\* Nothing is granted, spent or taken back at the start.
LEMMA InitBooksPoints == Init => PointsBooked
  <1> SUFFICES ASSUME Init PROVE PointsBooked
    OBVIOUS
  <1>1. /\ loyalty.balance = 0 /\ loyalty.redeemed = 0
        /\ loyalty.earned = {} /\ loyalty.reversed = {}
    BY DEF Init
  <1>2. Sum(Points, {}) = 0 /\ Sum(loyalty.deducted, {}) = 0
    BY SumIs, SumEmpty
  <1> QED
    BY <1>1, <1>2 DEF PointsBooked, Granted, TakenBack, Forgone

\* Points follow the payments: the balance is what was granted less what was taken back
\* and spent, never below zero, and only points already spent stay with the client.
THEOREM PointsAlwaysExplained == Spec => []PointsExplained
  <1>2. AftermathInvariant /\ PointsBooked /\ [Next]_vars => PointsBooked'
    BY NextKeepsPoints
  <1>3. AftermathInvariant /\ PointsBooked => PointsExplained
    BY DEF AftermathInvariant, Holders, PointsBooked, PointsExplained, Granted, TakenBack, Forgone
  <1>4. Init => PointsBooked
    BY InitBooksPoints
  <1> QED
    BY <1>2, <1>3, <1>4, AftermathKept, PTL DEF Spec
-----------------------------------------------------------------------------
(* How many receipts a payment may still get. *)

\* A request that will ask for a receipt of p, a job that may still be issued one, and
\* a payment of which one may still be asked.
Asks(c, p) == Enqueuing(c) /\ client[c].payment = p
Opens(j, p) == job[j].step \in {"waiting", "sell", "failed"} /\ job[j].payment = p
Askable(p) ==
    \/ payment[p].status = "ABSENT"
    \/ payment[p].status = "FAILED" /\ ~payment[p].receipt /\ ~payment[p].reversed

Asking(p) == {c \in Client : Asks(c, p)}
Open(p) == {j \in Job : Opens(j, p)}
One(b) == IF b THEN 1 ELSE 0
Potential(p) == receipts[p] + Cardinality(Asking(p)) + Cardinality(Open(p)) + One(Askable(p))

\* The receipts of a payment and those it may still get are one, and one more for each
\* answer that was lost; a receipt that is written was issued.
Bounded == \A p \in Payment : Potential(p) <= 1 + faults.sale + faults.add
SoldIssued == \A j \in Job : job[j].step = "sold" => receipts[job[j].payment] > 0
WrittenIssued == \A p \in Payment : payment[p].receipt => receipts[p] > 0
ReceiptsBooked == Bounded /\ SoldIssued /\ WrittenIssued

\* A set counted without one of the elements it may have.
LEMMA CountedApart ==
    ASSUME NEW X, IsFiniteSet(X), NEW S \in SUBSET X, NEW x
    PROVE  /\ Cardinality(S) \in Nat /\ Cardinality(S \ {x}) \in Nat
           /\ Cardinality(S) = Cardinality(S \ {x}) + One(x \in S)
  <1>1. IsFiniteSet(S) /\ IsFiniteSet(S \ {x})
    BY FS_Subset
  <1>2. Cardinality(S) \in Nat /\ Cardinality(S \ {x}) \in Nat
    BY <1>1, FS_CardinalityType
  <1>3. CASE x \in S
    BY <1>1, <1>2, <1>3, FS_RemoveElement DEF One
  <1>4. CASE x \notin S
    <2>1. S \ {x} = S
      BY <1>4
    <2>2. One(x \in S) = 0
      BY <1>4 DEF One
    <2>3. Cardinality(S \ {x}) = Cardinality(S)
      BY <2>1
    <2> QED
      BY <1>2, <2>2, <2>3
  <1> QED
    BY <1>2, <1>3, <1>4

\* Who asks, when one request goes on.
LEMMA AskingCounted ==
    ASSUME NEW c \in Client, \A d \in Client \ {c} : client'[d] = client[d], NEW p \in Payment
    PROVE  /\ Cardinality(Asking(p)) \in Nat /\ Cardinality(Asking(p)') \in Nat
           /\ Cardinality(Asking(p)') + One(Asks(c, p)) = Cardinality(Asking(p)) + One(Asks(c, p)')
  <1> DEFINE before == Asking(p)
             after == Asking(p)'
  <1>1. before \in SUBSET Client /\ after \in SUBSET Client /\ before \ {c} = after \ {c}
    BY DEF Asking, Asks, Enqueuing
  <1>2. (c \in before <=> Asks(c, p)) /\ (c \in after <=> Asks(c, p)')
    BY DEF Asking
  <1>3. One(c \in before) = One(Asks(c, p)) /\ One(c \in after) = One(Asks(c, p)')
        /\ One(Asks(c, p)) \in Nat /\ One(Asks(c, p)') \in Nat
    BY <1>2 DEF One
  <1> HIDE DEF before, after
  <1>4. /\ Cardinality(before) \in Nat /\ Cardinality(before \ {c}) \in Nat
        /\ Cardinality(before) = Cardinality(before \ {c}) + One(c \in before)
        /\ Cardinality(after) \in Nat
        /\ Cardinality(after) = Cardinality(after \ {c}) + One(c \in after)
    BY <1>1, CountedApart, PaymentAftermathAssumption
  <1>5. Cardinality(after) + One(Asks(c, p)) = Cardinality(before) + One(Asks(c, p)')
    BY <1>1, <1>3, <1>4
  <1> QED
    BY <1>4, <1>5 DEF before, after

\* Which jobs are open, when one job goes on.
LEMMA OpenCounted ==
    ASSUME NEW j \in Job, \A i \in Job \ {j} : job'[i] = job[i], NEW p \in Payment
    PROVE  /\ Cardinality(Open(p)) \in Nat /\ Cardinality(Open(p)') \in Nat
           /\ Cardinality(Open(p)') + One(Opens(j, p)) = Cardinality(Open(p)) + One(Opens(j, p)')
  <1> DEFINE before == Open(p)
             after == Open(p)'
  <1>1. before \in SUBSET Job /\ after \in SUBSET Job /\ before \ {j} = after \ {j}
    BY DEF Open, Opens
  <1>2. (j \in before <=> Opens(j, p)) /\ (j \in after <=> Opens(j, p)')
    BY DEF Open
  <1>3. One(j \in before) = One(Opens(j, p)) /\ One(j \in after) = One(Opens(j, p)')
        /\ One(Opens(j, p)) \in Nat /\ One(Opens(j, p)') \in Nat
    BY <1>2 DEF One
  <1> HIDE DEF before, after
  <1>4. /\ Cardinality(before) \in Nat /\ Cardinality(before \ {j}) \in Nat
        /\ Cardinality(before) = Cardinality(before \ {j}) + One(j \in before)
        /\ Cardinality(after) \in Nat
        /\ Cardinality(after) = Cardinality(after \ {j}) + One(j \in after)
    BY <1>1, CountedApart, PaymentAftermathAssumption
  <1>5. Cardinality(after) + One(Opens(j, p)) = Cardinality(before) + One(Opens(j, p)')
    BY <1>1, <1>3, <1>4
  <1> QED
    BY <1>4, <1>5 DEF before, after

\* The numbers of a payment.
LEMMA CountsTyped ==
    ASSUME Typed, NEW p \in Payment
    PROVE  /\ Cardinality(Asking(p)) \in Nat /\ Cardinality(Open(p)) \in Nat
           /\ One(Askable(p)) \in Nat /\ receipts[p] \in Nat
           /\ faults.sale \in Nat /\ faults.add \in Nat
  <1>1. Asking(p) \in SUBSET Client /\ Open(p) \in SUBSET Job
    BY DEF Asking, Open
  <1>2. IsFiniteSet(Asking(p)) /\ IsFiniteSet(Open(p))
    BY <1>1, PaymentAftermathAssumption, FS_Subset
  <1>3. Cardinality(Asking(p)) \in Nat /\ Cardinality(Open(p)) \in Nat
    BY <1>2, FS_CardinalityType
  <1> QED
    BY <1>3 DEF One, Typed

\* A request that asks, or leaves a payment askable, no more than before.
LEMMA RequestKeepsBound ==
    ASSUME Typed, Bounded, NEW c \in Client, \A d \in Client \ {c} : client'[d] = client[d],
           UNCHANGED <<job, receipts, faults>>,
           \A p \in Payment : One(Asks(c, p)') + One(Askable(p)') <= One(Asks(c, p)) + One(Askable(p))
    PROVE  Bounded'
  <1> SUFFICES ASSUME NEW p \in Payment PROVE (Potential(p) <= 1 + faults.sale + faults.add)'
    BY DEF Bounded
  <1> DEFINE a == Cardinality(Asking(p))
             b == Cardinality(Asking(p)')
             o == Cardinality(Open(p))
             n == receipts[p]
             k == 1 + faults.sale + faults.add
             u == One(Asks(c, p))
             v == One(Asks(c, p)')
             x == One(Askable(p))
             y == One(Askable(p)')
  <1>1. a \in Nat /\ b \in Nat /\ o \in Nat /\ n \in Nat /\ k \in Nat
    BY AskingCounted, CountsTyped
  <1>2. u \in Nat /\ v \in Nat /\ x \in Nat /\ y \in Nat
    BY DEF One
  <1>3. b + u = a + v /\ v + y <= u + x
    BY AskingCounted
  <1>4. n + a + o + x <= k
    BY DEF Bounded, Potential
  <1>5. Potential(p)' = n + b + o + y /\ (1 + faults.sale + faults.add)' = k
    BY DEF Potential, Open, Opens
  <1> HIDE DEF a, b, o, n, k, u, v, x, y
  <1>6. n + b + o + y <= k
    BY <1>1, <1>2, <1>3, <1>4
  <1> QED
    BY <1>5, <1>6

\* A job that is issued, or leaves to be issued, no more than before and than was lost.
LEMMA JobKeepsBound ==
    ASSUME Typed, Typed', Bounded, NEW j \in Job, \A i \in Job \ {j} : job'[i] = job[i],
           client' = client,
           \A p \in Payment :
               receipts'[p] + One(Opens(j, p)') + One(Askable(p)') + faults.sale + faults.add
                  <= receipts[p] + One(Opens(j, p)) + One(Askable(p)) + faults'.sale + faults'.add
    PROVE  Bounded'
  <1> SUFFICES ASSUME NEW p \in Payment PROVE (Potential(p) <= 1 + faults.sale + faults.add)'
    BY DEF Bounded
  <1> DEFINE a == Cardinality(Asking(p))
             o == Cardinality(Open(p))
             w == Cardinality(Open(p)')
             n == receipts[p]
             m == receipts'[p]
             s == faults.sale
             t == faults'.sale
             g == faults.add
             h == faults'.add
             u == One(Opens(j, p))
             v == One(Opens(j, p)')
             x == One(Askable(p))
             y == One(Askable(p)')
  <1>1. a \in Nat /\ o \in Nat /\ n \in Nat /\ s \in Nat /\ g \in Nat /\ w \in Nat
    BY OpenCounted, CountsTyped
  <1>2. u \in Nat /\ v \in Nat /\ x \in Nat /\ y \in Nat
    BY DEF One
  <1>3. m \in Nat /\ t \in Nat /\ h \in Nat
    BY DEF Typed
  <1>4. w + u = o + v /\ m + v + y + s + g <= n + u + x + t + h
    BY OpenCounted
  <1>5. n + a + o + x <= 1 + s + g
    BY DEF Bounded, Potential
  <1>6. Potential(p)' = m + a + w + y
    BY DEF Potential, Asking, Asks, Enqueuing
  <1> HIDE DEF a, o, w, n, m, s, t, g, h, u, v, x, y
  <1>7. m + a + w + y <= 1 + t + h
    BY <1>1, <1>2, <1>3, <1>4, <1>5
  <1> QED
    BY <1>6, <1>7 DEF t, h

\* A job goes on to its next step.
LEMMA JobSteps ==
    ASSUME Typed, NEW j \in Job, NEW s \in {"sell", "sold", "failed", "waiting"},
           job' = [job EXCEPT ![j].step = s]
    PROVE  JobGoes(j, {s})
  <1> DEFINE r == [job[j] EXCEPT !.step = s]
  <1>1. job[j] \in JobType /\ job' = [job EXCEPT ![j] = r]
    BY DEF Typed
  <1>2. r \in JobType /\ r.payment = job[j].payment /\ r.step = s
    BY <1>1, JobWritten
  <1> HIDE DEF r
  <1> QED
    BY <1>1, <1>2, JobStepped

\* A receipt that is sold or written was issued, when the step issued it or it was before.
LEMMA IssuedKept ==
    ASSUME Typed, Referenced, ReceiptsBooked, Bounded',
           \A p \in Payment : receipts'[p] \in Nat /\ receipts'[p] >= receipts[p],
           \A j \in Job : job'[j].step = "sold" =>
               job'[j].payment = job[j].payment /\ (job[j].step = "sold" \/ receipts'[job[j].payment] > 0),
           \A p \in Payment : payment'[p].receipt => payment[p].receipt \/ receipts'[p] > 0
    PROVE  ReceiptsBooked'
  <1>1. \A p \in Payment : receipts[p] \in Nat /\ (receipts[p] > 0 => receipts'[p] > 0)
    BY DEF Typed
  <1>2. SoldIssued'
    BY <1>1 DEF ReceiptsBooked, SoldIssued, Referenced, Active
  <1>3. WrittenIssued'
    BY <1>1 DEF ReceiptsBooked, WrittenIssued
  <1> QED
    BY <1>2, <1>3 DEF ReceiptsBooked

\* A step of a request that issues nothing.
LEMMA RequestIssuesNothing ==
    ASSUME Typed, Referenced, ReceiptsBooked, Bounded', UNCHANGED <<job, receipts>>,
           \A p \in Payment : payment'[p].receipt => payment[p].receipt
    PROVE  ReceiptsBooked'
  <1>1. \A p \in Payment : receipts'[p] \in Nat /\ receipts'[p] >= receipts[p]
    BY DEF Typed
  <1> QED
    BY <1>1, IssuedKept

\* A payment is asked for one receipt when it is committed.
LEMMA CreatePaymentBooks ==
    ASSUME AftermathInvariant, ReceiptsBooked, NEW c \in Client, NEW p \in Payment,
           NEW status \in {"NULL", "QUEUED"}, CreatePayment(c, p, status)
    PROVE  ReceiptsBooked'
  <1>1. Typed /\ Referenced /\ Bounded
    BY DEF AftermathInvariant, ReceiptsBooked
  <1>2. /\ \A d \in Client \ {c} : client'[d] = client[d]
        /\ client[c].op = "none" /\ client'[c].payment = p
        /\ UNCHANGED <<job, receipts, faults>>
    BY <1>1, IdleTyped DEF CreatePayment, Typed, IdleClient
  <1>3. /\ payment[p].status = "ABSENT" /\ payment'[p].status = status
        /\ payment'[p].receipt = payment[p].receipt
        /\ \A q \in Payment \ {p} : payment'[q] = payment[q]
    BY <1>1 DEF CreatePayment, Typed, PaymentType
  <1>4. Askable(p) /\ ~Askable(p)' /\ \A q \in Payment \ {p} : Askable(q)' = Askable(q) /\ ~Asks(c, q)'
    BY <1>2, <1>3 DEF Askable, Asks
  <1>5. \A q \in Payment : One(Asks(c, q)') + One(Askable(q)') <= One(Asks(c, q)) + One(Askable(q))
    BY <1>4 DEF One
  <1>6. Bounded'
    BY <1>1, <1>2, <1>5, RequestKeepsBound
  <1> QED
    BY <1>1, <1>2, <1>3, <1>6, RequestIssuesNothing

\* A receipt is asked for again when the payment failed to get it.
LEMMA RetryFiscalBooks ==
    ASSUME AftermathInvariant, ReceiptsBooked, NEW c \in Client, NEW p \in Payment, RetryFiscal(c, p)
    PROVE  ReceiptsBooked'
  <1>1. Typed /\ Referenced /\ Bounded
    BY DEF AftermathInvariant, ReceiptsBooked
  <1>2. /\ \A d \in Client \ {c} : client'[d] = client[d]
        /\ client[c].op = "none" /\ client'[c].payment = p
        /\ UNCHANGED <<job, receipts, faults>>
    BY <1>1, IdleTyped DEF RetryFiscal, Typed, IdleClient
  <1>3. /\ payment[p].status = "FAILED" /\ ~payment[p].receipt /\ ~payment[p].reversed
        /\ payment'[p].status = "QUEUED" /\ payment'[p].receipt = payment[p].receipt
        /\ \A q \in Payment \ {p} : payment'[q] = payment[q]
    BY <1>1 DEF RetryFiscal, SetStatus, Typed, PaymentType
  <1>4. Askable(p) /\ ~Askable(p)' /\ \A q \in Payment \ {p} : Askable(q)' = Askable(q) /\ ~Asks(c, q)'
    BY <1>2, <1>3 DEF Askable, Asks
  <1>5. \A q \in Payment : One(Asks(c, q)') + One(Askable(q)') <= One(Asks(c, q)) + One(Askable(q))
    BY <1>4 DEF One
  <1>6. Bounded'
    BY <1>1, <1>2, <1>5, RequestKeepsBound
  <1> QED
    BY <1>1, <1>2, <1>3, <1>6, RequestIssuesNothing

\* A request that ends by marking the payment FAILED leaves it askable in its place.
LEMMA MarkFailedBooks ==
    ASSUME AftermathInvariant, ReceiptsBooked, NEW c \in Client, MarkFailed(c)
    PROVE  ReceiptsBooked'
  <1> DEFINE p == client[c].payment
  <1>1. Typed /\ Referenced /\ Bounded
    BY DEF AftermathInvariant, ReceiptsBooked
  <1>2. /\ client[c].op \in {"create", "retry"} /\ client[c].step = "failed" /\ p \in Payment
        /\ UNCHANGED <<held, job, receipts, faults>>
    BY <1>1 DEF MarkFailed, At, Referenced
  <1>3. RequestGoes(c, {"none", "create"}, {"idle", "points"})
    BY <1>1, <1>2, RequestGoesOn DEF MarkFailed
  <1>4. StatusGoes(p, "FAILED")
    BY <1>1, <1>2, StatusWritten DEF MarkFailed
  <1>5. Asks(c, p) /\ \A q \in Payment : ~Asks(c, q)' /\ (q # p => Askable(q)' = Askable(q))
    BY <1>2, <1>3, <1>4 DEF Asks, Enqueuing, RequestGoes, StatusGoes, Askable
  <1>6. \A q \in Payment : One(Asks(c, q)') + One(Askable(q)') <= One(Asks(c, q)) + One(Askable(q))
    BY <1>5 DEF One
  <1>7. Bounded'
    BY <1>1, <1>2, <1>3, <1>6, RequestKeepsBound DEF RequestGoes
  <1> QED
    BY <1>1, <1>2, <1>4, <1>7, RequestIssuesNothing DEF StatusGoes

\* A reversed payment is not asked for a receipt any more.
LEMMA CommitReverseBooks ==
    ASSUME AftermathInvariant, ReceiptsBooked, NEW c \in Client, CommitReverse(c)
    PROVE  ReceiptsBooked'
  <1> DEFINE p == client[c].payment
             r == [payment[p] EXCEPT !.reversed = TRUE, !.status = IF @ = "FAILED" THEN "SKIPPED" ELSE @]
  <1>1. Typed /\ Referenced /\ Bounded
    BY DEF AftermathInvariant, ReceiptsBooked
  <1>2. /\ client[c].op = "reverse" /\ p \in Payment /\ UNCHANGED <<job, receipts, faults>>
        /\ \A d \in Client \ {c} : client'[d] = client[d]
        /\ client'[c].op = "none"
    BY <1>1, IdleTyped DEF CommitReverse, At, Referenced, Typed
  <1>3. payment[p].status # "ABSENT" /\ payment[p] \in PaymentType
    BY <1>1, <1>2 DEF CommitReverse, At, AftermathInvariant, Holders, ReversalsHold, Reversing,
                      Settled, Typed
  <1>4. r.reversed /\ r.receipt = payment[p].receipt /\ r.status # "ABSENT"
    BY <1>3 DEF PaymentType
  <1>5. payment' = [payment EXCEPT ![p] = r]
    BY DEF CommitReverse
  <1>6. payment'[p] = r /\ \A q \in Payment \ {p} : payment'[q] = payment[q]
    <2> HIDE DEF r, p
    <2> QED
      BY <1>1, <1>2, <1>5 DEF Typed
  <1> HIDE DEF r
  <1>7. \A q \in Payment : /\ ~Asks(c, q)' /\ (q = p => ~Askable(q)')
                           /\ q # p => Askable(q)' = Askable(q)
    BY <1>2, <1>4, <1>6 DEF Asks, Enqueuing, Askable
  <1>8. \A q \in Payment : One(Asks(c, q)') + One(Askable(q)') <= One(Asks(c, q)) + One(Askable(q))
    BY <1>7 DEF One
  <1>9. Bounded'
    BY <1>1, <1>2, <1>8, RequestKeepsBound
  <1> QED
    BY <1>1, <1>2, <1>4, <1>6, <1>9, RequestIssuesNothing

\* The other steps of a request ask for nothing and change no payment.
LEMMA QuietRequestsBook ==
    ASSUME AftermathInvariant, ReceiptsBooked, NEW c \in Client,
           \/ \E p \in Payment : StartReverse(c, p)
           \/ QueueEarn(c) \/ ClaimPayment(c) \/ ReadEarns(c) \/ StopRequest(c)
    PROVE  ReceiptsBooked'
  <1>1. Typed /\ Referenced /\ Bounded
    BY DEF AftermathInvariant, ReceiptsBooked
  <1>2. UNCHANGED <<payment, job, receipts, faults>>
    BY DEF StartReverse, QueueEarn, ClaimPayment, ReadEarns, StopRequest
  <1>3. \A d \in Client \ {c} : client'[d] = client[d]
    BY <1>1 DEF StartReverse, QueueEarn, ClaimPayment, ReadEarns, StopRequest, Step, Typed
  <1>4. client'[c].op \in {"none", "reverse"}
    <2>1. IdleClient.op = "none" /\ client[c] \in ClientType
      BY <1>1, IdleTyped DEF Typed
    <2>2. ASSUME NEW p \in Payment, StartReverse(c, p) PROVE client'[c].op = "reverse"
      <3> DEFINE r == [IdleClient EXCEPT !.op = "reverse", !.payment = p, !.step = "claim",
                                         !.status = payment[p].status]
      <3>1. r.op = "reverse"
        BY DEF IdleClient
      <3>2. client' = [client EXCEPT ![c] = r]
        BY <2>2 DEF StartReverse
      <3> HIDE DEF r
      <3> QED
        BY <1>1, <3>1, <3>2 DEF Typed
    <2>3. CASE QueueEarn(c) \/ StopRequest(c)
      BY <1>1, <2>1, <2>3 DEF QueueEarn, StopRequest, Typed
    <2>4. CASE ClaimPayment(c) \/ ReadEarns(c)
      BY <1>1, <2>1, <2>4 DEF ClaimPayment, ReadEarns, Step, At, Typed, ClientType
    <2> QED
      BY <2>2, <2>3, <2>4
  <1>5. \A q \in Payment : ~Asks(c, q)' /\ Askable(q)' = Askable(q)
    BY <1>2, <1>4 DEF Asks, Enqueuing, Askable
  <1>6. \A q \in Payment : One(Asks(c, q)') + One(Askable(q)') <= One(Asks(c, q)) + One(Askable(q))
    BY <1>5 DEF One
  <1>7. Bounded'
    BY <1>1, <1>2, <1>3, <1>6, RequestKeepsBound
  <1> QED
    BY <1>1, <1>2, <1>7, RequestIssuesNothing

\* The request hands over to a job; when the answer of Redis is lost, both may go on.
LEMMA EnqueueReceiptBooks ==
    ASSUME AftermathInvariant, ReceiptsBooked, NEW c \in Client, EnqueueReceipt(c)
    PROVE  ReceiptsBooked'
  <1> DEFINE p == client[c].payment
  <1>1. Typed /\ Referenced /\ Bounded
    BY DEF AftermathInvariant, ReceiptsBooked
  <1>2. /\ client[c].op \in {"create", "retry"} /\ client[c].step = "receipt" /\ p \in Payment
        /\ UNCHANGED <<payment, receipts>>
    BY <1>1 DEF EnqueueReceipt, At, Referenced
  <1>3. AfterReceipt(c) => RequestGoes(c, {"none", "create"}, {"idle", "points"})
    BY <1>1, <1>2, RequestGoesOn
  <1>4. Step(c, "failed") => /\ \A d \in Client \ {c} : client'[d] = client[d]
                             /\ client'[c].payment = p
    BY <1>1 DEF Step, Typed, ClientType
  <1>5. AddJob(p) => \E j \in Job : /\ \A i \in Job \ {j} : job'[i] = job[i]
                                    /\ job[j].step = "none" /\ job'[j].step = "waiting"
                                    /\ job'[j].payment = p
    <2> SUFFICES ASSUME AddJob(p)
                 PROVE  \E j \in Job : /\ \A i \in Job \ {j} : job'[i] = job[i]
                                       /\ job[j].step = "none" /\ job'[j].step = "waiting"
                                       /\ job'[j].payment = p
      OBVIOUS
    <2> DEFINE n == [payment |-> p, step |-> "waiting", left |-> Attempts]
    <2>1. PICK j \in Job : job[j] = NoJob /\ job' = [job EXCEPT ![j] = n]
      BY DEF AddJob
    <2>2. n.step = "waiting" /\ n.payment = p
      OBVIOUS
    <2> HIDE DEF n
    <2> QED
      BY <1>1, <2>1, <2>2, IdleTyped DEF Typed
  <1>6. \A q \in Payment : Askable(q)' = Askable(q)
    BY <1>2 DEF Askable
  <1>7. Asks(c, p) /\ \A q \in Payment \ {p} : ~Asks(c, q)
    BY <1>2 DEF Asks, Enqueuing
  <1>8. Bounded' /\ \A j \in Job : job'[j].step = "sold" => job'[j] = job[j]
    <2>1. CASE UNCHANGED <<job, faults>> /\ Step(c, "failed")
      <3>1. \A q \in Payment \ {p} : ~Asks(c, q)'
        BY <1>4, <2>1 DEF Asks
      <3>2. \A q \in Payment : One(Asks(c, q)') + One(Askable(q)') <= One(Asks(c, q)) + One(Askable(q))
        BY <1>6, <1>7, <3>1 DEF One
      <3> QED
        BY <1>1, <1>2, <1>4, <2>1, <3>2, RequestKeepsBound
    <2>2. CASE AddJob(p) /\ \/ AfterReceipt(c) /\ UNCHANGED faults
                            \/ Step(c, "failed") /\ Fault("add")
      <3>1. PICK j \in Job : /\ \A i \in Job \ {j} : job'[i] = job[i]
                             /\ job[j].step = "none" /\ job'[j].step = "waiting"
                             /\ job'[j].payment = p
        BY <1>5, <2>2
      <3>2. \A d \in Client \ {c} : client'[d] = client[d]
        BY <1>3, <1>4, <2>2 DEF RequestGoes
      <3>3. /\ faults'.sale = faults.sale /\ faults'.add \in {faults.add, faults.add + 1}
            /\ faults.add \in Nat /\ faults.sale \in Nat
            /\ faults'.add = faults.add => AfterReceipt(c)
        BY <1>1, <2>2 DEF Fault, Typed
      <3>4. AfterReceipt(c) => \A q \in Payment : ~Asks(c, q)'
        BY <1>3 DEF RequestGoes, Asks, Enqueuing
      <3>5. \A q \in Payment \ {p} : ~Asks(c, q)'
        BY <1>4, <2>2, <3>4 DEF Asks
      <3>6. ASSUME NEW q \in Payment PROVE (Potential(q) <= 1 + faults.sale + faults.add)'
        <4> DEFINE a == Cardinality(Asking(q))
                   b == Cardinality(Asking(q)')
                   o == Cardinality(Open(q))
                   w == Cardinality(Open(q)')
                   n == receipts[q]
                   s == faults.sale
                   g == faults.add
                   h == faults'.add
                   x == One(Askable(q))
        <4>1. /\ a \in Nat /\ b \in Nat /\ o \in Nat /\ w \in Nat /\ n \in Nat /\ x \in Nat
              /\ s \in Nat /\ g \in Nat /\ h \in Nat
          BY <1>1, <3>1, <3>2, <3>3, AskingCounted, OpenCounted, CountsTyped
        <4>2. /\ b + One(Asks(c, q)) = a + One(Asks(c, q)')
              /\ w + One(Opens(j, q)) = o + One(Opens(j, q)')
          BY <3>1, <3>2, AskingCounted, OpenCounted
        <4>3. n + a + o + x <= 1 + s + g
          BY <1>1 DEF Bounded, Potential
        <4>4. Potential(q)' = n + b + w + x /\ faults'.sale = s
          BY <1>2, <1>6, <3>3 DEF Potential
        <4>5. ~Opens(j, q) /\ (q # p => ~Opens(j, q)')
          BY <3>1 DEF Opens
        <4>6. n + b + w + x <= 1 + s + h
          <5>1. CASE q # p
            <6>1. b = a /\ w = o
              <7>1. One(Asks(c, q)) = 0 /\ One(Asks(c, q)') = 0
                    /\ One(Opens(j, q)) = 0 /\ One(Opens(j, q)') = 0
                BY <1>7, <3>5, <4>5, <5>1 DEF One
              <7> QED
                BY <4>1, <4>2, <7>1
            <6>2. h >= g
              BY <3>3
            <6> HIDE DEF a, b, o, w, n, s, g, h, x
            <6> QED
              BY <4>1, <4>3, <6>1, <6>2
          <5>2. CASE q = p
            <6>1. One(Asks(c, q)) = 1 /\ One(Opens(j, q)) = 0
              BY <1>7, <4>5, <5>2 DEF One
            <6>2. One(Asks(c, q)') \in {0, 1} /\ One(Opens(j, q)') \in {0, 1}
              BY DEF One
            <6>3. One(Asks(c, q)') = 0 \/ h = g + 1
              BY <3>3, <3>4 DEF One
            <6>4. h >= g
              BY <3>3
            <6> DEFINE y == One(Asks(c, q)')
                       z == One(Opens(j, q)')
            <6>5. b + 1 = a + y /\ w + 0 = o + z /\ y \in {0, 1} /\ z \in {0, 1} /\ (y = 0 \/ h = g + 1)
              BY <4>2, <6>1, <6>2, <6>3
            <6> HIDE DEF a, b, o, w, n, s, g, h, x, y, z
            <6> QED
              BY <4>1, <4>3, <6>4, <6>5
          <5> QED
            BY <5>1, <5>2
        <4> QED
          BY <4>4, <4>6
      <3>7. Bounded'
        BY <3>6 DEF Bounded
      <3> QED
        BY <3>1, <3>7
    <2> QED
      BY <2>1, <2>2 DEF EnqueueReceipt
  <1>9. \A q \in Payment : receipts'[q] \in Nat /\ receipts'[q] >= receipts[q]
    BY <1>1, <1>2 DEF Typed
  <1> QED
    BY <1>1, <1>2, <1>8, <1>9, IssuedKept

\* A step of a job keeps the bound when it does so for the payment p of the job.
LEMMA JobBooks ==
    ASSUME AftermathInvariant, AftermathInvariant', ReceiptsBooked, NEW j \in Job, NEW S,
           JobGoes(j, S), client' = client, NEW p \in Payment, p = job[j].payment,
           \A q \in Payment \ {p} : payment'[q] = payment[q] /\ receipts'[q] = receipts[q],
           faults'.sale >= faults.sale, faults'.add >= faults.add,
           receipts'[p] >= receipts[p],
           receipts'[p] + One(Opens(j, p)') + One(Askable(p)') + faults.sale + faults.add
               <= receipts[p] + One(Opens(j, p)) + One(Askable(p)) + faults'.sale + faults'.add,
           job'[j].step = "sold" => receipts'[p] > 0,
           payment'[p].receipt => payment[p].receipt \/ receipts'[p] > 0
    PROVE  ReceiptsBooked'
  <1>1. Typed /\ Typed' /\ Referenced /\ Bounded
    BY DEF AftermathInvariant, ReceiptsBooked
  <1>2. /\ \A i \in Job \ {j} : job'[i] = job[i]
        /\ job'[j].step # "none" => job'[j].payment = p
    BY DEF JobGoes
  <1>3. /\ faults.sale \in Nat /\ faults.add \in Nat /\ faults'.sale \in Nat /\ faults'.add \in Nat
        /\ \A q \in Payment : receipts[q] \in Nat /\ receipts'[q] \in Nat
    BY <1>1 DEF Typed
  <1>4. \A q \in Payment :
            receipts'[q] + One(Opens(j, q)') + One(Askable(q)') + faults.sale + faults.add
               <= receipts[q] + One(Opens(j, q)) + One(Askable(q)) + faults'.sale + faults'.add
    <2> SUFFICES ASSUME NEW q \in Payment, q # p
                 PROVE  receipts'[q] + One(Opens(j, q)') + One(Askable(q)') + faults.sale + faults.add
                           <= receipts[q] + One(Opens(j, q)) + One(Askable(q)) + faults'.sale + faults'.add
      OBVIOUS
    <2>1. ~Opens(j, q) /\ ~Opens(j, q)' /\ Askable(q)' = Askable(q) /\ receipts'[q] = receipts[q]
      BY <1>2 DEF Opens, Askable
    <2>2. One(Opens(j, q)) = 0 /\ One(Opens(j, q)') = 0 /\ One(Askable(q)') = One(Askable(q))
          /\ One(Askable(q)) \in Nat
      BY <2>1 DEF One
    <2> QED
      BY <1>3, <2>1, <2>2
  <1>5. Bounded'
    BY <1>1, <1>2, <1>4, JobKeepsBound
  <1>6. \A q \in Payment : receipts'[q] \in Nat /\ receipts'[q] >= receipts[q]
    BY <1>3
  <1>7. \A i \in Job : job'[i].step = "sold" =>
            job'[i].payment = job[i].payment /\ (job[i].step = "sold" \/ receipts'[job[i].payment] > 0)
    BY <1>2
  <1>8. \A q \in Payment : payment'[q].receipt => payment[q].receipt \/ receipts'[q] > 0
    OBVIOUS
  <1> QED
    BY <1>1, <1>5, <1>6, <1>7, <1>8, IssuedKept

\* A job that issues nothing: it goes on or ends, and writes at most a status.
LEMMA QuietJobsBook ==
    ASSUME AftermathInvariant, AftermathInvariant', ReceiptsBooked, NEW j \in Job,
           TakeJob(j) \/ SkipReceipt(j) \/ NoReceipt(j) \/ OnFailed(j)
    PROVE  ReceiptsBooked'
  <1>1. Typed /\ Referenced
    BY DEF AftermathInvariant
  <1>p. PICK p \in Payment : p = job[j].payment
    BY <1>1 DEF TakeJob, SkipReceipt, NoReceipt, OnFailed, Referenced, Active
  <1>2. Opens(j, p) /\ UNCHANGED <<client, receipts, faults>>
    BY <1>p DEF TakeJob, SkipReceipt, NoReceipt, OnFailed, Opens
  <1>3. \/ JobGoes(j, {"sell"})
        \/ JobGoes(j, {"failed", "waiting"})
        \/ JobGoes(j, {"none"})
    BY <1>1, JobSteps, JobEnds, AttemptEnds DEF TakeJob, SkipReceipt, NoReceipt, OnFailed
  <1>4. JobGoes(j, {"none", "sell", "failed", "waiting"})
    BY <1>3 DEF JobGoes
  <1>5. \/ payment' = payment
        \/ StatusGoes(p, "SKIPPED")
        \/ StatusGoes(p, "FAILED") /\ job'[j].step = "none"
    <2>1. OnFailed(j) => job'[j].step = "none"
      BY <1>1, JobEnds DEF OnFailed, JobGoes
    <2> QED
      BY <1>1, <1>p, <2>1, StatusWritten DEF TakeJob, SkipReceipt, NoReceipt, OnFailed
  <1>6. /\ \A q \in Payment \ {p} : payment'[q] = payment[q]
        /\ payment'[p].receipt = payment[p].receipt
        /\ Askable(p)' => Askable(p) \/ ~Opens(j, p)'
    BY <1>2, <1>5 DEF StatusGoes, Askable, Opens
  <1>7. One(Opens(j, p)') + One(Askable(p)') <= One(Opens(j, p)) + One(Askable(p))
    BY <1>2, <1>6 DEF One
  <1>8. job'[j].step # "sold"
    BY <1>4 DEF JobGoes
  <1> QED
    <2> DEFINE n == receipts[p]
               s == faults.sale
               g == faults.add
               u == One(Opens(j, p))
               v == One(Opens(j, p)')
               x == One(Askable(p))
               y == One(Askable(p)')
    <2>1. n \in Nat /\ s \in Nat /\ g \in Nat /\ u \in Nat /\ v \in Nat /\ x \in Nat /\ y \in Nat
      BY <1>1, <1>2 DEF Typed, One
    <2>2. n + v + y + s + g <= n + u + x + s + g /\ n >= n /\ s >= s /\ g >= g
      <3> HIDE DEF n, s, g, u, v, x, y
      <3> QED
        BY <1>7, <2>1 DEF u, v, x, y
    <2> QED
      BY <1>p, <1>2, <1>4, <1>6, <1>8, <2>2, JobBooks

\* A receipt is issued: by a job that was open, or with an answer that is lost.
LEMMA SellReceiptBooks ==
    ASSUME AftermathInvariant, AftermathInvariant', ReceiptsBooked, NEW j \in Job, SellReceipt(j)
    PROVE  ReceiptsBooked'
  <1>1. Typed /\ Referenced
    BY DEF AftermathInvariant
  <1>p. PICK p \in Payment : p = job[j].payment
    BY <1>1 DEF SellReceipt, Referenced, Active
  <1>2. /\ Opens(j, p) /\ UNCHANGED <<client, payment>>
        /\ \A q \in Payment \ {p} : receipts'[q] = receipts[q]
        /\ receipts'[p] = receipts[p] + 1
    BY <1>1, <1>p DEF SellReceipt, Opens, Typed
  <1>3. /\ JobGoes(j, {"sold", "failed", "waiting"})
        /\ faults'.add = faults.add
        /\ \/ job'[j].step = "sold" /\ faults'.sale = faults.sale
           \/ faults'.sale = faults.sale + 1
    <2>1. CASE AttemptFails(j) /\ Fault("sale")
      BY <1>1, <2>1, AttemptEnds DEF JobGoes, Fault, Typed
    <2>2. CASE job' = [job EXCEPT ![j].step = "sold"] /\ UNCHANGED faults
      BY <1>1, <2>2, JobSteps DEF JobGoes
    <2> QED
      BY <2>1, <2>2 DEF SellReceipt
  <1>4. Askable(p)' = Askable(p) /\ (Opens(j, p)' => job'[j].step # "sold")
    BY <1>2 DEF Askable, Opens
  <1> DEFINE n == receipts[p]
             m == receipts'[p]
             s == faults.sale
             t == faults'.sale
             g == faults.add
             h == faults'.add
             u == One(Opens(j, p))
             v == One(Opens(j, p)')
             x == One(Askable(p))
             y == One(Askable(p)')
  <1>5. /\ n \in Nat /\ s \in Nat /\ g \in Nat /\ x \in Nat
        /\ m = n + 1 /\ h = g /\ u = 1 /\ y = x
        /\ v \in {0, 1} /\ t \in {s, s + 1} /\ v <= t - s
    <2>1. n \in Nat /\ s \in Nat /\ g \in Nat
      BY <1>1 DEF Typed
    <2>2. x \in Nat /\ u = 1 /\ y = x /\ v \in {0, 1} /\ (v = 0 \/ job'[j].step # "sold")
      BY <1>2, <1>4 DEF One
    <2>3. m = n + 1 /\ h = g
      BY <1>2, <1>3
    <2>4. t = s + 1 \/ (t = s /\ v = 0)
      BY <1>3, <2>2
    <2> HIDE DEF n, m, s, t, g, h, u, v, x, y
    <2> QED
      BY <2>1, <2>2, <2>3, <2>4
  <1>6. m + v + y + s + g <= n + u + x + t + h /\ m >= n /\ t >= s /\ h >= g /\ m > 0
    <2> HIDE DEF n, m, s, t, g, h, u, v, x, y
    <2> QED
      BY <1>5
  <1> QED
    BY <1>p, <1>2, <1>3, <1>6, JobBooks

\* A receipt that is written was issued.
LEMMA WriteReceiptBooks ==
    ASSUME AftermathInvariant, AftermathInvariant', ReceiptsBooked, NEW j \in Job, WriteReceipt(j)
    PROVE  ReceiptsBooked'
  <1>1. Typed /\ Referenced
    BY DEF AftermathInvariant
  <1>p. PICK p \in Payment : p = job[j].payment
    BY <1>1 DEF WriteReceipt, Referenced, Active
  <1>2. UNCHANGED <<client, receipts, faults>> /\ ~Opens(j, p) /\ receipts[p] > 0
    BY <1>p DEF WriteReceipt, ReceiptsBooked, SoldIssued, Opens
  <1>3. JobGoes(j, {"none"})
    BY <1>1, JobEnds DEF WriteReceipt
  <1>4. ~Opens(j, p)' /\ job'[j].step # "sold"
    BY <1>3 DEF JobGoes, Opens
  <1>5. /\ \A q \in Payment \ {p} : payment'[q] = payment[q]
        /\ Askable(p)' => Askable(p)
    <2>1. CASE payment[p].receipt
      BY <1>p, <2>1 DEF WriteReceipt, Askable
    <2>2. CASE ~payment[p].receipt
      <3> DEFINE r == [payment[p] EXCEPT !.receipt = TRUE, !.status = "DONE"]
      <3>1. r.receipt /\ r.status = "DONE"
        BY <1>1, PaymentGetsReceipt DEF Typed
      <3>2. payment' = [payment EXCEPT ![p] = r]
        BY <1>p, <2>2 DEF WriteReceipt
      <3> HIDE DEF r
      <3> QED
        BY <1>1, <3>1, <3>2 DEF Typed, Askable
    <2> QED
      BY <2>1, <2>2
  <1> DEFINE n == receipts[p]
             s == faults.sale
             g == faults.add
             u == One(Opens(j, p))
             v == One(Opens(j, p)')
             x == One(Askable(p))
             y == One(Askable(p)')
  <1>6. n \in Nat /\ s \in Nat /\ g \in Nat /\ u = 0 /\ v = 0 /\ x \in Nat /\ y \in Nat /\ y <= x
    BY <1>1, <1>2, <1>4, <1>5 DEF Typed, One
  <1>7. n + v + y + s + g <= n + u + x + s + g /\ n >= n /\ s >= s /\ g >= g
    <2> HIDE DEF n, s, g, u, v, x, y
    <2> QED
      BY <1>6
  <1> QED
    BY <1>p, <1>2, <1>3, <1>4, <1>5, <1>7, JobBooks

\* The number of a receipt is lost, and another one may be issued.
LEMMA LoseReceiptBooks ==
    ASSUME AftermathInvariant, AftermathInvariant', ReceiptsBooked, NEW j \in Job, LoseReceipt(j)
    PROVE  ReceiptsBooked'
  <1>1. Typed /\ Referenced
    BY DEF AftermathInvariant
  <1>p. PICK p \in Payment : p = job[j].payment
    BY <1>1 DEF LoseReceipt, Referenced, Active
  <1>2. UNCHANGED <<client, payment, receipts>> /\ ~Opens(j, p) /\ Askable(p)' = Askable(p)
    BY <1>p DEF LoseReceipt, Opens, Askable
  <1>3. JobGoes(j, {"failed", "waiting"})
    <2>1. CASE AttemptFails(j)
      BY <1>1, <2>1, AttemptEnds
    <2>2. CASE job' = [job EXCEPT ![j].step = "waiting"]
      BY <1>1, <2>2, JobSteps DEF JobGoes
    <2> QED
      BY <2>1, <2>2 DEF LoseReceipt
  <1>4. faults'.add = faults.add /\ faults'.sale = faults.sale + 1 /\ job'[j].step # "sold"
    BY <1>1, <1>3 DEF LoseReceipt, Fault, Typed, JobGoes
  <1> DEFINE n == receipts[p]
             s == faults.sale
             t == faults'.sale
             g == faults.add
             h == faults'.add
             u == One(Opens(j, p))
             v == One(Opens(j, p)')
             x == One(Askable(p))
             y == One(Askable(p)')
  <1>5. /\ n \in Nat /\ s \in Nat /\ g \in Nat /\ u = 0 /\ v \in {0, 1} /\ x \in Nat /\ y = x
        /\ t = s + 1 /\ h = g
    BY <1>1, <1>2, <1>4 DEF Typed, One
  <1>6. n + v + y + s + g <= n + u + x + t + h /\ n >= n /\ t >= s /\ h >= g
    <2> HIDE DEF n, s, t, g, h, u, v, x, y
    <2> QED
      BY <1>5
  <1> QED
    BY <1>p, <1>2, <1>3, <1>4, <1>6, JobBooks

\* No other step asks for a receipt, or issues one.
LEMMA NextKeepsReceipts ==
    ASSUME AftermathInvariant, AftermathInvariant', ReceiptsBooked, [Next]_vars
    PROVE  ReceiptsBooked'
  <1>1. CASE \E c \in Client : ClientStep(c)
    BY <1>1, CreatePaymentBooks, RetryFiscalBooks, EnqueueReceiptBooks, MarkFailedBooks,
       CommitReverseBooks, QuietRequestsBook DEF ClientStep
  <1>2. CASE \E j \in Job : JobStep(j)
    BY <1>2, QuietJobsBook, SellReceiptBooks, WriteReceiptBooks, LoseReceiptBooks DEF JobStep
  <1>3. UNCHANGED <<payment, client, job, receipts, faults>> => ReceiptsBooked'
    BY DEF ReceiptsBooked, Bounded, SoldIssued, WrittenIssued, Potential, Asking, Open, Askable,
           Asks, Opens, Enqueuing
  <1>4. PointsStep \/ UNCHANGED vars => UNCHANGED <<payment, client, job, receipts, faults>>
    BY DEF PointsStep, TakeEarn, HoldPayment, Grant, NoGrant, Redeem, vars
  <1> QED
    BY <1>1, <1>2, <1>3, <1>4 DEF Next

\* At the start one receipt of every payment may still be asked for.
LEMMA InitBooksReceipts == Init => ReceiptsBooked
  <1> SUFFICES ASSUME Init PROVE ReceiptsBooked
    OBVIOUS
  <1>1. /\ \A c \in Client : client[c].op = "none"
        /\ \A j \in Job : job[j].step = "none"
        /\ \A p \in Payment : payment[p].status = "ABSENT" /\ ~payment[p].receipt /\ receipts[p] = 0
        /\ faults.add = 0 /\ faults.sale = 0
    BY IdleTyped DEF Init
  <1>2. ASSUME NEW p \in Payment PROVE Potential(p) <= 1 + faults.sale + faults.add
    <2>1. Asking(p) = {} /\ Open(p) = {} /\ One(Askable(p)) = 1
      BY <1>1 DEF Asking, Asks, Enqueuing, Open, Opens, Askable, One
    <2>2. Cardinality(Asking(p)) = 0 /\ Cardinality(Open(p)) = 0
      BY <2>1, FS_EmptySet
    <2> QED
      BY <1>1, <2>1, <2>2 DEF Potential
  <1>3. SoldIssued /\ WrittenIssued
    BY <1>1 DEF SoldIssued, WrittenIssued
  <1> QED
    BY <1>2, <1>3 DEF ReceiptsBooked, Bounded

\* A payment gets one receipt, and one more only for each answer of the fiscal service
\* or of Redis that got lost; one that is written to it was issued; a reversed payment
\* has none, unless Redis lost an answer.
THEOREM ReceiptsAlwaysExplained == Spec => []ReceiptsExplained
  <1>1. AftermathInvariant => ReversedHasNoReceipt
    BY DEF AftermathInvariant, OneCares, ReversedSettled, Settled, ReversedHasNoReceipt
  <1>2. AftermathInvariant /\ ReceiptsBooked => ReceiptsExplained
    <2> SUFFICES ASSUME AftermathInvariant, ReceiptsBooked, NEW p \in Payment
                 PROVE  /\ receipts[p] <= 1 + faults.sale + faults.add
                        /\ payment[p].receipt => receipts[p] > 0
      BY <1>1 DEF ReceiptsExplained
    <2>1. Typed /\ Potential(p) <= 1 + faults.sale + faults.add
      BY DEF AftermathInvariant, ReceiptsBooked, Bounded
    <2>2. receipts[p] <= 1 + faults.sale + faults.add
      <3> DEFINE a == Cardinality(Asking(p))
                 o == Cardinality(Open(p))
                 x == One(Askable(p))
                 n == receipts[p]
                 k == 1 + faults.sale + faults.add
      <3>1. a \in Nat /\ o \in Nat /\ x \in Nat /\ n \in Nat /\ k \in Nat /\ n + a + o + x <= k
        BY <2>1, CountsTyped DEF Potential
      <3> HIDE DEF a, o, x, n, k
      <3>2. n <= k
        BY <3>1
      <3> QED
        BY <3>2 DEF n, k
    <2> QED
      BY <2>2 DEF ReceiptsBooked, WrittenIssued
  <1>3. AftermathInvariant /\ AftermathInvariant' /\ ReceiptsBooked /\ [Next]_vars => ReceiptsBooked'
    BY NextKeepsReceipts
  <1> QED
    BY <1>2, <1>3, InitBooksReceipts, AftermathKept, PTL DEF Spec
=============================================================================
