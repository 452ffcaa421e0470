------------------------ MODULE OnlinePaymentProofs ------------------------
(***************************************************************************)
(* Proofs about OnlinePayment, for any number of intents, workers, lost    *)
(* jobs and failed calls, and any limits of attempts: no payment of a      *)
(* client is credited twice, only confirmed money is credited, and what an *)
(* intent has come to is final.                                            *)
(***************************************************************************)
EXTENDS OnlinePayment, TLAPS

\* A gateway decides only on what is registered.
DecidesRegistered == \A i \in Intents : ~intent[i].registered => gateway[i] = "none"

\* What a worker knows where it is, although it read it some steps ago: the gateway has
\* confirmed the money; the intent is PAID; the payment exists.
Finalizing == {"look", "create", "link", "relink", "note", "again"}
WorkersKnow ==
    \A w \in Workers :
        /\ At(w, "cas") => gateway[Of(w)] = "paid"
        /\ worker[w].pc \in Finalizing => intent[Of(w)].status = "PAID"
        /\ worker[w].pc \in {"link", "relink"} => payment[Of(w)] > 0

PaymentInvariant ==
    /\ TypeOK
    /\ CreditedOnce
    /\ CreditedIsConfirmed
    /\ DecidesRegistered
    /\ WorkersKnow

-----------------------------------------------------------------------------
(* Executions. *)

\* A worker at work has a job of a known intent.
LEMMA BusyTyped ==
    ASSUME TypeOK, NEW w \in Workers, worker[w].pc # "idle"
    PROVE  /\ worker[w] \in [pc : {"ask", "next", "fail", "expire", "cas", "look", "create",
                                   "link", "relink", "note", "again"},
                             job : Jobs, late : BOOLEAN, owner : BOOLEAN]
           /\ worker[w].job \in Jobs
           /\ Of(w) \in Intents
  BY DEF TypeOK, Executions, Idle, Jobs, Of

\* A worker that goes to another place keeps its job and its type.
LEMMA GoToTyped ==
    ASSUME TypeOK, NEW w \in Workers, worker[w].pc # "idle",
           NEW pc \in {"ask", "next", "fail", "expire", "cas", "look", "create",
                       "link", "relink", "note", "again"},
           GoTo(w, pc)
    PROVE  /\ worker' \in [Workers -> Executions]
           /\ worker'[w].pc = pc /\ worker'[w].job = worker[w].job
           /\ \A v \in Workers \ {w} : worker'[v] = worker[v]
  <1> DEFINE E == [pc : {"ask", "next", "fail", "expire", "cas", "look", "create",
                         "link", "relink", "note", "again"},
                   job : Jobs, late : BOOLEAN, owner : BOOLEAN]
  <1>1. worker[w] \in E
    BY BusyTyped
  <1>2. [worker[w] EXCEPT !.pc = pc] \in E
    BY <1>1
  <1>3. worker' = [worker EXCEPT ![w] = [worker[w] EXCEPT !.pc = pc]]
    BY DEF GoTo
  <1>4. worker \in [Workers -> Executions] /\ E \subseteq Executions
    BY DEF TypeOK, Executions
  <1> QED
    BY <1>1, <1>2, <1>3, <1>4

\* A worker that ends is idle.
LEMMA EndsTyped ==
    ASSUME TypeOK, NEW w \in Workers, Ends(w)
    PROVE  /\ worker' \in [Workers -> Executions]
           /\ worker'[w].pc = "idle"
           /\ \A v \in Workers \ {w} : worker'[v] = worker[v]
  BY DEF TypeOK, Ends, Executions, Idle

\* A new job has the type of a job, and so has the queue it is added to.
LEMMA AddedTyped ==
    ASSUME TypeOK, NEW i \in Intents, NEW kind \in {"p", "f"}, NEW step \in Nat
    PROVE  Added(Job(i, kind, step)) \subseteq Jobs
  <1>1. Job(i, kind, step) \in Jobs
    BY DEF Job, Jobs
  <1> QED
    BY <1>1 DEF TypeOK, Added

\* The id of a job is an id.
LEMMA IdTyped ==
    ASSUME NEW job \in Jobs
    PROVE  Id(job) \in Ids
  BY DEF Id, Ids, Jobs

\* A fault is counted within its bound.
LEMMA FaultTyped ==
    ASSUME TypeOK, Fault \/ NoFault
    PROVE  used' \in [losses : 0..MaxLosses, faults : 0..MaxFaults]
  BY OnlinePaymentAssumption DEF TypeOK, Fault, NoFault, MayFault

-----------------------------------------------------------------------------
(* The steps. *)

LEMMA InitEstablishes == Init => PaymentInvariant
  <1> SUFFICES ASSUME Init PROVE PaymentInvariant
    OBVIOUS
  <1>1. TypeOK
    BY OnlinePaymentAssumption DEF Init, TypeOK, Executions, Idle
  <1>2. WorkersKnow
    BY DEF Init, WorkersKnow, At, Idle, Finalizing
  <1> QED
    BY <1>1, <1>2 DEF PaymentInvariant, Init, CreditedOnce, CreditedIsConfirmed, DecidesRegistered

\* Steps of the client, the cashier, the gateway and the clock leave the workers alone and
\* take nothing back that a worker knows.
LEMMA WorldKeeps ==
    ASSUME PaymentInvariant, NEW i \in Intents,
           \/ CreateIntent(i) \/ Register(i) \/ RegisterFails(i)
           \/ GatewayDecides(i) \/ DeadlinePasses(i) \/ PayAtDesk(Amount[i])
    PROVE  PaymentInvariant'
  <1> USE DEF PaymentInvariant
  <1>1. Amount[i] \in Nat /\ InvoiceAmount \in Nat
    BY OnlinePaymentAssumption
  <1>2. TypeOK'
    <2>1. CASE CreateIntent(i)
      BY <2>1 DEF CreateIntent, TypeOK
    <2>2. CASE Register(i)
      <3>1. used' \in [losses : 0..MaxLosses, faults : 0..MaxFaults]
        BY <2>2, FaultTyped DEF Register
      <3>2. queue' \subseteq Jobs
        <4>1. Added(Job(i, "p", 0)) \subseteq Jobs
          BY AddedTyped
        <4> QED
          BY <2>2, <4>1 DEF Register, TypeOK
      <3> QED
        BY <2>2, <3>1, <3>2 DEF Register, TypeOK
    <2>3. CASE RegisterFails(i)
      BY <2>3 DEF RegisterFails, TypeOK
    <2>4. CASE GatewayDecides(i)
      BY <2>4 DEF GatewayDecides, TypeOK
    <2>5. CASE DeadlinePasses(i)
      BY <2>5 DEF DeadlinePasses, TypeOK
    <2>6. CASE PayAtDesk(Amount[i])
      BY <2>6, <1>1 DEF PayAtDesk, TypeOK
    <2> QED
      BY <2>1, <2>2, <2>3, <2>4, <2>5, <2>6
  <1>3. worker' = worker /\ payment' = payment
    BY DEF CreateIntent, Register, RegisterFails, GatewayDecides, DeadlinePasses, PayAtDesk
  <1>4. \A j \in Intents :
           /\ gateway[j] = "paid" => gateway'[j] = "paid"
           /\ intent[j].status = "PAID" <=> intent'[j].status = "PAID"
           /\ intent'[j].linked = intent[j].linked
           /\ ~intent'[j].registered => ~intent[j].registered /\ gateway'[j] = gateway[j]
    BY DEF TypeOK, DecidesRegistered, CreateIntent, Register, RegisterFails, GatewayDecides,
           DeadlinePasses, PayAtDesk
  <1>5. WorkersKnow'
    <2> SUFFICES ASSUME NEW w \in Workers, worker[w].pc # "idle"
                 PROVE  /\ At(w, "cas")' => gateway'[Of(w)'] = "paid"
                        /\ worker'[w].pc \in Finalizing => intent'[Of(w)'].status = "PAID"
                        /\ worker'[w].pc \in {"link", "relink"} => payment'[Of(w)'] > 0
      BY <1>3 DEF WorkersKnow, At, Finalizing
    <2>1. Of(w) \in Intents
      BY BusyTyped
    <2> QED
      BY <2>1, <1>3, <1>4 DEF WorkersKnow, At, Of
  <1>6. CreditedOnce' /\ CreditedIsConfirmed' /\ DecidesRegistered'
    BY <1>3, <1>4 DEF CreditedOnce, CreditedIsConfirmed, DecidesRegistered
  <1> QED
    BY <1>2, <1>5, <1>6

\* A step of worker w on its intent i that keeps what is known of the intents keeps what the
\* other workers know.
LEMMA OthersKnow ==
    ASSUME PaymentInvariant, NEW w \in Workers,
           \A v \in Workers \ {w} : worker'[v] = worker[v],
           gateway' = gateway,
           \A j \in Intents : intent[j].status = "PAID" => intent'[j].status = "PAID",
           \A j \in Intents : payment[j] > 0 => payment'[j] > 0,
           /\ At(w, "cas")' => gateway'[Of(w)'] = "paid"
           /\ worker'[w].pc \in Finalizing => intent'[Of(w)'].status = "PAID"
           /\ worker'[w].pc \in {"link", "relink"} => payment'[Of(w)'] > 0
    PROVE  WorkersKnow'
  <1> SUFFICES ASSUME NEW v \in Workers \ {w}, worker[v].pc # "idle"
               PROVE  /\ At(v, "cas")' => gateway'[Of(v)'] = "paid"
                      /\ worker'[v].pc \in Finalizing => intent'[Of(v)'].status = "PAID"
                      /\ worker'[v].pc \in {"link", "relink"} => payment'[Of(v)'] > 0
    BY DEF WorkersKnow, At, Finalizing
  <1>1. Of(v) \in Intents
    BY BusyTyped DEF PaymentInvariant
  <1> QED
    BY <1>1 DEF PaymentInvariant, WorkersKnow, At, Of

-----------------------------------------------------------------------------
(* What a worker does. *)

\* A worker takes a job: it goes where the row it reads sends it.
LEMMA TakeKeeps ==
    ASSUME PaymentInvariant, NEW w \in Workers, NEW job \in queue, Take(w, job)
    PROVE  PaymentInvariant'
  <1> USE DEF PaymentInvariant
  <1> DEFINE i == job.intent
             pc == FirstStep(intent[i], job)
             at == [pc |-> pc, job |-> job, late |-> intent[i].late, owner |-> TRUE]
  <1>1. job \in Jobs /\ i \in Intents /\ intent[i].late \in BOOLEAN
    BY DEF TypeOK, Jobs
  <1>2. /\ pc \in {"look", "expire", "ask", "end"}
        /\ pc = "look" => intent[i].status = "PAID"
    BY DEF FirstStep
  <1>3. UNCHANGED <<intent, gateway, payment, paid>>
    BY DEF Take
  <1>4. \/ worker' = worker
        \/ worker' = [worker EXCEPT ![w] = Idle]
        \/ pc # "end" /\ worker' = [worker EXCEPT ![w] = at]
    BY DEF Take
  <1>5. pc # "end" => at \in Executions
    BY <1>1, <1>2 DEF Executions
  <1>6. TypeOK'
    <2>1. worker' \in [Workers -> Executions]
      BY <1>4, <1>5 DEF TypeOK, Executions
    <2>2. queue' \subseteq Jobs
      BY DEF Take, TypeOK
    <2>3. failed' \subseteq Ids
      BY <1>1, IdTyped DEF Take, TypeOK
    <2>4. used' \in [losses : 0..MaxLosses, faults : 0..MaxFaults]
      BY FaultTyped DEF Take
    <2> QED
      BY <1>3, <2>1, <2>2, <2>3, <2>4 DEF TypeOK
  <1>7. \A v \in Workers \ {w} : worker'[v] = worker[v]
    BY <1>4 DEF TypeOK
  <1>8. /\ At(w, "cas")' => gateway'[Of(w)'] = "paid"
        /\ worker'[w].pc \in Finalizing => intent'[Of(w)'].status = "PAID"
        /\ worker'[w].pc \in {"link", "relink"} => payment'[Of(w)'] > 0
    <2>1. CASE worker' = worker
      BY <2>1, <1>3 DEF WorkersKnow, At, Of
    <2>2. CASE worker' = [worker EXCEPT ![w] = Idle]
      BY <2>2 DEF TypeOK, At, Idle, Finalizing
    <2>3. CASE pc # "end" /\ worker' = [worker EXCEPT ![w] = at]
      <3>1. worker'[w] = at
        BY <2>3 DEF TypeOK
      <3> QED
        BY <3>1, <1>2, <1>3 DEF At, Of, Finalizing
    <2> QED
      BY <1>4, <2>1, <2>2, <2>3
  <1>9. WorkersKnow'
    BY <1>3, <1>7, <1>8, OthersKnow
  <1> QED
    BY <1>3, <1>6, <1>9 DEF CreditedOnce, CreditedIsConfirmed, DecidesRegistered

\* A step of a worker that leaves the intents, the gateway and the payments alone.
LEMMA ReadingKeeps ==
    ASSUME PaymentInvariant, NEW w \in Workers,
           UNCHANGED <<intent, gateway, payment, paid>>,
           queue' \subseteq Jobs, failed' \subseteq Ids,
           used' \in [losses : 0..MaxLosses, faults : 0..MaxFaults],
           worker' \in [Workers -> Executions],
           \A v \in Workers \ {w} : worker'[v] = worker[v],
           /\ At(w, "cas")' => gateway[Of(w)'] = "paid"
           /\ worker'[w].pc \in Finalizing => intent[Of(w)'].status = "PAID"
           /\ worker'[w].pc \in {"link", "relink"} => payment[Of(w)'] > 0
    PROVE  PaymentInvariant'
  <1>1. WorkersKnow'
    BY OthersKnow
  <1> QED
    BY <1>1 DEF PaymentInvariant, TypeOK, CreditedOnce, CreditedIsConfirmed, DecidesRegistered

\* Asking the gateway: "paid" is only heard from a gateway that says so.
LEMMA AskKeeps ==
    ASSUME PaymentInvariant, NEW w \in Workers,
           Ask(w) \/ AskUnanswered(w) \/ GatewayGone(w)
    PROVE  PaymentInvariant'
  <1> USE DEF PaymentInvariant
  <1>1. At(w, "ask") /\ worker[w].pc # "idle"
    BY DEF Ask, AskUnanswered, GatewayGone, At
  <1>2. PICK pc \in {"next", "fail", "expire", "cas"} :
            GoTo(w, pc) /\ (pc = "cas" => gateway[Of(w)] = "paid")
    BY DEF Ask, AskUnanswered, GatewayGone, AfterAnswer
  <1>3. /\ worker' \in [Workers -> Executions]
        /\ worker'[w].pc = pc /\ worker'[w].job = worker[w].job
        /\ \A v \in Workers \ {w} : worker'[v] = worker[v]
    BY <1>1, <1>2, GoToTyped
  <1>4. UNCHANGED <<intent, gateway, payment, paid, queue, failed, used>>
    BY DEF Ask, AskUnanswered, GatewayGone
  <1> QED
    BY <1>2, <1>3, <1>4, ReadingKeeps DEF At, Of, Finalizing, TypeOK

\* The next job of the chain.
LEMMA EnqueueKeeps ==
    ASSUME PaymentInvariant, NEW w \in Workers, EnqueueNextPoll(w) \/ EnqueueFinalize(w)
    PROVE  PaymentInvariant'
  <1> USE DEF PaymentInvariant
  <1>1. worker[w].pc # "idle" /\ Ends(w)
    BY DEF EnqueueNextPoll, EnqueueFinalize, At, Throws
  <1>2. /\ worker' \in [Workers -> Executions]
        /\ worker'[w].pc = "idle"
        /\ \A v \in Workers \ {w} : worker'[v] = worker[v]
    BY <1>1, EndsTyped
  <1>3. worker[w].job \in Jobs /\ Of(w) \in Intents /\ worker[w].job.step \in Nat
    BY <1>1, BusyTyped DEF Jobs
  <1>4. queue' \subseteq Jobs
    <2>1. Added(NextJob(w)) \subseteq Jobs
      BY <1>3, AddedTyped DEF NextJob
    <2>2. Added(Job(Of(w), "f", FinalizeAttempts(worker[w].job) + 1)) \subseteq Jobs
      <3>1. FinalizeAttempts(worker[w].job) + 1 \in Nat
        BY <1>3 DEF FinalizeAttempts
      <3> QED
        BY <1>3, <3>1, AddedTyped
    <2> QED
      BY <2>1, <2>2 DEF EnqueueNextPoll, EnqueueFinalize, TypeOK
  <1>5. failed' \subseteq Ids
    BY <1>3, IdTyped DEF EnqueueNextPoll, EnqueueFinalize, Throws, TypeOK
  <1>6. used' \in [losses : 0..MaxLosses, faults : 0..MaxFaults]
    BY FaultTyped DEF EnqueueNextPoll, EnqueueFinalize
  <1>7. UNCHANGED <<intent, gateway, payment, paid>>
    BY DEF EnqueueNextPoll, EnqueueFinalize
  <1> QED
    BY <1>2, <1>4, <1>5, <1>6, <1>7, ReadingKeeps DEF At, Finalizing

\* The rows of intents.
IntentRows == [status : {"NONE", "PENDING", "PAID", "FAILED", "EXPIRED"},
               late : BOOLEAN, linked : BOOLEAN, registered : BOOLEAN, error : BOOLEAN]

\* A write of the intent of w that keeps PAID PAID and leaves the payments alone.
LEMMA WritingKeeps ==
    ASSUME PaymentInvariant, NEW w \in Workers, Of(w) \in Intents,
           NEW row \in IntentRows,
           row.registered = intent[Of(w)].registered,
           intent[Of(w)].status = "PAID" => row.status = "PAID",
           row.status = "PAID" => gateway[Of(w)] = "paid",
           row.linked => payment[Of(w)] > 0,
           intent' = [intent EXCEPT ![Of(w)] = row],
           UNCHANGED <<gateway, payment, paid, queue>>,
           failed' \subseteq Ids,
           used' \in [losses : 0..MaxLosses, faults : 0..MaxFaults],
           worker' \in [Workers -> Executions],
           \A v \in Workers \ {w} : worker'[v] = worker[v],
           worker'[w].pc \in {"idle", "look", "again"},
           worker'[w].pc # "idle" => worker'[w].job = worker[w].job /\ row.status = "PAID"
    PROVE  PaymentInvariant'
  <1> USE DEF PaymentInvariant
  <1>1. /\ intent' \in [Intents -> IntentRows]
        /\ intent'[Of(w)] = row
        /\ \A j \in Intents \ {Of(w)} : intent'[j] = intent[j]
    BY DEF TypeOK, IntentRows
  <1>2. TypeOK'
    BY <1>1 DEF TypeOK, IntentRows
  <1>3. WorkersKnow'
    <2>1. \A j \in Intents : intent[j].status = "PAID" => intent'[j].status = "PAID"
      BY <1>1
    <2>2. /\ At(w, "cas")' => gateway'[Of(w)'] = "paid"
          /\ worker'[w].pc \in Finalizing => intent'[Of(w)'].status = "PAID"
          /\ worker'[w].pc \in {"link", "relink"} => payment'[Of(w)'] > 0
      BY <1>1 DEF At, Of, Finalizing
    <2> QED
      BY <2>1, <2>2, OthersKnow
  <1>4. CreditedOnce' /\ CreditedIsConfirmed' /\ DecidesRegistered'
    <2>1. CreditedOnce'
      BY DEF CreditedOnce
    <2>2. DecidesRegistered'
      BY <1>1 DEF DecidesRegistered
    <2>3. CreditedIsConfirmed'
      BY <1>1 DEF CreditedIsConfirmed
    <2> QED
      BY <2>1, <2>2, <2>3
  <1> QED
    BY <1>2, <1>3, <1>4

\* FAILED and EXPIRED are written over PENDING only.
LEMMA CloseKeeps ==
    ASSUME PaymentInvariant, NEW w \in Workers, Close(w)
    PROVE  PaymentInvariant'
  <1> USE DEF PaymentInvariant
  <1>1. worker[w].pc # "idle" /\ Ends(w)
    BY DEF Close, At
  <1>2. Of(w) \in Intents /\ intent[Of(w)] \in IntentRows
    BY <1>1, BusyTyped DEF TypeOK, IntentRows
  <1>3. /\ worker' \in [Workers -> Executions]
        /\ worker'[w].pc = "idle"
        /\ \A v \in Workers \ {w} : worker'[v] = worker[v]
    BY <1>1, EndsTyped
  <1>4. used' \in [losses : 0..MaxLosses, faults : 0..MaxFaults]
    BY FaultTyped DEF Close
  <1>5. UNCHANGED <<gateway, payment, paid, queue, failed>> /\ failed \subseteq Ids
    BY DEF Close, TypeOK
  <1>6. CASE intent' = intent
    BY <1>3, <1>4, <1>5, <1>6, ReadingKeeps DEF At, Finalizing, TypeOK
  <1>7. CASE intent' # intent
    <2> DEFINE s == IF At(w, "fail") THEN "FAILED" ELSE "EXPIRED"
               row == [intent[Of(w)] EXCEPT !.status = s, !.error = TRUE]
    <2>1. intent' = [intent EXCEPT ![Of(w)] = row]
      BY <1>7 DEF Close
    <2>2. row \in IntentRows
      BY <1>2 DEF IntentRows
    <2>3. /\ row.registered = intent[Of(w)].registered /\ row.status # "PAID"
          /\ row.linked = intent[Of(w)].linked
      BY <1>2 DEF IntentRows
    <2>4. intent[Of(w)].status = "PENDING"
      BY <1>7 DEF Close, StillPending
    <2>5. row.linked => payment[Of(w)] > 0
      BY <1>2, <2>3 DEF CreditedIsConfirmed
    <2> HIDE DEF row
    <2> QED
      BY <1>2, <1>3, <1>4, <1>5, <2>1, <2>2, <2>3, <2>4, <2>5, WritingKeeps
  <1> QED
    BY <1>6, <1>7

\* PAID is written over PENDING, by a worker that knows that the gateway has confirmed.
LEMMA MarkPaidKeeps ==
    ASSUME PaymentInvariant, NEW w \in Workers, MarkPaid(w)
    PROVE  PaymentInvariant'
  <1> USE DEF PaymentInvariant
  <1>1. worker[w].pc # "idle" /\ At(w, "cas")
    BY DEF MarkPaid, At
  <1>2. Of(w) \in Intents /\ intent[Of(w)] \in IntentRows /\ worker[w].job \in Jobs
    BY <1>1, BusyTyped DEF TypeOK, IntentRows
  <1>3. used' \in [losses : 0..MaxLosses, faults : 0..MaxFaults]
    BY FaultTyped DEF MarkPaid
  <1>4. UNCHANGED <<gateway, payment, paid, queue>>
    BY DEF MarkPaid
  <1>5. failed' \subseteq Ids
    BY <1>2, IdTyped DEF MarkPaid, Throws, TypeOK
  <1>6. CASE Ends(w) /\ UNCHANGED intent
    <2>1. /\ worker' \in [Workers -> Executions]
          /\ worker'[w].pc = "idle"
          /\ \A v \in Workers \ {w} : worker'[v] = worker[v]
      BY <1>6, EndsTyped
    <2> QED
      BY <1>3, <1>4, <1>5, <1>6, <2>1, ReadingKeeps DEF At, Finalizing, TypeOK
  <1>7. CASE GoTo(w, "look") /\ intent' = [intent EXCEPT ![Of(w)].status = "PAID"]
    <2> DEFINE row == [intent[Of(w)] EXCEPT !.status = "PAID"]
    <2>1. intent' = [intent EXCEPT ![Of(w)] = row]
      BY <1>7
    <2>2. row \in IntentRows
      BY <1>2 DEF IntentRows
    <2>3. /\ row.registered = intent[Of(w)].registered /\ row.status = "PAID"
          /\ row.linked = intent[Of(w)].linked
      BY <1>2 DEF IntentRows
    <2>4. gateway[Of(w)] = "paid"
      BY <1>1 DEF WorkersKnow
    <2>5. row.linked => payment[Of(w)] > 0
      BY <1>2, <2>3 DEF CreditedIsConfirmed
    <2>6. /\ worker' \in [Workers -> Executions]
          /\ worker'[w].pc = "look" /\ worker'[w].job = worker[w].job
          /\ \A v \in Workers \ {w} : worker'[v] = worker[v]
      BY <1>1, <1>7, GoToTyped
    <2> HIDE DEF row
    <2> QED
      BY <1>2, <1>3, <1>4, <1>5, <2>1, <2>2, <2>3, <2>4, <2>5, <2>6, WritingKeeps
  <1> QED
    BY <1>6, <1>7 DEF MarkPaid, Throws

\* The error is noted, or the payment is linked by a worker that knows that it exists.
LEMMA NoteKeeps ==
    ASSUME PaymentInvariant, NEW w \in Workers, NoteFailure(w) \/ Link(w)
    PROVE  PaymentInvariant'
  <1> USE DEF PaymentInvariant
  <1>1. worker[w].pc # "idle" /\ worker[w].pc \in Finalizing
    BY DEF NoteFailure, Link, At, Finalizing
  <1>2. /\ Of(w) \in Intents /\ intent[Of(w)] \in IntentRows
        /\ intent[Of(w)].status = "PAID" /\ gateway[Of(w)] = "paid"
    BY <1>1, BusyTyped DEF TypeOK, IntentRows, WorkersKnow, CreditedIsConfirmed
  <1>3. used' \in [losses : 0..MaxLosses, faults : 0..MaxFaults]
    BY FaultTyped DEF NoteFailure, Link
  <1>4. UNCHANGED <<gateway, payment, paid, queue, failed>> /\ failed \subseteq Ids
    BY DEF NoteFailure, Link, TypeOK
  <1>5. PICK pc \in {"idle", "note", "again"} :
           /\ worker' \in [Workers -> Executions]
           /\ worker'[w].pc = pc
           /\ pc # "idle" => worker'[w].job = worker[w].job
           /\ \A v \in Workers \ {w} : worker'[v] = worker[v]
           /\ intent' # intent => pc # "note"
    <2>1. CASE Ends(w)
      BY <2>1, EndsTyped
    <2>2. CASE GoTo(w, "note") /\ intent' = intent
      BY <2>2, <1>1, GoToTyped
    <2>3. CASE GoTo(w, "again")
      BY <2>3, <1>1, GoToTyped
    <2> QED
      BY <2>1, <2>2, <2>3 DEF NoteFailure, Link
  <1>6. CASE intent' = intent
    BY <1>2, <1>3, <1>4, <1>5, <1>6, ReadingKeeps DEF At, Of, Finalizing, TypeOK
  <1>7. CASE intent' # intent /\ NoteFailure(w)
    <2> DEFINE row == [intent[Of(w)] EXCEPT !.error = TRUE]
    <2>1. intent' = [intent EXCEPT ![Of(w)] = row]
      BY <1>7 DEF NoteFailure
    <2>2. row \in IntentRows
      BY <1>2 DEF IntentRows
    <2>3. /\ row.registered = intent[Of(w)].registered /\ row.status = "PAID"
          /\ row.linked = intent[Of(w)].linked
      BY <1>2 DEF IntentRows
    <2>4. row.linked => payment[Of(w)] > 0
      BY <1>2, <2>3 DEF CreditedIsConfirmed
    <2> HIDE DEF row
    <2> QED
      BY <1>2, <1>3, <1>4, <1>5, <1>7, <2>1, <2>2, <2>3, <2>4, WritingKeeps
  <1>8. CASE intent' # intent /\ Link(w)
    <2> DEFINE row == [intent[Of(w)] EXCEPT !.linked = TRUE, !.error = FALSE]
    <2>1. intent' = [intent EXCEPT ![Of(w)] = row]
      BY <1>8 DEF Link, Linked
    <2>2. row \in IntentRows
      BY <1>2 DEF IntentRows
    <2>3. row.registered = intent[Of(w)].registered /\ row.status = "PAID"
      BY <1>2 DEF IntentRows
    <2>4. payment[Of(w)] > 0
      BY <1>8 DEF Link, At, WorkersKnow
    <2> HIDE DEF row
    <2> QED
      BY <1>2, <1>3, <1>4, <1>5, <1>8, <2>1, <2>2, <2>3, <2>4, WritingKeeps
  <1> QED
    BY <1>6, <1>7, <1>8

\* A worker that looks for the payment links only what it has found; one whose payment is
\* refused by the unique index knows that it exists.
LEMMA LookKeeps ==
    ASSUME PaymentInvariant, NEW w \in Workers,
           Look(w) \/ CreateDuplicate(w) \/ CreateFails(w)
    PROVE  PaymentInvariant'
  <1> USE DEF PaymentInvariant
  <1>1. worker[w].pc # "idle" /\ worker[w].pc \in Finalizing
    BY DEF Look, CreateDuplicate, CreateFails, At, Finalizing
  <1>2. Of(w) \in Intents /\ payment[Of(w)] \in Nat /\ intent[Of(w)].status = "PAID"
    BY <1>1, BusyTyped DEF TypeOK, WorkersKnow
  <1>3. PICK pc \in {"link", "create", "relink", "note"} :
           GoTo(w, pc) /\ (pc \in {"link", "relink"} => payment[Of(w)] > 0)
    BY <1>2 DEF Look, CreateDuplicate, CreateFails, NewForIntent
  <1>4. /\ worker' \in [Workers -> Executions]
        /\ worker'[w].pc = pc /\ worker'[w].job = worker[w].job
        /\ \A v \in Workers \ {w} : worker'[v] = worker[v]
    BY <1>1, <1>3, GoToTyped
  <1>5. used' \in [losses : 0..MaxLosses, faults : 0..MaxFaults]
    BY FaultTyped DEF Look, CreateDuplicate, CreateFails, TypeOK
  <1>6. UNCHANGED <<intent, gateway, payment, paid, queue, failed>>
    BY DEF Look, CreateDuplicate, CreateFails
  <1> QED
    BY <1>2, <1>3, <1>4, <1>5, <1>6, ReadingKeeps DEF At, Of, Finalizing, TypeOK

\* The unique index admits the first payment of an intent only, the check of the remainder
\* only what fits the invoice.
LEMMA CreateKeeps ==
    ASSUME PaymentInvariant, NEW w \in Workers, Create(w)
    PROVE  PaymentInvariant'
  <1> USE DEF PaymentInvariant
  <1> DEFINE i == Of(w)
  <1>1. worker[w].pc # "idle" /\ worker[w].pc \in Finalizing
    BY DEF Create, At, Finalizing
  <1>2. i \in Intents /\ intent[i].status = "PAID" /\ gateway[i] = "paid"
    BY <1>1, BusyTyped DEF WorkersKnow, CreditedIsConfirmed
  <1>3. PICK pc \in {"link", "note"} : GoTo(w, pc)
    BY DEF Create
  <1>4. /\ worker' \in [Workers -> Executions]
        /\ worker'[w].pc = pc /\ worker'[w].job = worker[w].job
        /\ \A v \in Workers \ {w} : worker'[v] = worker[v]
    BY <1>1, <1>3, GoToTyped
  <1>5. /\ UNCHANGED <<intent, gateway, queue, failed>>
        /\ payment[i] = 0
        /\ payment' = [payment EXCEPT ![i] = @ + 1]
    BY DEF Create, NewForIntent
  <1>6. /\ payment' \in [Intents -> Nat] /\ payment'[i] = 1
        /\ \A j \in Intents \ {i} : payment'[j] = payment[j]
    BY <1>2, <1>5 DEF TypeOK
  <1>7. paid' \in 0..InvoiceAmount
    <2>1. Amount[i] \in Nat /\ InvoiceAmount \in Nat
      BY <1>2, OnlinePaymentAssumption
    <2>2. paid \in 0..InvoiceAmount
      BY DEF TypeOK
    <2>3. Amount[i] <= InvoiceAmount - paid /\ paid' = paid + Amount[i]
      BY DEF Create, FitsInvoice
    <2> HIDE DEF i
    <2> QED
      BY <2>1, <2>2, <2>3
  <1>8. used' \in [losses : 0..MaxLosses, faults : 0..MaxFaults]
    BY FaultTyped DEF Create
  <1>9. TypeOK'
    BY <1>4, <1>5, <1>6, <1>7, <1>8 DEF TypeOK
  <1>10. WorkersKnow'
    <2>1. \A j \in Intents : payment[j] > 0 => payment'[j] > 0
      BY <1>6
    <2>2. /\ At(w, "cas")' => gateway'[Of(w)'] = "paid"
          /\ worker'[w].pc \in Finalizing => intent'[Of(w)'].status = "PAID"
          /\ worker'[w].pc \in {"link", "relink"} => payment'[Of(w)'] > 0
      BY <1>2, <1>4, <1>5, <1>6 DEF At, Of
    <2> QED
      BY <1>4, <1>5, <2>1, <2>2, OthersKnow
  <1>11. CreditedOnce' /\ CreditedIsConfirmed' /\ DecidesRegistered'
    <2>1. CreditedOnce'
      BY <1>6 DEF CreditedOnce
    <2>2. CreditedIsConfirmed'
      BY <1>2, <1>5, <1>6 DEF CreditedIsConfirmed
    <2>3. DecidesRegistered'
      BY <1>5 DEF DecidesRegistered
    <2> QED
      BY <2>1, <2>2, <2>3
  <1> QED
    BY <1>9, <1>10, <1>11

\* A worker that loses its job is idle, or knows what it knew.
LEMMA LoseKeeps ==
    ASSUME PaymentInvariant, NEW w \in Workers, Crash(w) \/ Stall(w)
    PROVE  PaymentInvariant'
  <1> USE DEF PaymentInvariant
  <1>1. Lose(w)
    BY DEF Crash, Stall
  <1>2. worker[w].pc # "idle"
    <2>1. worker[w] # Idle /\ worker[w] \in Executions
      BY <1>1 DEF Lose, Busy, TypeOK
    <2> QED
      BY <2>1 DEF Executions, Idle
  <1>3. /\ worker[w] \in [pc : {"ask", "next", "fail", "expire", "cas", "look", "create",
                                "link", "relink", "note", "again"},
                          job : Jobs, late : BOOLEAN, owner : BOOLEAN]
        /\ worker[w].job \in Jobs
    BY <1>2, BusyTyped
  <1>4. queue' \subseteq Jobs /\ failed' \subseteq Ids
    <2>1. [worker[w].job EXCEPT !.stalled = TRUE] \in Jobs
      BY <1>3 DEF Jobs
    <2>2. Id(worker[w].job) \in Ids
      BY <1>3, IdTyped
    <2> QED
      BY <1>1, <2>1, <2>2 DEF Lose, TypeOK
  <1>5. used' \in [losses : 0..MaxLosses, faults : 0..MaxFaults]
    BY <1>1, OnlinePaymentAssumption DEF Lose, TypeOK
  <1>6. UNCHANGED <<intent, gateway, payment, paid>>
    BY <1>1 DEF Lose
  <1>7. CASE worker' = [worker EXCEPT ![w] = Idle]
    <2>1. /\ worker' \in [Workers -> Executions]
          /\ worker'[w].pc = "idle"
          /\ \A v \in Workers \ {w} : worker'[v] = worker[v]
      BY <1>7, EndsTyped DEF Ends
    <2> QED
      BY <1>4, <1>5, <1>6, <2>1, ReadingKeeps DEF At, Finalizing
  <1>8. CASE worker' = [worker EXCEPT ![w].owner = FALSE]
    <2> DEFINE e == [worker[w] EXCEPT !.owner = FALSE]
    <2>1. e \in Executions /\ e.pc = worker[w].pc /\ e.job = worker[w].job
      BY <1>3 DEF Executions
    <2>2. worker' = [worker EXCEPT ![w] = e]
      BY <1>8
    <2> HIDE DEF e
    <2>3. /\ worker' \in [Workers -> Executions]
          /\ worker'[w].pc = worker[w].pc /\ worker'[w].job = worker[w].job
          /\ \A v \in Workers \ {w} : worker'[v] = worker[v]
      BY <2>1, <2>2 DEF TypeOK
    <2> QED
      BY <1>4, <1>5, <1>6, <2>3, ReadingKeeps DEF At, Of, WorkersKnow
  <1> QED
    BY <1>7, <1>8 DEF Crash, Stall

\* Every step of the queue, the gateway, the workers and the invoice keeps the invariant.
LEMMA NextKeeps == PaymentInvariant /\ [Next]_vars => PaymentInvariant'
  <1> SUFFICES ASSUME PaymentInvariant, [Next]_vars
               PROVE  PaymentInvariant'
    OBVIOUS
  <1>1. CASE UNCHANGED vars
    BY <1>1 DEF vars, PaymentInvariant, TypeOK, CreditedOnce, CreditedIsConfirmed,
                DecidesRegistered, WorkersKnow, At, Of
  <1>2. ASSUME NEW i \in Intents,
               \/ CreateIntent(i) \/ Register(i) \/ RegisterFails(i)
               \/ GatewayDecides(i) \/ DeadlinePasses(i) \/ PayAtDesk(Amount[i])
        PROVE  PaymentInvariant'
    BY <1>2, WorldKeeps
  <1>3. ASSUME NEW w \in Workers, TakeAny(w)
        PROVE  PaymentInvariant'
    BY <1>3, TakeKeeps DEF TakeAny
  <1>4. ASSUME NEW w \in Workers, Work(w)
        PROVE  PaymentInvariant'
    BY <1>4, AskKeeps, EnqueueKeeps, CloseKeeps, MarkPaidKeeps, LookKeeps, CreateKeeps,
       NoteKeeps DEF Work
  <1>5. ASSUME NEW w \in Workers, Crash(w) \/ Stall(w)
        PROVE  PaymentInvariant'
    BY <1>5, LoseKeeps
  <1> QED
    BY <1>1, <1>2, <1>3, <1>4, <1>5 DEF Next

-----------------------------------------------------------------------------
(* Theorems. *)

\* The inductive invariant: what the rows, the payments and the gateway say of each other,
\* and what each worker still knows at its place in processor and finalizePayment.
THEOREM PaymentInvariantHolds == Spec => []PaymentInvariant
  BY InitEstablishes, NextKeeps, PTL DEF Spec

\* Every variable keeps its type; what is paid never exceeds the invoice.
THEOREM PaymentTypeCorrect == Spec => []TypeOK
  <1>1. PaymentInvariant => TypeOK
    BY DEF PaymentInvariant
  <1> QED
    BY <1>1, PaymentInvariantHolds, PTL

\* A payment of the client is credited at most once, whatever workers lose their jobs and
\* whatever is executed twice (the unique index of Payment.onlinePaymentIntentId).
THEOREM NeverCreditedTwice == Spec => []CreditedOnce
  <1>1. PaymentInvariant => CreditedOnce
    BY DEF PaymentInvariant
  <1> QED
    BY <1>1, PaymentInvariantHolds, PTL

\* Only money the gateway has confirmed is credited, although the worker that credits it
\* heard so some steps ago (finalizePayment after the CAS of process).
THEOREM OnlyConfirmedMoney == Spec => []CreditedIsConfirmed
  <1>1. PaymentInvariant => CreditedIsConfirmed
    BY DEF PaymentInvariant
  <1> QED
    BY <1>1, PaymentInvariantHolds, PTL

\* What an intent has come to is final: PAID, FAILED and EXPIRED are written over PENDING
\* only (transition and the CAS of process), and the writes of finalizePayment keep them.
THEOREM OutcomeNeverChanges == Spec => OutcomeIsFinal
  <1> DEFINE Final == \A i \in Intents :
                intent[i].status \in {"PAID", "FAILED", "EXPIRED"} =>
                    intent'[i].status = intent[i].status
  <1>1. ASSUME PaymentInvariant, [Next]_vars
        PROVE  Final \/ UNCHANGED vars
    <2> USE <1>1 DEF PaymentInvariant
    <2>1. ASSUME NEW i \in Intents,
                 \/ CreateIntent(i) \/ Register(i) \/ RegisterFails(i)
                 \/ GatewayDecides(i) \/ DeadlinePasses(i) \/ PayAtDesk(Amount[i])
          PROVE  Final
      BY <2>1 DEF TypeOK, CreateIntent, Register, RegisterFails, GatewayDecides,
                  DeadlinePasses, PayAtDesk
    <2>2. ASSUME NEW w \in Workers, Close(w) \/ MarkPaid(w)
          PROVE  Final
      BY <2>2 DEF Close, MarkPaid, StillPending, TypeOK
    <2>3. ASSUME NEW w \in Workers, NoteFailure(w) \/ Link(w)
          PROVE  Final
      BY <2>3 DEF NoteFailure, Link, Linked, TypeOK
    <2>4. ASSUME NEW w \in Workers, UNCHANGED intent
          PROVE  Final
      BY <2>4
    <2> QED
      BY <1>1, <2>1, <2>2, <2>3, <2>4
         DEF Next, TakeAny, Take, Work, Ask, AskUnanswered, GatewayGone, EnqueueNextPoll,
             Look, Create, CreateDuplicate, CreateFails, EnqueueFinalize, Crash, Stall, Lose
  <1> QED
    BY <1>1, PaymentInvariantHolds, PTL DEF Spec, OutcomeIsFinal

=============================================================================
