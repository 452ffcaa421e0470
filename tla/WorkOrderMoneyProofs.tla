------------------------ MODULE WorkOrderMoneyProofs ------------------------
(***************************************************************************)
(* Proofs about WorkOrderMoney, for any number of concurrent requests and  *)
(* payments and any bounds: its type invariant, that an order is charged   *)
(* once for its lines and credited once, that what it calls paid is the    *)
(* sum of its payments and its balance their consequence, that a closed    *)
(* order owes nothing, that only money makes an order PAID, and that its   *)
(* invoice shows what is paid.                                             *)
(***************************************************************************)
EXTENDS WorkOrderMoney, SumTheorems, TLAPS

\* The inductive invariant.  What a transition has read before its transaction still
\* permits the transition, and a credit note exists only on a cancelled order.
ChargedStatuses == {"COMPLETED", "INVOICED", "PAID", "ARCHIVED"}

ReadPermits ==
    \A r \in Requests : request[r].kind = "transition" =>
        LET seen == request[r].seen
            to == request[r].to
        IN  /\ to \in Transitions[seen.status]
            /\ to = "PAID" => FullyPaid(seen.total, seen.paid)

ChargeHistory ==
    IF order.status \in ChargedStatuses
    THEN Len(ledger.charges) = 1 /\ Len(ledger.credits) = 0
    ELSE /\ Len(ledger.charges) = Len(ledger.credits)
         /\ Len(ledger.credits) <= 1
         /\ Len(ledger.credits) = 1 => order.status = "CANCELLED"

MoneyInvariant == TypeOK /\ ReadPermits /\ ChargeHistory

-----------------------------------------------------------------------------
(* The status machine and the rules. *)

\* What the status machine permits: completion starts the charged part of an order's
\* life, only cancellation leaves it, and nothing leaves CANCELLED.
LEMMA TransitionFacts ==
    ASSUME NEW s \in Statuses, NEW to \in Transitions[s]
    PROVE  /\ to \in Statuses
           /\ s # "CANCELLED"
           /\ to = "COMPLETED" => s = "IN_PROGRESS"
           /\ to = "CANCELLED" => s \in Charged \/ s \notin ChargedStatuses
           /\ to \notin {"COMPLETED", "CANCELLED"} =>
                 (to \in ChargedStatuses <=> s \in ChargedStatuses)
  BY DEF Statuses, Transitions, Charged, ChargedStatuses

\* settleIfFullyPaidInTx moves only a charged order, only to PAID, only when it is covered.
LEMMA SettledFacts ==
    ASSUME NEW s \in Statuses, NEW total, NEW paid
    PROVE  /\ Settled(s, total, paid) \in Statuses
           /\ Settled(s, total, paid) \in {s, "PAID"}
           /\ Settled(s, total, paid) # s => s \in Charged /\ FullyPaid(total, paid)
  BY DEF Settled, Statuses, Transitions

\* An entry leaves an integer balance (createTransaction).
LEMMA BalanceTyped ==
    ASSUME TypeOK, NEW type \in DOMAIN BalanceSign, NEW amount \in Nat
    PROVE  Balance(type, amount) \in Int
  BY DEF Balance, BalanceSign, TypeOK

\* invoiceStatusForPaid returns a status of an invoice.
LEMMA StatusForPaidTyped ==
    ASSUME NEW current, NEW amount, NEW paid, NEW pastDue
    PROVE  StatusForPaid(current, amount, paid, pastDue) \in InvoiceStatuses
  BY DEF StatusForPaid, InvoiceStatuses

Invoices == [status : InvoiceStatuses, amount : 0..MaxTotal, paid : Nat, pastDue : BOOLEAN]

\* syncWorkOrderInvoicePaid leaves an invoice.
LEMMA MirroredTyped ==
    ASSUME NEW inv \in Invoices, NEW paid \in Nat
    PROVE  Mirrored(inv, paid) \in Invoices
  <1> DEFINE covered == Smaller(paid, inv.amount)
  <1>1. covered \in Nat
    BY WorkOrderMoneyAssumption DEF Smaller, Invoices
  <1>2. StatusForPaid(inv.status, inv.amount, covered, inv.pastDue) \in InvoiceStatuses
    BY StatusForPaidTyped
  <1> QED
    BY <1>1, <1>2 DEF Mirrored, Invoices

-----------------------------------------------------------------------------
(* Requests. *)

\* What the record of a request of each kind holds.
LEMMA RequestKinds ==
    ASSUME TypeOK, NEW r \in Requests
    PROVE  LET q == request[r] IN
           /\ q.kind = "transition" => q \in [kind : {"transition"}, to : Statuses, seen : Rows]
           /\ q.kind = "edit" => q \in [kind : {"edit"}, delta : Deltas, part : BOOLEAN]
           /\ q.kind = "recalc" => q \in [kind : {"recalc"}, delta : Deltas, sum : Int]
           /\ q.kind = "pay" => q \in [kind : {"pay"}, payment : Payments, amount : Amounts]
           /\ q.kind = "reverse" => q \in [kind : {"reverse"}, payment : Payments]
           /\ q.kind = "invoice" => q \in [kind : {"invoice"}, amount : Amounts, issue : Nat]
           /\ q.kind = "mirror" => q \in [kind : {"mirror"}, amount : Amounts, paid : Nat]
  BY DEF TypeOK, RequestRecords, NoRequest

\* A request that ends leaves every other request as it was.
LEMMA EndsKeeps ==
    ASSUME TypeOK, ReadPermits, NEW r \in Requests, Ends(r)
    PROVE  request' \in [Requests -> RequestRecords] /\ ReadPermits'
  <1>1. NoRequest \in RequestRecords /\ NoRequest.kind # "transition"
    BY DEF RequestRecords, NoRequest
  <1>2. request' \in [Requests -> RequestRecords]
    BY <1>1 DEF TypeOK, Ends
  <1>3. ASSUME NEW u \in Requests PROVE request'[u] = request[u] \/ request'[u] = NoRequest
    BY DEF TypeOK, Ends
  <1>4. ReadPermits'
    BY <1>1, <1>3 DEF ReadPermits
  <1> QED
    BY <1>2, <1>4

\* A request that only reads leaves everything but the requests as it was.
LEMMA StartsKeeps ==
    ASSUME TypeOK, ReadPermits, NEW r \in Requests, NEW q \in RequestRecords, Starts(r, q),
           q.kind = "transition" =>
               /\ q.to \in Transitions[q.seen.status]
               /\ q.to = "PAID" => FullyPaid(q.seen.total, q.seen.paid)
    PROVE  request' \in [Requests -> RequestRecords] /\ ReadPermits'
  <1>1. request' \in [Requests -> RequestRecords]
    BY DEF TypeOK, Starts
  <1>2. ASSUME NEW u \in Requests PROVE request'[u] = IF u = r THEN q ELSE request[u]
    BY DEF TypeOK, Starts
  <1>3. ReadPermits'
    BY <1>2 DEF ReadPermits
  <1> QED
    BY <1>1, <1>3

\* Every read of a request keeps the invariant.
LEMMA ReadKeeps ==
    ASSUME MoneyInvariant, NEW r \in Requests, Read(r)
    PROVE  MoneyInvariant'
  <1> USE DEF MoneyInvariant
  <1>1. ASSUME NEW to \in Statuses, ReadForTransition(r, to) PROVE MoneyInvariant'
    <2> DEFINE q == [kind |-> "transition", to |-> to, seen |-> order]
    <2>1. q \in RequestRecords /\ q.to \in Transitions[q.seen.status]
          /\ (q.to = "PAID" => FullyPaid(q.seen.total, q.seen.paid))
      BY <1>1 DEF ReadForTransition, RequestRecords, TypeOK
    <2>2. Starts(r, q)
      BY <1>1 DEF ReadForTransition
    <2>3. request' \in [Requests -> RequestRecords] /\ ReadPermits'
      <3> HIDE DEF q
      <3> QED
        BY <2>1, <2>2, StartsKeeps
    <2> QED
      BY <1>1, <2>3 DEF ReadForTransition, TypeOK, ChargeHistory
  <1>2. CASE ReadForRemove(r)
    <2> DEFINE q == [kind |-> "remove", seen |-> order]
    <2>1. q \in RequestRecords /\ q.kind # "transition"
      BY DEF RequestRecords, TypeOK
    <2>2. Starts(r, q)
      BY <1>2 DEF ReadForRemove
    <2>3. request' \in [Requests -> RequestRecords] /\ ReadPermits'
      <3> HIDE DEF q
      <3> QED
        BY <2>1, <2>2, StartsKeeps
    <2> QED
      BY <1>2, <2>3 DEF ReadForRemove, TypeOK, ChargeHistory
  <1>3. ASSUME NEW delta \in Deltas, ReadForEdit(r, delta) PROVE MoneyInvariant'
    <2> DEFINE q == [kind |-> "edit", delta |-> delta, part |-> order.status \in Editable]
    <2>1. q \in RequestRecords /\ q.kind # "transition"
      BY DEF RequestRecords
    <2>2. Starts(r, q)
      BY <1>3 DEF ReadForEdit
    <2>3. request' \in [Requests -> RequestRecords] /\ ReadPermits'
      <3> HIDE DEF q
      <3> QED
        BY <2>1, <2>2, StartsKeeps
    <2>4. used' \in [edits : 0..MaxEdits, invoices : 0..MaxInvoices,
                     invoiceEdits : 0..MaxInvoiceEdits]
      <3>1. used \in [edits : 0..MaxEdits, invoices : 0..MaxInvoices,
                      invoiceEdits : 0..MaxInvoiceEdits]
        BY DEF TypeOK
      <3>2. used' = [used EXCEPT !.edits = @ + 1] /\ used.edits < MaxEdits
        BY <1>3 DEF ReadForEdit
      <3>3. used.edits + 1 \in 0..MaxEdits
        BY <3>1, <3>2, WorkOrderMoneyAssumption
      <3> QED
        BY <3>1, <3>2, <3>3
    <2> QED
      BY <1>3, <2>3, <2>4 DEF ReadForEdit, TypeOK, ChargeHistory
  <1>4. ASSUME NEW p \in Payments, NEW amount \in Amounts, PreparePayment(r, p, amount)
        PROVE  MoneyInvariant'
    <2> DEFINE q == [kind |-> "pay", payment |-> p, amount |-> amount]
    <2>1. q \in RequestRecords /\ q.kind # "transition"
      BY DEF RequestRecords
    <2>2. Starts(r, q)
      BY <1>4 DEF PreparePayment
    <2>3. request' \in [Requests -> RequestRecords] /\ ReadPermits'
      <3> HIDE DEF q
      <3> QED
        BY <2>1, <2>2, StartsKeeps
    <2> QED
      BY <1>4, <2>3 DEF PreparePayment, TypeOK, ChargeHistory
  <1>5. ASSUME NEW p \in Payments, ReadForReversal(r, p) PROVE MoneyInvariant'
    <2> DEFINE q == [kind |-> "reverse", payment |-> p]
    <2>1. q \in RequestRecords /\ q.kind # "transition"
      BY DEF RequestRecords
    <2>2. Starts(r, q)
      BY <1>5 DEF ReadForReversal
    <2>3. request' \in [Requests -> RequestRecords] /\ ReadPermits'
      <3> HIDE DEF q
      <3> QED
        BY <2>1, <2>2, StartsKeeps
    <2> QED
      BY <1>5, <2>3 DEF ReadForReversal, TypeOK, ChargeHistory
  <1>6. ASSUME NEW amount \in Amounts, ReadForInvoiceEdit(r, amount) PROVE MoneyInvariant'
    <2> DEFINE q == [kind |-> "invoice", amount |-> amount, issue |-> used.invoices]
    <2>1. q \in RequestRecords /\ q.kind # "transition"
      BY WorkOrderMoneyAssumption DEF RequestRecords, TypeOK
    <2>2. Starts(r, q)
      BY <1>6 DEF ReadForInvoiceEdit
    <2>3. request' \in [Requests -> RequestRecords] /\ ReadPermits'
      <3> HIDE DEF q
      <3> QED
        BY <2>1, <2>2, StartsKeeps
    <2>4. used' \in [edits : 0..MaxEdits, invoices : 0..MaxInvoices,
                     invoiceEdits : 0..MaxInvoiceEdits]
      <3>1. used \in [edits : 0..MaxEdits, invoices : 0..MaxInvoices,
                      invoiceEdits : 0..MaxInvoiceEdits]
        BY DEF TypeOK
      <3>2. used' = [used EXCEPT !.invoiceEdits = @ + 1] /\ used.invoiceEdits < MaxInvoiceEdits
        BY <1>6 DEF ReadForInvoiceEdit
      <3>3. used.invoiceEdits + 1 \in 0..MaxInvoiceEdits
        BY <3>1, <3>2, WorkOrderMoneyAssumption
      <3> QED
        BY <3>1, <3>2, <3>3
    <2> QED
      BY <1>6, <2>3, <2>4 DEF ReadForInvoiceEdit, TypeOK, ChargeHistory
  <1> QED
    BY <1>1, <1>2, <1>3, <1>4, <1>5, <1>6 DEF Read

-----------------------------------------------------------------------------
(* Transitions of the order. *)

\* An order that is completed is in progress and was never charged.
LEMMA CompletesUncharged ==
    ASSUME MoneyInvariant, NEW r \in Requests, Complete(r)
    PROVE  /\ order.status = "IN_PROGRESS"
           /\ Len(ledger.charges) = 0 /\ Len(ledger.credits) = 0
  <1> USE DEF MoneyInvariant
  <1> DEFINE seen == request[r].seen
             charges == Len(ledger.charges)
             credits == Len(ledger.credits)
  <1>1. seen \in Rows /\ "COMPLETED" \in Transitions[seen.status] /\ order.status = seen.status
    BY RequestKinds DEF Complete, StatusCas, ReadPermits
  <1>2. order.status = "IN_PROGRESS"
    BY <1>1, TransitionFacts DEF Rows
  <1>3. ledger.charges \in Seq(Nat) /\ ledger.credits \in Seq(Nat)
    BY DEF TypeOK
  <1>4. charges \in Nat /\ credits \in Nat
    BY <1>3
  <1>5. charges = credits /\ credits <= 1 /\ credits # 1
    BY <1>2 DEF ChargeHistory, ChargedStatuses
  <1>6. charges = 0 /\ credits = 0
    <2> HIDE DEF charges, credits
    <2> QED
      BY <1>4, <1>5
  <1> QED
    BY <1>2, <1>6

\* Completion charges an order that was never charged.
LEMMA CompleteKeeps ==
    ASSUME MoneyInvariant, NEW r \in Requests, Complete(r)
    PROVE  MoneyInvariant'
  <1> USE DEF MoneyInvariant
  <1> DEFINE seen == request[r].seen
             settled == Settled("COMPLETED", FinalTotal, order.paid)
  <1>1. request' \in [Requests -> RequestRecords] /\ ReadPermits'
    BY EndsKeeps DEF Complete
  <1>4. settled \in Statuses /\ settled \in ChargedStatuses
    BY SettledFacts DEF Statuses, Transitions, ChargedStatuses
  <1>5. FinalTotal \in 0..MaxTotal /\ FinalTotal \in Nat
    BY WorkOrderMoneyAssumption DEF FinalTotal, TypeOK
  <1>6. Len(ledger.charges) = 0 /\ Len(ledger.credits) = 0
    BY CompletesUncharged
  <1>7. Balance("CHARGE", FinalTotal) \in Int
    BY <1>5, BalanceTyped DEF BalanceSign
  <1>8. ledger' = [ledger EXCEPT !.charges = Append(@, FinalTotal),
                                 !.balance = Balance("CHARGE", FinalTotal)]
    BY DEF Complete
  <1>9. order' = [order EXCEPT !.total = FinalTotal, !.status = settled]
    BY DEF Complete
  <1>10. ledger.charges \in Seq(Nat) /\ ledger.credits \in Seq(Nat) /\ ledger.balance \in Int
    BY DEF TypeOK
  <1>11. Append(ledger.charges, FinalTotal) \in Seq(Nat)
         /\ Len(Append(ledger.charges, FinalTotal)) = 1
    BY <1>5, <1>6, <1>10
  <1>12. ledger' \in [charges : Seq(Nat), credits : Seq(Nat), balance : Int]
         /\ Len(ledger'.charges) = 1 /\ Len(ledger'.credits) = 0
    <2> HIDE DEF Balance, FinalTotal
    <2>1. ledger \in [charges : Seq(Nat), credits : Seq(Nat), balance : Int]
      BY DEF TypeOK
    <2> QED
      BY <2>1, <1>6, <1>7, <1>8, <1>11
  <1>13. order' \in Rows /\ order'.status \in ChargedStatuses
    <2> HIDE DEF settled, FinalTotal
    <2> QED
      BY <1>4, <1>5, <1>9 DEF TypeOK, Rows
  <1>14. UNCHANGED <<worth, payment, invoice, used>>
    BY DEF Complete
  <1>15. TypeOK'
    BY <1>1, <1>12, <1>13, <1>14 DEF TypeOK
  <1>16. ChargeHistory'
    BY <1>12, <1>13 DEF ChargeHistory
  <1> QED
    BY <1>1, <1>15, <1>16

\* The invoice a cancellation leaves.
LEMMA CancelledInvoiceTyped ==
    ASSUME TypeOK
    PROVE  NoInvoice \in Invoices /\ invoice \in Invoices
  BY WorkOrderMoneyAssumption DEF NoInvoice, Invoices, InvoiceStatuses, TypeOK

\* Cancellation mirrors the one charge of a charged order by one credit note.
LEMMA CancelKeeps ==
    ASSUME MoneyInvariant, NEW r \in Requests, Cancel(r)
    PROVE  MoneyInvariant'
  <1> USE DEF MoneyInvariant
  <1> DEFINE seen == request[r].seen
             amount == ledger.charges[1]
  <1>1. request' \in [Requests -> RequestRecords] /\ ReadPermits'
    BY EndsKeeps DEF Cancel
  <1>2. seen \in Rows /\ "CANCELLED" \in Transitions[seen.status] /\ order.status = seen.status
    BY RequestKinds DEF Cancel, StatusCas, ReadPermits
  <1>3. order.status # "CANCELLED"
        /\ (order.status \in Charged \/ order.status \notin ChargedStatuses)
    BY <1>2, TransitionFacts DEF Rows
  <1>4. order' = [order EXCEPT !.status = "CANCELLED"]
    BY DEF Cancel
  <1>5. order' \in Rows /\ order'.status = "CANCELLED"
    BY <1>4 DEF TypeOK, Rows, Statuses, Transitions
  <1>6. invoice' \in Invoices
    BY CancelledInvoiceTyped DEF Cancel, PutInvoice
  <1>7. ledger \in [charges : Seq(Nat), credits : Seq(Nat), balance : Int]
    BY DEF TypeOK
  <1>8. ledger' \in [charges : Seq(Nat), credits : Seq(Nat), balance : Int]
        /\ Len(ledger'.charges) = Len(ledger'.credits) /\ Len(ledger'.credits) <= 1
    <2>1. CASE seen.status \in Charged
      <3>1. Len(ledger.charges) = 1 /\ Len(ledger.credits) = 0
        BY <2>1, <1>2 DEF ChargeHistory, Charged, ChargedStatuses
      <3>2. amount \in Nat
        BY <3>1, <1>7
      <3>3. Balance("CREDIT_NOTE", amount) \in Int
        BY <3>2, BalanceTyped DEF BalanceSign
      <3>4. ledger' = [ledger EXCEPT !.credits = Append(@, amount),
                                     !.balance = Balance("CREDIT_NOTE", amount)]
        BY <2>1 DEF Cancel
      <3>5. Append(ledger.credits, amount) \in Seq(Nat)
            /\ Len(Append(ledger.credits, amount)) = 1
        BY <3>1, <3>2, <1>7
      <3>6. /\ ledger'.charges = ledger.charges
            /\ ledger'.credits = Append(ledger.credits, amount)
            /\ ledger' \in [charges : Seq(Nat), credits : Seq(Nat), balance : Int]
        <4> HIDE DEF Balance, amount
        <4> QED
          BY <1>7, <3>3, <3>4, <3>5
      <3> QED
        BY <3>1, <3>5, <3>6
    <2>2. CASE seen.status \notin Charged
      <3>1. ledger' = ledger /\ order.status \notin ChargedStatuses
        BY <2>2, <1>2, <1>3 DEF Cancel
      <3> QED
        BY <3>1, <1>7 DEF ChargeHistory
    <2> QED
      BY <2>1, <2>2
  <1>9. UNCHANGED <<worth, payment, used>>
    BY DEF Cancel
  <1>10. TypeOK'
    BY <1>1, <1>5, <1>6, <1>8, <1>9 DEF TypeOK, Invoices
  <1>11. ChargeHistory'
    BY <1>5, <1>8 DEF ChargeHistory, ChargedStatuses
  <1> QED
    BY <1>1, <1>10, <1>11

\* Every other transition stays on its side of the charge.
LEMMA MoveOnKeeps ==
    ASSUME MoneyInvariant, NEW r \in Requests, MoveOn(r)
    PROVE  MoneyInvariant'
  <1> USE DEF MoneyInvariant
  <1> DEFINE seen == request[r].seen
             to == request[r].to
             settled == Settled(to, order.total, order.paid)
  <1>1. request' \in [Requests -> RequestRecords] /\ ReadPermits'
    BY EndsKeeps DEF MoveOn
  <1>2. seen \in Rows /\ to \in Statuses /\ to \in Transitions[seen.status]
        /\ order.status = seen.status
    BY RequestKinds DEF MoveOn, StatusCas, ReadPermits
  <1>3. order.status # "CANCELLED" /\ (to \in ChargedStatuses <=> order.status \in ChargedStatuses)
    BY <1>2, TransitionFacts DEF Rows, MoveOn
  <1>4. settled \in Statuses /\ (settled \in ChargedStatuses <=> to \in ChargedStatuses)
    BY <1>2, SettledFacts DEF Charged, ChargedStatuses
  <1>5. order' = [order EXCEPT !.status = settled]
    BY DEF MoveOn
  <1>6. order' \in Rows /\ order'.status = settled
    <2> HIDE DEF settled
    <2> QED
      BY <1>4, <1>5 DEF TypeOK, Rows
  <1>7. UNCHANGED <<worth, payment, ledger, invoice, used>>
    BY DEF MoveOn
  <1>8. TypeOK'
    BY <1>1, <1>6, <1>7 DEF TypeOK
  <1>9. ChargeHistory'
    BY <1>3, <1>4, <1>6, <1>7 DEF ChargeHistory
  <1> QED
    BY <1>1, <1>8, <1>9

\* Removing an order keeps the invariant: the delete neither charges nor credits.
LEMMA RemoveKeeps ==
    ASSUME MoneyInvariant, NEW r \in Requests, Remove(r)
    PROVE  MoneyInvariant'
  <1> USE DEF MoneyInvariant
  <1>1. request' \in [Requests -> RequestRecords] /\ ReadPermits'
    BY EndsKeeps DEF Remove
  <1>2. order' \in Rows /\ order'.status = order.status
    BY DEF Remove, TypeOK, Rows
  <1> QED
    BY <1>1, <1>2 DEF Remove, TypeOK, ChargeHistory

-----------------------------------------------------------------------------
(* Edits of lines. *)

\* A request that goes on to its next step, as any record that is no transition.
LEMMA StepsOn ==
    ASSUME TypeOK, ReadPermits, NEW r \in Requests, NEW q \in RequestRecords,
           q.kind # "transition", request' = [request EXCEPT ![r] = q]
    PROVE  request' \in [Requests -> RequestRecords] /\ ReadPermits'
  <1>1. request' \in [Requests -> RequestRecords]
    BY DEF TypeOK
  <1>2. ASSUME NEW u \in Requests PROVE request'[u] = IF u = r THEN q ELSE request[u]
    BY DEF TypeOK
  <1>3. ReadPermits'
    BY <1>2 DEF ReadPermits
  <1> QED
    BY <1>1, <1>3

\* Edits of lines and parts keep the invariant: none touches the status or the ledger.
LEMMA EditsKeep ==
    ASSUME MoneyInvariant, NEW r \in Requests,
           WriteLine(r) \/ WriteTotal(r) \/ EditPart(r)
    PROVE  MoneyInvariant'
  <1> USE DEF MoneyInvariant
  <1>1. CASE WriteLine(r)
    <2> DEFINE q == [kind |-> "recalc", delta |-> request[r].delta,
                     sum |-> worth + request[r].delta]
    <2>1. request[r].delta \in Deltas /\ worth + request[r].delta \in Int
      BY <1>1, RequestKinds, WorkOrderMoneyAssumption DEF WriteLine, TypeOK, Deltas
    <2>2. q \in RequestRecords /\ q.kind # "transition"
      BY <2>1 DEF RequestRecords
    <2>3. request' = [request EXCEPT ![r] = q]
      BY <1>1 DEF WriteLine
    <2>4. request' \in [Requests -> RequestRecords] /\ ReadPermits'
      <3> HIDE DEF q
      <3> QED
        BY <2>2, <2>3, StepsOn
    <2> QED
      BY <1>1, <2>4 DEF WriteLine, TypeOK, ChargeHistory
  <1>2. CASE WriteTotal(r)
    <2>1. request' \in [Requests -> RequestRecords] /\ ReadPermits'
      BY <1>2, EndsKeeps DEF WriteTotal
    <2>2. order' \in Rows /\ order'.status = order.status
      BY <1>2 DEF WriteTotal, Fits, TypeOK, Rows
    <2>3. worth' \in 0..MaxTotal
      BY <1>2 DEF WriteTotal
    <2> QED
      BY <1>2, <2>1, <2>2, <2>3 DEF WriteTotal, TypeOK, ChargeHistory
  <1>3. CASE EditPart(r)
    <2>1. request' \in [Requests -> RequestRecords] /\ ReadPermits'
      BY <1>3, EndsKeeps DEF EditPart
    <2>2. worth' \in 0..MaxTotal
      BY <1>3 DEF EditPart, Fits
    <2>3. order' \in Rows /\ order'.status = order.status
      BY <1>3, <2>2 DEF EditPart, TypeOK, Rows
    <2> QED
      BY <1>3, <2>1, <2>2, <2>3 DEF EditPart, TypeOK, ChargeHistory
  <1> QED
    BY <1>1, <1>2, <1>3

-----------------------------------------------------------------------------
(* Payments. *)

\* A payment may move a charged order to PAID, never across the charge.
LEMMA CreatePaymentKeeps ==
    ASSUME MoneyInvariant, NEW r \in Requests, CreatePayment(r)
    PROVE  MoneyInvariant'
  <1> USE DEF MoneyInvariant
  <1> DEFINE amount == request[r].amount
             type == IF order.status \in Prepayable THEN "PREPAYMENT" ELSE "PAYMENT"
             paid == order.paid + amount
             settled == Settled(order.status, order.total, paid)
             p == request[r].payment
  <1>1. request' \in [Requests -> RequestRecords] /\ ReadPermits'
    BY EndsKeeps DEF CreatePayment
  <1>2. amount \in Amounts /\ amount \in Nat /\ p \in Payments
    BY RequestKinds, WorkOrderMoneyAssumption DEF CreatePayment, Amounts
  <1>3. paid \in Nat /\ order.status \in Statuses
    BY <1>2 DEF TypeOK, Rows
  <1>4. /\ settled \in Statuses
        /\ settled = order.status \/ (settled = "PAID" /\ order.status \in Charged)
    BY <1>3, SettledFacts
  <1>5. order' = [order EXCEPT !.paid = paid, !.status = settled]
    BY DEF CreatePayment
  <1>6. order' \in Rows /\ order'.status = settled
    <2> HIDE DEF settled, paid
    <2> QED
      BY <1>3, <1>4, <1>5 DEF TypeOK, Rows
  <1>7. payment' \in [Payments -> PaymentRows]
    <2>1. [state |-> "live", amount |-> amount, type |-> type] \in PaymentRows
      BY <1>2 DEF PaymentRows
    <2>2. payment' = [payment EXCEPT ![p] = [state |-> "live", amount |-> amount, type |-> type]]
      BY DEF CreatePayment
    <2> HIDE DEF type, amount, p
    <2> QED
      BY <1>2, <2>1, <2>2 DEF TypeOK
  <1>8. Balance(type, amount) \in Int
    BY <1>2, BalanceTyped DEF BalanceSign
  <1>9. /\ ledger' \in [charges : Seq(Nat), credits : Seq(Nat), balance : Int]
        /\ ledger'.charges = ledger.charges /\ ledger'.credits = ledger.credits
    <2>1. ledger' = [ledger EXCEPT !.balance = Balance(type, amount)]
      BY DEF CreatePayment
    <2>2. ledger \in [charges : Seq(Nat), credits : Seq(Nat), balance : Int]
      BY DEF TypeOK
    <2> HIDE DEF type, amount, Balance
    <2> QED
      BY <1>8, <2>1, <2>2
  <1>10. invoice' \in Invoices
    BY <1>3, CancelledInvoiceTyped, MirroredTyped DEF CreatePayment, PutInvoice
  <1>11. UNCHANGED <<worth, used>>
    BY DEF CreatePayment
  <1>12. TypeOK'
    BY <1>1, <1>6, <1>7, <1>9, <1>10, <1>11 DEF TypeOK, Invoices
  <1>13. ChargeHistory'
    BY <1>4, <1>6, <1>9 DEF ChargeHistory, ChargedStatuses, Charged
  <1> QED
    BY <1>1, <1>12, <1>13

\* A reversal may reopen a paid order, never across the charge.
LEMMA ReverseKeeps ==
    ASSUME MoneyInvariant, NEW r \in Requests, Reverse(r)
    PROVE  MoneyInvariant'
  <1> USE DEF MoneyInvariant
  <1> DEFINE p == request[r].payment
             amount == payment[p].amount
             type == IF payment[p].type = "PREPAYMENT" THEN "PREPAYMENT_CANCEL"
                                                       ELSE "PAYMENT_CANCEL"
             paid == Larger(0, order.paid - amount)
             reopened == Reopened(order.status, order.total, paid)
  <1>1. request' \in [Requests -> RequestRecords] /\ ReadPermits'
    BY EndsKeeps DEF Reverse
  <1>2. p \in Payments /\ payment[p].state = "live"
    BY RequestKinds DEF Reverse, NotYetReversed
  <1>3. payment[p] \in [state : {"live", "reversed"}, amount : Amounts,
                        type : {"PAYMENT", "PREPAYMENT"}]
    BY <1>2 DEF TypeOK, PaymentRows, NoPayment
  <1>4. amount \in Nat /\ order.paid \in Nat /\ order.status \in Statuses
    BY <1>3, WorkOrderMoneyAssumption DEF Amounts, TypeOK, Rows
  <1>5. paid \in Nat
    BY <1>4 DEF Larger
  <1>6. payment' \in [Payments -> PaymentRows]
    <2>1. payment' = [payment EXCEPT ![p].state = "reversed"]
      BY DEF Reverse
    <2>2. [payment[p] EXCEPT !.state = "reversed"] \in PaymentRows
      BY <1>3 DEF PaymentRows
    <2> HIDE DEF p
    <2> QED
      BY <1>2, <2>1, <2>2 DEF TypeOK
  <1>7. Balance(type, amount) \in Int
    BY <1>4, BalanceTyped DEF BalanceSign
  <1>8. /\ ledger' \in [charges : Seq(Nat), credits : Seq(Nat), balance : Int]
        /\ ledger'.charges = ledger.charges /\ ledger'.credits = ledger.credits
    <2>1. ledger' = [ledger EXCEPT !.balance = Balance(type, amount)]
      BY DEF Reverse
    <2>2. ledger \in [charges : Seq(Nat), credits : Seq(Nat), balance : Int]
      BY DEF TypeOK
    <2> HIDE DEF type, amount, Balance
    <2> QED
      BY <1>7, <2>1, <2>2
  <1>9. reopened = order.status \/ (reopened = "INVOICED" /\ order.status = "PAID")
    BY DEF Reopened
  <1>10. /\ order' \in Rows
         /\ order'.status = order.status \/ (order'.status = "INVOICED" /\ order.status = "PAID")
    <2>1. order' = order \/ order' = [order EXCEPT !.paid = paid, !.status = reopened]
      BY DEF Reverse
    <2>2. "INVOICED" \in Statuses
      BY DEF Statuses, Transitions
    <2>3. order \in Rows
      BY DEF TypeOK
    <2> HIDE DEF paid, reopened
    <2> QED
      BY <1>5, <1>9, <2>1, <2>2, <2>3 DEF Rows
  <1>11. invoice' \in Invoices
    <2>1. Mirrored(invoice, paid) \in Invoices
      BY <1>5, CancelledInvoiceTyped, MirroredTyped
    <2>2. invoice' = invoice \/ invoice' = Mirrored(invoice, paid)
      BY DEF Reverse, PutInvoice
    <2> QED
      BY <2>1, <2>2, CancelledInvoiceTyped
  <1>12. UNCHANGED <<worth, used>>
    BY DEF Reverse
  <1>13. TypeOK'
    BY <1>1, <1>6, <1>8, <1>10, <1>11, <1>12 DEF TypeOK, Invoices
  <1>14. ChargeHistory'
    BY <1>8, <1>10 DEF ChargeHistory, ChargedStatuses
  <1> QED
    BY <1>1, <1>13, <1>14

-----------------------------------------------------------------------------
(* The invoice. *)

\* Edits of a draft invoice keep the invariant.
LEMMA InvoiceEditsKeep ==
    ASSUME MoneyInvariant, NEW r \in Requests,
           WriteInvoiceAmount(r) \/ MirrorEditedInvoice(r)
    PROVE  MoneyInvariant'
  <1> USE DEF MoneyInvariant
  <1>1. CASE WriteInvoiceAmount(r)
    <2> DEFINE q == [kind |-> "mirror", amount |-> request[r].amount, paid |-> order.paid]
    <2>1. request[r].amount \in Amounts /\ order.paid \in Nat
      BY <1>1, RequestKinds DEF WriteInvoiceAmount, TypeOK, Rows
    <2>2. q \in RequestRecords /\ q.kind # "transition"
      BY <2>1 DEF RequestRecords
    <2>3. request' = [request EXCEPT ![r] = q]
      BY <1>1 DEF WriteInvoiceAmount
    <2>4. request' \in [Requests -> RequestRecords] /\ ReadPermits'
      <3> HIDE DEF q
      <3> QED
        BY <2>2, <2>3, StepsOn
    <2> QED
      BY <1>1, <2>4 DEF WriteInvoiceAmount, TypeOK, ChargeHistory
  <1>2. CASE MirrorEditedInvoice(r)
    <2> DEFINE edited == [invoice EXCEPT !.amount = request[r].amount]
    <2>1. request' \in [Requests -> RequestRecords] /\ ReadPermits'
      BY <1>2, EndsKeeps DEF MirrorEditedInvoice
    <2>2. request[r].amount \in 0..MaxTotal /\ request[r].paid \in Nat
      BY <1>2, RequestKinds, WorkOrderMoneyAssumption DEF MirrorEditedInvoice, Amounts
    <2>3. edited \in Invoices
      BY <2>2, CancelledInvoiceTyped DEF Invoices
    <2>4. invoice' \in Invoices
      <3>1. invoice' = Mirrored(edited, request[r].paid)
        BY <1>2 DEF MirrorEditedInvoice
      <3> QED
        BY <2>2, <2>3, <3>1, MirroredTyped
    <2> QED
      BY <1>2, <2>1, <2>4 DEF MirrorEditedInvoice, TypeOK, ChargeHistory, Invoices
  <1> QED
    BY <1>1, <1>2

\* Issuing, sending, cancelling an invoice and the overdue job keep the invariant.
LEMMA InvoiceStepKeeps ==
    ASSUME MoneyInvariant, InvoiceStep
    PROVE  MoneyInvariant'
  <1> USE DEF MoneyInvariant
  <1>1. UNCHANGED <<order, worth, payment, ledger, request>>
    BY DEF InvoiceStep, CreateInvoice, SendInvoice, CancelInvoice, DueDatePasses, MarkOverdue
  <1>2. order.paid \in Nat /\ order.total \in 0..MaxTotal
    BY DEF TypeOK, Rows
  <1>3. invoice' \in Invoices
    <2>1. CASE CreateInvoice
      <3> DEFINE draft == [NoInvoice EXCEPT !.status = "DRAFT", !.amount = order.total]
      <3>1. draft \in Invoices
        BY <1>2 DEF NoInvoice, Invoices, InvoiceStatuses
      <3> QED
        BY <1>2, <2>1, <3>1, MirroredTyped DEF CreateInvoice
    <2>2. CASE SendInvoice
      <3>1. [invoice EXCEPT !.status = "SENT"] \in Invoices
        BY CancelledInvoiceTyped DEF Invoices, InvoiceStatuses
      <3> QED
        BY <1>2, <2>2, <3>1, MirroredTyped DEF SendInvoice
    <2>3. CASE CancelInvoice
      BY <2>3, CancelledInvoiceTyped DEF CancelInvoice
    <2>4. CASE DueDatePasses \/ MarkOverdue
      BY <2>4, CancelledInvoiceTyped DEF DueDatePasses, MarkOverdue, Invoices, InvoiceStatuses
    <2> QED
      BY <2>1, <2>2, <2>3, <2>4 DEF InvoiceStep
  <1>4. used' \in [edits : 0..MaxEdits, invoices : 0..MaxInvoices,
                   invoiceEdits : 0..MaxInvoiceEdits]
    <2>1. used \in [edits : 0..MaxEdits, invoices : 0..MaxInvoices,
                    invoiceEdits : 0..MaxInvoiceEdits]
      BY DEF TypeOK
    <2>2. \/ used' = used
          \/ used' = [used EXCEPT !.invoices = @ + 1] /\ used.invoices < MaxInvoices
      BY DEF InvoiceStep, CreateInvoice, SendInvoice, CancelInvoice, DueDatePasses, MarkOverdue
    <2>3. used.invoices < MaxInvoices => used.invoices + 1 \in 0..MaxInvoices
      BY <2>1, WorkOrderMoneyAssumption
    <2> QED
      BY <2>1, <2>2, <2>3
  <1>5. TypeOK'
    BY <1>1, <1>3, <1>4 DEF TypeOK, Invoices
  <1>6. ReadPermits' /\ ChargeHistory'
    BY <1>1 DEF ReadPermits, ChargeHistory
  <1> QED
    BY <1>5, <1>6

-----------------------------------------------------------------------------
(* The invariant is inductive. *)

\* A new order satisfies the invariant.
LEMMA InitEstablishes == Init => MoneyInvariant
  <1> SUFFICES ASSUME Init PROVE MoneyInvariant
    OBVIOUS
  <1> USE WorkOrderMoneyAssumption
  <1>1. order \in Rows /\ order.status = "DRAFT"
    BY DEF Init, Rows, Statuses, Transitions
  <1>2. /\ ledger \in [charges : Seq(Nat), credits : Seq(Nat), balance : Int]
        /\ ledger.charges = <<>> /\ ledger.credits = <<>>
    BY DEF Init
  <1>3. payment \in [Payments -> PaymentRows] /\ request \in [Requests -> RequestRecords]
    BY DEF Init, PaymentRows, RequestRecords
  <1>4. invoice \in Invoices
    BY DEF Init, NoInvoice, Invoices, InvoiceStatuses
  <1>5. worth \in 0..MaxTotal
        /\ used \in [edits : 0..MaxEdits, invoices : 0..MaxInvoices,
                     invoiceEdits : 0..MaxInvoiceEdits]
    BY DEF Init
  <1>6. TypeOK
    BY <1>1, <1>2, <1>3, <1>4, <1>5 DEF TypeOK, Invoices
  <1>7. ReadPermits
    BY DEF Init, ReadPermits, NoRequest
  <1>8. ChargeHistory
    BY <1>1, <1>2 DEF ChargeHistory, ChargedStatuses
  <1> QED
    BY <1>6, <1>7, <1>8 DEF MoneyInvariant

\* A request that fails leaves nothing behind.
LEMMA AbandonKeeps ==
    ASSUME MoneyInvariant, NEW r \in Requests, Abandon(r)
    PROVE  MoneyInvariant'
  <1> USE DEF MoneyInvariant
  <1>1. request' \in [Requests -> RequestRecords] /\ ReadPermits'
    BY EndsKeeps DEF Abandon
  <1> QED
    BY <1>1 DEF Abandon, TypeOK, ChargeHistory

\* Every step of every request keeps the invariant.
LEMMA NextKeeps == MoneyInvariant /\ [Next]_vars => MoneyInvariant'
  <1> SUFFICES ASSUME MoneyInvariant, [Next]_vars PROVE MoneyInvariant'
    OBVIOUS
  <1>1. CASE UNCHANGED vars
    BY <1>1 DEF vars, MoneyInvariant, TypeOK, ReadPermits, ChargeHistory
  <1>2. CASE InvoiceStep
    BY <1>2, InvoiceStepKeeps
  <1>3. ASSUME NEW r \in Requests, Read(r) PROVE MoneyInvariant'
    BY <1>3, ReadKeeps
  <1>4. ASSUME NEW r \in Requests, Abandon(r) PROVE MoneyInvariant'
    BY <1>4, AbandonKeeps
  <1>5. ASSUME NEW r \in Requests, Act(r) PROVE MoneyInvariant'
    BY <1>5, CompleteKeeps, CancelKeeps, MoveOnKeeps, RemoveKeeps, EditsKeep,
       CreatePaymentKeeps, ReverseKeeps, InvoiceEditsKeep DEF Act
  <1> QED
    BY <1>1, <1>2, <1>3, <1>4, <1>5 DEF Next

-----------------------------------------------------------------------------
(* Only money makes an order PAID. *)

\* A step that makes the order PAID leaves it covered by its money.
LEMMA StepPaysInFull ==
    ASSUME MoneyInvariant, [Next]_vars, order.status # "PAID", order'.status = "PAID"
    PROVE  FullyPaid(order'.total, order'.paid)
  <1> USE DEF MoneyInvariant
  <1>1. order \in Rows
    BY DEF TypeOK
  <1>2. ASSUME NEW r \in Requests, Complete(r)
        PROVE  FullyPaid(order'.total, order'.paid)
    <2> DEFINE settled == Settled("COMPLETED", FinalTotal, order.paid)
    <2>1. order' = [order EXCEPT !.total = FinalTotal, !.status = settled]
      BY <1>2 DEF Complete
    <2>2. order'.status = settled /\ order'.total = FinalTotal /\ order'.paid = order.paid
      <3> HIDE DEF settled, FinalTotal
      <3> QED
        BY <1>1, <2>1 DEF Rows
    <2>3. "COMPLETED" \in Statuses
      BY DEF Statuses, Transitions
    <2> QED
      BY <2>2, <2>3, SettledFacts
  <1>3. ASSUME NEW r \in Requests, MoveOn(r)
        PROVE  FullyPaid(order'.total, order'.paid)
    <2> DEFINE to == request[r].to
               seen == request[r].seen
               settled == Settled(to, order.total, order.paid)
    <2>1. order' = [order EXCEPT !.status = settled]
      BY <1>3 DEF MoveOn
    <2>2. order'.status = settled /\ order'.total = order.total /\ order'.paid = order.paid
      <3> HIDE DEF settled
      <3> QED
        BY <1>1, <2>1 DEF Rows
    <2>3. to \in Statuses
      BY <1>3, RequestKinds DEF MoveOn
    <2>4. CASE to = "PAID"
      BY <1>3, <2>2, <2>4 DEF MoveOn, StatusCas, ReadPermits
    <2>5. CASE to # "PAID"
      BY <2>2, <2>3, <2>5, SettledFacts
    <2> QED
      BY <2>4, <2>5
  <1>4. ASSUME NEW r \in Requests, CreatePayment(r)
        PROVE  FullyPaid(order'.total, order'.paid)
    <2> DEFINE paid == order.paid + request[r].amount
               settled == Settled(order.status, order.total, paid)
    <2>1. order' = [order EXCEPT !.paid = paid, !.status = settled]
      BY <1>4 DEF CreatePayment
    <2>2. order'.status = settled /\ order'.total = order.total /\ order'.paid = paid
      <3> HIDE DEF settled, paid
      <3> QED
        BY <1>1, <2>1 DEF Rows
    <2>3. order.status \in Statuses
      BY <1>1 DEF Rows
    <2> QED
      BY <2>2, <2>3, SettledFacts
  <1>5. ASSUME NEW r \in Requests, Reverse(r) PROVE FALSE
    BY <1>1, <1>5 DEF Reverse, Reopened, Rows
  <1>6. ASSUME NEW r \in Requests,
               Cancel(r) \/ Remove(r) \/ WriteLine(r) \/ WriteTotal(r) \/ EditPart(r)
                 \/ WriteInvoiceAmount(r) \/ MirrorEditedInvoice(r) \/ Abandon(r)
        PROVE  FALSE
    BY <1>1, <1>6 DEF Cancel, Remove, WriteLine, WriteTotal, EditPart, WriteInvoiceAmount,
                      MirrorEditedInvoice, Abandon, Rows
  <1>7. ASSUME NEW r \in Requests, Read(r) PROVE FALSE
    BY <1>7 DEF Read, ReadForTransition, ReadForRemove, ReadForEdit, PreparePayment,
                ReadForReversal, ReadForInvoiceEdit
  <1>8. CASE InvoiceStep
    BY <1>8 DEF InvoiceStep, CreateInvoice, SendInvoice, CancelInvoice, DueDatePasses, MarkOverdue
  <1>9. CASE UNCHANGED vars
    BY <1>9 DEF vars
  <1> QED
    BY <1>2, <1>3, <1>4, <1>5, <1>6, <1>7, <1>8, <1>9 DEF Next, Act

-----------------------------------------------------------------------------
(* What the order calls paid, its payments and its balance. *)

\* The inductive invariant of the money.  A payment under way has an id of its own, a
\* removal has read a status that may be removed, a credit note repeats the charge, and
\* an order that is closed without a charge has no money.
PaymentIdsFree ==
    \A r \in Requests : request[r].kind = "pay" =>
        /\ payment[request[r].payment] = NoPayment
        /\ \A q \in Requests : request[q].kind = "pay" /\ request[q].payment = request[r].payment => q = r

RemovalsRead == \A r \in Requests : request[r].kind = "remove" => request[r].seen.status \in Deletable

DeletedIsDeletable == order.deleted => order.status \in Deletable

CreditRepeatsCharge == Len(ledger.credits) = 1 => ledger.credits[1] = ledger.charges[1]

ClosedHasNoMoney == order.status = "CANCELLED" \/ order.deleted => order.paid = 0

BookInvariant ==
    /\ MoneyInvariant
    /\ PaymentIdsFree /\ RemovalsRead
    /\ DeletedIsDeletable /\ CreditRepeatsCharge /\ ClosedHasNoMoney
    /\ PaidIsReceived /\ BalanceExplained

\* The part that speaks of the order, its payments and its ledger only.
AccountsKept ==
    /\ DeletedIsDeletable /\ CreditRepeatsCharge /\ ClosedHasNoMoney
    /\ PaidIsReceived /\ BalanceExplained

\* What is received, of a table of payments.
ReceivedOf(table) ==
    SumFunction([p \in {q \in Payments : table[q].state = "live"} |-> table[p].amount])

LEMMA ReceivedIs == Received = ReceivedOf(payment) /\ Received' = ReceivedOf(payment')
  BY DEF Received, LivePayments, ReceivedOf

\* What is received is a natural number.
LEMMA ReceivedTyped ==
    ASSUME NEW table \in [Payments -> PaymentRows]
    PROVE  ReceivedOf(table) \in Nat
  <1> DEFINE live == {q \in Payments : table[q].state = "live"}
             amounts == [p \in live |-> table[p].amount]
  <1>1. IsFiniteSet(live)
    BY WorkOrderMoneyAssumption, FS_Subset
  <1>2. \A p \in live : amounts[p] \in Nat
    BY WorkOrderMoneyAssumption DEF PaymentRows, NoPayment, Amounts
  <1>3. ReceivedOf(table) = SumFunctionOnSet(amounts, live)
    BY DEF ReceivedOf, SumFunction
  <1> HIDE DEF live, amounts
  <1> QED
    BY <1>1, <1>2, <1>3, SumNat

\* The table more differs from less in that p is live.
OneMore(less, more, p) ==
    /\ less \in [Payments -> PaymentRows] /\ more \in [Payments -> PaymentRows]
    /\ less[p].state # "live" /\ more[p].state = "live"
    /\ \A q \in Payments \ {p} : /\ more[q].state = "live" <=> less[q].state = "live"
                                 /\ more[q].state = "live" => more[q].amount = less[q].amount

\* One more live payment is as much more received.
LEMMA OneMoreReceived ==
    ASSUME NEW less, NEW more, NEW p \in Payments, OneMore(less, more, p)
    PROVE  ReceivedOf(more) = ReceivedOf(less) + more[p].amount
  <1> DEFINE before == {q \in Payments : less[q].state = "live"}
             after == {q \in Payments : more[q].state = "live"}
             f == [q \in before |-> less[q].amount]
             g == [q \in after |-> more[q].amount]
  <1>1. IsFiniteSet(before) /\ IsFiniteSet(after)
    BY WorkOrderMoneyAssumption, FS_Subset
  <1>2. after = before \cup {p} /\ p \notin before
    BY DEF OneMore
  <1>3. Summable(g, after)
    BY WorkOrderMoneyAssumption DEF Summable, OneMore, PaymentRows, NoPayment, Amounts
  <1>4. /\ ReceivedOf(less) = SumFunctionOnSet(f, before)
        /\ ReceivedOf(more) = SumFunctionOnSet(g, after)
    BY DEF ReceivedOf, SumFunction
  <1>5. \A q \in before : f[q] = g[q]
    BY <1>2 DEF OneMore
  <1>6. g[p] = more[p].amount
    BY <1>2
  <1> HIDE DEF before, after, f, g
  <1>7. SumFunctionOnSet(f, before) = SumFunctionOnSet(g, before)
    BY <1>1, <1>5, SumAgree
  <1>8. Summable(g, before \cup {p})
    BY <1>2, <1>3
  <1>9. SumFunctionOnSet(g, before \cup {p}) = SumFunctionOnSet(g, before) + g[p]
    BY <1>1, <1>2, <1>8, SumExtends
  <1> QED
    BY <1>2, <1>4, <1>6, <1>7, <1>9

\* The sum of a list of no more than one entry.
LEMMA SumOfShort ==
    ASSUME NEW s \in Seq(Nat), Len(s) <= 1
    PROVE  SumOf(s) = IF Len(s) = 1 THEN s[1] ELSE 0
  <1> DEFINE n == Len(s)
             entries == [i \in 1..n |-> s[i]]
  <1>1. SumOf(s) = SumFunctionOnSet(entries, 1..n)
    BY DEF SumOf, SumFunction
  <1>2. n \in Nat /\ n <= 1 /\ (n = 1 => s[1] \in Nat)
    OBVIOUS
  <1>3. n = 0 \/ n = 1
    <2> HIDE DEF n
    <2> QED
      BY <1>2
  <1>4. CASE n = 0
    <2>1. 1..n = {}
      BY <1>4
    <2>2. SumFunctionOnSet(entries, {}) = 0
      BY SumEmpty
    <2> QED
      BY <1>1, <1>4, <2>1, <2>2
  <1>5. CASE n = 1
    <2>1. 1..n = {1} /\ 1 \in 1..n
      BY <1>5
    <2>2. entries[1] = s[1] /\ entries[1] \in Int
      BY <1>2, <1>5, <2>1
    <2> HIDE DEF entries, n
    <2>3. SumFunctionOnSet(entries, {1}) = entries[1]
      BY <2>2, SumSingleton
    <2> QED
      BY <1>1, <1>5, <2>1, <2>2, <2>3 DEF n
  <1> QED
    BY <1>3, <1>4, <1>5

\* The order, its payments and its ledger as they were keep the accounts.
LEMMA AccountsUnmoved ==
    ASSUME AccountsKept, UNCHANGED <<order, payment, ledger>>
    PROVE  AccountsKept'
  BY DEF AccountsKept, DeletedIsDeletable, CreditRepeatsCharge, ClosedHasNoMoney,
         PaidIsReceived, BalanceExplained, Received, LivePayments, SumOf

\* A request that ends keeps the ids of the others free, when it writes no payment but its own.
LEMMA EndsKeepsReads ==
    ASSUME TypeOK, PaymentIdsFree, RemovalsRead, NEW r \in Requests, Ends(r),
           \A p \in Payments : payment[p] = NoPayment
                               /\ (request[r].kind = "pay" => p # request[r].payment)
                                  => payment'[p] = NoPayment
    PROVE  PaymentIdsFree' /\ RemovalsRead'
  <1>1. NoRequest.kind = "none"
    BY DEF NoRequest
  <1>2. \A u \in Requests : request'[u] = IF u = r THEN NoRequest ELSE request[u]
    BY DEF TypeOK, Ends
  <1>3. \A u \in Requests : request[u].kind = "pay" => request[u].payment \in Payments
    BY RequestKinds
  <1> QED
    BY <1>1, <1>2, <1>3 DEF PaymentIdsFree, RemovalsRead

\* A request that starts or goes on, and writes no payment, keeps them.
LEMMA GoesOnKeepsReads ==
    ASSUME TypeOK, PaymentIdsFree, RemovalsRead, NEW r \in Requests, NEW q \in RequestRecords,
           request' = [request EXCEPT ![r] = q], payment' = payment,
           q.kind = "pay" => /\ payment[q.payment] = NoPayment
                             /\ \A u \in Requests : request[u].kind = "pay" => request[u].payment # q.payment,
           q.kind = "remove" => q.seen.status \in Deletable
    PROVE  PaymentIdsFree' /\ RemovalsRead'
  <1>1. \A u \in Requests : request'[u] = IF u = r THEN q ELSE request[u]
    BY DEF TypeOK
  <1> QED
    BY <1>1 DEF PaymentIdsFree, RemovalsRead

-----------------------------------------------------------------------------
(* Each step keeps the accounts. *)

\* What the accounts say of the ledger, read from its lists.
LEMMA LedgerIsShort ==
    ASSUME MoneyInvariant
    PROVE  /\ ledger.charges \in Seq(Nat) /\ Len(ledger.charges) \in {0, 1}
           /\ ledger.credits \in Seq(Nat) /\ Len(ledger.credits) \in {0, 1}
           /\ order.status \in ChargedStatuses =>
                 Len(ledger.charges) = 1 /\ Len(ledger.credits) = 0
           /\ order.status \notin ChargedStatuses => Len(ledger.charges) = Len(ledger.credits)
           /\ SumOf(ledger.charges) = IF Len(ledger.charges) = 1 THEN ledger.charges[1] ELSE 0
           /\ SumOf(ledger.credits) = IF Len(ledger.credits) = 1 THEN ledger.credits[1] ELSE 0
  <1> DEFINE charges == Len(ledger.charges)
             credits == Len(ledger.credits)
  <1>1. ledger.charges \in Seq(Nat) /\ ledger.credits \in Seq(Nat)
    BY DEF MoneyInvariant, TypeOK
  <1>2. charges \in Nat /\ credits \in Nat
    BY <1>1
  <1>3. /\ order.status \in ChargedStatuses => charges = 1 /\ credits = 0
        /\ order.status \notin ChargedStatuses => charges = credits /\ credits <= 1
    BY DEF MoneyInvariant, ChargeHistory
  <1>4. charges \in {0, 1} /\ credits \in {0, 1} /\ charges <= 1 /\ credits <= 1
    <2> HIDE DEF charges, credits
    <2> QED
      BY <1>2, <1>3
  <1> QED
    BY <1>1, <1>3, <1>4, SumOfShort

\* The charge of a completion is on the balance, and covers what was paid before.
LEMMA CompleteKeepsAccounts ==
    ASSUME BookInvariant, NEW r \in Requests, Complete(r)
    PROVE  AccountsKept'
  <1> DEFINE settled == Settled("COMPLETED", FinalTotal, order.paid)
  <1>1. MoneyInvariant /\ TypeOK
    BY DEF BookInvariant, MoneyInvariant
  <1>2. Len(ledger.charges) = 0 /\ Len(ledger.credits) = 0
    BY <1>1, CompletesUncharged
  <1>3. settled \in {"COMPLETED", "PAID"}
    BY DEF Settled
  <1>4. FinalTotal \in Nat /\ order.paid \in Nat /\ ledger.balance \in Int
    BY <1>1, WorkOrderMoneyAssumption DEF FinalTotal, TypeOK, Rows
  <1>5. /\ order'.status = settled /\ order'.total = FinalTotal
        /\ order'.paid = order.paid /\ order'.deleted = order.deleted
    <2>1. order' = [order EXCEPT !.total = FinalTotal, !.status = settled]
      BY DEF Complete
    <2>2. order \in Rows
      BY <1>1 DEF TypeOK
    <2> HIDE DEF settled, FinalTotal
    <2> QED
      BY <2>1, <2>2 DEF Rows
  <1>6. /\ ledger'.charges = Append(ledger.charges, FinalTotal)
        /\ ledger'.credits = ledger.credits
        /\ ledger'.balance = ledger.balance + FinalTotal
    <2>1. ledger' = [ledger EXCEPT !.charges = Append(@, FinalTotal),
                                   !.balance = Balance("CHARGE", FinalTotal)]
      BY DEF Complete
    <2>2. Balance("CHARGE", FinalTotal) = ledger.balance + FinalTotal
      BY <1>4 DEF Balance, BalanceSign
    <2>3. ledger \in [charges : Seq(Nat), credits : Seq(Nat), balance : Int]
      BY <1>1 DEF TypeOK
    <2> HIDE DEF Balance, FinalTotal
    <2> QED
      BY <2>1, <2>2, <2>3
  <1>7. /\ ledger'.charges \in Seq(Nat) /\ Len(ledger'.charges) = 1
        /\ ledger'.charges[1] = FinalTotal
    BY <1>1, <1>2, <1>4, <1>6, LedgerIsShort
  <1>8. SumOf(ledger'.charges) = FinalTotal
    <2> DEFINE charges == ledger'.charges
    <2>1. charges \in Seq(Nat) /\ Len(charges) = 1 /\ charges[1] = FinalTotal
      BY <1>7
    <2>2. Len(charges) <= 1
      BY <2>1
    <2> HIDE DEF charges, FinalTotal
    <2>3. SumOf(charges) = FinalTotal
      BY <2>1, <2>2, SumOfShort
    <2> QED
      BY <2>3 DEF charges
  <1>9. SumOf(ledger.charges) = 0 /\ SumOf(ledger.credits) = 0
    BY <1>1, <1>2, LedgerIsShort
  <1>10. Received' = Received /\ Received \in Nat
    BY <1>1, ReceivedIs, ReceivedTyped DEF Complete, TypeOK
  <1>11. ~order.deleted /\ order.paid <= FinalTotal
    BY DEF Complete, StatusCas
  <1>12. PaidIsReceived'
    BY <1>5, <1>10, <1>11 DEF BookInvariant, PaidIsReceived
  <1>13. BalanceExplained'
    <2> HIDE DEF FinalTotal
    <2>1. SumOf(ledger'.credits) = 0
      BY <1>6, <1>9
    <2>2. ledger.balance = 0 - 0 - Received
      BY <1>9 DEF BookInvariant, BalanceExplained
    <2>3. ledger'.balance = FinalTotal - 0 - Received'
      BY <1>4, <1>6, <1>10, <2>2
    <2> QED
      BY <1>8, <2>1, <2>3 DEF BalanceExplained
  <1>14. DeletedIsDeletable' /\ ClosedHasNoMoney' /\ CreditRepeatsCharge'
    BY <1>2, <1>3, <1>5, <1>6, <1>11 DEF DeletedIsDeletable, ClosedHasNoMoney, CreditRepeatsCharge
  <1> QED
    BY <1>12, <1>13, <1>14 DEF AccountsKept

\* A cancellation takes the whole charge off the balance, of an order without money.
LEMMA CancelKeepsAccounts ==
    ASSUME BookInvariant, NEW r \in Requests, Cancel(r)
    PROVE  AccountsKept'
  <1> DEFINE amount == ledger.charges[1]
             charged == request[r].seen.status \in Charged
  <1>1. MoneyInvariant /\ TypeOK
    BY DEF BookInvariant, MoneyInvariant
  <1>2. ~order.deleted /\ order.status = request[r].seen.status /\ order.paid = 0
    BY DEF Cancel, StatusCas
  <1>3. /\ order'.status = "CANCELLED" /\ order'.total = order.total
        /\ order'.paid = order.paid /\ order'.deleted = order.deleted
    BY <1>1 DEF Cancel, TypeOK, Rows
  <1>4. Received' = Received /\ Received \in Nat
    BY <1>1, ReceivedIs, ReceivedTyped DEF Cancel, TypeOK
  <1>5. PaidIsReceived' /\ DeletedIsDeletable' /\ ClosedHasNoMoney'
    BY <1>2, <1>3, <1>4
       DEF BookInvariant, PaidIsReceived, DeletedIsDeletable, ClosedHasNoMoney
  <1>6. BalanceExplained' /\ CreditRepeatsCharge'
    <2>1. CASE charged
      <3>1. Len(ledger.charges) = 1 /\ Len(ledger.credits) = 0
        BY <1>1, <1>2, <2>1, LedgerIsShort DEF Charged, ChargedStatuses
      <3>2. amount \in Nat /\ ledger.balance \in Int
        BY <1>1, <3>1, LedgerIsShort DEF TypeOK
      <3>3. ledger' = [ledger EXCEPT !.credits = Append(@, amount),
                                     !.balance = Balance("CREDIT_NOTE", amount)]
        BY <2>1 DEF Cancel
      <3>4. Balance("CREDIT_NOTE", amount) = ledger.balance - amount
        BY <3>2 DEF Balance, BalanceSign
      <3>5. /\ ledger'.charges = ledger.charges
            /\ ledger'.credits = Append(ledger.credits, amount)
            /\ ledger'.balance = ledger.balance - amount
        <4>1. ledger \in [charges : Seq(Nat), credits : Seq(Nat), balance : Int]
          BY <1>1 DEF TypeOK
        <4> HIDE DEF Balance, amount
        <4> QED
          BY <3>3, <3>4, <4>1
      <3>6. /\ ledger'.credits \in Seq(Nat) /\ Len(ledger'.credits) = 1
            /\ ledger'.credits[1] = amount
        BY <1>1, <3>1, <3>2, <3>5, LedgerIsShort
      <3>7. SumOf(ledger'.credits) = amount
        <4> DEFINE credits == ledger'.credits
        <4>1. credits \in Seq(Nat) /\ Len(credits) = 1 /\ credits[1] = amount
          BY <3>6
        <4>2. Len(credits) <= 1
          BY <4>1
        <4> HIDE DEF credits, amount
        <4>3. SumOf(credits) = amount
          BY <4>1, <4>2, SumOfShort
        <4> QED
          BY <4>3 DEF credits
      <3>8. SumOf(ledger.charges) = amount /\ SumOf(ledger.credits) = 0
        BY <1>1, <3>1, LedgerIsShort
      <3>9. BalanceExplained'
        <4> HIDE DEF amount
        <4>1. ledger.balance = amount - 0 - Received
          BY <3>8 DEF BookInvariant, BalanceExplained
        <4>2. SumOf(ledger'.charges) = amount
          BY <3>5, <3>8
        <4>3. ledger'.balance = amount - amount - Received'
          BY <1>4, <3>2, <3>5, <4>1
        <4> QED
          BY <3>7, <4>2, <4>3 DEF BalanceExplained
      <3> QED
        BY <3>5, <3>6, <3>9 DEF CreditRepeatsCharge
    <2>2. CASE ~charged
      <3>1. ledger' = ledger
        BY <2>2 DEF Cancel
      <3> QED
        BY <1>4, <3>1 DEF BookInvariant, BalanceExplained, CreditRepeatsCharge
    <2> QED
      BY <2>1, <2>2
  <1> QED
    BY <1>5, <1>6 DEF AccountsKept

\* Every other transition leaves the money where it is, and closes no order.
LEMMA MoveOnKeepsAccounts ==
    ASSUME BookInvariant, NEW r \in Requests, MoveOn(r)
    PROVE  AccountsKept'
  <1> DEFINE to == request[r].to
             settled == Settled(to, order.total, order.paid)
  <1>1. MoneyInvariant /\ TypeOK
    BY DEF BookInvariant, MoneyInvariant
  <1>2. settled \in {to, "PAID"} /\ settled # "CANCELLED" /\ ~order.deleted
    BY DEF MoveOn, Settled, StatusCas
  <1>3. /\ order'.status = settled /\ order'.total = order.total
        /\ order'.paid = order.paid /\ order'.deleted = order.deleted
    <2>1. order' = [order EXCEPT !.status = settled]
      BY DEF MoveOn
    <2>2. order \in Rows
      BY <1>1 DEF TypeOK
    <2> HIDE DEF settled
    <2> QED
      BY <2>1, <2>2 DEF Rows
  <1>4. Received' = Received
    BY ReceivedIs DEF MoveOn
  <1> HIDE DEF settled
  <1>5. ledger' = ledger
    BY DEF MoveOn
  <1> QED
    BY <1>2, <1>3, <1>4, <1>5
       DEF BookInvariant, AccountsKept, PaidIsReceived, BalanceExplained, DeletedIsDeletable,
           ClosedHasNoMoney, CreditRepeatsCharge

\* Only an order that may be removed, and has no money, is removed.
LEMMA RemoveKeepsAccounts ==
    ASSUME BookInvariant, NEW r \in Requests, Remove(r)
    PROVE  AccountsKept'
  <1>1. order \in Rows
    BY DEF BookInvariant, MoneyInvariant, TypeOK
  <1>2. /\ order'.status = order.status /\ order'.total = order.total
        /\ order'.paid = order.paid /\ order.paid = 0
    BY <1>1 DEF Remove, Rows
  <1>3. order.status \in Deletable
    BY DEF Remove, BookInvariant, RemovalsRead
  <1>4. Received' = Received /\ ledger' = ledger
    BY ReceivedIs DEF Remove
  <1> QED
    BY <1>2, <1>3, <1>4
       DEF BookInvariant, AccountsKept, PaidIsReceived, BalanceExplained, DeletedIsDeletable,
           ClosedHasNoMoney, CreditRepeatsCharge

\* An edit of a line never takes the total below what is paid.
LEMMA EditsKeepAccounts ==
    ASSUME BookInvariant, NEW r \in Requests, WriteTotal(r) \/ EditPart(r)
    PROVE  AccountsKept'
  <1>1. order \in Rows
    BY DEF BookInvariant, MoneyInvariant, TypeOK
  <1>2. /\ order'.status = order.status /\ order'.deleted = order.deleted
        /\ order'.paid = order.paid /\ order.paid <= order'.total
    BY <1>1 DEF WriteTotal, EditPart, Fits, Rows
  <1>3. Received' = Received /\ ledger' = ledger
    BY ReceivedIs DEF WriteTotal, EditPart
  <1> QED
    BY <1>2, <1>3
       DEF BookInvariant, AccountsKept, PaidIsReceived, BalanceExplained, DeletedIsDeletable,
           ClosedHasNoMoney, CreditRepeatsCharge

\* A payment adds what is received to the order and takes it off the balance.
LEMMA CreatePaymentKeepsAccounts ==
    ASSUME BookInvariant, NEW r \in Requests, CreatePayment(r)
    PROVE  AccountsKept'
  <1> DEFINE amount == request[r].amount
             type == IF order.status \in Prepayable THEN "PREPAYMENT" ELSE "PAYMENT"
             paid == order.paid + amount
             settled == Settled(order.status, order.total, paid)
             p == request[r].payment
  <1>1. MoneyInvariant /\ TypeOK
    BY DEF BookInvariant, MoneyInvariant
  <1>2. amount \in Amounts /\ amount \in Nat /\ p \in Payments
    BY <1>1, RequestKinds, WorkOrderMoneyAssumption DEF CreatePayment, Amounts
  <1>3. order.paid \in Nat /\ order.total \in Nat /\ ledger.balance \in Int
    BY <1>1, WorkOrderMoneyAssumption DEF TypeOK, Rows
  <1>4. ~order.deleted /\ order.status \in Payable /\ paid <= order.total
    BY <1>2, <1>3 DEF CreatePayment, CanPay
  <1>5. settled # "CANCELLED"
    BY <1>4 DEF Settled, Payable, Prepayable
  <1>6. /\ order'.status = settled /\ order'.total = order.total
        /\ order'.paid = paid /\ order'.deleted = order.deleted
    <2>1. order' = [order EXCEPT !.paid = paid, !.status = settled]
      BY DEF CreatePayment
    <2>2. order \in Rows
      BY <1>1 DEF TypeOK
    <2> HIDE DEF settled, paid
    <2> QED
      BY <2>1, <2>2 DEF Rows
  <1>7. /\ ledger'.charges = ledger.charges /\ ledger'.credits = ledger.credits
        /\ ledger'.balance = ledger.balance - amount
    <2>1. ledger' = [ledger EXCEPT !.balance = Balance(type, amount)]
      BY DEF CreatePayment
    <2>2. Balance(type, amount) = ledger.balance - amount
      BY <1>2, <1>3 DEF Balance, BalanceSign
    <2>3. ledger \in [charges : Seq(Nat), credits : Seq(Nat), balance : Int]
      BY <1>1 DEF TypeOK
    <2> HIDE DEF type, amount, Balance
    <2> QED
      BY <2>1, <2>2, <2>3
  <1>8. Received' = Received + amount /\ Received \in Nat
    <2> DEFINE row == [state |-> "live", amount |-> amount, type |-> type]
    <2>1. payment[p] = NoPayment
      BY DEF CreatePayment, BookInvariant, PaymentIdsFree
    <2>2. payment' = [payment EXCEPT ![p] = row]
      BY DEF CreatePayment
    <2>3. row \in PaymentRows /\ row.state = "live" /\ row.amount = amount
      BY <1>2 DEF PaymentRows
    <2>4. payment \in [Payments -> PaymentRows] /\ NoPayment.state # "live"
      BY <1>1 DEF TypeOK, NoPayment
    <2> HIDE DEF row, p, amount
    <2>5. payment'[p] = row /\ \A q \in Payments \ {p} : payment'[q] = payment[q]
      BY <1>2, <2>2, <2>4
    <2>6. payment' \in [Payments -> PaymentRows]
      BY <1>2, <2>2, <2>3, <2>4
    <2>7. OneMore(payment, payment', p)
      BY <2>1, <2>3, <2>4, <2>5, <2>6 DEF OneMore
    <2>8. ReceivedOf(payment') = ReceivedOf(payment) + payment'[p].amount
      BY <1>2, <2>7, OneMoreReceived
    <2> QED
      BY <2>3, <2>4, <2>5, <2>8, ReceivedIs, ReceivedTyped
  <1> HIDE DEF settled, amount
  <1>9. PaidIsReceived'
    BY <1>2, <1>3, <1>4, <1>6, <1>8 DEF BookInvariant, PaidIsReceived
  <1>10. BalanceExplained'
    <2>1. SumOf(ledger.charges) \in Int /\ SumOf(ledger.credits) \in Int
      <3>1. \A s \in Seq(Nat) : Len(s) = 1 => s[1] \in Int
        OBVIOUS
      <3> QED
        BY <1>1, <3>1, LedgerIsShort
    <2>2. ledger.balance = SumOf(ledger.charges) - SumOf(ledger.credits) - Received
      BY DEF BookInvariant, BalanceExplained
    <2>3. ledger'.balance = SumOf(ledger.charges) - SumOf(ledger.credits) - Received'
      BY <1>2, <1>3, <1>7, <1>8, <2>1, <2>2
    <2> QED
      BY <1>7, <2>3 DEF BalanceExplained
  <1>11. DeletedIsDeletable' /\ ClosedHasNoMoney' /\ CreditRepeatsCharge'
    BY <1>4, <1>5, <1>6, <1>7
       DEF BookInvariant, DeletedIsDeletable, ClosedHasNoMoney, CreditRepeatsCharge
  <1> QED
    BY <1>9, <1>10, <1>11 DEF AccountsKept

\* A reversal takes back exactly what the payment brought: the order has at least that
\* much, so it is never cut off at 0, and no removed order has anything to reverse.
LEMMA ReverseKeepsAccounts ==
    ASSUME BookInvariant, NEW r \in Requests, Reverse(r)
    PROVE  AccountsKept'
  <1> DEFINE p == request[r].payment
             amount == payment[p].amount
             type == IF payment[p].type = "PREPAYMENT" THEN "PREPAYMENT_CANCEL"
                                                       ELSE "PAYMENT_CANCEL"
             paid == Larger(0, order.paid - amount)
             reopened == Reopened(order.status, order.total, paid)
  <1>1. MoneyInvariant /\ TypeOK
    BY DEF BookInvariant, MoneyInvariant
  <1>2. p \in Payments /\ payment[p].state = "live"
    BY <1>1, RequestKinds DEF Reverse, NotYetReversed
  <1>3. payment[p] \in [state : {"live", "reversed"}, amount : Amounts,
                        type : {"PAYMENT", "PREPAYMENT"}]
    BY <1>1, <1>2 DEF TypeOK, PaymentRows, NoPayment
  <1>4. amount \in Nat /\ amount >= 1
    BY <1>3, WorkOrderMoneyAssumption DEF Amounts
  <1>5. order.paid \in Nat /\ order.total \in Nat /\ ledger.balance \in Int
    BY <1>1, WorkOrderMoneyAssumption DEF TypeOK, Rows
  <1>6. Received = Received' + amount /\ Received' \in Nat /\ Received \in Nat
    <2> DEFINE row == [payment[p] EXCEPT !.state = "reversed"]
    <2>1. payment' = [payment EXCEPT ![p] = row]
      BY DEF Reverse
    <2>2. row \in PaymentRows /\ row.state # "live"
      BY <1>3 DEF PaymentRows
    <2>3. payment \in [Payments -> PaymentRows]
      BY <1>1 DEF TypeOK
    <2> HIDE DEF row, p, amount
    <2>4. payment'[p] = row /\ \A q \in Payments \ {p} : payment'[q] = payment[q]
      BY <1>2, <2>1, <2>3
    <2>5. payment' \in [Payments -> PaymentRows]
      BY <1>2, <2>1, <2>2, <2>3
    <2>6. OneMore(payment', payment, p)
      BY <1>2, <2>2, <2>3, <2>4, <2>5 DEF OneMore
    <2>7. ReceivedOf(payment) = ReceivedOf(payment') + payment[p].amount
      BY <1>2, <2>6, OneMoreReceived
    <2> QED
      BY <2>3, <2>5, <2>7, ReceivedIs, ReceivedTyped DEF amount
  <1>7. order.paid = Received /\ order.paid <= order.total
    BY DEF BookInvariant, PaidIsReceived
  <1>8. /\ order.paid # 0 /\ order.paid - amount \in Nat
        /\ order.paid - amount = Received' /\ order.paid - amount <= order.total
    <2> DEFINE now == Received'
               before == Received
               money == order.paid
               total == order.total
    <2>1. now \in Nat /\ before = now + amount /\ money = before
          /\ money <= total /\ total \in Nat
      BY <1>5, <1>6, <1>7
    <2> HIDE DEF amount, p, type, paid, reopened, now, before, money, total
    <2>2. money # 0 /\ money - amount \in Nat /\ money - amount = now /\ money - amount <= total
      BY <1>4, <2>1
    <2> QED
      BY <2>2 DEF money, now, total
  <1>9. ~order.deleted /\ order.status # "CANCELLED" /\ paid = order.paid - amount
    <2> HIDE DEF amount, p, type, reopened
    <2> QED
      BY <1>8 DEF Larger, BookInvariant, ClosedHasNoMoney
  <1>10. reopened # "CANCELLED"
    BY <1>9 DEF Reopened
  <1>11. /\ order'.status = reopened /\ order'.total = order.total
         /\ order'.paid = paid /\ order'.deleted = order.deleted
    <2>1. order' = [order EXCEPT !.paid = paid, !.status = reopened]
      BY <1>9 DEF Reverse
    <2>2. order \in Rows
      BY <1>1 DEF TypeOK
    <2> HIDE DEF paid, reopened
    <2> QED
      BY <2>1, <2>2 DEF Rows
  <1>12. /\ ledger'.charges = ledger.charges /\ ledger'.credits = ledger.credits
         /\ ledger'.balance = ledger.balance + amount
    <2>1. ledger' = [ledger EXCEPT !.balance = Balance(type, amount)]
      BY DEF Reverse
    <2>2. Balance(type, amount) = ledger.balance + amount
      BY <1>4, <1>5 DEF Balance, BalanceSign
    <2>3. ledger \in [charges : Seq(Nat), credits : Seq(Nat), balance : Int]
      BY <1>1 DEF TypeOK
    <2> HIDE DEF type, amount, Balance
    <2> QED
      BY <2>1, <2>2, <2>3
  <1> HIDE DEF reopened, amount, paid
  <1>13. PaidIsReceived'
    BY <1>8, <1>9, <1>11 DEF PaidIsReceived
  <1>14. BalanceExplained'
    <2>1. SumOf(ledger.charges) \in Int /\ SumOf(ledger.credits) \in Int
      <3>1. \A s \in Seq(Nat) : Len(s) = 1 => s[1] \in Int
        OBVIOUS
      <3> QED
        BY <1>1, <3>1, LedgerIsShort
    <2>2. ledger.balance = SumOf(ledger.charges) - SumOf(ledger.credits) - Received
      BY DEF BookInvariant, BalanceExplained
    <2>3. ledger'.balance = SumOf(ledger.charges) - SumOf(ledger.credits) - Received'
      BY <1>4, <1>5, <1>6, <1>12, <2>1, <2>2
    <2> QED
      BY <1>12, <2>3 DEF BalanceExplained
  <1>15. DeletedIsDeletable' /\ ClosedHasNoMoney' /\ CreditRepeatsCharge'
    BY <1>9, <1>10, <1>11, <1>12
       DEF BookInvariant, DeletedIsDeletable, ClosedHasNoMoney, CreditRepeatsCharge
  <1> QED
    BY <1>13, <1>14, <1>15 DEF AccountsKept

-----------------------------------------------------------------------------
(* The accounts are inductive. *)

\* A read starts a request with an id of its own, or with a status that may be removed.
LEMMA ReadKeepsBook ==
    ASSUME BookInvariant, NEW r \in Requests, Read(r)
    PROVE  BookInvariant'
  <1>1. MoneyInvariant /\ TypeOK /\ PaymentIdsFree /\ RemovalsRead /\ AccountsKept
    BY DEF BookInvariant, MoneyInvariant, AccountsKept
  <1>2. UNCHANGED <<order, payment, ledger>>
    BY DEF Read, ReadForTransition, ReadForRemove, ReadForEdit, PreparePayment,
           ReadForReversal, ReadForInvoiceEdit
  <1>3. MoneyInvariant' /\ AccountsKept'
    BY <1>1, <1>2, ReadKeeps, AccountsUnmoved
  <1>4. PaymentIdsFree' /\ RemovalsRead'
    <2>1. ASSUME NEW q \in RequestRecords, request' = [request EXCEPT ![r] = q],
                 q.kind \notin {"pay", "remove"}
          PROVE  PaymentIdsFree' /\ RemovalsRead'
      BY <1>1, <1>2, <2>1, GoesOnKeepsReads
    <2>2. ASSUME NEW to \in Statuses, ReadForTransition(r, to)
          PROVE  PaymentIdsFree' /\ RemovalsRead'
      <3>1. [kind |-> "transition", to |-> to, seen |-> order] \in RequestRecords
        BY <1>1 DEF RequestRecords, TypeOK
      <3> QED
        BY <2>1, <2>2, <3>1 DEF ReadForTransition, Starts
    <2>3. CASE ReadForRemove(r)
      <3> DEFINE q == [kind |-> "remove", seen |-> order]
      <3>1. q \in RequestRecords /\ q.kind = "remove" /\ q.seen.status \in Deletable
        BY <1>1, <2>3 DEF ReadForRemove, RequestRecords, TypeOK
      <3>2. request' = [request EXCEPT ![r] = q]
        BY <2>3 DEF ReadForRemove, Starts
      <3> HIDE DEF q
      <3> QED
        BY <1>1, <1>2, <3>1, <3>2, GoesOnKeepsReads
    <2>4. ASSUME NEW delta \in Deltas, ReadForEdit(r, delta)
          PROVE  PaymentIdsFree' /\ RemovalsRead'
      <3>1. [kind |-> "edit", delta |-> delta, part |-> order.status \in Editable]
                \in RequestRecords
        BY DEF RequestRecords
      <3> QED
        BY <2>1, <2>4, <3>1 DEF ReadForEdit, Starts
    <2>5. ASSUME NEW p \in Payments, NEW amount \in Amounts, PreparePayment(r, p, amount)
          PROVE  PaymentIdsFree' /\ RemovalsRead'
      <3> DEFINE q == [kind |-> "pay", payment |-> p, amount |-> amount]
      <3>1. q \in RequestRecords /\ q.kind = "pay" /\ q.payment = p
        BY DEF RequestRecords
      <3>2. request' = [request EXCEPT ![r] = q]
        BY <2>5 DEF PreparePayment, Starts
      <3>3. /\ payment[p] = NoPayment
            /\ \A u \in Requests : request[u].kind = "pay" => request[u].payment # p
        BY <2>5 DEF PreparePayment
      <3> HIDE DEF q
      <3> QED
        BY <1>1, <1>2, <3>1, <3>2, <3>3, GoesOnKeepsReads
    <2>6. ASSUME NEW p \in Payments, ReadForReversal(r, p)
          PROVE  PaymentIdsFree' /\ RemovalsRead'
      <3>1. [kind |-> "reverse", payment |-> p] \in RequestRecords
        BY DEF RequestRecords
      <3> QED
        BY <2>1, <2>6, <3>1 DEF ReadForReversal, Starts
    <2>7. ASSUME NEW amount \in Amounts, ReadForInvoiceEdit(r, amount)
          PROVE  PaymentIdsFree' /\ RemovalsRead'
      <3>1. [kind |-> "invoice", amount |-> amount, issue |-> used.invoices] \in RequestRecords
        BY <1>1, WorkOrderMoneyAssumption DEF RequestRecords, TypeOK
      <3> QED
        BY <2>1, <2>7, <3>1 DEF ReadForInvoiceEdit, Starts
    <2> QED
      BY <2>2, <2>3, <2>4, <2>5, <2>6, <2>7 DEF Read
  <1> QED
    BY <1>3, <1>4 DEF BookInvariant, AccountsKept

\* A request that goes on to its next step leaves the accounts alone.
LEMMA GoesOnKeepsBook ==
    ASSUME BookInvariant, NEW r \in Requests, WriteLine(r) \/ WriteInvoiceAmount(r)
    PROVE  BookInvariant'
  <1>1. MoneyInvariant /\ TypeOK /\ PaymentIdsFree /\ RemovalsRead /\ AccountsKept
    BY DEF BookInvariant, MoneyInvariant, AccountsKept
  <1>2. UNCHANGED <<order, payment, ledger>>
    BY DEF WriteLine, WriteInvoiceAmount
  <1>3. MoneyInvariant' /\ AccountsKept'
    BY <1>1, <1>2, EditsKeep, InvoiceEditsKeep, AccountsUnmoved
  <1>4. CASE WriteLine(r)
    <2> DEFINE q == [kind |-> "recalc", delta |-> request[r].delta,
                     sum |-> worth + request[r].delta]
    <2>1. request[r].delta \in Deltas /\ worth + request[r].delta \in Int
      BY <1>1, <1>4, RequestKinds, WorkOrderMoneyAssumption DEF WriteLine, TypeOK, Deltas
    <2>2. q \in RequestRecords /\ q.kind \notin {"pay", "remove"}
      BY <2>1 DEF RequestRecords
    <2>3. request' = [request EXCEPT ![r] = q]
      BY <1>4 DEF WriteLine
    <2> HIDE DEF q
    <2>4. PaymentIdsFree' /\ RemovalsRead'
      BY <1>1, <1>2, <2>2, <2>3, GoesOnKeepsReads
    <2> QED
      BY <1>3, <2>4 DEF BookInvariant, AccountsKept
  <1>5. CASE WriteInvoiceAmount(r)
    <2> DEFINE q == [kind |-> "mirror", amount |-> request[r].amount, paid |-> order.paid]
    <2>1. request[r].amount \in Amounts /\ order.paid \in Nat
      BY <1>1, <1>5, RequestKinds DEF WriteInvoiceAmount, TypeOK, Rows
    <2>2. q \in RequestRecords /\ q.kind \notin {"pay", "remove"}
      BY <2>1 DEF RequestRecords
    <2>3. request' = [request EXCEPT ![r] = q]
      BY <1>5 DEF WriteInvoiceAmount
    <2> HIDE DEF q
    <2>4. PaymentIdsFree' /\ RemovalsRead'
      BY <1>1, <1>2, <2>2, <2>3, GoesOnKeepsReads
    <2> QED
      BY <1>3, <2>4 DEF BookInvariant, AccountsKept
  <1> QED
    BY <1>4, <1>5

\* A request that ends and writes no payment leaves the ids of the others free.
LEMMA EndsKeepsBook ==
    ASSUME BookInvariant, NEW r \in Requests, Ends(r), payment' = payment,
           MoneyInvariant', AccountsKept'
    PROVE  BookInvariant'
  <1>1. TypeOK /\ PaymentIdsFree /\ RemovalsRead
    BY DEF BookInvariant, MoneyInvariant
  <1>2. PaymentIdsFree' /\ RemovalsRead'
    BY <1>1, EndsKeepsReads
  <1> QED
    BY <1>2 DEF BookInvariant, AccountsKept

\* Nor does the payment it has read the id of.
LEMMA PaymentsKeepBook ==
    ASSUME BookInvariant, NEW r \in Requests, CreatePayment(r) \/ Reverse(r)
    PROVE  BookInvariant'
  <1> DEFINE p == request[r].payment
  <1>1. MoneyInvariant /\ TypeOK /\ PaymentIdsFree /\ RemovalsRead
    BY DEF BookInvariant, MoneyInvariant
  <1>2. MoneyInvariant' /\ AccountsKept'
    BY <1>1, CreatePaymentKeeps, ReverseKeeps, CreatePaymentKeepsAccounts, ReverseKeepsAccounts
  <1>3. \A q \in Payments \ {p} : payment'[q] = payment[q]
    BY <1>1 DEF CreatePayment, Reverse, TypeOK
  <1>4. Reverse(r) => payment[p] # NoPayment
    BY DEF Reverse, NotYetReversed, NoPayment
  <1>5. CreatePayment(r) => request[r].kind = "pay"
    BY DEF CreatePayment
  <1>6. Ends(r)
    BY DEF CreatePayment, Reverse
  <1>7. PaymentIdsFree' /\ RemovalsRead'
    BY <1>1, <1>3, <1>4, <1>5, <1>6, EndsKeepsReads
  <1> QED
    BY <1>2, <1>7 DEF BookInvariant, AccountsKept

\* A new order satisfies the invariant of the money.
LEMMA InitBalances == Init => BookInvariant
  <1> SUFFICES ASSUME Init PROVE BookInvariant
    OBVIOUS
  <1>1. MoneyInvariant
    BY InitEstablishes
  <1>2. order.paid = 0 /\ order.total \in Nat /\ ~order.deleted /\ ledger.balance = 0
    BY WorkOrderMoneyAssumption DEF Init
  <1>3. ledger.charges = <<>> /\ ledger.credits = <<>>
    BY DEF Init
  <1>4. Received = 0
    <2> DEFINE live == {q \in Payments : payment[q].state = "live"}
               amounts == [q \in live |-> payment[q].amount]
    <2>1. live = {}
      BY DEF Init, NoPayment
    <2>2. ReceivedOf(payment) = SumFunctionOnSet(amounts, live)
      BY DEF ReceivedOf, SumFunction
    <2> HIDE DEF live, amounts
    <2> QED
      BY <2>1, <2>2, SumEmpty, ReceivedIs
  <1>5. SumOf(ledger.charges) = 0 /\ SumOf(ledger.credits) = 0
    BY <1>1, <1>3, LedgerIsShort
  <1>6. PaymentIdsFree /\ RemovalsRead
    BY DEF Init, PaymentIdsFree, RemovalsRead, NoRequest
  <1>7. PaidIsReceived /\ BalanceExplained
    BY <1>2, <1>4, <1>5 DEF PaidIsReceived, BalanceExplained
  <1>8. DeletedIsDeletable /\ ClosedHasNoMoney /\ CreditRepeatsCharge
    BY <1>2, <1>3 DEF DeletedIsDeletable, ClosedHasNoMoney, CreditRepeatsCharge
  <1> QED
    BY <1>1, <1>6, <1>7, <1>8 DEF BookInvariant

\* Every step of every request keeps the accounts.
LEMMA NextKeepsBook == BookInvariant /\ [Next]_vars => BookInvariant'
  <1> SUFFICES ASSUME BookInvariant, [Next]_vars PROVE BookInvariant'
    OBVIOUS
  <1>1. MoneyInvariant /\ MoneyInvariant' /\ AccountsKept
    BY NextKeeps DEF BookInvariant, AccountsKept
  <1>2. CASE UNCHANGED vars
    <2>1. AccountsKept'
      BY <1>1, <1>2, AccountsUnmoved DEF vars
    <2>2. PaymentIdsFree' /\ RemovalsRead'
      BY <1>2 DEF vars, BookInvariant, PaymentIdsFree, RemovalsRead
    <2> QED
      BY <1>1, <2>1, <2>2 DEF BookInvariant, AccountsKept
  <1>3. CASE InvoiceStep
    <2>1. UNCHANGED <<order, payment, ledger, request>>
      BY <1>3 DEF InvoiceStep, CreateInvoice, SendInvoice, CancelInvoice, DueDatePasses, MarkOverdue
    <2>2. AccountsKept'
      BY <1>1, <2>1, AccountsUnmoved
    <2>3. PaymentIdsFree' /\ RemovalsRead'
      BY <2>1 DEF BookInvariant, PaymentIdsFree, RemovalsRead
    <2> QED
      BY <1>1, <2>2, <2>3 DEF BookInvariant, AccountsKept
  <1>4. ASSUME NEW r \in Requests, Read(r) PROVE BookInvariant'
    BY <1>4, ReadKeepsBook
  <1>5. ASSUME NEW r \in Requests, Abandon(r) \/ MirrorEditedInvoice(r) PROVE BookInvariant'
    <2>1. UNCHANGED <<order, payment, ledger>> /\ Ends(r)
      BY <1>5 DEF Abandon, MirrorEditedInvoice
    <2>2. AccountsKept'
      BY <1>1, <2>1, AccountsUnmoved
    <2> QED
      BY <1>1, <2>1, <2>2, EndsKeepsBook
  <1>6. ASSUME NEW r \in Requests,
               Complete(r) \/ Cancel(r) \/ MoveOn(r) \/ Remove(r) \/ WriteTotal(r) \/ EditPart(r)
        PROVE  BookInvariant'
    <2>1. payment' = payment /\ Ends(r)
      BY <1>6 DEF Complete, Cancel, MoveOn, Remove, WriteTotal, EditPart
    <2>2. AccountsKept'
      BY <1>6, CompleteKeepsAccounts, CancelKeepsAccounts, MoveOnKeepsAccounts,
         RemoveKeepsAccounts, EditsKeepAccounts
    <2> QED
      BY <1>1, <2>1, <2>2, EndsKeepsBook
  <1> QED
    BY <1>2, <1>3, <1>4, <1>5, <1>6, GoesOnKeepsBook, PaymentsKeepBook DEF Next, Act

\* Only a completion changes the charges, and it charges what the lines add up to.
LEMMA StepChargesLines ==
    ASSUME MoneyInvariant, [Next]_vars, ledger'.charges # ledger.charges
    PROVE  ledger'.charges[Len(ledger'.charges)] = worth
  <1>1. ledger \in [charges : Seq(Nat), credits : Seq(Nat), balance : Int]
    BY DEF MoneyInvariant, TypeOK
  <1>2. ASSUME NEW r \in Requests, Complete(r)
        PROVE  ledger'.charges[Len(ledger'.charges)] = worth
    <2>1. ledger' = [ledger EXCEPT !.charges = Append(@, FinalTotal),
                                   !.balance = Balance("CHARGE", FinalTotal)]
      BY <1>2 DEF Complete
    <2>2. ledger'.charges = Append(ledger.charges, FinalTotal)
      <3> HIDE DEF Balance, FinalTotal
      <3> QED
        BY <1>1, <2>1
    <2>3. FinalTotal \in Nat
      BY WorkOrderMoneyAssumption DEF MoneyInvariant, TypeOK, FinalTotal
    <2>4. Append(ledger.charges, FinalTotal)[Len(Append(ledger.charges, FinalTotal))] = FinalTotal
      BY <1>1, <2>3
    <2> QED
      BY <2>2, <2>4 DEF FinalTotal
  <1>3. ASSUME NEW r \in Requests, Cancel(r) \/ CreatePayment(r) \/ Reverse(r)
        PROVE  ledger'.charges = ledger.charges
    BY <1>1, <1>3 DEF Cancel, CreatePayment, Reverse
  <1>4. ASSUME NEW r \in Requests,
               \/ Read(r) \/ Abandon(r) \/ MoveOn(r) \/ Remove(r) \/ WriteLine(r) \/ WriteTotal(r)
               \/ EditPart(r) \/ WriteInvoiceAmount(r) \/ MirrorEditedInvoice(r)
        PROVE  ledger' = ledger
    BY <1>4 DEF Read, ReadForTransition, ReadForRemove, ReadForEdit, PreparePayment,
                ReadForReversal, ReadForInvoiceEdit, Abandon, MoveOn, Remove, WriteLine,
                WriteTotal, EditPart, WriteInvoiceAmount, MirrorEditedInvoice
  <1>5. CASE InvoiceStep
    BY <1>5 DEF InvoiceStep, CreateInvoice, SendInvoice, CancelInvoice, DueDatePasses, MarkOverdue
  <1>6. CASE UNCHANGED vars
    BY <1>6 DEF vars
  <1> QED
    BY <1>2, <1>3, <1>4, <1>5, <1>6 DEF Next, Act

-----------------------------------------------------------------------------
(* An order whose lines are not edited. *)

NoEditUnderWay == \A r \in Requests : request[r].kind \notin {"edit", "recalc"}

CoverInvariant == MoneyInvariant /\ NoEditUnderWay /\ PaidMeansCovered

\* A step of an order that is PAID leaves it covered, or takes it out of PAID, when no
\* edit of a line is under way: only such an edit changes the total of a PAID order.
LEMMA StepStaysCovered ==
    ASSUME CoverInvariant, [Next]_vars, order.status = "PAID"
    PROVE  PaidMeansCovered'
  <1>1. MoneyInvariant /\ TypeOK /\ order \in Rows
    BY DEF CoverInvariant, MoneyInvariant, TypeOK
  <1>2. FullyPaid(order.total, order.paid)
    BY DEF CoverInvariant, PaidMeansCovered
  <1>3. ASSUME NEW r \in Requests, Complete(r) PROVE FALSE
    BY <1>1, <1>3, CompletesUncharged
  <1>4. ASSUME NEW r \in Requests, CreatePayment(r) PROVE FALSE
    BY <1>4 DEF CreatePayment, CanPay, Payable, Prepayable
  <1>5. ASSUME NEW r \in Requests, WriteTotal(r) \/ EditPart(r) PROVE FALSE
    BY <1>5 DEF WriteTotal, EditPart, CoverInvariant, NoEditUnderWay
  <1>6. ASSUME NEW r \in Requests, MoveOn(r) PROVE PaidMeansCovered'
    <2> DEFINE settled == Settled(request[r].to, order.total, order.paid)
    <2>1. order' = [order EXCEPT !.status = settled]
      BY <1>6 DEF MoveOn
    <2>2. order'.total = order.total /\ order'.paid = order.paid
      <3> HIDE DEF settled
      <3> QED
        BY <1>1, <2>1 DEF Rows
    <2> QED
      BY <1>2, <2>2 DEF PaidMeansCovered
  <1>7. ASSUME NEW r \in Requests, Cancel(r) PROVE order'.status # "PAID"
    BY <1>1, <1>7 DEF Cancel, Rows
  <1>8. ASSUME NEW r \in Requests, Remove(r) PROVE PaidMeansCovered'
    <2>1. order'.total = order.total /\ order'.paid = order.paid
      BY <1>1, <1>8 DEF Remove, Rows
    <2> QED
      BY <1>2, <2>1 DEF PaidMeansCovered
  <1>9. ASSUME NEW r \in Requests, Reverse(r) PROVE PaidMeansCovered'
    <2> DEFINE paid == Larger(0, order.paid - payment[request[r].payment].amount)
               reopened == Reopened(order.status, order.total, paid)
    <2>1. order' = order \/ order' = [order EXCEPT !.paid = paid, !.status = reopened]
      BY <1>9 DEF Reverse
    <2>2. CASE order' = order
      BY <1>2, <2>2 DEF PaidMeansCovered
    <2>3. CASE order' = [order EXCEPT !.paid = paid, !.status = reopened]
      <3>1. order'.status = reopened /\ order'.total = order.total /\ order'.paid = paid
        <4> HIDE DEF paid, reopened
        <4> QED
          BY <1>1, <2>3 DEF Rows
      <3> QED
        BY <3>1 DEF PaidMeansCovered, Reopened
    <2> QED
      BY <2>1, <2>2, <2>3
  <1>10. ASSUME NEW r \in Requests,
                Read(r) \/ Abandon(r) \/ WriteLine(r) \/ WriteInvoiceAmount(r) \/ MirrorEditedInvoice(r)
         PROVE  order' = order
    BY <1>10 DEF Read, ReadForTransition, ReadForRemove, ReadForEdit, PreparePayment,
                 ReadForReversal, ReadForInvoiceEdit, Abandon, WriteLine, WriteInvoiceAmount,
                 MirrorEditedInvoice
  <1>11. InvoiceStep => order' = order
    BY DEF InvoiceStep, CreateInvoice, SendInvoice, CancelInvoice, DueDatePasses, MarkOverdue
  <1>12. UNCHANGED vars => order' = order
    BY DEF vars
  <1>13. order' = order => PaidMeansCovered'
    BY <1>2 DEF PaidMeansCovered
  <1>14. order'.status # "PAID" => PaidMeansCovered'
    BY DEF PaidMeansCovered
  <1> QED
    BY <1>3, <1>4, <1>5, <1>6, <1>7, <1>8, <1>9, <1>10, <1>11, <1>12, <1>13, <1>14 DEF Next, Act

\* No edit starts when none is allowed to.
LEMMA NoEditStarts ==
    ASSUME MaxEdits = 0, MoneyInvariant, NoEditUnderWay, [Next]_vars
    PROVE  NoEditUnderWay'
  <1>1. request \in [Requests -> RequestRecords] /\ NoRequest.kind = "none"
        /\ used.edits \in 0..MaxEdits
    BY DEF MoneyInvariant, TypeOK, NoRequest
  <1>2. ASSUME NEW r \in Requests, NEW q, request' = [request EXCEPT ![r] = q],
               q.kind \notin {"edit", "recalc"}
        PROVE  NoEditUnderWay'
    BY <1>1, <1>2 DEF NoEditUnderWay
  <1>3. ASSUME NEW r \in Requests, Ends(r) PROVE NoEditUnderWay'
    BY <1>1, <1>2, <1>3 DEF Ends
  <1>4. ASSUME NEW r \in Requests, Read(r) PROVE NoEditUnderWay'
    <2>1. ~(used.edits < MaxEdits)
      BY <1>1
    <2>2. \A delta \in Deltas : ~ReadForEdit(r, delta)
      BY <2>1 DEF ReadForEdit
    <2> QED
      BY <1>2, <1>4, <2>2
         DEF Read, ReadForTransition, ReadForRemove, PreparePayment, ReadForReversal,
             ReadForInvoiceEdit, Starts
  <1>5. ASSUME NEW r \in Requests, WriteInvoiceAmount(r) PROVE NoEditUnderWay'
    <2> DEFINE q == [kind |-> "mirror", amount |-> request[r].amount, paid |-> order.paid]
    <2>1. request' = [request EXCEPT ![r] = q] /\ q.kind = "mirror"
      BY <1>5 DEF WriteInvoiceAmount
    <2> HIDE DEF q
    <2> QED
      BY <1>2, <2>1
  <1>6. ASSUME NEW r \in Requests, WriteLine(r) PROVE FALSE
    BY <1>6 DEF WriteLine, NoEditUnderWay
  <1>7. ASSUME NEW r \in Requests,
               \/ Abandon(r) \/ Complete(r) \/ Cancel(r) \/ MoveOn(r) \/ Remove(r) \/ WriteTotal(r)
               \/ EditPart(r) \/ CreatePayment(r) \/ Reverse(r) \/ MirrorEditedInvoice(r)
        PROVE  Ends(r)
    BY <1>7 DEF Abandon, Complete, Cancel, MoveOn, Remove, WriteTotal, EditPart, CreatePayment,
                Reverse, MirrorEditedInvoice
  <1>8. InvoiceStep \/ UNCHANGED vars => request' = request
    BY DEF InvoiceStep, CreateInvoice, SendInvoice, CancelInvoice, DueDatePasses, MarkOverdue, vars
  <1>9. request' = request => NoEditUnderWay'
    BY DEF NoEditUnderWay
  <1> QED
    BY <1>3, <1>4, <1>5, <1>6, <1>7, <1>8, <1>9 DEF Next, Act

-----------------------------------------------------------------------------
(* The invoice of an order. *)

\* A user edits the invoice: what it read or has written is still to be mirrored.
EditsInvoice(r) == request[r].kind \in {"invoice", "mirror"}

\* Who holds the invoice has read what is paid now.
MirrorKnows ==
    \A r \in Requests : request[r].kind = "mirror" =>
        invoice.status # "NONE" /\ request[r].paid = order.paid

\* There is one edit of an invoice at most.
EditedOnce ==
    \A r \in Requests : EditsInvoice(r) =>
        used.invoiceEdits # 0 /\ \A q \in Requests : EditsInvoice(q) => q = r

\* As long as that edit has not been mirrored the invoice is for the whole order.
WholeOrder ==
    /\ NoEditUnderWay /\ order.total = worth
    /\ invoice.status # "NONE" /\ (used.invoiceEdits = 0 \/ \E r \in Requests : EditsInvoice(r)) =>
          invoice.amount = worth

MirrorInvariant ==
    /\ BookInvariant /\ InvoiceMirrorsOrder
    /\ MirrorKnows /\ EditedOnce
    /\ MaxEdits = 0 => WholeOrder

\* What the mirror makes of an invoice: it keeps its amount, and shows what is paid up to it.
Mirrors(inv, paid) ==
    inv.status # "NONE" =>
        /\ inv.paid = Smaller(paid, inv.amount)
        /\ inv.status # "DRAFT" =>
              (inv.status = "PAID" <=> inv.amount > 0 /\ inv.paid = inv.amount)

\* An invoice that is mirrored shows what is paid (syncWorkOrderInvoicePaid).
LEMMA MirroredMirrors ==
    ASSUME NEW inv \in Invoices, NEW paid \in Nat
    PROVE  /\ Mirrors(Mirrored(inv, paid), paid)
           /\ Mirrored(inv, paid).amount = inv.amount
           /\ Mirrored(inv, paid).status = "NONE" <=> inv.status = "NONE"
           /\ inv.status # "NONE" => Mirrored(inv, paid).paid = Smaller(paid, inv.amount)
  <1> DEFINE covered == Smaller(paid, inv.amount)
             status == StatusForPaid(inv.status, inv.amount, covered, inv.pastDue)
  <1>1. inv.amount \in Nat /\ covered \in Nat /\ covered <= inv.amount /\ inv.pastDue \in BOOLEAN
    BY WorkOrderMoneyAssumption DEF Invoices, Smaller
  <1>2. status \notin {"NONE", "DRAFT"} /\ (status = "PAID" <=> inv.amount > 0 /\ covered = inv.amount)
    <2> HIDE DEF covered
    <2>1. covered >= inv.amount <=> covered = inv.amount
      BY <1>1
    <2> QED
      BY <1>1, <2>1 DEF StatusForPaid
  <1>3. CASE inv.status = "NONE"
    BY <1>3 DEF Mirrored, Mirrors
  <1>4. CASE inv.status = "DRAFT"
    <2>1. Mirrored(inv, paid) = [inv EXCEPT !.paid = covered]
      BY <1>4 DEF Mirrored
    <2> HIDE DEF covered
    <2>2. /\ Mirrored(inv, paid).paid = covered /\ Mirrored(inv, paid).amount = inv.amount
          /\ Mirrored(inv, paid).status = inv.status
      BY <2>1 DEF Invoices
    <2> QED
      BY <1>4, <2>2 DEF Mirrors, covered
  <1>5. CASE inv.status \notin {"NONE", "DRAFT"}
    <2>1. Mirrored(inv, paid) = [inv EXCEPT !.paid = covered, !.status = status]
      BY <1>5 DEF Mirrored
    <2> HIDE DEF covered, status
    <2>2. /\ Mirrored(inv, paid).paid = covered /\ Mirrored(inv, paid).amount = inv.amount
          /\ Mirrored(inv, paid).status = status
      BY <2>1 DEF Invoices
    <2> QED
      BY <1>2, <1>5, <2>2 DEF Mirrors, covered
  <1> QED
    BY <1>3, <1>4, <1>5

\* Nobody begins to edit an invoice, and whoever does is where it was.
NoNewEdits ==
    /\ used'.invoiceEdits = used.invoiceEdits
    /\ \A q \in Requests : EditsInvoice(q)' => request'[q] = request[q]

\* Only the two first steps of an edit make a request one that edits the invoice.
LEMMA OthersEditNothing ==
    ASSUME TypeOK, [Next]_vars,
           \A r \in Requests : ~WriteInvoiceAmount(r) /\ \A amount \in Amounts : ~ReadForInvoiceEdit(r, amount)
    PROVE  NoNewEdits
  <1>1. request \in [Requests -> RequestRecords] /\ NoRequest.kind = "none"
    BY DEF TypeOK, NoRequest
  <1>2. ASSUME NEW r \in Requests, NEW q, request' = [request EXCEPT ![r] = q],
               q.kind \notin {"invoice", "mirror"}
        PROVE  \A u \in Requests : EditsInvoice(u)' => request'[u] = request[u]
    BY <1>1, <1>2 DEF EditsInvoice
  <1>3. ASSUME NEW r \in Requests, Ends(r)
        PROVE  \A u \in Requests : EditsInvoice(u)' => request'[u] = request[u]
    BY <1>1, <1>2, <1>3 DEF Ends
  <1>4. ASSUME NEW r \in Requests, NEW q, Starts(r, q), q.kind \notin {"invoice", "mirror"}
        PROVE  \A u \in Requests : EditsInvoice(u)' => request'[u] = request[u]
    BY <1>2, <1>4 DEF Starts
  <1>5. used \in [edits : 0..MaxEdits, invoices : 0..MaxInvoices, invoiceEdits : 0..MaxInvoiceEdits]
    BY DEF TypeOK
  <1>6. ASSUME NEW r \in Requests, Read(r) PROVE NoNewEdits
    <2>1. CASE ReadForRemove(r)
      BY <1>4, <2>1 DEF ReadForRemove, NoNewEdits
    <2>2. ASSUME NEW to \in Statuses, ReadForTransition(r, to) PROVE NoNewEdits
      BY <1>4, <2>2 DEF ReadForTransition, NoNewEdits
    <2>3. ASSUME NEW delta \in Deltas, ReadForEdit(r, delta) PROVE NoNewEdits
      <3>1. used'.invoiceEdits = used.invoiceEdits
        BY <1>5, <2>3 DEF ReadForEdit
      <3>2. PICK q : Starts(r, q) /\ q.kind = "edit"
        BY <2>3 DEF ReadForEdit
      <3> QED
        BY <1>4, <3>1, <3>2 DEF NoNewEdits
    <2>4. ASSUME NEW p \in Payments, NEW amount \in Amounts, PreparePayment(r, p, amount) PROVE NoNewEdits
      <3>1. used' = used
        BY <2>4 DEF PreparePayment
      <3>2. PICK q : Starts(r, q) /\ q.kind = "pay"
        BY <2>4 DEF PreparePayment
      <3> QED
        BY <1>4, <3>1, <3>2 DEF NoNewEdits
    <2>5. ASSUME NEW p \in Payments, ReadForReversal(r, p) PROVE NoNewEdits
      BY <1>4, <2>5 DEF ReadForReversal, NoNewEdits
    <2> QED
      BY <1>6, <2>1, <2>2, <2>3, <2>4, <2>5 DEF Read
  <1>7. ASSUME NEW r \in Requests, WriteLine(r) PROVE NoNewEdits
    <2> DEFINE q == [kind |-> "recalc", delta |-> request[r].delta, sum |-> worth + request[r].delta]
    <2>1. request' = [request EXCEPT ![r] = q] /\ q.kind = "recalc" /\ used' = used
      BY <1>7 DEF WriteLine
    <2> HIDE DEF q
    <2> QED
      BY <1>2, <2>1 DEF NoNewEdits
  <1>8. ASSUME NEW r \in Requests,
               \/ Abandon(r) \/ Complete(r) \/ Cancel(r) \/ MoveOn(r) \/ Remove(r) \/ WriteTotal(r)
               \/ EditPart(r) \/ CreatePayment(r) \/ Reverse(r) \/ MirrorEditedInvoice(r)
        PROVE  NoNewEdits
    <2>1. Ends(r) /\ used' = used
      BY <1>8 DEF Abandon, Complete, Cancel, MoveOn, Remove, WriteTotal, EditPart, CreatePayment,
                  Reverse, MirrorEditedInvoice
    <2> QED
      BY <1>3, <2>1 DEF NoNewEdits
  <1>9. InvoiceStep \/ UNCHANGED vars => NoNewEdits
    <2>1. InvoiceStep \/ UNCHANGED vars => request' = request
      BY DEF InvoiceStep, CreateInvoice, SendInvoice, CancelInvoice, DueDatePasses, MarkOverdue, vars
    <2>2. InvoiceStep \/ UNCHANGED vars => used'.invoiceEdits = used.invoiceEdits
      BY <1>5 DEF InvoiceStep, CreateInvoice, SendInvoice, CancelInvoice, DueDatePasses, MarkOverdue, vars
    <2> QED
      BY <2>1, <2>2 DEF NoNewEdits
  <1> QED
    BY <1>6, <1>7, <1>8, <1>9 DEF Next, Act

\* Only payments and reversals change what is paid.
LEMMA PaidUnmoved ==
    ASSUME TypeOK, [Next]_vars, \A r \in Requests : ~CreatePayment(r) /\ ~Reverse(r)
    PROVE  order'.paid = order.paid
  <1>1. order \in Rows
    BY DEF TypeOK
  <1>2. ASSUME NEW r \in Requests, Complete(r) PROVE order'.paid = order.paid
    <2> DEFINE status == Settled("COMPLETED", FinalTotal, order.paid)
    <2>1. order' = [order EXCEPT !.total = FinalTotal, !.status = status]
      BY <1>2 DEF Complete
    <2> HIDE DEF status
    <2> QED
      BY <1>1, <2>1 DEF Rows
  <1>3. ASSUME NEW r \in Requests, Cancel(r) \/ Remove(r) PROVE order'.paid = order.paid
    BY <1>1, <1>3 DEF Cancel, Remove, Rows
  <1>4. ASSUME NEW r \in Requests, MoveOn(r) PROVE order'.paid = order.paid
    <2> DEFINE status == Settled(request[r].to, order.total, order.paid)
    <2>1. order' = [order EXCEPT !.status = status]
      BY <1>4 DEF MoveOn
    <2> HIDE DEF status
    <2> QED
      BY <1>1, <2>1 DEF Rows
  <1>5. ASSUME NEW r \in Requests, WriteTotal(r) \/ EditPart(r) PROVE order'.paid = order.paid
    BY <1>1, <1>5 DEF WriteTotal, EditPart, Rows
  <1>6. ASSUME NEW r \in Requests,
               Read(r) \/ Abandon(r) \/ WriteLine(r) \/ WriteInvoiceAmount(r) \/ MirrorEditedInvoice(r)
        PROVE  order' = order
    BY <1>6 DEF Read, ReadForTransition, ReadForRemove, ReadForEdit, PreparePayment,
                ReadForReversal, ReadForInvoiceEdit, Abandon, WriteLine, WriteInvoiceAmount,
                MirrorEditedInvoice
  <1>7. InvoiceStep \/ UNCHANGED vars => order' = order
    BY DEF InvoiceStep, CreateInvoice, SendInvoice, CancelInvoice, DueDatePasses, MarkOverdue, vars
  <1> QED
    BY <1>2, <1>3, <1>4, <1>5, <1>6, <1>7 DEF Next, Act

\* A payment raises what is paid, at most to the total, on the order and on its invoice.
LEMMA PaymentMirrored ==
    ASSUME BookInvariant, NEW r \in Requests, CreatePayment(r)
    PROVE  /\ order'.paid \in Nat /\ order.paid < order'.paid /\ order'.paid <= order.total
           /\ PutInvoice(Mirrored(invoice, order'.paid))
  <1> DEFINE paid == order.paid + request[r].amount
             settled == Settled(order.status, order.total, paid)
  <1>1. MoneyInvariant /\ TypeOK
    BY DEF BookInvariant, MoneyInvariant
  <1>2. request[r].amount \in Nat /\ request[r].amount >= 1
    BY <1>1, RequestKinds, WorkOrderMoneyAssumption DEF CreatePayment, Amounts
  <1>3. order \in Rows /\ order.paid \in Nat /\ order.total \in Nat
    BY <1>1, WorkOrderMoneyAssumption DEF TypeOK, Rows
  <1>4. paid <= order.total
    BY <1>2, <1>3 DEF CreatePayment, CanPay
  <1>5. order'.paid = paid
    <2>1. order' = [order EXCEPT !.paid = paid, !.status = settled]
      BY DEF CreatePayment
    <2> HIDE DEF settled, paid
    <2> QED
      BY <1>3, <2>1 DEF Rows
  <1>6. PutInvoice(Mirrored(invoice, paid))
    BY DEF CreatePayment
  <1> QED
    BY <1>2, <1>3, <1>4, <1>5, <1>6

\* A reversal lowers what is paid, on the invoice too, unless the order was removed.
LEMMA ReversalMirrored ==
    ASSUME BookInvariant, NEW r \in Requests, Reverse(r)
    PROVE  \/ order' = order /\ invoice' = invoice
           \/ /\ order'.paid \in Nat /\ order'.paid <= order.paid
              /\ PutInvoice(Mirrored(invoice, order'.paid))
  <1> DEFINE p == request[r].payment
             paid == Larger(0, order.paid - payment[p].amount)
             reopened == Reopened(order.status, order.total, paid)
  <1>1. MoneyInvariant /\ TypeOK
    BY DEF BookInvariant, MoneyInvariant
  <1>2. p \in Payments /\ payment[p].state = "live"
    BY <1>1, RequestKinds DEF Reverse, NotYetReversed
  <1>3. payment[p].amount \in Nat /\ payment[p].amount >= 1
    BY <1>1, <1>2, WorkOrderMoneyAssumption DEF TypeOK, PaymentRows, NoPayment, Amounts
  <1>4. order \in Rows /\ order.paid \in Nat
    BY <1>1 DEF TypeOK, Rows
  <1>5. paid \in Nat /\ paid <= order.paid
    BY <1>3, <1>4 DEF Larger
  <1>6. CASE order.deleted
    BY <1>6 DEF Reverse
  <1>7. CASE ~order.deleted
    <2>1. order' = [order EXCEPT !.paid = paid, !.status = reopened] /\ PutInvoice(Mirrored(invoice, paid))
      BY <1>7 DEF Reverse
    <2>2. order'.paid = paid
      <3> HIDE DEF paid, reopened
      <3> QED
        BY <1>4, <2>1 DEF Rows
    <2> QED
      BY <1>5, <2>1, <2>2
  <1> QED
    BY <1>6, <1>7

\* No request that only goes on holds the invoice: while one holds it, its invoice stays as
\* it is, and what is paid on the order stays with it, for a payment would show on it.
LEMMA HeldStays ==
    ASSUME MirrorInvariant, [Next]_vars, MaxEdits = 0,
           NEW q \in Requests, request[q].kind = "mirror", request'[q] = request[q]
    PROVE  invoice' = invoice /\ order'.paid = order.paid
  <1>1. BookInvariant /\ TypeOK /\ invoice \in Invoices /\ order \in Rows
    BY DEF MirrorInvariant, BookInvariant, MoneyInvariant, TypeOK, Invoices
  <1>2. ~InvoiceFree
    BY DEF InvoiceFree
  <1>3. invoice.status # "NONE"
    BY DEF MirrorInvariant, MirrorKnows
  <1>4. invoice.amount = order.total /\ invoice.paid = Smaller(order.paid, invoice.amount)
    <2>1. WholeOrder /\ EditsInvoice(q)
      BY DEF MirrorInvariant, EditsInvoice
    <2> QED
      BY <1>3, <2>1 DEF WholeOrder, MirrorInvariant, InvoiceMirrorsOrder
  <1>5. order.paid \in Nat /\ order.total \in Nat /\ order.paid <= order.total
    BY <1>1, WorkOrderMoneyAssumption DEF Rows, BookInvariant, PaidIsReceived
  <1>6. ASSUME NEW paid \in Nat, paid <= order.total, PutInvoice(Mirrored(invoice, paid))
        PROVE  invoice' = invoice /\ paid = order.paid
    <2>1. Mirrored(invoice, paid) = invoice /\ invoice' = invoice
      BY <1>2, <1>6 DEF PutInvoice
    <2>2. invoice.paid = Smaller(paid, invoice.amount)
      BY <1>1, <1>3, <2>1, MirroredMirrors
    <2> QED
      BY <1>4, <1>5, <1>6, <2>1, <2>2 DEF Smaller
  <1>7. ASSUME NEW r \in Requests, CreatePayment(r) PROVE invoice' = invoice /\ order'.paid = order.paid
    BY <1>1, <1>6, <1>7, PaymentMirrored
  <1>8. ASSUME NEW r \in Requests, Reverse(r) PROVE invoice' = invoice /\ order'.paid = order.paid
    <2>1. CASE order' = order /\ invoice' = invoice
      BY <2>1
    <2>2. CASE /\ order'.paid \in Nat /\ order'.paid <= order.paid
               /\ PutInvoice(Mirrored(invoice, order'.paid))
      <3>1. order'.paid <= order.total
        BY <1>5, <2>2
      <3> QED
        BY <1>6, <2>2, <3>1
    <2> QED
      BY <1>1, <1>8, <2>1, <2>2, ReversalMirrored
  <1>9. ASSUME NEW r \in Requests, MirrorEditedInvoice(r) PROVE FALSE
    <2>1. r = q
      BY <1>9 DEF MirrorEditedInvoice, MirrorInvariant, EditedOnce, EditsInvoice
    <2>2. request'[r].kind = "none"
      BY <1>1, <1>9 DEF MirrorEditedInvoice, Ends, NoRequest, TypeOK
    <2> QED
      BY <2>1, <2>2
  <1>10. ASSUME NEW r \in Requests, Cancel(r) PROVE invoice' = invoice
    BY <1>2, <1>10 DEF Cancel, PutInvoice
  <1>11. ASSUME NEW r \in Requests,
                \/ Read(r) \/ Abandon(r) \/ Complete(r) \/ MoveOn(r) \/ Remove(r) \/ WriteLine(r)
                \/ WriteTotal(r) \/ EditPart(r) \/ WriteInvoiceAmount(r)
         PROVE  invoice' = invoice
    BY <1>11 DEF Read, ReadForTransition, ReadForRemove, ReadForEdit, PreparePayment, ReadForReversal,
                 ReadForInvoiceEdit, Abandon, Complete, MoveOn, Remove, WriteLine, WriteTotal, EditPart,
                 WriteInvoiceAmount
  <1>12. ~InvoiceStep
    BY <1>2, <1>3 DEF InvoiceStep, CreateInvoice, SendInvoice, CancelInvoice, DueDatePasses, MarkOverdue
  <1>13. UNCHANGED vars => invoice' = invoice
    BY DEF vars
  <1> QED
    BY <1>1, <1>7, <1>8, <1>9, <1>10, <1>11, <1>12, <1>13, PaidUnmoved DEF Next, Act

\* Whoever holds the invoice goes on knowing what is paid, and there is one edit at most.
LEMMA EditsKept ==
    ASSUME MirrorInvariant, [Next]_vars, MaxInvoiceEdits = 0 \/ (MaxEdits = 0 /\ MaxInvoiceEdits = 1)
    PROVE  MirrorKnows' /\ EditedOnce'
  <1>1. /\ TypeOK /\ MirrorKnows /\ EditedOnce
        /\ request \in [Requests -> RequestRecords]
        /\ used \in [edits : 0..MaxEdits, invoices : 0..MaxInvoices, invoiceEdits : 0..MaxInvoiceEdits]
    BY DEF MirrorInvariant, BookInvariant, MoneyInvariant, TypeOK
  <1>2. ASSUME NEW r \in Requests, EditsInvoice(r) PROVE MaxEdits = 0
    BY <1>1, <1>2 DEF EditedOnce
  <1>3. CASE NoNewEdits
    <2>1. EditedOnce'
      BY <1>1, <1>3 DEF NoNewEdits, EditedOnce, EditsInvoice
    <2>2. ASSUME NEW r \in Requests, request'[r].kind = "mirror"
          PROVE  invoice'.status # "NONE" /\ request'[r].paid = order'.paid
      <3>1. request'[r] = request[r]
        BY <1>3, <2>2 DEF NoNewEdits, EditsInvoice
      <3>2. MaxEdits = 0
        BY <1>2, <2>2, <3>1 DEF EditsInvoice
      <3>3. invoice' = invoice /\ order'.paid = order.paid
        BY <2>2, <3>1, <3>2, HeldStays
      <3> QED
        BY <1>1, <2>2, <3>1, <3>3 DEF MirrorKnows
    <2> QED
      BY <2>1, <2>2 DEF MirrorKnows
  <1>4. ASSUME NEW r \in Requests, NEW amount \in Amounts, ReadForInvoiceEdit(r, amount)
        PROVE  MirrorKnows' /\ EditedOnce'
    <2>1. used.invoiceEdits = 0 /\ used'.invoiceEdits = 1
      <3>1. used.invoiceEdits < MaxInvoiceEdits /\ used' = [used EXCEPT !.invoiceEdits = @ + 1]
        BY <1>4 DEF ReadForInvoiceEdit
      <3> QED
        BY <1>1, <3>1
    <2>2. \A u \in Requests : ~EditsInvoice(u)
      BY <1>1, <2>1 DEF EditedOnce
    <2>3. \A u \in Requests : u # r => request'[u] = request[u]
      BY <1>1, <1>4 DEF ReadForInvoiceEdit, Starts
    <2>4. request'[r].kind = "invoice"
      BY <1>1, <1>4 DEF ReadForInvoiceEdit, Starts
    <2> QED
      BY <2>1, <2>2, <2>3, <2>4 DEF MirrorKnows, EditedOnce, EditsInvoice
  <1>5. ASSUME NEW r \in Requests, WriteInvoiceAmount(r) PROVE MirrorKnows' /\ EditedOnce'
    <2> DEFINE q == [kind |-> "mirror", amount |-> request[r].amount, paid |-> order.paid]
    <2>1. request' = [request EXCEPT ![r] = q] /\ q.kind = "mirror" /\ q.paid = order.paid
      BY <1>5 DEF WriteInvoiceAmount
    <2>2. EditsInvoice(r) /\ InvoiceFree /\ invoice.status # "NONE" /\ UNCHANGED <<order, invoice, used>>
      BY <1>5 DEF WriteInvoiceAmount, EditsInvoice
    <2> HIDE DEF q
    <2>3. request'[r] = q /\ \A u \in Requests : u # r => request'[u] = request[u]
      BY <1>1, <2>1
    <2> QED
      BY <1>1, <2>1, <2>2, <2>3 DEF MirrorKnows, EditedOnce, EditsInvoice, InvoiceFree
  <1> QED
    BY <1>1, <1>3, <1>4, <1>5, OthersEditNothing

\* The invoice is mirrored by every step that changes what is paid on its order, and by
\* every edit before it is committed.
LEMMA InvoiceKeepsMirroring ==
    ASSUME MirrorInvariant, [Next]_vars
    PROVE  InvoiceMirrorsOrder'
  <1>1. BookInvariant /\ TypeOK /\ invoice \in Invoices /\ order \in Rows
    BY DEF MirrorInvariant, BookInvariant, MoneyInvariant, TypeOK, Invoices
  <1>2. Mirrors(invoice, order.paid)
    BY DEF MirrorInvariant, InvoiceMirrorsOrder, Mirrors
  <1>3. order.paid \in Nat /\ order.total \in 0..MaxTotal
    BY <1>1 DEF Rows
  <1>4. Mirrors(invoice', order'.paid) => InvoiceMirrorsOrder'
    BY DEF InvoiceMirrorsOrder, Mirrors
  <1>5. ASSUME NEW inv \in Invoices, NEW paid \in Nat, order'.paid = paid, invoice' = Mirrored(inv, paid)
        PROVE  InvoiceMirrorsOrder'
    <2>1. Mirrors(Mirrored(inv, paid), paid)
      BY MirroredMirrors
    <2> QED
      BY <1>4, <1>5, <2>1
  <1>6. ASSUME NEW r \in Requests, CreatePayment(r) PROVE InvoiceMirrorsOrder'
    <2>1. order'.paid \in Nat /\ invoice' = Mirrored(invoice, order'.paid)
      BY <1>1, <1>6, PaymentMirrored DEF PutInvoice
    <2> QED
      BY <1>1, <1>5, <2>1
  <1>7. ASSUME NEW r \in Requests, Reverse(r) PROVE InvoiceMirrorsOrder'
    <2>1. CASE order' = order /\ invoice' = invoice
      BY <1>2, <1>4, <2>1
    <2>2. CASE order'.paid \in Nat /\ invoice' = Mirrored(invoice, order'.paid)
      BY <1>1, <1>5, <2>2
    <2> QED
      BY <1>1, <1>7, <2>1, <2>2, ReversalMirrored DEF PutInvoice
  <1>8. CASE \A r \in Requests : ~CreatePayment(r) /\ ~Reverse(r)
    <2>1. order'.paid = order.paid
      BY <1>1, <1>8, PaidUnmoved
    <2>2. CASE invoice' = invoice
      BY <1>2, <1>4, <2>1, <2>2
    <2>3. CASE invoice' = NoInvoice
      BY <1>4, <2>3 DEF Mirrors, NoInvoice
    <2>4. CASE CreateInvoice
      <3> DEFINE inv == [NoInvoice EXCEPT !.status = "DRAFT", !.amount = order.total]
      <3>1. inv \in Invoices
        BY <1>3 DEF NoInvoice, Invoices, InvoiceStatuses
      <3>2. invoice' = Mirrored(inv, order.paid)
        BY <2>4 DEF CreateInvoice
      <3> QED
        BY <1>3, <1>5, <2>1, <3>1, <3>2
    <2>5. CASE SendInvoice
      <3> DEFINE inv == [invoice EXCEPT !.status = "SENT"]
      <3>1. inv \in Invoices
        BY <1>1 DEF Invoices, InvoiceStatuses
      <3>2. invoice' = Mirrored(inv, order.paid)
        BY <2>5 DEF SendInvoice
      <3> QED
        BY <1>3, <1>5, <2>1, <3>1, <3>2
    <2>6. CASE DueDatePasses
      <3>1. /\ invoice'.status = invoice.status /\ invoice'.amount = invoice.amount
            /\ invoice'.paid = invoice.paid
        BY <1>1, <2>6 DEF DueDatePasses, Invoices
      <3> QED
        BY <1>2, <1>4, <2>1, <3>1 DEF Mirrors
    <2>7. CASE MarkOverdue
      <3>1. /\ invoice'.status = "OVERDUE" /\ invoice'.amount = invoice.amount
            /\ invoice'.paid = invoice.paid /\ invoice.status \in {"SENT", "PARTIALLY_PAID"}
        BY <1>1, <2>7 DEF MarkOverdue, Invoices
      <3> QED
        BY <1>2, <1>4, <2>1, <3>1 DEF Mirrors
    <2>8. ASSUME NEW r \in Requests, MirrorEditedInvoice(r) PROVE InvoiceMirrorsOrder'
      <3> DEFINE inv == [invoice EXCEPT !.amount = request[r].amount]
      <3>1. request[r].amount \in 0..MaxTotal
        BY <1>1, <2>8, RequestKinds, WorkOrderMoneyAssumption DEF MirrorEditedInvoice, Amounts
      <3>2. inv \in Invoices
        BY <1>1, <3>1 DEF Invoices
      <3>3. request[r].paid = order.paid
        BY <2>8 DEF MirrorEditedInvoice, MirrorInvariant, MirrorKnows
      <3>4. invoice' = Mirrored(inv, order.paid)
        BY <2>8, <3>3 DEF MirrorEditedInvoice
      <3> QED
        BY <1>3, <1>5, <2>1, <3>2, <3>4
    <2>9. ASSUME NEW r \in Requests, Cancel(r) PROVE invoice' \in {invoice, NoInvoice}
      BY <2>9 DEF Cancel, PutInvoice
    <2>10. ASSUME NEW r \in Requests,
                  \/ Read(r) \/ Abandon(r) \/ Complete(r) \/ MoveOn(r) \/ Remove(r) \/ WriteLine(r)
                  \/ WriteTotal(r) \/ EditPart(r) \/ WriteInvoiceAmount(r)
           PROVE  invoice' = invoice
      BY <2>10 DEF Read, ReadForTransition, ReadForRemove, ReadForEdit, PreparePayment, ReadForReversal,
                   ReadForInvoiceEdit, Abandon, Complete, MoveOn, Remove, WriteLine, WriteTotal, EditPart,
                   WriteInvoiceAmount
    <2>11. CancelInvoice => invoice' = NoInvoice
      BY DEF CancelInvoice
    <2>12. UNCHANGED vars => invoice' = invoice
      BY DEF vars
    <2> QED
      BY <1>8, <2>2, <2>3, <2>4, <2>5, <2>6, <2>7, <2>8, <2>9, <2>10, <2>11, <2>12
         DEF Next, Act, InvoiceStep
  <1> QED
    BY <1>6, <1>7, <1>8

\* But for its creation and its edit an invoice keeps its amount.
LEMMA AmountKept ==
    ASSUME BookInvariant, [Next]_vars, ~CreateInvoice, \A r \in Requests : ~MirrorEditedInvoice(r)
    PROVE  \/ invoice'.status = "NONE"
           \/ invoice.status # "NONE" /\ invoice'.amount = invoice.amount
  <1> DEFINE Kept(inv) == \/ inv.status = "NONE"
                          \/ invoice.status # "NONE" /\ inv.amount = invoice.amount
  <1>1. TypeOK /\ invoice \in Invoices /\ order \in Rows
    BY DEF BookInvariant, MoneyInvariant, TypeOK, Invoices
  <1>2. order.paid \in Nat
    BY <1>1 DEF Rows
  <1>3. Kept(invoice) /\ Kept(NoInvoice)
    BY DEF NoInvoice
  <1>4. ASSUME NEW inv \in Invoices, NEW paid \in Nat, Kept(inv) PROVE Kept(Mirrored(inv, paid))
    BY <1>4, MirroredMirrors
  <1>5. ASSUME NEW r \in Requests, CreatePayment(r) PROVE Kept(invoice')
    BY <1>1, <1>3, <1>4, <1>5, PaymentMirrored DEF PutInvoice
  <1>6. ASSUME NEW r \in Requests, Reverse(r) PROVE Kept(invoice')
    BY <1>1, <1>3, <1>4, <1>6, ReversalMirrored DEF PutInvoice
  <1>7. CASE SendInvoice
    <2> DEFINE inv == [invoice EXCEPT !.status = "SENT"]
    <2>1. inv \in Invoices /\ Kept(inv)
      BY <1>1, <1>7 DEF SendInvoice, Invoices, InvoiceStatuses
    <2>2. invoice' = Mirrored(inv, order.paid)
      BY <1>7 DEF SendInvoice
    <2> QED
      BY <1>2, <1>4, <2>1, <2>2
  <1>8. CASE DueDatePasses
    BY <1>1, <1>8 DEF DueDatePasses, Invoices
  <1>9. CASE MarkOverdue
    BY <1>1, <1>9 DEF MarkOverdue, Invoices
  <1>10. ASSUME NEW r \in Requests, Cancel(r) PROVE invoice' \in {invoice, NoInvoice}
    BY <1>10 DEF Cancel, PutInvoice
  <1>11. ASSUME NEW r \in Requests,
                \/ Read(r) \/ Abandon(r) \/ Complete(r) \/ MoveOn(r) \/ Remove(r) \/ WriteLine(r)
                \/ WriteTotal(r) \/ EditPart(r) \/ WriteInvoiceAmount(r)
         PROVE  invoice' = invoice
    BY <1>11 DEF Read, ReadForTransition, ReadForRemove, ReadForEdit, PreparePayment, ReadForReversal,
                 ReadForInvoiceEdit, Abandon, Complete, MoveOn, Remove, WriteLine, WriteTotal, EditPart,
                 WriteInvoiceAmount
  <1>12. CancelInvoice => invoice' = NoInvoice
    BY DEF CancelInvoice
  <1>13. UNCHANGED vars => invoice' = invoice
    BY DEF vars
  <1>14. invoice' \in {invoice, NoInvoice} => Kept(invoice')
    BY <1>3
  <1> QED
    BY <1>5, <1>6, <1>7, <1>8, <1>9, <1>10, <1>11, <1>12, <1>13, <1>14 DEF Next, Act, InvoiceStep

\* Without edits of lines the total of an order is the sum of its lines.
LEMMA TotalKept ==
    ASSUME MoneyInvariant, NoEditUnderWay, order.total = worth, [Next]_vars
    PROVE  order'.total = worth' /\ worth' = worth
  <1>1. TypeOK /\ order \in Rows
    BY DEF MoneyInvariant, TypeOK
  <1>2. ASSUME NEW r \in Requests, Complete(r) PROVE order'.total = worth' /\ worth' = worth
    <2> DEFINE status == Settled("COMPLETED", FinalTotal, order.paid)
    <2>1. order' = [order EXCEPT !.total = FinalTotal, !.status = status] /\ worth' = worth
      BY <1>2 DEF Complete
    <2> HIDE DEF status
    <2> QED
      BY <1>1, <2>1 DEF Rows, FinalTotal
  <1>3. ASSUME NEW r \in Requests, Cancel(r) \/ Remove(r) PROVE order'.total = order.total /\ worth' = worth
    BY <1>1, <1>3 DEF Cancel, Remove, Rows
  <1>4. ASSUME NEW r \in Requests, MoveOn(r) PROVE order'.total = order.total /\ worth' = worth
    <2> DEFINE status == Settled(request[r].to, order.total, order.paid)
    <2>1. order' = [order EXCEPT !.status = status] /\ worth' = worth
      BY <1>4 DEF MoveOn
    <2> HIDE DEF status
    <2> QED
      BY <1>1, <2>1 DEF Rows
  <1>5. ASSUME NEW r \in Requests, CreatePayment(r) PROVE order'.total = order.total /\ worth' = worth
    <2> DEFINE paid == order.paid + request[r].amount
               status == Settled(order.status, order.total, paid)
    <2>1. order' = [order EXCEPT !.paid = paid, !.status = status] /\ worth' = worth
      BY <1>5 DEF CreatePayment
    <2> HIDE DEF status, paid
    <2> QED
      BY <1>1, <2>1 DEF Rows
  <1>6. ASSUME NEW r \in Requests, Reverse(r) PROVE order'.total = order.total /\ worth' = worth
    <2> DEFINE paid == Larger(0, order.paid - payment[request[r].payment].amount)
               status == Reopened(order.status, order.total, paid)
    <2>1. order' = order \/ order' = [order EXCEPT !.paid = paid, !.status = status]
      BY <1>6 DEF Reverse
    <2>2. worth' = worth
      BY <1>6 DEF Reverse
    <2> HIDE DEF status, paid
    <2> QED
      BY <1>1, <2>1, <2>2 DEF Rows
  <1>7. ASSUME NEW r \in Requests, WriteTotal(r) \/ EditPart(r) PROVE FALSE
    BY <1>7 DEF WriteTotal, EditPart, NoEditUnderWay
  <1>8. ASSUME NEW r \in Requests,
               Read(r) \/ Abandon(r) \/ WriteLine(r) \/ WriteInvoiceAmount(r) \/ MirrorEditedInvoice(r)
        PROVE  order' = order /\ worth' = worth
    BY <1>8 DEF Read, ReadForTransition, ReadForRemove, ReadForEdit, PreparePayment,
                ReadForReversal, ReadForInvoiceEdit, Abandon, WriteLine, WriteInvoiceAmount,
                MirrorEditedInvoice
  <1>9. InvoiceStep \/ UNCHANGED vars => order' = order /\ worth' = worth
    BY DEF InvoiceStep, CreateInvoice, SendInvoice, CancelInvoice, DueDatePasses, MarkOverdue, vars
  <1> QED
    BY <1>2, <1>3, <1>4, <1>5, <1>6, <1>7, <1>8, <1>9 DEF Next, Act

\* As long as nobody has mirrored an edit, the invoice is for the whole order.
LEMMA WholeOrderKept ==
    ASSUME MirrorInvariant, [Next]_vars, MaxEdits = 0, MaxInvoiceEdits \in {0, 1}
    PROVE  WholeOrder'
  <1>1. MoneyInvariant /\ BookInvariant /\ WholeOrder /\ TypeOK /\ EditedOnce
    BY DEF MirrorInvariant, BookInvariant, MoneyInvariant
  <1>2. NoEditUnderWay' /\ order'.total = worth' /\ worth' = worth
    BY <1>1, NoEditStarts, TotalKept DEF WholeOrder
  <1> SUFFICES ASSUME invoice'.status # "NONE",
                      used'.invoiceEdits = 0 \/ \E r \in Requests : EditsInvoice(r)'
               PROVE  invoice'.amount = worth
    BY <1>2 DEF WholeOrder
  <1>3. used \in [edits : 0..MaxEdits, invoices : 0..MaxInvoices, invoiceEdits : 0..MaxInvoiceEdits]
    BY <1>1 DEF TypeOK
  <1>4. CASE CreateInvoice
    <2> DEFINE inv == [NoInvoice EXCEPT !.status = "DRAFT", !.amount = order.total]
    <2>1. order.total \in 0..MaxTotal /\ order.paid \in Nat
      BY <1>1 DEF TypeOK, Rows
    <2>2. inv \in Invoices /\ inv.amount = order.total
      BY <2>1 DEF NoInvoice, Invoices, InvoiceStatuses
    <2>3. invoice' = Mirrored(inv, order.paid)
      BY <1>4 DEF CreateInvoice
    <2> QED
      BY <1>1, <2>1, <2>2, <2>3, MirroredMirrors DEF WholeOrder
  <1>5. ASSUME NEW r \in Requests, MirrorEditedInvoice(r) PROVE FALSE
    <2>1. EditsInvoice(r) /\ used' = used /\ request' = [request EXCEPT ![r] = NoRequest]
      BY <1>5 DEF MirrorEditedInvoice, EditsInvoice, Ends
    <2>2. \A u \in Requests : EditsInvoice(u) => u = r
      BY <1>1, <2>1 DEF EditedOnce
    <2>3. \A u \in Requests : ~EditsInvoice(u)'
      BY <1>1, <2>1, <2>2 DEF TypeOK, EditsInvoice, NoRequest
    <2>4. used.invoiceEdits # 0
      BY <1>1, <2>1 DEF EditedOnce
    <2> QED
      BY <2>1, <2>3, <2>4
  <1>6. CASE ~CreateInvoice /\ \A r \in Requests : ~MirrorEditedInvoice(r)
    <2>1. invoice.status # "NONE" /\ invoice'.amount = invoice.amount
      BY <1>1, <1>6, AmountKept
    <2>2. used.invoiceEdits = 0 \/ \E r \in Requests : EditsInvoice(r)
      <3>1. CASE NoNewEdits
        BY <3>1 DEF NoNewEdits, EditsInvoice
      <3>2. ASSUME NEW r \in Requests, WriteInvoiceAmount(r) PROVE EditsInvoice(r)
        BY <3>2 DEF WriteInvoiceAmount, EditsInvoice
      <3>3. ASSUME NEW r \in Requests, NEW amount \in Amounts, ReadForInvoiceEdit(r, amount)
            PROVE  used.invoiceEdits = 0
        BY <1>3, <3>3 DEF ReadForInvoiceEdit
      <3> QED
        BY <1>1, <3>1, <3>2, <3>3, OthersEditNothing
    <2> QED
      BY <1>1, <2>1, <2>2 DEF WholeOrder
  <1> QED
    BY <1>4, <1>5, <1>6

\* At the start there is no invoice.
LEMMA InitMirrors == Init => MirrorInvariant
  <1> SUFFICES ASSUME Init PROVE MirrorInvariant
    OBVIOUS
  <1>1. \A r \in Requests : request[r].kind = "none"
    BY DEF Init, NoRequest
  <1>2. invoice.status = "NONE" /\ order.total = worth
    BY DEF Init, NoInvoice
  <1> QED
    BY <1>1, <1>2, InitBalances
       DEF MirrorInvariant, InvoiceMirrorsOrder, MirrorKnows, EditedOnce, EditsInvoice, WholeOrder, NoEditUnderWay

-----------------------------------------------------------------------------
(* Theorems. *)

\* The inductive invariant holds in every state: a pending transition carries a status it
\* may leave, and the status tells how often the order was charged and credited.
THEOREM MoneyInvariantHolds == Spec => []MoneyInvariant
  BY InitEstablishes, NextKeeps, PTL DEF Spec

\* The order, its payments, its ledger, its invoice and the requests on it have their
\* types whatever the requests interleave.
THEOREM MoneyTypeCorrect == Spec => []TypeOK
  <1>1. MoneyInvariant => TypeOK
    BY DEF MoneyInvariant
  <1> QED
    BY <1>1, MoneyInvariantHolds, PTL

\* However many requests race, an order is charged once, when it is completed, and
\* credited at most once, when it is cancelled (the status CAS of transition, C2).
THEOREM ChargedAndCreditedOnce == Spec => []ChargedOnce
  <1>1. MoneyInvariant => ChargedOnce
    <2> SUFFICES ASSUME MoneyInvariant PROVE ChargedOnce
      OBVIOUS
    <2> USE DEF MoneyInvariant
    <2>1. CASE order.status \in ChargedStatuses
      BY <2>1 DEF ChargeHistory, ChargedOnce, ChargedStatuses
    <2>2. CASE order.status \notin ChargedStatuses
      BY <2>2 DEF ChargeHistory, ChargedOnce, ChargedStatuses
    <2> QED
      BY <2>1, <2>2
  <1> QED
    BY <1>1, MoneyInvariantHolds, PTL

\* An order becomes PAID only in a step that leaves its total covered by its money, for
\* any number of delayed transitions, payments, reversals and edits (BR-WO-016).
THEOREM OnlyMoneyPays == Spec => PaidOnlyWhenCovered
  <1>1. MoneyInvariant /\ [Next]_vars =>
            [order.status # "PAID" /\ order'.status = "PAID" =>
                 FullyPaid(order'.total, order'.paid)]_vars
    BY StepPaysInFull
  <1> QED
    BY <1>1, MoneyInvariantHolds, PTL DEF Spec, PaidOnlyWhenCovered

\* The invariant of the money holds in every state.
THEOREM BookInvariantHolds == Spec => []BookInvariant
  BY InitBalances, NextKeepsBook, PTL DEF Spec

\* What the order calls paid is the sum of its payments that are not reversed, and never
\* more than its total, for any number of racing payments, reversals and edits
\* (BR-PAY-017, BR-WO-015).
THEOREM PaidIsAlwaysReceived == Spec => []PaidIsReceived
  <1>1. BookInvariant => PaidIsReceived
    BY DEF BookInvariant
  <1> QED
    BY <1>1, BookInvariantHolds, PTL

\* The balance of the order is what it was charged, less what was credited and received,
\* whatever the status was when each entry was posted (BR-PAY-020, BALANCE_SIGN).
THEOREM BalanceIsAlwaysExplained == Spec => []BalanceExplained
  <1>1. BookInvariant => BalanceExplained
    BY DEF BookInvariant
  <1> QED
    BY <1>1, BookInvariantHolds, PTL

\* A cancelled or removed order owes nothing and holds no money: the credit note repeats
\* the charge, and whatever was paid before was reversed (BR-WO-014, C2).
THEOREM ClosedOrdersSettle == Spec => []ClosedSettlesToZero
  <1>1. BookInvariant => ClosedSettlesToZero
    <2> SUFFICES ASSUME BookInvariant, order.status = "CANCELLED" \/ order.deleted
                 PROVE  ledger.balance = 0 /\ order.paid = 0
      BY DEF ClosedSettlesToZero
    <2>1. order.paid = 0 /\ Received = 0
      BY DEF BookInvariant, ClosedHasNoMoney, PaidIsReceived
    <2>2. order.status \in Deletable
      BY DEF BookInvariant, DeletedIsDeletable, Deletable
    <2>3. order.status \notin ChargedStatuses
      BY <2>2 DEF Deletable, ChargedStatuses
    <2>4. MoneyInvariant
      BY DEF BookInvariant
    <2> DEFINE charges == Len(ledger.charges)
               credits == Len(ledger.credits)
    <2>5. charges \in {0, 1} /\ charges = credits
      BY <2>3, <2>4, LedgerIsShort
    <2>6. SumOf(ledger.charges) = SumOf(ledger.credits) /\ SumOf(ledger.charges) \in Int
      <3>1. CASE charges = 0
        BY <2>4, <2>5, <3>1, LedgerIsShort
      <3>2. CASE charges = 1
        <4>1. ledger.credits[1] = ledger.charges[1]
          BY <2>5, <3>2 DEF BookInvariant, CreditRepeatsCharge
        <4>2. ledger.charges[1] \in Nat
          BY <2>4, <3>2, LedgerIsShort
        <4> QED
          BY <2>4, <2>5, <3>2, <4>1, <4>2, LedgerIsShort
      <3> QED
        BY <2>5, <3>1, <3>2
    <2>7. ledger.balance = 0
      BY <2>1, <2>6 DEF BookInvariant, BalanceExplained
    <2> QED
      BY <2>1, <2>7
  <1> QED
    BY <1>1, BookInvariantHolds, PTL

\* The debt of an order is what its lines add up to when it is completed, although the
\* total on its row may be older (BR-WO-008).
THEOREM LinesAreCharged == Spec => ChargeIsSumOfLines
  <1>1. MoneyInvariant /\ [Next]_vars =>
            [ledger'.charges # ledger.charges =>
                 ledger'.charges[Len(ledger'.charges)] = worth]_vars
    BY StepChargesLines
  <1> QED
    BY <1>1, MoneyInvariantHolds, PTL DEF Spec, ChargeIsSumOfLines

\* An order whose lines nobody edits is covered by its money whenever it is PAID,
\* whatever payments, reversals and transitions race for it (BR-WO-016).  The hypothesis
\* is needed: an edit read before the order was completed may raise its total later.
THEOREM PaidOrdersAreCovered ==
    ASSUME MaxEdits = 0
    PROVE  Spec => []PaidMeansCovered
  <1>1. Init => CoverInvariant
    <2> SUFFICES ASSUME Init PROVE CoverInvariant
      OBVIOUS
    <2>1. order.status = "DRAFT" /\ NoEditUnderWay
      BY DEF Init, NoEditUnderWay, NoRequest
    <2> QED
      BY <2>1, InitEstablishes DEF CoverInvariant, PaidMeansCovered
  <1>2. CoverInvariant /\ [Next]_vars => CoverInvariant'
    <2> SUFFICES ASSUME CoverInvariant, [Next]_vars PROVE CoverInvariant'
      OBVIOUS
    <2>1. MoneyInvariant /\ NoEditUnderWay
      BY DEF CoverInvariant
    <2>2. MoneyInvariant' /\ NoEditUnderWay'
      BY <2>1, NextKeeps, NoEditStarts
    <2>3. CASE order.status = "PAID"
      BY <2>2, <2>3, StepStaysCovered DEF CoverInvariant
    <2>4. CASE order.status # "PAID"
      BY <2>1, <2>2, <2>4, StepPaysInFull DEF CoverInvariant, PaidMeansCovered
    <2> QED
      BY <2>3, <2>4
  <1>3. CoverInvariant => PaidMeansCovered
    BY DEF CoverInvariant
  <1> QED
    BY <1>1, <1>2, <1>3, PTL DEF Spec

\* The active invoice shows what is paid on its order, up to its own amount, and is PAID
\* exactly when that covers it, whatever payments, reversals, cancellations, due dates and
\* nightly jobs race for it (BR-INV-018).  The hypothesis is needed: an invoice that covers
\* less than its order may be edited while a payment comes that does not show on it.
THEOREM InvoicesAlwaysMirror ==
    ASSUME MaxInvoiceEdits = 0 \/ (MaxEdits = 0 /\ MaxInvoiceEdits = 1)
    PROVE  Spec => []InvoiceMirrorsOrder
  <1>1. MirrorInvariant /\ [Next]_vars => MirrorInvariant'
    <2> SUFFICES ASSUME MirrorInvariant, [Next]_vars PROVE MirrorInvariant'
      OBVIOUS
    <2>1. BookInvariant'
      BY NextKeepsBook DEF MirrorInvariant
    <2>2. MaxEdits = 0 => WholeOrder'
      BY WholeOrderKept
    <2> QED
      BY <2>1, <2>2, InvoiceKeepsMirroring, EditsKept DEF MirrorInvariant
  <1>2. MirrorInvariant => InvoiceMirrorsOrder
    BY DEF MirrorInvariant
  <1> QED
    BY <1>1, <1>2, InitMirrors, PTL DEF Spec
=============================================================================
