--------------------------- MODULE WorkOrderMoney ---------------------------
(***************************************************************************)
(* The money of one work order: its total, the debt it charges, the        *)
(* payments and their reversals, and its active invoice, which mirrors it. *)
(*                                                                         *)
(* Requests run concurrently.  Each reads the order first, outside its     *)
(* transaction, and then acts on what it has read; a transaction that      *)
(* writes the row of the order holds it until it commits, so what it does  *)
(* from that write on is one step.  Amounts are whole and in the base      *)
(* currency, so there are no exchange differences.  The stock effects are  *)
(* in WorkOrderStock.  A request may fail at any point (Abandon): its      *)
(* transaction is rolled back.                                             *)
(***************************************************************************)
EXTENDS Integers, Sequences, FiniteSets, Functions

CONSTANTS
    Requests,       \* clients that may act at the same time
    Payments,       \* ids of payments
    InitialWorth,   \* what the lines of the order add up to at the start
    MaxTotal,       \* bound: what the lines may add up to
    MaxEdits,       \* bound: edits of lines in a run
    MaxInvoices,    \* bound: invoices issued in a run
    MaxInvoiceEdits \* bound: edits of an invoice in a run

ASSUME WorkOrderMoneyAssumption ==
    /\ IsFiniteSet(Payments)
    /\ InitialWorth \in 0..MaxTotal
    /\ MaxTotal \in Nat
    /\ MaxEdits \in Nat /\ MaxInvoices \in Nat /\ MaxInvoiceEdits \in Nat

VARIABLES
    order,      \* the row of the order
    worth,      \* what its committed lines and parts add up to
    payment,    \* payment id -> the payment
    ledger,     \* its settlement entries and the balance they leave
    invoice,    \* its active invoice
    request,    \* client -> the request it is making
    used        \* how much of each bound the run has used

vars == <<order, worth, payment, ledger, invoice, request, used>>

Transitions ==
    [s \in {"DRAFT", "ESTIMATE", "APPROVED", "IN_PROGRESS", "ON_HOLD", "COMPLETED",
            "INVOICED", "PAID", "ARCHIVED", "CANCELLED"} |->
        CASE s = "DRAFT" -> {"ESTIMATE", "CANCELLED"}
          [] s = "ESTIMATE" -> {"APPROVED", "DRAFT", "CANCELLED"}
          [] s = "APPROVED" -> {"IN_PROGRESS", "ON_HOLD", "CANCELLED"}
          [] s = "IN_PROGRESS" -> {"ON_HOLD", "COMPLETED"}
          [] s = "ON_HOLD" -> {"IN_PROGRESS", "CANCELLED"}
          [] s = "COMPLETED" -> {"INVOICED", "CANCELLED"}
          [] s = "INVOICED" -> {"PAID", "CANCELLED"}
          [] s = "PAID" -> {"ARCHIVED"}
          [] OTHER -> {}]

Statuses == DOMAIN Transitions
Editable == {"DRAFT", "ESTIMATE", "APPROVED"}
ActualHoursEditable == Editable \cup {"IN_PROGRESS", "ON_HOLD"}
Deletable == {"DRAFT", "CANCELLED"}
Charged == {"COMPLETED", "INVOICED"}
Prepayable == {"DRAFT", "ESTIMATE", "APPROVED", "IN_PROGRESS", "ON_HOLD"}
Payable == Prepayable \cup {"COMPLETED", "INVOICED"}
Invoiceable == {"COMPLETED", "INVOICED", "PAID"}

NoRequest == [kind |-> "none"]
NoPayment == [state |-> "none"]
NoInvoice == [status |-> "NONE", amount |-> 0, paid |-> 0, pastDue |-> FALSE]

Init ==
    /\ order = [status |-> "DRAFT", total |-> InitialWorth, paid |-> 0, deleted |-> FALSE]
    /\ worth = InitialWorth
    /\ payment = [p \in Payments |-> NoPayment]
    /\ ledger = [charges |-> <<>>, credits |-> <<>>, balance |-> 0]
    /\ invoice = NoInvoice
    /\ request = [r \in Requests |-> NoRequest]
    /\ used = [edits |-> 0, invoices |-> 0, invoiceEdits |-> 0]

-----------------------------------------------------------------------------
(* Rules.  Definitions named Faulty... are plausible errors, used only to show
   that a property notices them. *)

Smaller(a, b) == IF a < b THEN a ELSE b
Larger(a, b) == IF a > b THEN a ELSE b

FullyPaid(total, paid) == total > 0 /\ paid >= total

\* settleIfFullyPaidInTx: a charged order that is fully paid moves on to PAID.
Settled(status, total, paid) ==
    IF status \in Charged /\ FullyPaid(total, paid) THEN "PAID" ELSE status

\* Faulty: the cancellation of a prepayment is posted with the sign of the prepayment.
FaultyBalanceSign ==
    [CHARGE |-> 1, CREDIT_NOTE |-> -1, PAYMENT |-> -1, PREPAYMENT |-> -1,
     PAYMENT_CANCEL |-> 1, PREPAYMENT_CANCEL |-> -1]

BalanceSign ==
    [CHARGE |-> 1, CREDIT_NOTE |-> -1, PAYMENT |-> -1, PREPAYMENT |-> -1,
     PAYMENT_CANCEL |-> 1, PREPAYMENT_CANCEL |-> 1]

Balance(type, amount) == ledger.balance + BalanceSign[type] * amount

StatusForPaid(current, amount, paid, pastDue) ==
    CASE amount > 0 /\ paid >= amount -> "PAID"
      [] pastDue /\ ~(amount > 0 /\ paid >= amount) -> "OVERDUE"
      [] ~pastDue /\ paid > 0 /\ paid < amount -> "PARTIALLY_PAID"
      [] OTHER -> IF current = "OVERDUE" THEN "OVERDUE" ELSE "SENT"

\* Faulty: an invoice that is not sent yet is left alone.
FaultyMirrored(inv, paid) ==
    LET covered == Smaller(paid, inv.amount) IN
    IF inv.status \in {"NONE", "DRAFT"} THEN inv
    ELSE [inv EXCEPT !.paid = covered,
                     !.status = StatusForPaid(@, inv.amount, covered, inv.pastDue)]

\* syncWorkOrderInvoicePaid, for an order with this much paid.
Mirrored(inv, paid) ==
    LET covered == Smaller(paid, inv.amount) IN
    CASE inv.status = "NONE" -> inv
      [] inv.status = "DRAFT" -> [inv EXCEPT !.paid = covered]
      [] OTHER -> [inv EXCEPT !.paid = covered,
                              !.status = StatusForPaid(@, inv.amount, covered, inv.pastDue)]

LiveInvoice == {"DRAFT", "SENT", "PARTIALLY_PAID", "OVERDUE"}

\* Nobody holds the row of the invoice (an edit holds it while it mirrors).
InvoiceFree == \A r \in Requests : request[r].kind # "mirror"

\* The invoice becomes inv: a write waits for the row, no write does not.
PutInvoice(inv) == (inv = invoice \/ InvoiceFree) /\ invoice' = inv

Starts(r, req) == request[r] = NoRequest /\ request' = [request EXCEPT ![r] = req]
Ends(r) == request' = [request EXCEPT ![r] = NoRequest]

\* The request fails or its answer is lost: nothing of it remains.
Abandon(r) ==
    /\ request[r] # NoRequest
    /\ Ends(r)
    /\ UNCHANGED <<order, worth, payment, ledger, invoice, used>>

-----------------------------------------------------------------------------
(* Transitions of the order and its removal. *)

\* The checks of transition before its transaction.
ReadForTransition(r, to) ==
    /\ ~order.deleted
    /\ to \in Transitions[order.status]
    /\ to = "CANCELLED" => order.paid = 0
    /\ to = "PAID" => FullyPaid(order.total, order.paid)
    /\ Starts(r, [kind |-> "transition", to |-> to, seen |-> order])
    /\ UNCHANGED <<order, worth, payment, ledger, invoice, used>>

\* Faulty: the status is not compared with the one that was read.
FaultyStatusUnseen(seen, to) ==
    /\ ~order.deleted
    /\ to = "CANCELLED" => order.paid = 0
    /\ to = "PAID" => order.paid = seen.paid /\ order.total = seen.total

\* Faulty: money that came in after the read does not stop a cancellation.
FaultyPaidUnseen(seen, to) ==
    /\ ~order.deleted
    /\ order.status = seen.status
    /\ to = "PAID" => order.paid = seen.paid /\ order.total = seen.total

\* Faulty: the money is compared with the total only before the transaction.
FaultyCoverUnseen(seen, to) ==
    /\ ~order.deleted
    /\ order.status = seen.status
    /\ to = "CANCELLED" => order.paid = 0

\* The conditions in the status update of transition.
StatusCas(seen, to) ==
    /\ ~order.deleted
    /\ order.status = seen.status
    /\ to = "CANCELLED" => order.paid = 0
    /\ to = "PAID" => order.paid = seen.paid /\ order.total = seen.total

\* Faulty: the total is taken as it stands on the row.
FaultyFinalTotal == order.total

\* Completion adds the lines up again (recalc) under the lock of the order.
FinalTotal == worth

Complete(r) ==
    /\ request[r].kind = "transition" /\ request[r].to = "COMPLETED"
    /\ StatusCas(request[r].seen, "COMPLETED")
    /\ order.paid <= FinalTotal /\ FinalTotal > 0
    /\ order' = [order EXCEPT !.total = FinalTotal,
                              !.status = Settled("COMPLETED", FinalTotal, order.paid)]
    /\ ledger' = [ledger EXCEPT !.charges = Append(@, FinalTotal),
                                !.balance = Balance("CHARGE", FinalTotal)]
    /\ Ends(r)
    /\ UNCHANGED <<worth, payment, invoice, used>>

\* The debt of a charged order is mirrored by one credit note.
Cancel(r) ==
    /\ request[r].kind = "transition" /\ request[r].to = "CANCELLED"
    /\ StatusCas(request[r].seen, "CANCELLED")
    /\ order' = [order EXCEPT !.status = "CANCELLED"]
    /\ ledger' = IF request[r].seen.status \in Charged
                 THEN [ledger EXCEPT !.credits = Append(@, ledger.charges[1]),
                                     !.balance = Balance("CREDIT_NOTE", ledger.charges[1])]
                 ELSE ledger
    /\ PutInvoice(IF invoice.status \in LiveInvoice THEN NoInvoice ELSE invoice)
    /\ Ends(r)
    /\ UNCHANGED <<worth, payment, used>>

MoveOn(r) ==
    /\ request[r].kind = "transition" /\ request[r].to \notin {"COMPLETED", "CANCELLED"}
    /\ StatusCas(request[r].seen, request[r].to)
    /\ order' = [order EXCEPT !.status =
                    Settled(request[r].to, order.total, order.paid)]
    /\ Ends(r)
    /\ UNCHANGED <<worth, payment, ledger, invoice, used>>

ReadForRemove(r) ==
    /\ ~order.deleted /\ order.status \in Deletable /\ order.paid = 0
    /\ Starts(r, [kind |-> "remove", seen |-> order])
    /\ UNCHANGED <<order, worth, payment, ledger, invoice, used>>

Remove(r) ==
    /\ request[r].kind = "remove"
    /\ ~order.deleted /\ order.status = request[r].seen.status /\ order.paid = 0
    /\ order' = [order EXCEPT !.deleted = TRUE]
    /\ Ends(r)
    /\ UNCHANGED <<worth, payment, ledger, invoice, used>>

-----------------------------------------------------------------------------
(* Edits of lines and parts: the sum of the lines changes by delta. *)

\* addLine, updateLine, removeLine, addPart, updatePart, removePart read the status
\* outside the transaction; the actual hours of a line may change a little longer.
ReadForEdit(r, delta) ==
    /\ used.edits < MaxEdits
    /\ ~order.deleted
    /\ order.status \in ActualHoursEditable
    /\ Starts(r, [kind |-> "edit", delta |-> delta, part |-> order.status \in Editable])
    /\ used' = [used EXCEPT !.edits = @ + 1]
    /\ UNCHANGED <<order, worth, payment, ledger, invoice>>

\* Faulty: the total may fall below what is paid.
FaultyFitsUnpaid(sum) == sum \in 0..MaxTotal
\* Faulty: the total may be anything.
FaultyFitsAny(sum) == TRUE

Fits(sum) == sum \in 0..MaxTotal /\ order.paid <= sum

\* All but updatePart and removePart: the line is written and the lines are read
\* (recalc) before anything holds the row of the order.
WriteLine(r) ==
    /\ request[r].kind = "edit"
    /\ request' = [request EXCEPT ![r] =
                      [kind |-> "recalc", delta |-> @.delta, sum |-> worth + @.delta]]
    /\ UNCHANGED <<order, worth, payment, ledger, invoice, used>>

\* recalc writes the sum it has read; the lines are committed with it.
WriteTotal(r) ==
    /\ request[r].kind = "recalc"
    /\ Fits(request[r].sum)
    /\ worth + request[r].delta \in 0..MaxTotal
    /\ order' = [order EXCEPT !.total = request[r].sum]
    /\ worth' = worth + request[r].delta
    /\ Ends(r)
    /\ UNCHANGED <<payment, ledger, invoice, used>>

\* updatePart and removePart hold the row of the order before they read.
EditPart(r) ==
    /\ request[r].kind = "edit" /\ request[r].part
    /\ Fits(worth + request[r].delta)
    /\ worth' = worth + request[r].delta
    /\ order' = [order EXCEPT !.total = worth']
    /\ Ends(r)
    /\ UNCHANGED <<payment, ledger, invoice, used>>

-----------------------------------------------------------------------------
(* Payments. *)

\* prepareCreate.
PreparePayment(r, p, amount) ==
    /\ payment[p] = NoPayment
    /\ \A q \in Requests : request[q].kind = "pay" => request[q].payment # p
    /\ ~order.deleted /\ order.status \in Payable
    /\ amount <= order.total - order.paid
    /\ Starts(r, [kind |-> "pay", payment |-> p, amount |-> amount])
    /\ UNCHANGED <<order, worth, payment, ledger, invoice, used>>

\* createInTx reads the row again and compares what it has read when it writes.
CanPay(amount) ==
    /\ ~order.deleted /\ order.status \in Payable
    /\ amount <= order.total - order.paid

CreatePayment(r) ==
    /\ request[r].kind = "pay"
    /\ LET amount == request[r].amount
           type == IF order.status \in Prepayable THEN "PREPAYMENT" ELSE "PAYMENT"
           paid == order.paid + amount
       IN  /\ CanPay(amount)
           /\ order' = [order EXCEPT !.paid = paid,
                                     !.status = Settled(@, order.total, paid)]
           /\ payment' = [payment EXCEPT ![request[r].payment] =
                             [state |-> "live", amount |-> amount, type |-> type]]
           /\ ledger' = [ledger EXCEPT !.balance = Balance(type, amount)]
           /\ PutInvoice(Mirrored(invoice, paid))
    /\ Ends(r)
    /\ UNCHANGED <<worth, used>>

\* reverse reads the payment before it holds the order.
ReadForReversal(r, p) ==
    /\ payment[p].state = "live"
    /\ Starts(r, [kind |-> "reverse", payment |-> p])
    /\ UNCHANGED <<order, worth, payment, ledger, invoice, used>>

\* The claim of the payment: reversedAt is still null.
NotYetReversed(p) == payment[p].state = "live"

\* Faulty: the order stays PAID.
FaultyReopened(status, total, paid) == status

\* A fully paid order that no longer is goes back to INVOICED (reopenPaidWorkOrderInTx).
Reopened(status, total, paid) ==
    IF status = "PAID" /\ ~FullyPaid(total, paid) THEN "INVOICED" ELSE status

Reverse(r) ==
    /\ request[r].kind = "reverse"
    /\ LET p == request[r].payment
           amount == payment[p].amount
           type == IF payment[p].type = "PREPAYMENT" THEN "PREPAYMENT_CANCEL"
                                                     ELSE "PAYMENT_CANCEL"
           paid == Larger(0, order.paid - amount)
       IN  /\ order.status # "ARCHIVED" \/ order.deleted
           /\ NotYetReversed(p)
           /\ payment' = [payment EXCEPT ![p].state = "reversed"]
           /\ ledger' = [ledger EXCEPT !.balance = Balance(type, amount)]
           /\ IF order.deleted
              THEN UNCHANGED <<order, invoice>>
              ELSE /\ order' = [order EXCEPT !.paid = paid,
                                             !.status = Reopened(@, order.total, paid)]
                   /\ PutInvoice(Mirrored(invoice, paid))
    /\ Ends(r)
    /\ UNCHANGED <<worth, used>>

-----------------------------------------------------------------------------
(* The invoice of the order. *)

\* createFromWorkOrder: the row of the order is held, the amount is its total.
CreateInvoice ==
    /\ used.invoices < MaxInvoices
    /\ ~order.deleted /\ order.status \in Invoiceable
    /\ invoice.status = "NONE"
    /\ invoice' = Mirrored([NoInvoice EXCEPT !.status = "DRAFT", !.amount = order.total],
                           order.paid)
    /\ used' = [used EXCEPT !.invoices = @ + 1]
    /\ UNCHANGED <<order, worth, payment, ledger, request>>

SendInvoice ==
    /\ invoice.status = "DRAFT" /\ InvoiceFree
    /\ invoice' = Mirrored([invoice EXCEPT !.status = "SENT"], order.paid)
    /\ UNCHANGED <<order, worth, payment, ledger, request, used>>

CancelInvoice ==
    /\ invoice.status \in {"DRAFT", "SENT", "PARTIALLY_PAID", "OVERDUE"} /\ InvoiceFree
    /\ invoice' = NoInvoice
    /\ UNCHANGED <<order, worth, payment, ledger, request, used>>

\* The due date passes.
DueDatePasses ==
    /\ invoice.status # "NONE" /\ ~invoice.pastDue /\ InvoiceFree
    /\ invoice' = [invoice EXCEPT !.pastDue = TRUE]
    /\ UNCHANGED <<order, worth, payment, ledger, request, used>>

\* The nightly job.
MarkOverdue ==
    /\ invoice.status \in {"SENT", "PARTIALLY_PAID"} /\ invoice.pastDue /\ InvoiceFree
    /\ invoice' = [invoice EXCEPT !.status = "OVERDUE"]
    /\ UNCHANGED <<order, worth, payment, ledger, request, used>>

\* update, addLine, updateLine, removeLine of an invoice: DRAFT is read first.
ReadForInvoiceEdit(r, amount) ==
    /\ used.invoiceEdits < MaxInvoiceEdits
    /\ invoice.status = "DRAFT"
    /\ Starts(r, [kind |-> "invoice", amount |-> amount, issue |-> used.invoices])
    /\ used' = [used EXCEPT !.invoiceEdits = @ + 1]
    /\ UNCHANGED <<order, worth, payment, ledger, invoice>>

\* The new amount is written, which holds the invoice, and the order is read.
WriteInvoiceAmount(r) ==
    /\ request[r].kind = "invoice"
    /\ invoice.status # "NONE" /\ used.invoices = request[r].issue /\ InvoiceFree
    /\ request' = [request EXCEPT ![r] =
                      [kind |-> "mirror", amount |-> @.amount, paid |-> order.paid]]
    /\ UNCHANGED <<order, worth, payment, ledger, invoice, used>>

MirrorEditedInvoice(r) ==
    /\ request[r].kind = "mirror"
    /\ invoice' = Mirrored([invoice EXCEPT !.amount = request[r].amount], request[r].paid)
    /\ Ends(r)
    /\ UNCHANGED <<order, worth, payment, ledger, used>>

-----------------------------------------------------------------------------
Amounts == 1..MaxTotal
Deltas == {-1, 1}

Read(r) ==
    \/ \E to \in Statuses : ReadForTransition(r, to)
    \/ ReadForRemove(r)
    \/ \E delta \in Deltas : ReadForEdit(r, delta)
    \/ \E p \in Payments, amount \in Amounts : PreparePayment(r, p, amount)
    \/ \E p \in Payments : ReadForReversal(r, p)
    \/ \E amount \in Amounts : ReadForInvoiceEdit(r, amount)

Act(r) ==
    \/ Complete(r) \/ Cancel(r) \/ MoveOn(r) \/ Remove(r)
    \/ WriteLine(r) \/ WriteTotal(r) \/ EditPart(r)
    \/ CreatePayment(r) \/ Reverse(r)
    \/ WriteInvoiceAmount(r) \/ MirrorEditedInvoice(r)

InvoiceStep == CreateInvoice \/ SendInvoice \/ CancelInvoice \/ DueDatePasses \/ MarkOverdue

Next == InvoiceStep \/ \E r \in Requests : Read(r) \/ Act(r) \/ Abandon(r)

Spec == Init /\ [][Next]_vars

-----------------------------------------------------------------------------
(* Properties. *)

InvoiceStatuses == {"NONE", "DRAFT", "SENT", "PARTIALLY_PAID", "OVERDUE", "PAID"}
Rows == [status : Statuses, total : 0..MaxTotal, paid : Nat, deleted : BOOLEAN]
PaymentRows ==
    {NoPayment} \cup [state : {"live", "reversed"}, amount : Amounts,
                      type : {"PAYMENT", "PREPAYMENT"}]
RequestRecords ==
    {NoRequest}
    \cup [kind : {"transition"}, to : Statuses, seen : Rows]
    \cup [kind : {"remove"}, seen : Rows]
    \cup [kind : {"edit"}, delta : Deltas, part : BOOLEAN]
    \cup [kind : {"recalc"}, delta : Deltas, sum : Int]
    \cup [kind : {"pay"}, payment : Payments, amount : Amounts]
    \cup [kind : {"reverse"}, payment : Payments]
    \cup [kind : {"invoice"}, amount : Amounts, issue : Nat]
    \cup [kind : {"mirror"}, amount : Amounts, paid : Nat]

TypeOK ==
    /\ order \in Rows
    /\ worth \in 0..MaxTotal
    /\ payment \in [Payments -> PaymentRows]
    /\ ledger \in [charges : Seq(Nat), credits : Seq(Nat), balance : Int]
    /\ invoice \in [status : InvoiceStatuses, amount : 0..MaxTotal, paid : Nat,
                    pastDue : BOOLEAN]
    /\ request \in [Requests -> RequestRecords]
    /\ used \in [edits : 0..MaxEdits, invoices : 0..MaxInvoices,
                 invoiceEdits : 0..MaxInvoiceEdits]

LivePayments == {p \in Payments : payment[p].state = "live"}
Received == SumFunction([p \in LivePayments |-> payment[p].amount])
SumOf(s) == SumFunction([i \in 1..Len(s) |-> s[i]])

\* What an order calls paid is the sum of its payments that are not reversed, and is
\* never more than its total: payments, reversals and edits of lines that check the
\* same old row cannot all take effect (BR-PAY-017, BR-WO-015).
PaidIsReceived == order.paid = Received /\ order.paid <= order.total

\* The settlement balance of the order is its charges minus its credit notes minus
\* what was received: each payment and reversal posts the entry of the right sign
\* once, whatever the status was when it was posted (BR-PAY-020, BALANCE_SIGN).
BalanceExplained ==
    ledger.balance = SumOf(ledger.charges) - SumOf(ledger.credits) - Received

\* An order is charged when it is completed, once, and credited when it is cancelled
\* after that, once: concurrent transitions never post a second entry (BR-SETL-015, C2).
ChargedOnce ==
    /\ Len(ledger.charges) =
           IF order.status \in {"COMPLETED", "INVOICED", "PAID", "ARCHIVED"} THEN 1
           ELSE Len(ledger.credits)
    /\ Len(ledger.credits) <= 1

\* A cancelled or deleted order leaves nothing on the balance and no money on the
\* order (BR-WO-014, C2).
ClosedSettlesToZero ==
    order.status = "CANCELLED" \/ order.deleted => ledger.balance = 0 /\ order.paid = 0

\* An order is charged what its lines add up to when it is completed, although the
\* total it had may be older (BR-WO-008).
ChargeIsSumOfLines ==
    [][ledger'.charges # ledger.charges => ledger'.charges[Len(ledger'.charges)] = worth]_vars

\* An order becomes PAID only when the money that is on it covers its total at that
\* moment, however the request that moves it was delayed (BR-WO-016).
PaidOnlyWhenCovered ==
    [][order.status # "PAID" /\ order'.status = "PAID" =>
          FullyPaid(order'.total, order'.paid)]_vars

\* An order that is PAID is covered by its money (BR-WO-016).
PaidMeansCovered == order.status = "PAID" => FullyPaid(order.total, order.paid)

\* The total of an order is the sum of its lines (BR-WO-007).
TotalIsSumOfLines == order.total = worth

\* The active invoice shows what is paid on its order, up to its own amount
\* (BR-INV-018), and is PAID exactly when that covers it once it is sent.
InvoiceMirrorsOrder ==
    invoice.status # "NONE" =>
        /\ invoice.paid = Smaller(order.paid, invoice.amount)
        /\ invoice.status # "DRAFT" =>
              (invoice.status = "PAID" <=> invoice.amount > 0 /\ invoice.paid = invoice.amount)
=============================================================================
