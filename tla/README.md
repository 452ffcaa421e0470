# STO ERP: TLA+ models and proofs

This directory holds the verification project of the STO ERP backend
(`src/apps/api`, NestJS + Prisma + PostgreSQL, BullMQ workers): TLA+ modules of its
stock ledger, of what work orders do to the stock, of a work order's money, of
online payments, of orders sent to suppliers and the receipt of their goods, and of what
follows a payment (fiscal receipt, loyalty points, reversal); the TLC instances that check
them; and TLAPS proofs for every value of the constants.

All paths below are relative to `src/apps/api/src/modules/` unless they start with
`src/`. `PROJECT.json` maps each definition to the lines it models.

## 1. The system

One organisation runs a car service: a work order collects works and parts, reserves
and writes off goods, charges the client, is paid (cash, card, bank, online), is
invoiced, and parts are bought for it from suppliers. Every HTTP request is handled
by an async function that reads rows, decides, and writes in one PostgreSQL
transaction at READ COMMITTED. Requests of several users, BullMQ workers and nightly
jobs interleave freely; the only mutual exclusion is PostgreSQL's row locks: an
`UPDATE ... WHERE status = <what was read>` (a status CAS), `SELECT ... FOR UPDATE`,
or an upsert that increments a counter.

### Inventory of components

| component | state it keeps | operations | what makes it correct |
|---|---|---|---|
| stock ledger (`inventory/`) | `StockItem` (quantity, reserved), `StockBatch`, `BatchConsumption`, `StockMovement` | `createMovement`, `consumeBatch`, `returnToBatch`, `restoreBatchesForReturn` | reserved within quantity; batches add up to the quantity; the journal explains the batches; movement lists are serializable |
| work orders: stock (`work-orders/work-order-stock-effects`) | status, parts; reservations as movements with the order's id | `transition`, `remove`, `addPart`, `updatePart`, `removePart`; reserve, release, write off, return | nobody releases a reservation of another order; a closed order holds nothing; cancellation returns what was written off |
| work orders: money (`work-orders/work-orders.service`, `work-order-status`, `work-order-totals`) | total, paid, status | `transition`, `remove`, edits of lines and parts, `recalc`, settle, reopen | charged once, credited once, PAID only by money |
| payments (`payments/payments.service`) | `Payment`, its reversal | `create`, `reverse` | paid = payments received; no overpayment; a payment is reversed once |
| settlements (`settlements/`) | `SettlementTransaction`, balance after | `createTransaction` | the balance is explained by the charges, credits and payments |
| invoices (`invoices/`) | `Invoice` of an order or standalone | create, send, cancel, edit, overdue job, mirror of the order's money | the invoice mirrors the order |
| purchase orders, purchase lists (`purchase-orders/`, `purchase-lists/`) | lines ordered and received, items wanted by orders, the status of the order | receive, close by hand, cancel, share a receipt, return items to the list | nothing is received twice; what is received for an order is reserved for it only while it is open; lines, stock, debt and items agree |
| supplier API (`supplier-api/orders/`) | `SupplierOrder` rows with the step they are in, the place job, the next poll | plan, place step by step, reconcile, poll, cancel, send again | an order is placed at most once although its answer may be lost |
| online payments (`payments/online-payment.service`, `payment-polling.processor`) | `OnlinePaymentIntent`, the queue `payment-polling` | create an intent, poll the gateway, finalise, reconcile | credited once and only when confirmed; nothing paid is forgotten; polling ends |
| fiscal receipts, cash shift (`payments/checkbox.processor`, `payments/cash-shift.service`) | the fiscal status and receipt of a payment, the shift | register a receipt, retry, open and close | one receipt per payment, none for a reversed one |
| stock documents, supplier returns, supplier payments | documents and lines | confirm, cancel | each effect once |
| cash, bank statements | balances, matched rows | post, reverse, match | the balance is its operations |
| loyalty | points per client | earn, reverse, redeem | points once per payment, none for a reversed one |
| common: idempotency, dead letter, document number | keys, jobs, counters | reserve, finalise, replay, next | one effect per key, one document per number |
| calendar and booking | slots | book, move, cancel | no overlap |
| automation, webhooks, notifications, telegram-bot | outbox events, deliveries | claim, run, retry | at-least-once delivery, one run per event |
| auth, sync | sessions, cursors | rotate, pull | one living session per refresh; a cursor skips nothing |
| reference data, reports, import/export, clients, installer | rows without a protocol | create, update, delete, read | - |

### How they interact

A transition of a work order is the knot of the system. In one transaction
`WorkOrdersService.transition` updates the status by CAS (which also locks the row),
calls `WorkOrderStockEffects` (which calls `InventoryService.createMovement` once per
movement), calls `SettlementsService.createTransaction`, and settles the order to
PAID when it is already covered. `PaymentsService` writes the same row (its paid
amount by increment with a condition), the settlement entries, and mirrors the order
on its invoice. `PurchaseOrdersService.receive` posts the receipt and lets the
purchase list reserve what has come for an order; when a supplier order is closed, the
items that did not come return to their lists, and when a work order is closed its items
are called off. Between a purchase order and its supplier stands a queue: the button and the
transition to ORDERED plan rows and add a job, the job talks to the supplier, pollers
follow, and a sweep repairs what was lost. An online payment reaches
`PaymentsService.create` from a worker of the queue, some time after its client has
asked for it, and every payment leaves two jobs behind, one for the fiscal receipt and one
for the points, which the reversal of the payment may overtake. Edits of lines call
`WorkOrderTotalsService.recalc`, and edits of parts trim the reservation.

### What is hard

* **Read before the lock.** Handlers read a row, check it, and then act in a
  transaction. Whether the write repeats the check decides between a safe and a lost
  update (`createMovement`, `transition`, `createInTx` do; the edits of lines and
  parts do not repeat the check of the status).
* **Several rows in one transaction.** Lock order, and what a failure in the
  middle leaves.
* **Derived data.** Batches derive from the quantity, reservations from movements,
  the paid amount from payments, the invoice from the order.
* **Sequences.** Completion, cancellation, returns and edits in an order nobody
  tried, with data that changed in between (the coefficient of a unit).
* **Queues and outside services.** Lost answers, retries, restarts and late jobs: a
  request to a supplier or to the fiscal service that is repeated may be carried out twice.
* **Keys.** A client repeats a request because the answer did not come.

`PROJECT.json` lists each hazard at the line where it bites, with the properties
that cover it or the reason why none does.

## 2. The modules

| module | what it is |
|---|---|
| `StockBook` | abstract: a book of two counters per stock row; whole movement lists are posted one at a time |
| `StockLedger` | the stock ledger under concurrent transactions; implements `StockBook` |
| `SumTheorems` | lemmas about sums over finite sets and about joined sequences, for the modules with theorems |
| `WorkOrderStock` | extends `StockLedger`: work orders, their parts, receipts and the transactions they open |
| `StockProofs` | theorems about `StockLedger`, the refinement among them, and about `WorkOrderStock` |
| `WorkOrderMoney` | the money of one work order: totals, debt, payments, reversals, invoice |
| `WorkOrderMoneyProofs` | theorems about `WorkOrderMoney` |
| `OnlinePayment` | the online payments of one invoice: intents, the gateway, the queue of polling jobs and its workers |
| `OnlinePaymentProofs` | theorems about `OnlinePayment` |
| `SupplierPlacement` | abstract: what sending an order through a supplier's API promises |
| `SupplierOrder` | the place job, its retries and crashes, the pollers, the sweep and the users; implements `SupplierPlacement` |
| `SupplierOrderProofs` | theorems about `SupplierOrder`, the refinement among them |
| `GoodsReceipt` | receiving under an idempotency key, beside the closing of the supplier order, of work orders, and the hooks of the purchase lists |
| `GoodsReceiptProofs` | theorems about `GoodsReceipt`: its types, keys, books and reservations, and the closing of a full order |
| `GoodsReceiptItemProofs` | the theorem about the items of `GoodsReceipt`, on top of these |
| `PaymentAftermath` | the receipt job and the points job of a payment, the retry of a receipt, and the reversal |
| `PaymentAftermathProofs` | theorems about `PaymentAftermath` |
| `MC...` | the instances for TLC |

`WorkOrderStock` composes the work order with the ledger: its transactions run
`StockLedger`'s own steps. Stock and money of an order are separate modules. They
share the status machine and the row lock of the order, and neither reads the
other's data: the stock effects never look at a total, the money never at a
quantity. What one module adds to a transition of the other is a failure that rolls
the whole transaction back, and both have it (`Interrupt`, `Abandon`). `GoodsReceipt`
composes three components, receiving, purchase lists and the idempotency of requests, and
sees work orders and the ledger only through the rows they share. `SupplierOrder` is about
what the supplier was asked, `GoodsReceipt` about what arrives; they share the status of the
purchase order, whose closing `GoodsReceipt` has in full and `SupplierOrder` as its cancellation.
`PaymentAftermath` begins where `CreatePayment` of `WorkOrderMoney` ends.

### StockLedger

| variable | code |
|---|---|
| `committed` | the committed `StockItem`, `StockBatch`, `BatchConsumption` rows of each (good, warehouse), and each document's net of its RESERVATION and RESERVATION_RELEASE movements |
| `live` | their newest version, with the writes of the transaction that holds the row |
| `lock` | the holder of the row lock of the stock row |
| `txn` | a transaction's movement list, its position, and whether the current movement has passed its unlocked checks |

`createMovement` is two steps. `CheckMovement` is everything up to the upsert: the
rules on the sign and the reads without a lock. `ApplyMovement` is the upsert, which
locks the row and increments its newest version, the checks on the values it
returned, and the batch work; it needs the lock and keeps it until the end. A batch
is only written under the lock of its stock row, so no step of another transaction
fits in between. `RefuseMovement` and `FailMovement` are the thrown errors. `Commit`,
`Rollback`, `DeadlockVictim` (PostgreSQL aborts a member of a circle of waiters) and
`Interrupt` (timeout, lost connection, crash, or an error in the caller) end a
transaction.

Abstractions: a missing stock row is a row with zeros; a batch is active exactly when
something remains; the cost method (FIFO, LIFO, FEFO, changeable at any time) is an
arbitrary walk over the batches, of which at most one entry is half drawn; prices and
costs are left out. `OncePerLine` restricts the programs of this module to what the
status CAS of the callers allows (a line is written off once, returned once and in
full), and `ReturnsAssumption` says of a movement list that it returns a line's goods by one
movement: a RETURN comes from `returnPartsAndCredit` alone
(`work-order-stock-effects.service.ts:380`), which names a line and visits each part of the
order once. `WorkOrderStock` restricts nothing: there the movement lists come out of the
code of the work order.

### WorkOrderStock

| variable | code |
|---|---|
| `status` | `WorkOrder.status`; DELETED is `deletedAt` |
| `part` | quantity x coefficient of each part, 0 when there is none |
| `checked` | edits that have read an editable status and not begun their transaction |
| `fresh`, `used` | ids of parts not used yet; the bounds |
| `job` | what a transaction does at its commit |

`BeginTransition`/`CommitJob` are `transition` and `remove`: the status CAS locks the
order and fixes the movement list, which the inherited steps of `StockLedger` then
run one by one, interleaved with everything else. `ReserveProgram`, `ReleaseProgram`,
`WriteOffProgram` and `ReturnProgram` are `reserveParts`, `releaseExcess`,
`writeOffPartsAndCharge` and `returnPartsAndCredit`. `CheckEdit` followed by `AddPart`
or `BeginChangePart` are the edits of parts, with their read outside the transaction.
`BeginReceipt`, `AllocateReceived` and `BeginReleaseReservation` are the receiving of
goods bought for an order and the release of a purchase list item. `ChangeUnit` is an
edit of a unit's coefficient, which looks at no order.

### WorkOrderMoney

| variable | code |
|---|---|
| `order` | status, totalAmount, paidAmount, deletedAt of one order |
| `worth` | what its committed lines and parts add up to |
| `payment` | its payments: amount, settlement type, reversedAt |
| `ledger` | CHARGE and CREDIT_NOTE entries, and the balance of all entries |
| `invoice` | its active invoice: status, amount, paid, whether its due date has passed |
| `request` | each client's request: what it read, and how far it is |

Each operation is a read step (`ReadForTransition`, `PreparePayment`,
`ReadForReversal`, ...) and a step that holds the row of the order. Edits of lines
are three: read the status, write the line and add up the lines, write the total
(`recalc` does not hold the order while it adds up, except in `updatePart` and
`removePart`: `EditPart`). An edit of an invoice holds the invoice's row while it mirrors
the order, and the others wait for it (`InvoiceFree`). `Abandon` is any failure. Amounts
are whole and in the base currency.

### OnlinePayment

| variable | code |
|---|---|
| `intent` | `OnlinePaymentIntent`: status, whether it has a gatewayInvoiceId (`registered`), a paymentId (`linked`), an error; whether expiresAt has passed (`late`) |
| `gateway` | what the gateway knows of it (external) |
| `payment`, `paid` | how many `Payment` rows refer to the intent; `paidAmount` of the invoice |
| `queue`, `failed` | BullMQ's jobs that wait, and the ids of those that failed (external) |
| `worker` | each concurrent `process()`: its job, what it has read, the next await it comes to |
| `used` | the bounds |

`CreateIntent`, `Register` and `RegisterFails` are `createIntent`, before and after the
gateway's answer. `process()` is cut at its awaits: `Take` reads the intent,
`Ask`/`AskUnanswered` the gateway, `MarkPaid` is the CAS to PAID, `Close` the CAS to
FAILED or EXPIRED, `EnqueueNextPoll` the next job. `Look`, `Create`, `CreateDuplicate`,
`CreateFails`, `Link`, `NoteFailure` and `EnqueueFinalize` are `finalizePayment`.
`Create` takes `payments.create` as one step (`createInTx` is one transaction, whose
own races are `WorkOrderMoney`'s subject) that needs the remainder of the invoice and
the unique index of `onlinePaymentIntentId`; it may still throw after its commit.

BullMQ is modelled from how the code uses it: a job whose id is still known is not added
again, a job has one attempt, a completed job is forgotten and a failed one kept
(`removeOnComplete`, `removeOnFail`), and a worker that does not renew its lock loses the
job to another worker, once; the second time the job fails. The worker that lost it
may have stopped (`Crash`) or go on without knowing (`Stall`). The comments of the
processor speak of one active job per intent; with stalled jobs there may be two, and what
keeps a payment from being credited twice is the unique index.

### SupplierOrder

| variable | code |
|---|---|
| `po` | the purchase order: status, `supplierApiStatus`, whether it was cancelled by force |
| `row` | `SupplierOrder`: status, step, what the step column is marked with (`:PENDING`, `RECONCILE`, `DONE`), whether there is an external id, whether a poll is due |
| `enabled` | the switch of the supplier's connection |
| `job`, `worker` | the place job with its attempts; the worker and the await it has come to |
| `wire`, `late`, `held`, `stage` | the request in flight, requests nobody waits for any more, orders the supplier holds, and what it did with them (external) |
| `button`, `cancel`, `poller` | a send, a cancellation and the two pollers, between their reads and writes |

`PickUp`, `Plan`, `List`, `NextOrder`, `Claim`, `Connect`, `Reconcile`, `RepeatableStep`,
`MarkPending`, `Call`, `AnswerOk`, `AnswerRefused`, `AnswerLost`, `PersistFails`,
`ApplyPlaced`, `HandleError` and the two `Refresh` steps are `SupplierOrderSender.run` and
`PlaceOrderRunner` in the order of their awaits. The one step that creates the order
(`NonRepeatable`) is written as `:PENDING` before the request leaves; whoever finds that mark
later reconciles by reference instead of asking again. An answer that is lost leaves a request
in `late`, which the supplier may still carry out (`LateAccept`) or never get (`LateDrop`).
`Crash` gives the job to another worker, or fails it after a second stall. `Transition`,
`SendCheck`/`SendCommit`, `CancelCheck`/`CancelCommit`, `ToggleConnection` are the users;
`Sweep` re-adds a job that was lost; a poller reads, asks and writes in three steps.
Left out: the lines and the quantities the supplier confirms (so PARTIALLY_CONFIRMED and READY
count as CONFIRMED, REJECTED as CANCELLED), the 30 days after which polling stops, the rate
limiter and the token session of the adapters; one worker at a time has the job.

### GoodsReceipt

| variable | code |
|---|---|
| `db` | the committed rows: received quantity of each line, stock rows with each order's net reservation, purchase list items, work orders' status, the supplier order's status, the debt to the supplier |
| `mine` | the rows a transaction holds, as it has written them: a statement sees them over `db`, and another one waits for them |
| `job`, `seen` | the handler, the statement it comes to and what it has read |
| `key`, `receipts` | `IdempotencyKey` rows; how many receipts of a key were committed |

`receive` is nine steps: `StartReceive` (the key is reserved; status and lines are read outside
the transaction), `LockOrders`, `ReceiveLines` (compare and set per line), `PostReceipt`,
`ReadItems`/`Allocate` (`allocateOnReceipt`), `Charge`, `RereadLines`, `CloseForLists` and
`SetStatus`. `StartTransition` closes or cancels the order by hand and shares the last two;
`StartFinish`, `ReleaseStock`, `CancelItems` complete or cancel the work order that waits for
the goods; `StartRelease`, `ReleaseItem`, `ReleaseMovement` give a reservation back;
`StartUnconfirmed`, `ReadUnconfirmed`, `ReturnUnconfirmed` take back what the supplier has not
confirmed. `Abort` is every failure, and leaves the key free, or reserved when even that could
not be written.

Abstractions: rows of one kind are locked in one step (a deadlock over them is an `Abort`); a
replayed answer and a conflict of keys change nothing and are not steps; a commit whose own
answer is lost and the 24 hour purge of keys are not modelled; drafts, units, multiples of an
offer, goods of other orders and the edits of a work order's parts are left out; an item is
split at most once.

### PaymentAftermath

| variable | code |
|---|---|
| `payment` | fiscal status, whether it has a receipt, whether it is reversed |
| `held` | who holds its row |
| `client` | a request: create, retry or reverse, and how far it is |
| `job` | BullMQ's receipt jobs, with attempts left and the execution they are in |
| `queue`, `worker` | payments whose points job is not acknowledged; executions of it |
| `loyalty` | balance, points spent, payments with an EARN and with a reversal of it, and what was taken back |
| `receipts` | receipts the fiscal service has issued (external) |

`CreatePayment`, `EnqueueReceipt`, `MarkFailed` and `QueueEarn` are what follows the commit of a
payment; `RetryFiscal` is the button; `StartReverse`, `ClaimPayment`, `ReadEarns` and
`CommitReverse` are `reverse` with `reverseEarn`. `TakeJob`, `SkipReceipt`, `NoReceipt`,
`SellReceipt`, `WriteReceipt`, `LoseReceipt` and `OnFailed` are the receipt processor,
`TakeEarn`, `HoldPayment`, `Grant` and `NoGrant` the points processor, `Redeem` is `redeem`.
A points job may be delivered again after it was carried out. Left out: which shift and register
a receipt belongs to (an attempt without one fails), the 401 that is tried again at once, the
dead letters, the rate of points and its rounding.

## 3. What TLC checks

| run | question | bounds |
|---|---|---|
| `StockLedger` | counters, batches and journal stay sound and typed under any interleaving, the ledger implements `StockBook`, and every transaction ends, deadlocks included | 2 stock rows, 2 documents, 2 lines, 2 transactions, 8 programs, 2 goods at the start, at most 2 batches per row |
| `WorkOrderStock` | reservations belong to orders, stay within the need, a closed order holds nothing, completion writes off every part | 1 stock row, 2 orders, 3 parts (one still to be added), 1 edit, 1 receipt, 2 transactions, 1 good |
| `WorkOrderStockUnits` | a cancellation returns what was written off although a unit's coefficient changed | the same without edits and receipts, 1 change, 2 goods |
| `WorkOrderMoney` | payments, debts, credits and totals under concurrent requests | 2 requests, 2 payments, lines worth 2 (at most 3), 2 edits, no invoice |
| `WorkOrderInvoice` | PAID means covered and the invoice mirrors the order, when no line is edited | 2 requests, 3 payments, 2 invoices, 1 edit of an invoice |
| `OnlinePayment` | an online payment is credited at most once and only when confirmed, its outcome is final, polling ends, what has arrived is credited or can be seen | 1 intent, 2 workers, an invoice of 2 paid in part at the desk, 1 poll, 2 attempts to finalise, 2 lost jobs, 1 failed call of the database or Redis |
| `SupplierOrder` | the supplier never has an order twice, the rows tell the truth about it, a failed row left nothing, a sent one stays sent, a queued one is left; the whole implements `SupplierPlacement` | 1 external order, 3 steps of which the second creates it, 2 attempts, the poller of due rows, 1 fault (crash, lost enqueue, rate limit, failed write); lost and late answers are not limited |
| `GoodsReceipt` | lines, stock, debt and items agree under racing receipts and closings; a key is good for one receipt; reservations are backed; an order whose last line came is RECEIVED | 2 lines (2 and 1 ordered), 3 keys, 2 requests at a time, an item of a work order that needs 1 and one of nobody, both of 2, each split at most once |
| `PaymentAftermath` | a payment has one receipt, a reversed one none and no points but those spent | 2 payments earning 1 and 2, 2 requests, 2 receipt jobs of 1 attempt, 1 points worker, 1 lost answer |
| `GoodsReceiptClosed` | finding 1 | the instance of `GoodsReceipt` |
| `GoodsReceiptManual` | finding 2 | the same, with both items of nobody |
| `WorkOrderMoneyLostUpdate` | finding 3 | 1 payment, 2 edits |

**Why these bounds are enough to be interesting.** Every race in the code is between
two transactions and one row, or two rows in opposite orders: two transactions and
two rows reach all of them. The initial 2 goods of `StockLedger` are fewer than the programs want
together, so checks fail before and after the lock; write-offs of 2 and 1 split and
drain batches; receipts add a batch to draw from and to return to; a write-off of both rows
and a transfer between them lock the rows in opposite orders. In `WorkOrderStock`
the two orders want 3 goods of 1, and of 3 after the receipt, so one of them is partly reserved or fails to
complete, and the receipt brings goods while either is being closed. With a total of 2
and payments of 1 and 2 a payment can be partial, full or too much. Two invoices let an
edit survive the cancellation of the invoice it read. In `OnlinePayment` intents share
only the invoice's remainder, which payments at the desk exhaust as well; two lost jobs give two
workers on one job and a job that fails; the gateway may fail to answer any number of
times. One failed call is a limit of the code, not of the search: with
two, the note of the error and the next attempt can be lost together, and
`ArrivedIsSettled` fails. In `SupplierOrder` external orders share only the job and the summary; one order and three steps have a step
before, at and after the one that must not be repeated, and two faults hold as well (in two
minutes). In `GoodsReceipt` the three keys can receive the lines in two parts, at once, or
more than was ordered; the items want more than comes, so they are shared, split and
returned. In `PaymentAftermath` one attempt makes every failure the last one; with one payment, two
workers, two attempts and two lost answers the properties hold too. Transactions, requests,
payments and jobs are interchangeable in the definitions, which makes the symmetry sets sound;
the runs with liveness use none.

**Deadlock** in TLC's sense is checked in the `StockLedger` run. Everything else comes to an
end: orders are ARCHIVED or DELETED, intents end, supplier orders are shipped or cancelled,
all goods have come, payments are reversed. The other runs switch it off. Deadlock in the
database's sense is what `EveryTransactionEnds` is about.

**Fairness** (`FairSpec`, three runs). `OnlinePayment`: some worker takes a waiting
job, and an execution goes on to its end (weak fairness of taking and of each worker's
steps): BullMQ promotes delayed jobs and hands them to idle workers, and every await of
`process()` is answered or times out. No fairness is assumed of the gateway, which may
stay "pending" or unreachable for ever, nor of the deadline; the cap on polls ends the chain.
`StockLedger`: a transaction whose next statement can run does
run (weak fairness of the unlocked checks, of the commit and of the victim of a
deadlock): node and PostgreSQL schedule every open connection, and
`deadlock_timeout` always elapses. A transaction waiting for a row gets it when it is
released again and again (strong fairness of `ApplyMovement`/`FailMovement`):
PostgreSQL queues the waiters of a row. `SupplierOrder`: a worker that is not stopped goes on
(every call has a time limit), a request of a user and a poller that has begun are carried
through, and the sweep, a repeatable job, keeps coming when no job exists. No fairness is
assumed of new requests, of failures, or of the supplier.

**Properties worth a comment.**

* `SerialBook` is the refinement: `committed`, seen as two counters per row, moves
  only as if whole programs ran alone, each movement legal at its turn. The checks
  before the lock are stale by then, so the checks after the upsert have to do the work.
* `ReservedWithinQuantity` speaks of `committed`; the proof needs it of `live` too.
* `CancelReturnsWrittenOff` holds where no part is edited late and fails with one late edit:
  it is the edit that breaks it, not the change of a unit.
* `HeldWithinNeed` says of a closed order that it holds nothing. It holds in spite of late
  edits, since a late edit locks the order and releases what exceeds the new need, and adds
  none. It does not hold when a coefficient changes after a receipt: the need shrinks
  under the reservation. That is why units have a run of their own.
* `PaidMeansCovered` holds without edits of lines (`WorkOrderInvoice`) and fails with
  one. `PaidOnlyWhenCovered` holds with edits too: the move to PAID is never wrong, what
  follows it is.
* `OrderedAtMostOnce` counts the orders at the supplier together with the requests that may
  still become one. `PlacementSpec` is the refinement: seen from `SupplierPlacement`, the job, its
  retries, crashes and everything beside it only ever ask when nothing is held or under way.
* `QueuedIsLeft` is about a purchase order shown as QUEUED, which the button refuses to send
  again: job and enqueue may be lost, and the sweep must bring it on.
* `ItemsFollowReceipt` and `ReservedIsBacked` relate the purchase lists to the lines and the
  stock; neither is written in one place of the code. `ReceivedWithinItem`, a part of the
  first (BR-PL-011), holds where only an item of a work order may be left unconfirmed, and
  fails in `GoodsReceiptManual`.
* `FullyReceivedIsClosed` rests on the row of the supplier's account: two receipts that bring
  the last two lines meet there, and the later one then sees the line of the other.
* `ReceiptsExplained` and `PointsExplained` name their exceptions: each receipt too many needs a
  lost answer, and the points a reversed payment keeps are points already spent.
* `PollingEnds` excepts a failed call (`transition` swallows its errors, so an intent whose
  last write failed stays PENDING with no job) and a failed job (kept in the dead
  letters).

Each property of a passing run has a mutant in `PROJECT.json`: a changed definition
(the `Faulty...` operators) which makes TLC refute the property.

## 4. Findings and observations

1. **An item returns to its list for a work order that is closed** (`GoodsReceiptClosed`,
   `purchase-lists/purchase-list-link.service.ts:239`). Closing a supplier order reads which
   work orders are active without locking them. One that is completed or cancelled in between
   has called off its open items before this one became open.
2. **An item receives more than its quantity** (`GoodsReceiptManual`,
   `purchase-lists/purchase-list-receipt.service.ts:144`). A receipt computes what an item takes from
   the quantity it has read, and its write checks the status and what was received, not the
   quantity. `releaseUnconfirmed` cuts the quantity holding the work orders of the items only
   (`supplier-api/orders/supplier-orders.service.ts:404`), so for an item without a work order it may
   commit between the two. The item then shows more than it was for, and the part split off it is
   on the list again although it has come. With a work order both hold its row, and
   `ItemsAlwaysFollow` proves that it cannot happen.
3. **Two concurrent edits lose a line in the total** (`WorkOrderMoneyLostUpdate`,
   `work-orders/work-order-totals.service.ts:34`).
   `recalc` adds up before it holds the order. Completion adds up again, so the charge
   is right (`ChargeIsSumOfLines`), and what is wrong until then is the total that
   payments are checked against.

TLC also showed the following with the same modules and other bounds. They are recorded here
and have no run of their own:

* *Stock.* A part added late (`work-orders.service.ts:2326` reads the status before the
  transaction) is returned on cancellation though never written off, and no batch rises with the
  quantity. Completion and cancellation lock the stock rows in the order of the parts, so two
  orders may cross; PostgreSQL aborts one of them.
* *Money.* A late edit of a line leaves an order PAID that is not covered
  (`work-orders.service.ts:2105`). An edit of a draft invoice may mirror a stale paid amount
  (`invoices.service.ts:560`).
* *Supplier orders.* `CancelledWithoutForceIsUnsent` (BR-SCON-014) fails: the cancellation
  counts what was sent before it writes, and the job may send in between
  (`supplier-api/orders/supplier-order-outbox.service.ts:83`). `PollableIsPolled` fails: a row
  that becomes UNKNOWN is not always given a time to be polled
  (`supplier-order-sender.ts:202`, `:231`). An order cancelled by force with a row in
  SENDING is not reconciled any more.
* *Receiving.* `FullyReceivedIsClosed` fails when the last lines cost nothing: two receipts then
  do not meet on the account (`purchase-orders.service.ts:973`).
* *Receipts.* A sale whose answer is lost is repeated, and the client has two receipts, although
  a comment (`payments/checkbox.processor.ts:46`) says that this is what the retry avoids: it does
  when the write of the receipt was lost after it took effect, not when it never did. An `add` to the queue whose
  answer is lost marks the payment FAILED while the job exists; then it may be reversed and
  still get a receipt. A process that stops between the commit and the `add` leaves QUEUED for ever.

## 5. What is proved

TLAPS checks, for any sets of rows, documents, lines, transactions and programs, any
requests, payments, keys, external orders and jobs, and any bounds:

| theorem | statement |
|---|---|
| `StockProofs!TypeCorrect` | `Spec => []TypeOK` |
| `StockProofs!NeverOverReserved` | `Spec => []ReservedWithinQuantity` |
| `StockProofs!LedgerImplementsBook` | `Spec => SerialBook` |
| `StockProofs!BatchesAlwaysCover` | `Spec => []BatchesCoverQuantity` |
| `StockProofs!JournalAlwaysExplains` | `Spec => []JournalExplainsBatches` |
| `StockProofs!ReservationsAlwaysOwned` | `OrderSpec => []ReservationsOwned` |
| `StockProofs!HeldAlwaysWithinNeed` | `OrderSpec => []HeldWithinNeed`, when `MaxUnitChanges = 0` |
| `StockProofs!CompletionAlwaysWritesOff` | `OrderSpec => CompletionWritesOffParts`, when `MaxUnitChanges = 0` |
| `StockProofs!CancelAlwaysReturns` | `OrderSpec => []CancelReturnsWrittenOff`, when `MaxEdits = 0` |
| `WorkOrderMoneyProofs!MoneyTypeCorrect` | `Spec => []TypeOK` |
| `WorkOrderMoneyProofs!ChargedAndCreditedOnce` | `Spec => []ChargedOnce` |
| `WorkOrderMoneyProofs!OnlyMoneyPays` | `Spec => PaidOnlyWhenCovered` |
| `WorkOrderMoneyProofs!PaidIsAlwaysReceived` | `Spec => []PaidIsReceived` |
| `WorkOrderMoneyProofs!BalanceIsAlwaysExplained` | `Spec => []BalanceExplained` |
| `WorkOrderMoneyProofs!ClosedOrdersSettle` | `Spec => []ClosedSettlesToZero` |
| `WorkOrderMoneyProofs!LinesAreCharged` | `Spec => ChargeIsSumOfLines` |
| `WorkOrderMoneyProofs!PaidOrdersAreCovered` | `Spec => []PaidMeansCovered`, when `MaxEdits = 0` |
| `WorkOrderMoneyProofs!InvoicesAlwaysMirror` | `Spec => []InvoiceMirrorsOrder`, when `MaxInvoiceEdits = 0`, or `MaxEdits = 0` and `MaxInvoiceEdits = 1` |
| `OnlinePaymentProofs!NeverCreditedTwice` | `Spec => []CreditedOnce` |
| `OnlinePaymentProofs!OnlyConfirmedMoney` | `Spec => []CreditedIsConfirmed` |
| `OnlinePaymentProofs!OutcomeNeverChanges` | `Spec => OutcomeIsFinal` |
| `OnlinePaymentProofs!PaymentTypeCorrect` | `Spec => []TypeOK` |
| `SupplierOrderProofs!SupplierTypeCorrect` | `Spec => []TypeOK` |
| `SupplierOrderProofs!OrderedOnce` | `Spec => []OrderedAtMostOnce` |
| `SupplierOrderProofs!KnownTrue` | `Spec => []KnownIsTrue` |
| `SupplierOrderProofs!FailedNothing` | `Spec => []FailedLeftNothing` |
| `SupplierOrderProofs!SentStays` | `Spec => SentStaysSent` |
| `SupplierOrderProofs!ImplementsPlacement` | `Spec => PlacementSpec` |
| `GoodsReceiptProofs!ReceivedOnce` | `Spec => []OncePerKey` |
| `GoodsReceiptProofs!ReceiptsAlwaysBooked` | `Spec => []ReceiptIsBooked` |
| `GoodsReceiptProofs!FullOrdersClose` | `Spec => []FullyReceivedIsClosed`, when every line has a price |
| `GoodsReceiptProofs!ReceiptTypeCorrect` | `Spec => []TypeOK` |
| `GoodsReceiptProofs!ReservationsAlwaysBacked` | `Spec => []ReservedIsBacked` |
| `GoodsReceiptItemProofs!ItemsAlwaysFollow` | `Spec => []ItemsFollowReceipt`, when what may be unconfirmed is wanted by work orders |
| `PaymentAftermathProofs!PointsTakenBack` | `Spec => []PointsFollowReversals` |
| `PaymentAftermathProofs!NoReceiptOfReversed` | `Spec => []ReversedHasNoReceipt` |
| `PaymentAftermathProofs!PointsAlwaysExplained` | `Spec => []PointsExplained` |
| `PaymentAftermathProofs!ReceiptsAlwaysExplained` | `Spec => []ReceiptsExplained` |

Assumptions on the constants: `StockLedgerAssumption` (the "no" values are none of the real ones,
documents and lines are finitely many, the initial quantity and the bound are natural numbers),
`ProgramsAssumption` (programs are lists of movements), `ReturnsAssumption` (above),
`WorkOrderStockAssumption` (types of the tables; `KeyOrder` lists every stock row once, as a sort of
keys does), `WorkOrderMoneyAssumption` (payments are finitely many, bounds are natural numbers, the
initial worth within them), `OnlinePaymentAssumption` (amounts are positive, limits and
bounds natural numbers), `SupplierOrderAssumption` (there is an order, and the step that must
not be repeated is one of the steps), `GoodsReceiptAssumption` (types of the tables; ids of
different tables differ; lines, items, work orders and keys are finitely many), `SplitAssumption`
(a part split off an item has an id of its own, and the order and the good of that item: `splitOff`
creates a row and copies both, `purchase-lists/purchase-list-link.service.ts:333`; used for the items only),
`PaymentAftermathAssumption` (payments, clients and jobs are finitely many, points are positive,
requests are not workers). Finiteness is what a sum needs. No assumption limits what the callers
submit for `NeverOverReserved` and `LedgerImplementsBook`.

Seven theorems have a hypothesis on the constants, because without it the property is false and TLC
shows it.
`PaidOrdersAreCovered` needs `MaxEdits = 0`: an edit of a line read before the order was completed
may raise its total later (observations in section 4). `HeldAlwaysWithinNeed` needs
`MaxUnitChanges = 0`: a smaller coefficient of a unit lowers the need, and no code trims the
reservation. `CompletionAlwaysWritesOff` needs `MaxUnitChanges = 0` too: the list of a completion is
computed from the coefficients it has read, and a unit that changes before the commit leaves the
order with another need than was written off. `CancelAlwaysReturns` needs `MaxEdits = 0`: a
part added or grown late is returned though never written off; units may change.
`InvoicesAlwaysMirror` needs that no invoice is
edited, or one once and no line: an invoice that covers less than its order hides a payment that comes
while the next edit is mirrored. These are the bounds of the runs that check the property, and everything else
in them is arbitrary: the edits of parts, receipts, payments and reversals. `FullOrdersClose` needs
`PricedLines` (there is a line, and every line has a price above zero): two receipts of goods that
cost nothing do not meet at the supplier's account, and leave the order open (section 4).
`ItemsAlwaysFollow` needs `UnconfirmedHasOrder` (no item without a work order is among those the
supplier may leave unconfirmed): finding 2 is what happens otherwise. Items of nobody are received,
split and returned in it like the others; only `ReturnUnconfirmed` does not cut them.

**Sums.** `SumFunctionOnSet` of the community modules is a recursive function whose existence
has to be proved before it can be unfolded, and the library's induction theorems take an operator
as a parameter. `SumTheorems` states induction as a fact about a set of natural numbers
(`NatSetInduction`) and about a set of finite sets (`FiniteSetInduction`), which follows from the
well-foundedness of the natural numbers without an operator, and gets from it that a sum
is an integer, what adding, removing and changing one element does to it, and how sums compare.
`FlattenInduction` of `StockProofs` does the same for lists put together from
pieces.

**The ledger's argument.** `ReservedWithinQuantity` alone is not inductive: a commit
publishes `live`, so `live` must be sound too, and `ApplyMovement` adds to `live`, which
is sound only if the movement obeys the sign rules, which were checked one step
earlier. `LedgerInvariant` is `TypeOK`, `CheckedIsWellFormed` (a movement that has
passed its checks obeys the sign rules) and `RowsSound` (both versions of each row).
`PostCheckKeepsSound` is the heart: whatever was read without the lock, a sound row
plus a movement that passes the checks after the upsert is sound. The checks before
the lock are not used. The batch lemmas (`ConsumedTyped`, `PutBackTyped`,
`OutcomesTyped`) show that no walk over the batches takes more than a batch has, so
`remaining` never becomes negative.

For the refinement, `Replayed` says of every row that its newest version is what the book
gets when it posts the movements its holder has applied so far (`RowReplayed`) to the
committed version, each of them legal at its turn; at the commit the holder has applied its whole
list, which is the abstract step. A transaction that gives up, waits or checks is a stutter.
The batches need `BatchInvariant`: both versions of a row are booked (`BatchesBooked`: the batches add
up to the quantity, and received less taken plus given back is what remains), no two transactions
work for one document (`Exclusive`), so its journal is as committed but on the rows its own transaction
has written (`Untouched`), and in the list of a running transaction a line still to be returned is
out in full and one still to be written off has nothing back (`InOrder`). A return then always finds
what it gives back. These two theorems rest on `OncePerLine`, the guard of `Begin`.

**The argument of the orders' stock.** `ReservationsOwned` speaks of what is committed, and a release
is computed long before it is applied. `OrderInvariant` therefore speaks of what is still to come:
a transaction has its order for itself (`Apart`: the status CAS or the row lock), moves
the reservation of that order only (`OwnMoves`), and the rest of its list releases no more than its
order holds at that moment (`ReleasesCovered`). What each list sums to is proved once
(`ReserveTotals`, `ReleaseTotals`, `WriteOffTotals`, `ReturnTotals`); the hard one is the write-off, where
the parts of an order share what it holds of a row in an unknown order (`OwnReleaseIs`,
`PartsTotals`). Every request then opens a list that fits (`RequestOpens`), and every movement takes from
the list what it moves into the row (`AppliedVisible`). For `HeldWithinNeed`, `NeedInvariant` adds the
opposite bound: what an order holds and what the rest of the list adds to it is at most what
the order may hold when the job ends (`EndsWithinNeed`), a part that is to be added has no quantity
yet and nobody edits it (`PartsAreAddedOnce`), so that an edit which comes late only lets an order
need more, and a receipt shares the goods before it touches the reservation (`JobsMatch`). A closed order gets
nothing in spite of the late edits because what an edit of it leads to is bounded by the
status (`EndGoal`), which the order's lock keeps.

The other two are about the journal of the batches. What a movement adds to it for a line is proved once
(`MovementJournals`: a write-off takes its quantity in full, a return gives back its quantity, the rest adds
nothing), so that applying it moves as much into the journal as it takes off the rest of the list
(`TakesNext`). `TakenInvariant` says that what a completion under way has taken and what its list still takes
are the parts of its order in full (`AllAsTold`; without the hypothesis on units, something for each
part), and that an order has taken nothing before it is closed (`OpenUntaken`). At the
commit nothing is left of the list. `CancelInvariant` adds that a kept order has recorded something for
exactly its parts and had nothing returned, and that of a cancelled one everything recorded
is returned (`LinesBalanced`), and that the list of a
cancellation has one movement for each line that took anything, with the quantity that is
still out (`AllReturnAsTold`).

**The money's argument.** A transition acts on what it has read. `MoneyInvariant` adds
to `TypeOK` that what a request has read permits its transition (`ReadPermits`), and
that the entries match the status (`ChargeHistory`: one charge and no credit in
a charged status; otherwise as many credits as charges, at most one, and one only when
cancelled). The CAS makes the status that was read the present one, the status machine
(`TransitionFacts`) gives that only IN_PROGRESS leads to COMPLETED and only a charged
status is credited, and nothing leaves CANCELLED. `OnlyMoneyPays` needs `ReadPermits`
for the explicit move to PAID, whose condition was checked on the values that the CAS
compares, and `SettledFacts` for the automatic one. For the sums `BookInvariant` adds what makes each
of them follow its rows: a payment under way has an id of its own (`PaymentIdsFree`), a credit note repeats the
charge (`CreditRepeatsCharge`), an order closed without a charge has no money
(`ClosedHasNoMoney`, for which a removal must have read a status that may be removed, `RemovalsRead`).
Then each step changes the order, the payments and the entries together, or none of them. `CoverInvariant`
is the invariant of `PaidOrdersAreCovered`: no edit is under way, so the total of a PAID
order stays. For `InvoicesAlwaysMirror` an edit that holds the invoice has read what is paid and still
knows it when it mirrors (`MirrorKnows`), although a payment does not wait for an invoice it leaves
as it is: there is one edit (`EditedOnce`), until it is mirrored the invoice is for the whole order
(`WholeOrder`), and on such an invoice every payment and reversal shows (`HeldStays`).

**The online payment's argument.** A worker acts on what it knew some steps ago.
`PaymentInvariant` adds to the three safety properties what a worker still knows at its
place (`WorkersKnow`): before the CAS to PAID, that the gateway has confirmed; in
`finalizePayment`, that the intent is PAID; before a link, that the payment exists. Each
is stable, since the gateway's "paid", an intent's PAID and a payment are never taken
back, so the steps of the other workers cannot disturb it (`OthersKnow`). With it
`CreditedIsConfirmed` is inductive. `CreditedOnce` rests on the unique index alone
(`CreateKeeps`): neither the job's id nor the look for an existing payment is used.

**The supplier order's argument.** At most one order follows from what one row tells
(`RowTells`): with a clear step and no external id nothing is held and nothing under way; the
mark `:PENDING` is there whenever a request may be. `SendInvariant` adds what the worker knows at
its place (`WorkerKnows`: it asks only from a clear row, and while it waits for the answer no
other request exists), what the pollers know (`PollersKnow`: what they read before they
asked is stable) and `StagesTell`. Each step of the worker, the supplier, the pollers and
the users keeps it. The refinement (`StepMaps`) then needs no more: `asked`, `held` and `known`
of `SupplierPlacement` are functions of the state, and each step maps to one of its
steps or to none.

**The receipt keys' argument.** `OncePerKey` alone is not inductive. `KeyInvariant` adds that a
receipt under way has its key reserved with nothing received under it (`KeysReserved`) and that no two
have the same key (`KeysApart`). Only `StartReceive` takes a free key, and `Abort` frees one only
before the commit.

**The receipts' argument.** A transaction reads what is committed between its own statements, so
what it sees of a row changes under it until it has written the row. `BookInvariant` therefore says
what each transaction has added to the committed rows so far (`Sees`): a receipt its body to the lines
(`SeesLines`), the same amounts to the goods (`SeesGoods`), their price to the account (`SeesAccount`); a
transition of a work order what it writes off; the others nothing. It has written every row to which it
adds, and no row is written by two (`RowsApart`), so a commit of one changes
nothing that another has added to. A receipt has room for what it adds (`HasRoom`), because it
writes a line only if the line is as it was when the room was checked. At the commit the additions become part of the committed rows
(`CommitPosts`), together with the key that is counted and the status of the work order, which is
`ReceiptIsBooked`. For `FullOrdersClose`, `KnowsShort` adds what a receipt knows that has charged and
will leave the order open: a line is still short, whatever has been committed since it read
the lines, since any other receipt that brings something has to hold the account to do so.

**The reservations' argument.** `ReservedIsBacked` compares what is reserved for a work order with what
the items of its purchase list show, and several transactions change the two in different orders: a
receipt shares what has come, a release lowers the item before it posts the movement, a closing
releases the stock before it cancels the items. `BackedInvariant` keeps `BookInvariant` and says that every version
of a row, committed, held or read, is a sound one (`Versions`); `TypeOK` follows from that. Of each
transaction it says what it has done beyond the committed rows (`Backs`): it moves the reservation only of
orders whose rows it has written (`MovesOwn`), what its items show more, together with what a release still owes
(`Pending`), is no more than what it has reserved more (`LendsBacked`), a closed order has nothing
reserved (`ClosedFree`), and no item becomes ORDERED (`OrdersNone`). And it says what a transaction may rely on
at its place (`InPlace`): a receipt holds every order whose ordered items may get its goods
(`HoldsOrders`, the point of `lockCandidateWorkOrders`), what it has read of the goods and of the held orders is
still so (`KnowsFree`), and a release owes no more than the order has (`KnowsDue`). The
sharing and the cancelling walk over the items; such a walk is a fold, and what it leaves is
proved once by induction on the set of items (`WalkExists`, `WalkEnds`). A commit leaves what its
transaction saw less what it still had to release (`Settles`), and as two transactions never write
one order's row, it changes nothing the other has counted on.

**The items' argument.** `ItemsFollowReceipt` compares rows that different transactions hold: what the
items show is written by receipts, their quantities are cut by closings and returns, and what came is
on the lines. `FollowInvariant` keeps `BackedInvariant` and says of every version of an item that it is sound
(`ItemVersions`: received within the quantity, a received item full, an open one empty, what is split off never
ordered). Of each transaction it says what it has done to the items (`Follows`): it has given those of a good
no more than it brought of it, and nothing before it shares (`GivesWhatCame`, `MayGive`), so that at its
commit the items gain no more than the lines; whoever cuts an item that stays ordered holds its work order (`CutsOwn`), and whoever
splits an item of nobody holds both parts (`SplitsOwn`). And it says what the transaction may rely on: an item that is still ordered
when a receipt writes its share has the quantity that was read (`KnowsOpen`), since whoever cuts it
needs the work order, which the receipt holds (`KnowsFree`); that is the step that fails
for items of nobody. A closing order has read every item that is still ordered
(`KnowsReturned`), since none becomes ORDERED meanwhile (`OrdersNone`), so after its return none is. What the sharing hands
out and what is left of it is what came (`AllocationDeals`), and a return leaves an item whole
(`CloseWhole`, `CutWhole`), both by the induction over the walk.

**The aftermath's argument.** For the points: a reversal that has made its claim and a worker that
grants hold the payment (`ReversalsHold`, `GrantsHold`), so what a reversal has read
about the points is still so when it commits, and a grant never meets a reversed
payment. For the receipts: as long as Redis has lost no answer, exactly one request or
one job cares for the receipt of a QUEUED payment and no other payment has one (`OneCares`), and a
reversal claims only payments that are not QUEUED or DONE. On top of them `PointsBooked` counts the
points (the balance is what was granted less what was taken back and spent) and `ReceiptsBooked` the
receipts: every receipt of a payment beyond the first is paid for by an answer that was lost (`Bounded`),
where a job that may still issue one counts as a receipt, and what is written to a payment was
issued (`SoldIssued`, `WrittenIssued`).

**Only model-checked.** Liveness: `EveryTransactionEnds`, `PollingEnds`, `ArrivedIsSettled`,
`QueuedIsLeft`. Every invariant, every action property and both refinements of the passing
runs have a theorem. The findings and observations are counterexamples of TLC.

## 6. What is not modelled

Prices, costs, VAT, currencies, rounding and units other than through a part's
quantity in base units; floating point (quantities are whole numbers: the epsilon
comparisons of the batch service are exact here); standalone invoices, refunds, the removal and
the refresh of an invoice; the cash desk and the cash shift; confirmed quantities of a supplier;
warranties; automation events that a transition emits; tenant
isolation; permissions.

Documents with one guarded change of status (stock documents, payroll, warranties) have no
module: their only race is the compare-and-set on the status that `WorkOrderMoney` and
`GoodsReceipt` have, and their movement lists are programs of `StockLedger`. Most of the repository, the web client, the reports,
the import and export of files, the reference data and the shared types, keeps no state that several
actors share; a model of it would have no property beyond its own definitions. The
components without a module are listed with their reasons in `PROJECT.json`.

Hazards without a property: the removal of an invoice that is no longer a draft
(`invoices.service.ts:1424`) and its refresh (`:1399`; it is SERIALIZABLE, but a payment is not,
and one that leaves the invoice as it is does not conflict with it), an online payment that arrives after its intent
has expired (`payment-polling.processor.ts:213`; the code relies on the deadline being
the gateway's too), and the rounding of quantities (`batch.service.ts:292`).

## 7. Plan

What comes next, in the order of the hazards that are open:

1. Removal and refresh of an invoice, standalone invoices and refunds, on top of `WorkOrderMoney`.
2. Bank statements matched to payments and undone; the cash register, its operations and shift.
3. Supplier returns and payments, and the quantities a supplier confirms, on top of
   `GoodsReceipt` and `SupplierOrder`.
4. Slots of the calendar, the automation outbox, refresh tokens, the sync cursor, dead letters.
