----------------------------- MODULE GoodsReceipt -----------------------------
(* Goods arrive for a supplier order.  PurchaseOrdersService.receive, the      *)
(* closing of the order and the hooks of the purchase lists run in concurrent  *)
(* PostgreSQL transactions at READ COMMITTED: a transaction sees what is       *)
(* committed and what it has written, holds the rows it has written, and a     *)
(* write waits for a row that another one holds.  Receiving is under an        *)
(* idempotency key.                                                            *)
EXTENDS Integers, Sequences, FiniteSetsExt, SequencesExt, Functions, TLC

CONSTANTS
    Line,      \* lines of the supplier order
    Good,      \* their goods
    LineGood, Ordered, Price,
    Item,      \* items of purchase lists, the parts split off included
    Items,     \* those there are at first, oldest first
    RestOf,    \* the id of the part split off an item
    ItemGood, ItemOrder, Wanted,
    Order,     \* work orders
    NoOrder,
    Need,      \* what an order needs of a good
    Unconfirmed, \* items the supplier has not confirmed
    PO, Account, \* the row of the supplier order, that of the supplier's account
    Key, Body, \* idempotency keys and the quantities their requests receive
    Txn        \* requests served at the same time

ASSUME GoodsReceiptAssumption ==
    /\ LineGood \in [Line -> Good] /\ Ordered \in [Line -> Nat \ {0}] /\ Price \in [Line -> Nat]
    /\ Items \in Seq(Item) /\ RestOf \in [Item -> Item]
    /\ ItemGood \in [Item -> Good] /\ ItemOrder \in [Item -> Order \cup {NoOrder}]
    /\ Wanted \in [Item -> Nat \ {0}] /\ Need \in [Order -> [Good -> Nat]]
    /\ NoOrder \notin Order /\ Unconfirmed \subseteq Item
    /\ Body \in [Key -> [Line -> Nat]]
    \* Ids of different tables differ, and there are finitely many of each.
    /\ Line \cap (Good \cup Item \cup Order) = {} /\ Good \cap (Item \cup Order) = {}
    /\ Item \cap Order = {} /\ {PO, Account} \cap (Line \cup Good \cup Item \cup Order) = {}
    /\ PO # Account
    /\ IsFiniteSet(Line) /\ IsFiniteSet(Item) /\ IsFiniteSet(Order) /\ IsFiniteSet(Key)

\* What is split off an item has an id of its own, and is for the same order and
\* of the same good.
ASSUME SplitAssumption ==
    \A i \in Range(Items) :
        /\ RestOf[i] \notin Range(Items)
        /\ ItemOrder[RestOf[i]] = ItemOrder[i] /\ ItemGood[RestOf[i]] = ItemGood[i]
        /\ \A j \in Range(Items) \ {i} : RestOf[j] # RestOf[i]

VARIABLES
    db,        \* the committed rows: lines, goods in stock, items, work orders,
               \* the supplier order and the account
    mine,      \* the rows each transaction holds, as it has written them
    job,       \* what each request is doing
    seen,      \* the rows it has read and acts on
    key,       \* the rows of IdempotencyKey
    receipts   \* how many receipts of a key were committed
vars == <<db, mine, job, seen, key, receipts>>

Row == Line \cup Good \cup Item \cup Order \cup {PO, Account}

NoRows == [x \in {} |-> 0]
Idle == [op |-> "none", step |-> "idle", arg |-> PO, from |-> "none", to |-> "none"]
Receivable == {"ORDERED", "PARTIAL"}
PO_TRANSITIONS == [ORDERED |-> {"PARTIAL", "RECEIVED", "CANCELLED"},
                   PARTIAL |-> {"RECEIVED", "CANCELLED"}, RECEIVED |-> {}, CANCELLED |-> {}]
\* Mutant: "received" without receiving leaves the items waiting.
FaultyClosedByCancel == {"CANCELLED"}
CLOSED_FOR_LISTS == {"CANCELLED", "RECEIVED"}

NewItem(status, quantity) == [status |-> status, quantity |-> quantity, received |-> 0, reserved |-> 0]
NoItem == NewItem("none", 0)

Init ==
    /\ db = [x \in Row |->
                CASE x \in Line -> 0
                  [] x \in Good -> [quantity |-> 0, reserved |-> 0, net |-> [w \in Order |-> 0]]
                  [] x \in Item -> IF x \in Range(Items) THEN NewItem("ORDERED", Wanted[x]) ELSE NoItem
                  [] x \in Order -> "IN_PROGRESS"
                  [] x = PO -> "ORDERED"
                  [] x = Account -> 0]
    /\ mine = [t \in Txn |-> NoRows]
    /\ job = [t \in Txn |-> Idle]
    /\ seen = [t \in Txn |-> NoRows]
    /\ key = [k \in Key |-> "free"]
    /\ receipts = [k \in Key |-> 0]
-----------------------------------------------------------------------------
(* Transactions. *)

\* Rows, where there are new versions of them those.
Over(new, old) == [x \in DOMAIN new \cup DOMAIN old |-> IF x \in DOMAIN new THEN new[x] ELSE old[x]]

See(t) == Over(mine[t], db)
Waits(t, X) == \E u \in Txn \ {t} : DOMAIN mine[u] \cap X # {}

\* The statement writes these rows, once nobody else holds any of them.
Write(t, rows) == ~Waits(t, DOMAIN rows) /\ mine' = [mine EXCEPT ![t] = Over(rows, mine[t])]
Hold(t, X) == Write(t, [x \in X |-> See(t)[x]])
Goto(t, step) == job' = [job EXCEPT ![t].step = step]
At(t, op, step) == job[t].op = op /\ job[t].step = step
Read(t, X) == seen' = [seen EXCEPT ![t] = Restrict(See(t), X)]

Commit(t, rows) ==
    /\ ~Waits(t, DOMAIN rows)
    /\ db' = Over(rows, See(t))
    /\ mine' = [mine EXCEPT ![t] = NoRows]
    /\ seen' = [seen EXCEPT ![t] = NoRows]
    /\ job' = [job EXCEPT ![t] = Idle]

\* A condition that failed, a lost connection, a time limit, a deadlock or the
\* end of the process: nothing is written.  The key is free for a repetition
\* unless that is not written either.
Abort(t) ==
    /\ job[t] # Idle
    /\ mine' = [mine EXCEPT ![t] = NoRows]
    /\ seen' = [seen EXCEPT ![t] = NoRows]
    /\ job' = [job EXCEPT ![t] = Idle]
    /\ IF job[t].op = "receive"
       THEN \E after \in {"free", "reserved"} : key' = [key EXCEPT ![job[t].arg] = after]
       ELSE UNCHANGED key
    /\ UNCHANGED <<db, receipts>>
-----------------------------------------------------------------------------
(* Items of purchase lists. *)

Min2(a, b) == IF a < b THEN a ELSE b
Less(a, b) == IF a > b THEN a - b ELSE 0
Undelivered(item) == Less(item.quantity, item.received)
WithStatus(items, status) == {i \in Item : items[i].status = status}
Active(rows) == {w \in Order : rows[w] = "IN_PROGRESS"}

\* Parts that were split off are newer than what they were split from.
ByAge == Items \o [n \in DOMAIN Items |-> RestOf[Items[n]]]
NewestFirst == Reverse(ByAge)

\* splitOff, of an item that returns to its list in part.
SplitOff(rows, i, rest, status) ==
    LET keep == rows[i].quantity - rest
    IN [rows EXCEPT ![RestOf[i]] = NewItem(status, rest),
                    ![i] = [rows[i] EXCEPT !.quantity = keep,
                                           !.status = IF keep <= rows[i].received THEN "RECEIVED" ELSE @]]

\* returnToList, of one item.
Returned(rows, i, rest) ==
    LET status == IF ItemOrder[i] \in Active(rows) \cup {NoOrder} THEN "OPEN" ELSE "CANCELLED"
    IN CASE rest = 0 -> [rows EXCEPT ![i].status = "RECEIVED"]
         [] rest > 0 /\ rest = rows[i].quantity -> [rows EXCEPT ![i].status = status]
         [] OTHER -> SplitOff(rows, i, rest, status)

\* What an order shows of a good is cut from its newest item on.
OfOrder(w, g) == {i \in Item : ItemOrder[i] = w /\ ItemGood[i] = g}
Total(rows, X, field) == SumFunction([i \in X |-> rows[i][field]])

\* capReserved: no more than the order has reserved.
CapReserved(rows, w, g) ==
    LET items == OfOrder(w, g)
        Cut(acc, i) ==
            LET cut == Min2(acc.rows[i].reserved, acc.excess)
            IN IF i \notin items THEN acc
               ELSE [rows |-> [acc.rows EXCEPT ![i].reserved = @ - cut], excess |-> acc.excess - cut]
        shown == Total(rows, items, "reserved")
    IN FoldLeft(Cut, [rows |-> rows, excess |-> Less(shown, rows[g].net[w])], NewestFirst).rows

\* onWorkOrderPartsChanged: open items do not cover more than the order needs.
TrimToNeed(rows, w, g) ==
    LET capped == CapReserved(rows, w, g)
        items == OfOrder(w, g)
        open == items \cap WithStatus(capped, "OPEN")
        ordered == items \cap WithStatus(capped, "ORDERED")
        covered == capped[g].net[w] + Total(capped, open, "quantity")
                                    + SumFunction([i \in ordered |-> Undelivered(capped[i])])
        Cut(acc, i) ==
            LET q == acc.rows[i].quantity
            IN CASE i \notin open -> acc
                 [] i \in open /\ q <= acc.excess ->
                       [rows |-> [acc.rows EXCEPT ![i].status = "CANCELLED"], excess |-> acc.excess - q]
                 [] OTHER -> [rows |-> [acc.rows EXCEPT ![i].quantity = q - acc.excess], excess |-> 0]
    IN FoldLeft(Cut, [rows |-> capped, excess |-> Less(covered, Need[w][g])], NewestFirst).rows

Trimmed(rows, orders) ==
    [x \in DOMAIN rows |-> IF x \in Item /\ ItemOrder[x] \in orders
                           THEN TrimToNeed(rows, ItemOrder[x], ItemGood[x])[x] ELSE rows[x]]

Changed(new, old) == Restrict(new, {x \in DOMAIN old : new[x] # old[x]})

\* casItem: written only if it is as it was read.
Unmoved(t, i) ==
    LET now == See(t)[i] IN
    /\ now.status = seen[t][i].status
    /\ now.quantity = seen[t][i].quantity
    /\ now.received = seen[t][i].received

\* returnToList: what is not received of these items leaves the supplier order.  The
\* status and the quantity of an item are written, nothing else.
ReturnToList(t, returned, items) ==
    LET new == Changed(returned, Restrict(seen[t], Item))
        written == [i \in DOMAIN new |-> [See(t)[i] EXCEPT !.status = new[i].status, !.quantity = new[i].quantity]]
        reopened == {ItemOrder[i] : i \in {j \in items : Undelivered(seen[t][j]) > 0}} \cap Active(seen[t])
    IN /\ \A i \in items : Unmoved(t, i)
       /\ Write(t, Changed(Trimmed(Over(written, See(t)), reopened), See(t)))
-----------------------------------------------------------------------------
(* Receiving. *)

Amount(k) == SumFunction([l \in Line |-> Body[k][l] * Price[l]])
Arrived(k, g) == SumFunction([l \in Line |-> IF LineGood[l] = g THEN Body[k][l] ELSE 0])
ActiveLines(k) == {l \in Line : Body[k][l] > 0}
GoodsOf(k) == {LineGood[l] : l \in ActiveLines(k)}

\* The key is reserved; the order and its lines are read and checked.
StartReceive(t, k) ==
    /\ key[k] = "free"
    /\ db[PO] \in Receivable
    /\ \A l \in ActiveLines(k) : db[l] + Body[k][l] <= Ordered[l]
    /\ job[t] = Idle
    /\ job' = [job EXCEPT ![t] = [op |-> "receive", step |-> "begin", arg |-> k, from |-> db[PO], to |-> db[PO]]]
    /\ key' = [key EXCEPT ![k] = "reserved"]
    /\ seen' = [seen EXCEPT ![t] = Restrict(db, ActiveLines(k))]
    /\ UNCHANGED <<db, mine, receipts>>

\* Mutant: the work orders are not held.
FaultyNoCandidates(t) == {}

\* In the transaction: the status again, and lockCandidateWorkOrders.
Candidates(t) ==
    {ItemOrder[i] : i \in {j \in WithStatus(See(t), "ORDERED") : ItemGood[j] \in GoodsOf(job[t].arg)}} \ {NoOrder}
LockOrders(t) ==
    /\ At(t, "receive", "begin")
    /\ See(t)[PO] = job[t].from
    /\ Hold(t, Candidates(t))
    /\ Goto(t, "lines")
    /\ UNCHANGED <<db, seen, key, receipts>>

\* Mutant: a line is written whatever became of it.
FaultyLineUnseen(t, l) == TRUE

\* Each line is written if it is as it was read.
LineUnmoved(t, l) == See(t)[l] = seen[t][l]
ReceiveLines(t) ==
    LET k == job[t].arg IN
    /\ At(t, "receive", "lines")
    /\ \A l \in ActiveLines(k) : LineUnmoved(t, l)
    /\ Write(t, [l \in ActiveLines(k) |-> See(t)[l] + Body[k][l]])
    /\ Goto(t, "stock")
    /\ UNCHANGED <<db, seen, key, receipts>>

PostReceipt(t) ==
    LET k == job[t].arg IN
    /\ At(t, "receive", "stock")
    /\ Write(t, [g \in GoodsOf(k) |-> [See(t)[g] EXCEPT !.quantity = @ + Arrived(k, g)]])
    /\ Goto(t, "items")
    /\ UNCHANGED <<db, seen, key, receipts>>

\* allocateOnReceipt reads the items, what their orders need and what is free,
ReadItems(t) ==
    /\ At(t, "receive", "items")
    /\ Read(t, Item \cup Order \cup GoodsOf(job[t].arg))
    /\ Goto(t, "allocate")
    /\ UNCHANGED <<db, mine, key, receipts>>

\* shares the goods among the items, oldest first, and reserves for an active
\* order what it still needs,
Reserve(rows, i, take) ==
    LET stock == rows[ItemGood[i]]
        w == ItemOrder[i]
    IN IF w \notin Active(rows) THEN 0
       ELSE Min2(take, Min2(Less(Need[w][ItemGood[i]], stock.net[w]), Less(stock.quantity, stock.reserved)))

Given(acc, i) ==
    LET g == ItemGood[i]
        take == IF i \in WithStatus(acc.rows, "ORDERED") THEN Min2(acc.left[g], Undelivered(acc.rows[i])) ELSE 0
        reserve == Reserve(acc.rows, i, take)
        item == [acc.rows[i] EXCEPT !.received = @ + take, !.reserved = @ + reserve,
                                    !.status = IF Undelivered(acc.rows[i]) = take THEN "RECEIVED" ELSE @]
        stock == [acc.rows[g] EXCEPT !.reserved = @ + reserve, !.net[ItemOrder[i]] = @ + reserve]
    IN IF take = 0 THEN acc
       ELSE [left |-> [acc.left EXCEPT ![g] = @ - take],
             rows |-> IF reserve = 0 THEN [acc.rows EXCEPT ![i] = item]
                      ELSE [acc.rows EXCEPT ![i] = item, ![g] = stock]]

Allocation(k, rows) == FoldLeft(Given, [left |-> [g \in Good |-> Arrived(k, g)], rows |-> rows], ByAge).rows

\* and writes an item if it is still ordered and as much of it received.
Allocate(t) ==
    LET given == Changed(Allocation(job[t].arg, seen[t]), Restrict(seen[t], Item \cup GoodsOf(job[t].arg)))
        Backed(g) == [See(t)[g] EXCEPT !.reserved = given[g].reserved, !.net = given[g].net]
        Shared(i) == [See(t)[i] EXCEPT !.received = given[i].received, !.status = given[i].status,
                                       !.reserved = @ + given[i].reserved - seen[t][i].reserved]
    IN /\ At(t, "receive", "allocate")
       /\ \A i \in DOMAIN given \cap Item : /\ See(t)[i].status = "ORDERED"
                                            /\ See(t)[i].received = seen[t][i].received
       /\ Write(t, [x \in DOMAIN given |-> IF x \in Item THEN Shared(x) ELSE Backed(x)])
       /\ Goto(t, "charge")
       /\ UNCHANGED <<db, seen, key, receipts>>

\* Mutant: the charge is left to a later job.
FaultyChargeLater(t) ==
    /\ At(t, "receive", "charge")
    /\ Goto(t, "reread")
    /\ UNCHANGED <<db, mine, seen, key, receipts>>

\* SUPPLIER_CHARGE, unless what came costs nothing.
Charge(t) ==
    /\ At(t, "receive", "charge")
    /\ IF Amount(job[t].arg) > 0
       THEN Write(t, [x \in {Account} |-> See(t)[x] + Amount(job[t].arg)])
       ELSE UNCHANGED mine
    /\ Goto(t, "reread")
    /\ UNCHANGED <<db, seen, key, receipts>>

\* The lines are read again for the new status; onOrderClosed reads the items.
AllReceived(rows) == \A l \in Line : rows[l] >= Ordered[l]
StatusAfter(rows, from) == IF AllReceived(rows) THEN "RECEIVED"
                           ELSE IF \E l \in Line : rows[l] > 0 THEN "PARTIAL" ELSE from
RereadLines(t) ==
    LET to == StatusAfter(See(t), job[t].from) IN
    /\ At(t, "receive", "reread")
    /\ job' = [job EXCEPT ![t].to = to, ![t].step = IF to \in CLOSED_FOR_LISTS THEN "close" ELSE "status"]
    /\ Read(t, Item \cup Order)
    /\ UNCHANGED <<db, mine, key, receipts>>

\* setStatus: the items first, then the order, if it has the status read.
CloseForLists(t) ==
    LET ordered == WithStatus(seen[t], "ORDERED")
        Return(rows, i) == IF i \in ordered THEN Returned(rows, i, Undelivered(rows[i])) ELSE rows
    IN /\ job[t].step = "close"
       /\ ReturnToList(t, FoldLeft(Return, seen[t], ByAge), ordered)
       /\ Goto(t, "status")
       /\ UNCHANGED <<db, seen, key, receipts>>

\* Mutant: when the answer cannot be stored the key is given back.
FaultyGivenBack == {"done", "free"}

\* finalize: the answer is stored, or that fails and the key stays reserved.
Finalized == {"done", "reserved"}
SetStatus(t) ==
    /\ job[t].step = "status"
    /\ See(t)[PO] = job[t].from
    /\ Commit(t, [x \in {PO} |-> job[t].to])
    /\ IF job[t].op = "receive"
       THEN /\ receipts' = [receipts EXCEPT ![job[t].arg] = @ + 1]
            /\ \E after \in Finalized : key' = [key EXCEPT ![job[t].arg] = after]
       ELSE UNCHANGED <<key, receipts>>
-----------------------------------------------------------------------------
(* What happens beside it. *)

\* transition: the order is called off, or called received by hand.
StartTransition(t, to) ==
    /\ to \in PO_TRANSITIONS[db[PO]]
    /\ job[t] = Idle
    /\ job' = [job EXCEPT ![t] = [op |-> "transition", arg |-> PO, from |-> db[PO], to |-> to,
                                  step |-> IF to \in CLOSED_FOR_LISTS THEN "close" ELSE "status"]]
    /\ Read(t, Item \cup Order)
    /\ UNCHANGED <<db, mine, key, receipts>>

\* A work order is completed, or cancelled or removed.
StartFinish(t, w, to) ==
    /\ See(t)[w] = "IN_PROGRESS"
    /\ job[t] = Idle
    /\ job' = [job EXCEPT ![t] = [op |-> "finish", step |-> "release", arg |-> w, from |-> "IN_PROGRESS", to |-> to]]
    /\ Write(t, [x \in {w} |-> to])
    /\ UNCHANGED <<db, seen, key, receipts>>

\* Mutant: a part is written off though there is not enough of it.
FaultyEnough(stock) == TRUE

\* createMovement: what remains covers what others have reserved.
Enough(stock) == stock.reserved <= stock.quantity

\* Its reservations are released, its parts written off on completion.
ReleaseStock(t) ==
    LET w == job[t].arg
        Used(g) == IF job[t].to = "COMPLETED" THEN Need[w][g] ELSE 0
        Left(g) == [See(t)[g] EXCEPT !.quantity = @ - Used(g), !.reserved = @ - See(t)[g].net[w], !.net[w] = 0]
        moved == {g \in Good : Used(g) > 0 \/ See(t)[g].net[w] > 0}
    IN /\ At(t, "finish", "release")
       /\ \A g \in moved : Enough(Left(g))
       /\ Write(t, [g \in moved |-> Left(g)])
       /\ Goto(t, "items")
       /\ UNCHANGED <<db, seen, key, receipts>>

\* onWorkOrderClosed: its open items are cancelled; when its reservations were
\* released its items no longer show them.
CancelItems(t) ==
    LET w == job[t].arg
        of == {i \in Item : ItemOrder[i] = w}
        Closed(r) == [r EXCEPT !.status = IF @ = "OPEN" THEN "CANCELLED" ELSE @,
                               !.reserved = IF job[t].to = "CANCELLED" THEN 0 ELSE @]
    IN /\ At(t, "finish", "items")
       /\ Commit(t, Changed([x \in of |-> Closed(See(t)[x])], Restrict(See(t), of)))
       /\ UNCHANGED <<key, receipts>>

\* releaseReservation reads the item,
StartRelease(t, i) ==
    /\ db[i].reserved > 0 /\ ItemOrder[i] # NoOrder
    /\ job[t] = Idle
    /\ job' = [job EXCEPT ![t] = [op |-> "release", step |-> "item", arg |-> i, from |-> "none", to |-> "none"]]
    /\ Read(t, {i})
    /\ UNCHANGED <<db, mine, key, receipts>>

\* holds the work order, writes the item if it still shows what was read,
ReleaseItem(t) ==
    LET i == job[t].arg
        stock == See(t)[ItemGood[i]]
        amount == Min2(seen[t][i].reserved, Min2(stock.net[ItemOrder[i]], stock.reserved))
    IN /\ At(t, "release", "item")
       /\ amount > 0
       /\ See(t)[i].reserved = seen[t][i].reserved
       /\ Write(t, [x \in {i, ItemOrder[i]} |->
                       IF x = i THEN [See(t)[x] EXCEPT !.reserved = @ - amount] ELSE See(t)[x]])
       /\ Goto(t, "movement")
       /\ UNCHANGED <<db, seen, key, receipts>>

\* and releases as much in the stock.
ReleaseMovement(t) ==
    LET i == job[t].arg
        amount == seen[t][i].reserved - See(t)[i].reserved
    IN /\ At(t, "release", "movement")
       /\ Commit(t, [g \in {ItemGood[i]} |-> [See(t)[g] EXCEPT !.reserved = @ - amount,
                                                                !.net[ItemOrder[i]] = @ - amount]])
       /\ UNCHANGED <<key, receipts>>

\* releaseUnconfirmed holds the work orders of the items,
StartUnconfirmed(t) ==
    /\ job[t] = Idle
    /\ job' = [job EXCEPT ![t] = [op |-> "unconfirmed", step |-> "read", arg |-> PO, from |-> "none", to |-> "none"]]
    /\ WithStatus(db, "ORDERED") \cap Unconfirmed # {}
    /\ Hold(t, {ItemOrder[i] : i \in WithStatus(db, "ORDERED")} \ {NoOrder})
    /\ UNCHANGED <<db, seen, key, receipts>>

\* reads them,
ReadUnconfirmed(t) ==
    /\ At(t, "unconfirmed", "read")
    /\ Read(t, Item \cup Order)
    /\ Goto(t, "return")
    /\ UNCHANGED <<db, mine, key, receipts>>

\* and returns as much of one as the supplier has not confirmed.
ReturnUnconfirmed(t, i, cut) ==
    /\ At(t, "unconfirmed", "return")
    /\ i \in WithStatus(seen[t], "ORDERED") /\ cut <= Undelivered(seen[t][i])
    /\ ReturnToList(t, Returned(seen[t], i, cut), {i})
    /\ Goto(t, "end")
    /\ UNCHANGED <<db, seen, key, receipts>>

EndUnconfirmed(t) ==
    /\ At(t, "unconfirmed", "end")
    /\ Commit(t, NoRows)
    /\ UNCHANGED <<key, receipts>>
-----------------------------------------------------------------------------
ReceiveStep(t) ==
    \/ \E k \in Key : StartReceive(t, k)
    \/ LockOrders(t) \/ ReceiveLines(t) \/ PostReceipt(t) \/ ReadItems(t) \/ Allocate(t)
    \/ Charge(t) \/ RereadLines(t) \/ CloseForLists(t) \/ SetStatus(t)
OtherStep(t) ==
    \/ \E to \in {"PARTIAL", "RECEIVED", "CANCELLED"} : StartTransition(t, to)
    \/ \E w \in Order, to \in {"COMPLETED", "CANCELLED"} : StartFinish(t, w, to)
    \/ ReleaseStock(t) \/ CancelItems(t)
    \/ \E i \in Item : StartRelease(t, i)
    \/ ReleaseItem(t) \/ ReleaseMovement(t)
    \/ StartUnconfirmed(t) \/ ReadUnconfirmed(t) \/ EndUnconfirmed(t)
    \/ \E i \in Unconfirmed : \E cut \in 1..Wanted[i] : ReturnUnconfirmed(t, i, cut)

Next == \E t \in Txn : ReceiveStep(t) \/ OtherStep(t) \/ Abort(t)
Spec == Init /\ [][Next]_vars
-----------------------------------------------------------------------------
(* Properties of what is committed. *)

ItemType == [status: {"none", "OPEN", "ORDERED", "RECEIVED", "CANCELLED"},
             quantity: Nat, received: Nat, reserved: Nat]
StockType == [quantity: Nat, reserved: Nat, net: [Order -> Nat]]
RowsTyped(rows) ==
    /\ \A l \in Line \cap DOMAIN rows : rows[l] \in Nat
    /\ \A g \in Good \cap DOMAIN rows : rows[g] \in StockType
    /\ \A i \in Item \cap DOMAIN rows : rows[i] \in ItemType
    /\ \A w \in Order \cap DOMAIN rows : rows[w] \in {"IN_PROGRESS", "COMPLETED", "CANCELLED"}
    /\ PO \in DOMAIN rows => rows[PO] \in DOMAIN PO_TRANSITIONS
    /\ Account \in DOMAIN rows => rows[Account] \in Nat

\* Every version of every row is of its type; quantities never go below zero.
TypeOK ==
    /\ DOMAIN db = Row /\ RowsTyped(db)
    /\ \A t \in Txn : /\ DOMAIN mine[t] \subseteq Row /\ RowsTyped(mine[t])
                      /\ DOMAIN seen[t] \subseteq Row /\ RowsTyped(seen[t])
    /\ key \in [Key -> {"free", "reserved", "done"}]
    /\ receipts \in [Key -> Nat]

Received(g) == SumFunction([l \in Line |-> IF LineGood[l] = g THEN db[l] ELSE 0])
WrittenOff(g) == SumFunction([w \in Order |-> IF db[w] = "COMPLETED" THEN Need[w][g] ELSE 0])

\* However receipts race, a line never receives more than was ordered, its
\* receipts, the stock and the debt to the supplier tell the same.
ReceiptIsBooked ==
    /\ \A l \in Line : /\ db[l] <= Ordered[l]
                       /\ db[l] = SumFunction([k \in Key |-> receipts[k] * Body[k][l]])
    /\ \A g \in Good : db[g].quantity + WrittenOff(g) = Received(g)
    /\ db[Account] = SumFunction([l \in Line |-> db[l] * Price[l]])

\* A key is good for one receipt, whenever its answer was lost.
OncePerKey == \A k \in Key : receipts[k] <= 1 /\ (key[k] = "free" => receipts[k] = 0)

\* BR-PL-011: an item receives no more than what is left of it.
ReceivedWithinItem == \A i \in Item : db[i].received <= db[i].quantity

\* The items never show more goods than came, and none waits for an order that
\* brings nothing any more; what is wanted without a work order is, to the
\* last piece, received, ordered or on the list again.
ItemsFollowReceipt ==
    /\ \A g \in Good : Total(db, {i \in Item : ItemGood[i] = g}, "received") <= Received(g)
    /\ ReceivedWithinItem
    /\ \A i \in WithStatus(db, "RECEIVED") : db[i].received = db[i].quantity
    /\ db[PO] \in {"CANCELLED", "RECEIVED"} => WithStatus(db, "ORDERED") = {}
    /\ \A i \in Range(Items) : ItemOrder[i] = NoOrder =>
          db[i].quantity + db[RestOf[i]].quantity = Wanted[i]

\* Reservations belong to active orders, within their need and the stock, and
\* the items of an order show no more of them than there is.
ReservedIsBacked ==
    /\ \A g \in Good : /\ db[g].reserved <= db[g].quantity
                       /\ db[g].reserved = SumFunction([w \in Order |-> db[g].net[w]])
    /\ \A w \in Order, g \in Good :
          /\ db[g].net[w] <= Need[w][g]
          /\ db[w] # "IN_PROGRESS" => db[g].net[w] = 0
          /\ db[w] # "COMPLETED" => Total(db, OfOrder(w, g), "reserved") <= db[g].net[w]

\* An order whose last line has come is RECEIVED, though the receipts that
\* brought the last lines did not see each other.
FullyReceivedIsClosed == AllReceived(db) => db[PO] = "RECEIVED"

\* BR-PL-013: a closed work order has no open items.
ClosedOrderWantsNothing ==
    \A i \in WithStatus(db, "OPEN") : ItemOrder[i] \in Active(db) \cup {NoOrder}
=============================================================================
