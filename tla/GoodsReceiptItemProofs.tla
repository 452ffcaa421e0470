----------------------- MODULE GoodsReceiptItemProofs -----------------------
(* Proofs about the items of GoodsReceipt: they show no more than what came.    *)
(* Items follow what came: a transaction has given the items of a good what it  *)
(* received at most, and has cut or returned only what it holds.                *)
EXTENDS GoodsReceiptProofs

\* An item never receives more than its quantity, a received one neither less; an open
\* one has received nothing; what is split off is never ordered; what is ordered for
\* nobody is ordered as it was wanted.
ItemSound(i, v) ==
    /\ v.received <= v.quantity
    /\ v.status = "RECEIVED" => v.received = v.quantity
    /\ v.status = "OPEN" => v.received = 0
    /\ i \notin Range(Items) => v.received = 0 /\ v.status # "ORDERED"
    /\ v.status = "ORDERED" /\ ItemOrder[i] = NoOrder => v.quantity = Wanted[i]
ItemsSound(rows) == \A i \in Item \cap DOMAIN rows : ItemSound(i, rows[i])
ItemVersions == ItemsSound(db) /\ \A t \in Txn : ItemsSound(mine[t]) /\ ItemsSound(seen[t])

\* The items of a good, and those nobody's order wants; the two parts of one of these.
OfGood(g) == {i \in Item : ItemGood[i] = g}
Nobodys == {i \in Range(Items) : ItemOrder[i] = NoOrder}
Whole(rows) == \A i \in Nobodys : rows[i].quantity + rows[RestOf[i]].quantity = Wanted[i]

\* What is committed of the items.
ClosedNoneOrdered == db[PO] \in CLOSED_FOR_LISTS => WithStatus(db, "ORDERED") = {}
NoMoreThanCame == \A g \in Good : Total(db, OfGood(g), "received") <= Received(g)

\* What items have received more.
More(new, old, X) == SumFunction([i \in X |-> new[i].received - old[i].received])

\* What a transaction has given the items of a good, and what it may have given them.
Gained(t, g) == More(See(t), db, OfGood(g))
BeforeShares == BeforeStock \cup {"items", "allocate"}
MayGive(t, g) == IF Past(t, BeforeShares) THEN Arrived(job[t].arg, g) ELSE 0
GivesWhatCame(t) == \A g \in Good : Gained(t, g) <= MayGive(t, g)

\* An item that stays ordered is cut by nobody but a transaction that holds its order,
\* and one of nobody is cut in two by nobody but a transaction that holds both parts.
CutsOwn(t) ==
    \A i \in Item : See(t)[i].status = "ORDERED" /\ See(t)[i].quantity # db[i].quantity =>
        i \in Unconfirmed /\ ItemOrder[i] \in DOMAIN mine[t]
SplitsOwn(t) ==
    \A i \in Nobodys : \A x \in {i, RestOf[i]} :
        See(t)[x].quantity # db[x].quantity => {i, RestOf[i]} \subseteq DOMAIN mine[t]

\* What it knows of the items at its place.
OrdersHeld(t, rows) ==
    \A i \in Item : rows[i].status = "ORDERED" => ItemOrder[i] \in DOMAIN mine[t] \cup {NoOrder}
KnowsReturned(t) ==
    /\ job[t].step = "close" =>
          /\ \A i \in Item : See(t)[i].status = "ORDERED" => seen[t][i].status = "ORDERED"
          /\ Whole(seen[t])
    /\ job[t].step = "status" /\ job[t].to \in CLOSED_FOR_LISTS => WithStatus(See(t), "ORDERED") = {}
KnowsOpen(t) ==
    At(t, "receive", "allocate") =>
        \A i \in Item : /\ seen[t][i].status = "ORDERED" /\ See(t)[i].status = "ORDERED"
                        /\ ItemGood[i] \in GoodsOf(job[t].arg)
                        => See(t)[i].quantity = seen[t][i].quantity
KnowsHeld(t) ==
    /\ At(t, "unconfirmed", "read") => OrdersHeld(t, See(t))
    /\ At(t, "unconfirmed", "return") => OrdersHeld(t, seen[t])
Follows(t) ==
    /\ GivesWhatCame(t) /\ CutsOwn(t) /\ SplitsOwn(t) /\ Whole(See(t))
    /\ KnowsReturned(t) /\ KnowsOpen(t) /\ KnowsHeld(t)
FollowInvariant ==
    /\ BackedInvariant /\ ItemVersions
    /\ ClosedNoneOrdered /\ NoMoreThanCame /\ Whole(db)
    /\ \A t \in Txn : Follows(t)

\* Every version of an item that is seen is sound.
LEMMA SeesItems ==
    ASSUME Versions, ItemVersions, NEW t \in Txn, NEW i \in Item
    PROVE  /\ ItemSound(i, See(t)[i]) /\ ItemSound(i, db[i])
           /\ i \in DOMAIN seen[t] => ItemSound(i, seen[t][i])
  <1>1. See(t)[i] = IF i \in DOMAIN mine[t] THEN mine[t][i] ELSE db[i]
    BY SeesRow, Tables DEF Versions
  <1>2. i \in DOMAIN db
    BY Tables DEF Versions
  <1> QED
    BY <1>1, <1>2 DEF ItemVersions, ItemsSound

\* A split-off part is another item, for the same order and of the same good.
LEMMA RestsAre ==
    ASSUME NEW i \in Range(Items)
    PROVE  /\ i \in Item /\ RestOf[i] \in Item /\ RestOf[i] \notin Range(Items) /\ RestOf[i] # i
           /\ ItemOrder[RestOf[i]] = ItemOrder[i] /\ ItemGood[RestOf[i]] = ItemGood[i]
           /\ \A j \in Range(Items) : RestOf[j] = RestOf[i] => j = i
           /\ Wanted[i] \in Nat
  <1>1. Items \in Seq(Item)
    BY GoodsReceiptAssumption
  <1>2. i \in Item
    BY <1>1 DEF Range
  <1> QED
    BY <1>2, SplitAssumption, GoodsReceiptAssumption

\* The items at first are among all of them.
LEMMA ItemsAged ==
    ASSUME NEW i \in Range(Items)
    PROVE  \E j \in DOMAIN ByAge : ByAge[j] = i
  <1> DEFINE rests == [n \in DOMAIN Items |-> RestOf[Items[n]]]
  <1>1. Items \in Seq(Item) /\ Len(Items) \in Nat /\ DOMAIN Items = 1..Len(Items)
    BY GoodsReceiptAssumption
  <1>2. PICK j \in 1..Len(Items) : Items[j] = i
    BY <1>1 DEF Range
  <1>3. rests \in Seq(Item)
    <2>1. \A n \in 1..Len(Items) : RestOf[Items[n]] \in Item
      BY <1>1, GoodsReceiptAssumption
    <2>2. rests \in [1..Len(Items) -> Item]
      BY <1>1, <2>1
    <2> HIDE DEF rests
    <2> QED
      BY <1>1, <2>2
  <1> HIDE DEF rests
  <1>4. ByAge = Items \o rests
    BY DEF ByAge, rests
  <1>5. ByAge[j] = i /\ j \in DOMAIN ByAge
    BY <1>1, <1>2, <1>3, <1>4
  <1> QED
    BY <1>5
-----------------------------------------------------------------------------
(* The closing of the order, item by item. *)

\* An ordered item as the closing of the order leaves it.
Left(v, old) ==
    /\ v \in ItemType /\ v.received = old.received
    /\ \/ v.status = "RECEIVED" /\ v.quantity = old.received
       \/ v.status \in {"OPEN", "CANCELLED"} /\ v.quantity = old.quantity /\ old.received = 0

\* Rows of which items of X are left so; what one of them lost is the part split off it.
PartsKept(r, rows, i) ==
    \/ r[i].quantity = rows[i].quantity /\ r[RestOf[i]] = rows[RestOf[i]]
    \/ /\ r[i].quantity < rows[i].quantity
       /\ \E status \in {"OPEN", "CANCELLED"} : r[RestOf[i]] = NewItem(status, rows[i].quantity - r[i].quantity)
PartedRows(rows, X) ==
    {r \in [DOMAIN rows -> {rows[x] : x \in DOMAIN rows} \cup ItemType] :
        /\ \A i \in X : (r[i] = rows[i] \/ Left(r[i], rows[i])) /\ PartsKept(r, rows, i)
        /\ \A x \in DOMAIN rows : x \notin X /\ (\A i \in X : x # RestOf[i]) => r[x] = rows[x]}

\* Returned as much as is not received, an item is left so.
LEMMA LeavesOne ==
    ASSUME NEW v \in ItemType, NEW old \in ItemType, old.received <= old.quantity, v = old \/ Left(v, old)
    PROVE  LET rest == Undelivered(v)
           IN /\ rest = 0 => Left([v EXCEPT !.status = "RECEIVED"], old)
              /\ rest > 0 => v.received = old.received /\ v.quantity = old.quantity
              /\ rest > 0 /\ rest = v.quantity =>
                    \A status \in {"OPEN", "CANCELLED"} : Left([v EXCEPT !.status = status], old)
              /\ rest > 0 /\ rest # v.quantity =>
                    /\ v = old /\ v.quantity - rest = v.received /\ v.quantity - rest < v.quantity
                    /\ Left([v EXCEPT !.quantity = v.received, !.status = "RECEIVED"], old)
              /\ rest \in Nat
  <1>1. /\ v.quantity \in Nat /\ v.received \in Nat /\ v.reserved \in Nat
        /\ old.quantity \in Nat /\ old.received \in Nat
    BY ItemNat
  <1> DEFINE rest == Undelivered(v)
  <1>2. rest = IF v.quantity > v.received THEN v.quantity - v.received ELSE 0
    BY DEF Undelivered, Less
  <1> HIDE DEF rest
  <1>3. v.received = old.received /\ (v.status # "RECEIVED" \/ v = old => v.quantity = old.quantity)
    BY DEF Left
  <1>4. rest > 0 => v.quantity = old.quantity /\ (v = old \/ old.received = 0)
    BY <1>1, <1>2, <1>3 DEF Left
  <1>5. rest = 0 => v.quantity = old.received
    BY <1>1, <1>2, <1>3 DEF Left
  <1>6. \A status \in {"OPEN", "CANCELLED", "RECEIVED"} :
           LET e == [v EXCEPT !.status = status]
           IN e \in ItemType /\ e.status = status /\ e.received = v.received /\ e.quantity = v.quantity
    BY DEF ItemType
  <1>7. LET e == [v EXCEPT !.quantity = v.received, !.status = "RECEIVED"]
        IN e \in ItemType /\ e.status = "RECEIVED" /\ e.received = v.received /\ e.quantity = v.received
    BY <1>1 DEF ItemType
  <1>8. rest = 0 => Left([v EXCEPT !.status = "RECEIVED"], old)
    BY <1>3, <1>5, <1>6 DEF Left
  <1>9. rest > 0 /\ rest = v.quantity => \A status \in {"OPEN", "CANCELLED"} : Left([v EXCEPT !.status = status], old)
    <2> SUFFICES ASSUME rest > 0, rest = v.quantity, NEW status \in {"OPEN", "CANCELLED"}
                 PROVE  Left([v EXCEPT !.status = status], old)
      OBVIOUS
    <2>1. v.received = 0
      BY <1>1, <1>2
    <2> QED
      BY <1>3, <1>4, <1>6, <2>1 DEF Left
  <1>10. rest > 0 /\ rest # v.quantity =>
            /\ v = old /\ v.quantity - rest = v.received /\ v.quantity - rest < v.quantity
            /\ Left([v EXCEPT !.quantity = v.received, !.status = "RECEIVED"], old)
    <2> SUFFICES ASSUME rest > 0, rest # v.quantity
                 PROVE  /\ v = old /\ v.quantity - rest = v.received /\ v.quantity - rest < v.quantity
                        /\ Left([v EXCEPT !.quantity = v.received, !.status = "RECEIVED"], old)
      OBVIOUS
    <2>1. v.received # 0 /\ v.quantity - rest = v.received /\ v.quantity - rest < v.quantity
      BY <1>1, <1>2
    <2>2. v = old
      BY <1>3, <1>4, <2>1
    <2> QED
      BY <1>3, <1>7, <2>1, <2>2 DEF Left
  <1> QED
    BY <1>1, <1>2, <1>3, <1>4, <1>8, <1>9, <1>10 DEF rest

\* One item after the other is left so.
LEMMA PartsOne ==
    ASSUME NEW rows, ItemsTyped(rows), NEW X \in SUBSET Range(Items),
           \A i \in X : rows[i].received <= rows[i].quantity,
           NEW a \in PartedRows(rows, X), NEW i \in X
    PROVE  /\ Returned(a, i, Undelivered(a[i])) \in PartedRows(rows, X)
           /\ Left(Returned(a, i, Undelivered(a[i]))[i], rows[i])
           /\ \A j \in X \ {i} : Returned(a, i, Undelivered(a[i]))[j] = a[j]
  <1> DEFINE status == IF ItemOrder[i] \in Active(a) \cup {NoOrder} THEN "OPEN" ELSE "CANCELLED"
             rest == Undelivered(a[i])
             new == Returned(a, i, rest)
             V == {rows[x] : x \in DOMAIN rows} \cup ItemType
  <1>1. /\ i \in Item /\ i \in Range(Items) /\ i \in DOMAIN rows /\ RestOf[i] \in DOMAIN rows
        /\ RestOf[i] \in Item /\ RestOf[i] # i /\ RestOf[i] \notin X
        /\ \A j \in X : /\ j \in Range(Items) /\ j \in DOMAIN rows /\ RestOf[j] \in DOMAIN rows
                        /\ j # RestOf[i] /\ i # RestOf[j]
                        /\ RestOf[j] = RestOf[i] => j = i
    BY RestsAre DEF ItemsTyped
  <1>2. /\ a \in [DOMAIN rows -> V] /\ DOMAIN a = DOMAIN rows
        /\ \A j \in X : (a[j] = rows[j] \/ Left(a[j], rows[j])) /\ PartsKept(a, rows, j)
        /\ \A x \in DOMAIN rows : x \notin X /\ (\A j \in X : x # RestOf[j]) => a[x] = rows[x]
    BY DEF PartedRows
  <1>3. rows[i] \in ItemType /\ a[i] \in ItemType
    BY <1>1, <1>2 DEF ItemsTyped, Left
  <1>4. /\ rest = 0 => Left([a[i] EXCEPT !.status = "RECEIVED"], rows[i])
        /\ rest > 0 => a[i].received = rows[i].received /\ a[i].quantity = rows[i].quantity
        /\ rest > 0 /\ rest = a[i].quantity =>
              \A s \in {"OPEN", "CANCELLED"} : Left([a[i] EXCEPT !.status = s], rows[i])
        /\ rest > 0 /\ rest # a[i].quantity =>
              /\ a[i] = rows[i] /\ a[i].quantity - rest = a[i].received /\ a[i].quantity - rest < a[i].quantity
              /\ Left([a[i] EXCEPT !.quantity = a[i].received, !.status = "RECEIVED"], rows[i])
        /\ rest \in Nat
    BY <1>2, <1>3, LeavesOne
  <1>5. status \in {"OPEN", "CANCELLED"}
    OBVIOUS
  <1>6. new = CASE rest = 0 -> [a EXCEPT ![i].status = "RECEIVED"]
                [] rest > 0 /\ rest = a[i].quantity -> [a EXCEPT ![i].status = status]
                [] OTHER -> SplitOff(a, i, rest, status)
    BY DEF Returned
  <1> HIDE DEF status, rest, new
  <1>7. a[i].quantity \in Nat /\ a[i].received \in Nat /\ rows[i].quantity \in Nat
    BY <1>3, ItemNat
  <1>8. ASSUME NEW v, Left(v, rows[i]), v.quantity = a[i].quantity, new = [a EXCEPT ![i] = v]
        PROVE  new \in PartedRows(rows, X) /\ Left(new[i], rows[i]) /\ \A j \in X \ {i} : new[j] = a[j]
    <2>1. new[i] = v /\ \A x \in DOMAIN rows \ {i} : new[x] = a[x]
      BY <1>1, <1>2, <1>8
    <2>2. v \in V
      BY <1>8 DEF Left
    <2>3. new \in [DOMAIN rows -> V]
      BY <1>1, <1>2, <1>8, <2>2
    <2>4. ASSUME NEW j \in X PROVE (new[j] = rows[j] \/ Left(new[j], rows[j])) /\ PartsKept(new, rows, j)
      <3>1. new[RestOf[j]] = a[RestOf[j]] /\ new[j].quantity = a[j].quantity
        BY <1>1, <1>8, <2>1
      <3>2. PartsKept(new, rows, j)
        BY <1>2, <3>1 DEF PartsKept
      <3> QED
        BY <1>1, <1>2, <1>8, <2>1, <3>2
    <2>5. \A x \in DOMAIN rows : x \notin X /\ (\A j \in X : x # RestOf[j]) => new[x] = rows[x]
      BY <1>2, <2>1
    <2> QED
      BY <1>1, <1>8, <2>1, <2>3, <2>4, <2>5 DEF PartedRows
  <1>9. CASE rest = 0
    <2> DEFINE v == [a[i] EXCEPT !.status = "RECEIVED"]
    <2>1. new = [a EXCEPT ![i] = v]
      BY <1>6, <1>9
    <2>2. v.quantity = a[i].quantity /\ Left(v, rows[i])
      BY <1>3, <1>4, <1>9 DEF ItemType
    <2> HIDE DEF v
    <2>3. new \in PartedRows(rows, X) /\ Left(new[i], rows[i]) /\ \A j \in X \ {i} : new[j] = a[j]
      BY <1>8, <2>1, <2>2
    <2> QED
      BY <2>3 DEF new, rest
  <1>10. CASE rest > 0 /\ rest = a[i].quantity
    <2> DEFINE v == [a[i] EXCEPT !.status = status]
    <2>1. new = [a EXCEPT ![i] = v]
      BY <1>6, <1>10
    <2>2. v.quantity = a[i].quantity /\ Left(v, rows[i])
      BY <1>3, <1>4, <1>5, <1>10 DEF ItemType
    <2> HIDE DEF v
    <2>3. new \in PartedRows(rows, X) /\ Left(new[i], rows[i]) /\ \A j \in X \ {i} : new[j] = a[j]
      BY <1>8, <2>1, <2>2
    <2> QED
      BY <2>3 DEF new, rest
  <1>11. CASE rest > 0 /\ rest # a[i].quantity
    <2> DEFINE keep == a[i].quantity - rest
               v == [a[i] EXCEPT !.quantity = keep, !.status = IF keep <= a[i].received THEN "RECEIVED" ELSE @]
               u == NewItem(status, rest)
               r == [a EXCEPT ![RestOf[i]] = u, ![i] = v]
    <2>1. new = r
      BY <1>6, <1>11 DEF SplitOff
    <2>2. keep = a[i].received /\ keep < a[i].quantity /\ a[i] = rows[i] /\ rest = rows[i].quantity - keep
      BY <1>4, <1>7, <1>11
    <2>3. Left(v, rows[i]) /\ v.quantity = keep
      <3>1. keep <= a[i].received
        BY <1>7, <2>2
      <3>2. v = [a[i] EXCEPT !.quantity = a[i].received, !.status = "RECEIVED"]
        BY <2>2, <3>1
      <3>3. Left(v, rows[i])
        BY <1>4, <1>11, <3>2
      <3> HIDE DEF keep
      <3>4. v.quantity = keep
        BY <1>3 DEF ItemType
      <3> QED
        BY <3>3, <3>4
    <2>4. u \in ItemType
      BY <1>4, <1>5 DEF NewItem, ItemType
    <2> HIDE DEF v, u, keep
    <2>5. /\ r[i] = v /\ r[RestOf[i]] = u /\ DOMAIN r = DOMAIN rows
          /\ \A x \in DOMAIN rows \ {i, RestOf[i]} : r[x] = a[x]
      BY <1>1, <1>2
    <2>6. r \in [DOMAIN rows -> V]
      BY <1>1, <1>2, <2>3, <2>4 DEF Left
    <2> HIDE DEF r
    <2>7. ASSUME NEW j \in X PROVE (r[j] = rows[j] \/ Left(r[j], rows[j])) /\ PartsKept(r, rows, j)
      <3>1. CASE j = i
        <4>1. r[i].quantity < rows[i].quantity /\ r[RestOf[i]] = NewItem(status, rows[i].quantity - r[i].quantity)
          BY <2>2, <2>3, <2>5 DEF u
        <4> QED
          BY <1>5, <2>3, <2>5, <3>1, <4>1 DEF PartsKept
      <3>2. CASE j # i
        <4>1. r[j] = a[j] /\ r[RestOf[j]] = a[RestOf[j]]
          BY <1>1, <2>5, <3>2
        <4> QED
          BY <1>2, <4>1 DEF PartsKept
      <3> QED
        BY <3>1, <3>2
    <2>8. \A x \in DOMAIN rows : x \notin X /\ (\A j \in X : x # RestOf[j]) => r[x] = rows[x]
      BY <1>2, <2>5
    <2>9. r \in PartedRows(rows, X)
      BY <2>6, <2>7, <2>8 DEF PartedRows
    <2>10. \A j \in X \ {i} : r[j] = a[j]
      BY <1>1, <2>5
    <2> QED
      BY <2>1, <2>3, <2>5, <2>9, <2>10 DEF new, rest
  <1> QED
    BY <1>4, <1>9, <1>10, <1>11

\* The closing of the order leaves every item that it read as ordered so.
LEMMA CloseLeaves ==
    ASSUME NEW rows, ItemsTyped(rows), NEW X \in SUBSET Range(Items),
           \A i \in X : rows[i].received <= rows[i].quantity
    PROVE  LET Return(r, i) == IF i \in X THEN Returned(r, i, Undelivered(r[i])) ELSE r
               r == FoldLeft(Return, rows, ByAge)
           IN r \in PartedRows(rows, X) /\ \A i \in X : Left(r[i], rows[i])
  <1> DEFINE Cut(r, i) == IF i \in X THEN Returned(r, i, Undelivered(r[i])) ELSE r
             base == rows
             A == PartedRows(rows, X)
             Walk(h) == h = [s \in SUBSET DOMAIN ByAge |->
                                IF s = {} THEN base ELSE Cut(h[s \ {Max(s)}], ByAge[Max(s)])]
             all == FoldLeft(Cut, rows, ByAge)
  <1> SUFFICES all \in A /\ \A i \in X : Left(all[i], rows[i])
    OBVIOUS
  <1>1. all = (CHOOSE h : Walk(h))[DOMAIN ByAge]
    BY DEF FoldLeft, MapThenFoldSet
  <1>2. base \in A
    BY DEF PartedRows, PartsKept, ItemsTyped, IsRows
  <1>3. ASSUME NEW a \in A, NEW i \in Item
        PROVE  /\ Cut(a, i) \in A
               /\ i \in X => Left(Cut(a, i)[i], rows[i])
               /\ \A j \in X \ {i} : Cut(a, i)[j] = a[j]
    <2>1. CASE i \in X
      BY <2>1, PartsOne
    <2> QED
      BY <2>1
  <1> HIDE DEF all, A, base, Cut
  <1>4. PICK n \in Nat : DOMAIN ByAge = 1..n /\ \A j \in 1..n : ByAge[j] \in Item
    BY AgesAre
  <1> DEFINE F == [p \in A \X (1..n) |-> Cut(p[1], ByAge[p[2]])]
  <1>5. F \in [A \X (1..n) -> A]
    BY <1>3, <1>4
  <1>6. ASSUME NEW a \in A, NEW j \in 1..n PROVE F[<<a, j>>] = Cut(a, ByAge[j])
    OBVIOUS
  <1> HIDE DEF F
  <1>7. PICK h : Walks(n, base, F, h) /\ \A s \in SUBSET (1..n) : h[s] \in A
    BY <1>2, <1>5, WalkExists
  <1>8. Walk(h)
    <2>1. ASSUME NEW s \in SUBSET (1..n), s # {}
          PROVE  F[<<h[s \ {Max(s)}], Max(s)>>] = Cut(h[s \ {Max(s)}], ByAge[Max(s)])
      <3>1. Max(s) \in 1..n /\ s \ {Max(s)} \in SUBSET (1..n)
        BY <2>1, LastIs
      <3> QED
        BY <1>6, <1>7, <3>1
    <2> QED
      BY <1>4, <1>7, <2>1 DEF Walks
  <1> DEFINE r == CHOOSE x : Walk(x)
  <1>9. Walk(r)
    BY <1>8
  <1> HIDE DEF r
  \* Where the walk has come to, all is as it should be.
  <1> DEFINE Fine(s) == r[s] \in A /\ \A j \in s : ByAge[j] \in X => Left(r[s][ByAge[j]], rows[ByAge[j]])
             g == [s \in SUBSET (1..n) |-> IF Fine(s) THEN 1 ELSE 0]
  <1>10. Fine({})
    <2>1. r[{}] = base
      BY <1>9
    <2> QED
      BY <1>2, <2>1
  <1>11. ASSUME NEW s \in SUBSET (1..n), s # {}, Fine(s \ {Max(s)}) PROVE Fine(s)
    <2> DEFINE m == Max(s)
               b == r[s \ {m}]
    <2>1. m \in 1..n /\ m \in s /\ s \ {m} \in SUBSET (1..n)
      BY <1>11, LastIs
    <2>2. r[s] = Cut(b, ByAge[m])
      BY <1>4, <1>9, <1>11
    <2>3. b \in A /\ \A j \in s \ {m} : ByAge[j] \in X => Left(b[ByAge[j]], rows[ByAge[j]])
      BY <1>11, <2>1
    <2> HIDE DEF m, b
    <2>4. /\ r[s] \in A
          /\ ByAge[m] \in X => Left(r[s][ByAge[m]], rows[ByAge[m]])
          /\ \A j \in X \ {ByAge[m]} : r[s][j] = b[j]
      BY <1>3, <1>4, <2>1, <2>2, <2>3
    <2>5. ASSUME NEW j \in s, ByAge[j] \in X PROVE Left(r[s][ByAge[j]], rows[ByAge[j]])
      <3>1. CASE ByAge[j] = ByAge[m]
        BY <2>4, <2>5, <3>1
      <3>2. CASE ByAge[j] # ByAge[m]
        <4>1. j \in s \ {m} /\ r[s][ByAge[j]] = b[ByAge[j]]
          BY <2>4, <2>5, <3>2
        <4> QED
          BY <2>3, <2>5, <4>1
      <3> QED
        BY <3>1, <3>2
    <2> QED
      BY <2>4, <2>5
  <1> HIDE DEF Fine
  <1>12. g[1..n] \in {1}
    <2>1. \A s \in SUBSET (1..n) : g[s] \in {1} <=> Fine(s)
      OBVIOUS
    <2>2. {} \in SUBSET (1..n) /\ \A s \in SUBSET (1..n) : s \ {Max(s)} \in SUBSET (1..n)
      OBVIOUS
    <2> DEFINE One == {1}
    <2> HIDE DEF g, One
    <2>3. g[{}] \in One
      BY <1>10, <2>1, <2>2 DEF One
    <2>4. \A s \in SUBSET (1..n) : s # {} /\ g[s \ {Max(s)}] \in One => g[s] \in One
      BY <1>11, <2>1, <2>2 DEF One
    <2>5. g[1..n] \in One
      BY <1>4, <2>3, <2>4, WalkEnds
    <2> QED
      BY <2>5 DEF One
  <1>13. r[1..n] \in A /\ \A j \in 1..n : ByAge[j] \in X => Left(r[1..n][ByAge[j]], rows[ByAge[j]])
    <2>1. Fine(1..n)
      BY <1>12
    <2> QED
      BY <2>1 DEF Fine
  <1>14. all = r[1..n]
    BY <1>1, <1>4 DEF r
  <1>15. \A i \in X : \E j \in 1..n : ByAge[j] = i
    BY <1>4, ItemsAged
  <1> QED
    BY <1>13, <1>14, <1>15
-----------------------------------------------------------------------------
(* What returnToList makes of each item. *)

\* An item that is given back, in the version that is seen of it.
Recast(t, returned, i) ==
    IF returned[i] # seen[t][i]
    THEN [See(t)[i] EXCEPT !.status = returned[i].status, !.quantity = returned[i].quantity]
    ELSE See(t)[i]

\* It is lowered from there at most, and not at all when it is for no order.
LEMMA ReturnWrites ==
    ASSUME BookInvariant, Versions, db' = db, NEW t \in Txn, NEW returned, NEW items \in SUBSET Item,
           Item \subseteq DOMAIN seen[t], returned \in ReturnedRows(seen[t], items),
           ReturnToList(t, returned, items)
    PROVE  \E rows : /\ Wrote(t, rows) /\ DOMAIN rows \subseteq Item
                     /\ \A i \in items : Unmoved(t, i)
                     /\ \A i \in Item :
                           /\ See(t)'[i] \in ItemType /\ Recast(t, returned, i) \in ItemType
                           /\ Lowered(See(t)'[i], Recast(t, returned, i))
                           /\ ItemOrder[i] = NoOrder => See(t)'[i] = Recast(t, returned, i)
                           /\ See(t)'[i] # See(t)[i] => i \in DOMAIN mine'[t]
  <1> DEFINE new == Changed(returned, Restrict(seen[t], Item))
             orders == {ItemOrder[i] : i \in {j \in items : Undelivered(seen[t][j]) > 0}} \cap Active(seen[t])
             written == [i \in DOMAIN new |->
                           [See(t)[i] EXCEPT !.status = new[i].status, !.quantity = new[i].quantity]]
             all == Over(written, See(t))
             cut == Trimmed(all, orders)
             rows == Changed(cut, See(t))
  <1>1. Write(t, rows) /\ \A i \in items : Unmoved(t, i)
    BY DEF ReturnToList
  <1>2. Wrote(t, rows)
    BY <1>1, BookWrites
  <1>3. DOMAIN new = {x \in Item : returned[x] # seen[t][x]} /\ \A x \in DOMAIN new : new[x] = returned[x]
    <2> DEFINE old == Restrict(seen[t], Item)
    <2>1. DOMAIN old = Item /\ \A x \in Item : old[x] = seen[t][x]
      BY DEF Restrict
    <2> HIDE DEF old
    <2>2. new = [x \in {y \in DOMAIN old : returned[y] # old[y]} |-> returned[x]]
      BY DEF Changed, Restrict, old
    <2> QED
      BY <2>1, <2>2
  <1>4. ASSUME NEW i \in DOMAIN new PROVE written[i] \in ItemType /\ written[i] = Recast(t, returned, i)
    <2>1. i \in Item /\ i \in DOMAIN seen[t] /\ returned[i] # seen[t][i] /\ new[i] = returned[i]
      BY <1>3, <1>4
    <2>2. new[i] \in ItemType
      BY <2>1 DEF ReturnedRows
    <2>3. See(t)[i] \in ItemType
      BY <2>1, SeesTyped
    <2>4. written[i] = [See(t)[i] EXCEPT !.status = new[i].status, !.quantity = new[i].quantity]
      BY <1>4
    <2> HIDE DEF new, written
    <2>5. written[i] \in ItemType
      BY <2>2, <2>3, <2>4 DEF ItemType
    <2> QED
      BY <2>1, <2>4, <2>5 DEF Recast
  <1>5. DOMAIN new \subseteq Item /\ DOMAIN written = DOMAIN new
    BY <1>3
  <1> HIDE DEF new, written
  <1>6. /\ DOMAIN all = Row /\ IsRows(all)
        /\ \A x \in DOMAIN new : all[x] = written[x]
        /\ \A x \in Row \ DOMAIN new : all[x] = See(t)[x]
    BY <1>5, SeesTyped, Tables DEF Over, IsRows
  <1> HIDE DEF all
  <1>7. ASSUME NEW i \in Item PROVE all[i] \in ItemType /\ all[i] = Recast(t, returned, i)
    <2>1. CASE i \in DOMAIN new
      BY <1>4, <1>6, <2>1
    <2>2. CASE i \notin DOMAIN new
      BY <1>3, <1>6, <2>2, SeesTyped, Tables DEF Recast
    <2> QED
      BY <2>1, <2>2
  <1>8. ItemsTyped(all)
    BY <1>6, <1>7, Tables DEF ItemsTyped
  <1>9. ASSUME NEW i \in Item
        PROVE  /\ cut[i] \in ItemType /\ Lowered(cut[i], all[i])
               /\ ItemOrder[i] = NoOrder => cut[i] = all[i]
    <2>1. cut[i] = IF ItemOrder[i] \in orders THEN TrimToNeed(all, ItemOrder[i], ItemGood[i])[i] ELSE all[i]
      BY <1>6, Tables DEF Trimmed
    <2>2. CASE ItemOrder[i] \notin orders
      <3>1. cut[i] = all[i]
        BY <2>1, <2>2
      <3>2. Lowered(all[i], all[i])
        BY <1>7, ItemNat DEF Lowered
      <3> HIDE DEF cut
      <3> QED
        BY <1>7, <3>1, <3>2
    <2>3. CASE ItemOrder[i] \in orders
      <3> DEFINE w == ItemOrder[i]
                 g == ItemGood[i]
                 trim == TrimToNeed(all, w, g)
      <3>1. w \in Order /\ g \in Good
        BY <2>3, GoodsReceiptAssumption DEF Active
      <3>2. Need[w][g] \in Nat
        BY <3>1, GoodsReceiptAssumption
      <3>3. g \in DOMAIN all \ Item /\ all[g] = See(t)[g]
        BY <1>5, <1>6, <3>1, Tables
      <3>4. all[g].net[w] \in Nat
        BY <3>1, <3>3, SeesTyped, StockNat
      <3>5. i \in OfOrder(w, g)
        BY DEF OfOrder
      <3>6. w # NoOrder
        BY <3>1, GoodsReceiptAssumption
      <3>7. cut[i] = trim[i]
        BY <2>1, <2>3
      <3> HIDE DEF w, g
      <3>8. trim \in LoweredRows(all, OfOrder(w, g))
        BY <1>8, <3>2, <3>3, <3>4, TrimLowers
      <3> HIDE DEF trim
      <3>9. trim[i] \in ItemType /\ Lowered(trim[i], all[i])
        BY <3>5, <3>8 DEF LoweredRows
      <3> HIDE DEF cut
      <3> QED
        BY <3>6, <3>7, <3>9 DEF w
    <2> QED
      BY <2>2, <2>3
  <1>10. DOMAIN cut = Row /\ \A x \in Row \ Item : cut[x] = See(t)[x]
    BY <1>5, <1>6 DEF Trimmed
  <1> HIDE DEF cut
  <1>11. /\ DOMAIN rows = {x \in Row : cut[x] # See(t)[x]} /\ \A x \in DOMAIN rows : rows[x] = cut[x]
    <2>1. rows = [x \in {y \in DOMAIN See(t) : cut[y] # See(t)[y]} |-> cut[x]]
      BY DEF Changed, Restrict
    <2> QED
      BY <2>1, SeesTyped
  <1>12. DOMAIN rows \subseteq Item
    BY <1>10, <1>11
  <1> HIDE DEF rows
  <1>13. ASSUME NEW i \in Item PROVE See(t)'[i] = cut[i] /\ (See(t)'[i] # See(t)[i] => i \in DOMAIN mine'[t])
    <2>1. See(t)'[i] = IF i \in DOMAIN rows THEN rows[i] ELSE See(t)[i]
      BY <1>2, Tables DEF Wrote
    <2>2. i \in DOMAIN rows => i \in DOMAIN mine'[t]
      BY <1>2 DEF Wrote
    <2> QED
      BY <1>11, <2>1, <2>2, Tables
  <1>14. ASSUME NEW i \in Item
         PROVE  /\ See(t)'[i] \in ItemType /\ Recast(t, returned, i) \in ItemType
                /\ Lowered(See(t)'[i], Recast(t, returned, i))
                /\ ItemOrder[i] = NoOrder => See(t)'[i] = Recast(t, returned, i)
                /\ See(t)'[i] # See(t)[i] => i \in DOMAIN mine'[t]
    BY <1>7, <1>9, <1>13
  <1> QED
    BY <1>1, <1>2, <1>12, <1>14
-----------------------------------------------------------------------------
(* What items have received more. *)

\* It is a number,
LEMMA MoreInt ==
    ASSUME NEW new, NEW old, NEW X \in SUBSET Item, \A i \in X : new[i] \in ItemType /\ old[i] \in ItemType
    PROVE  /\ More(new, old, X) \in Int /\ IsFiniteSet(X)
           /\ More(new, old, X) = SumFunctionOnSet([i \in X |-> new[i].received - old[i].received], X)
           /\ \A i \in X : new[i].received \in Nat /\ old[i].received \in Nat
  <1> DEFINE f == [i \in X |-> new[i].received - old[i].received]
  <1>1. IsFiniteSet(X)
    BY FS_Subset, GoodsReceiptAssumption
  <1>2. \A i \in X : new[i].received \in Nat /\ old[i].received \in Nat
    BY ItemNat
  <1>3. f \in [X -> Int]
    BY <1>2
  <1>4. SumFunction(f) \in Int /\ SumFunction(f) = SumFunctionOnSet(f, X)
    <2> HIDE DEF f
    <2> QED
      BY <1>1, <1>3, FunctionSum
  <1> QED
    BY <1>1, <1>2, <1>4 DEF More

\* the same when each item has received the same more,
LEMMA MoreSame ==
    ASSUME NEW new, NEW old, NEW r, NEW s, NEW X,
           \A i \in X : new[i].received - old[i].received = r[i].received - s[i].received
    PROVE  More(new, old, X) = More(r, s, X)
  BY DEF More

\* none when none has,
LEMMA MoreNone ==
    ASSUME NEW new, NEW old, NEW X \in SUBSET Item, \A i \in X : new[i] \in ItemType /\ old[i] \in ItemType,
           \A i \in X : new[i].received = old[i].received
    PROVE  More(new, old, X) = 0
  <1> DEFINE f == [i \in X |-> new[i].received - old[i].received]
  <1>1. IsFiniteSet(X) /\ \A i \in X : new[i].received \in Nat /\ old[i].received \in Nat
    BY MoreInt
  <1>2. f \in [X -> Int] /\ \A i \in X : f[i] = 0
    BY <1>1
  <1>3. More(new, old, X) = SumFunction(f)
    BY DEF More
  <1> HIDE DEF f
  <1> QED
    BY <1>1, <1>2, <1>3, FunctionZero

\* and adds up,
LEMMA MoreSum ==
    ASSUME NEW new, NEW mid, NEW old, NEW r, NEW s, NEW X \in SUBSET Item,
           \A x \in X : new[x] \in ItemType /\ mid[x] \in ItemType /\ old[x] \in ItemType,
           \A x \in X : r[x] \in ItemType /\ s[x] \in ItemType,
           \A x \in X : new[x].received = mid[x].received + r[x].received - s[x].received
    PROVE  More(new, old, X) = More(mid, old, X) + More(r, s, X)
  <1> DEFINE e == [x \in X |-> new[x].received - old[x].received]
             f == [x \in X |-> mid[x].received - old[x].received]
             h == [x \in X |-> r[x].received - s[x].received]
  <1>1. IsFiniteSet(X) /\ More(new, old, X) = SumFunctionOnSet(e, X)
    BY MoreInt
  <1>2. More(mid, old, X) = SumFunctionOnSet(f, X)
    BY MoreInt
  <1>3. More(r, s, X) = SumFunctionOnSet(h, X)
    BY MoreInt
  <1>4. ASSUME NEW x \in X PROVE f[x] \in Int /\ h[x] \in Int /\ e[x] = f[x] + h[x]
    <2>1. /\ new[x].received \in Nat /\ mid[x].received \in Nat /\ old[x].received \in Nat
          /\ r[x].received \in Nat /\ s[x].received \in Nat
      BY ItemNat
    <2> QED
      BY <2>1
  <1> HIDE DEF e, f, h
  <1> QED
    BY <1>1, <1>2, <1>3, <1>4, SumPlus

\* as one item receives more.
LEMMA MoreOne ==
    ASSUME NEW new, NEW mid, NEW old, NEW X \in SUBSET Item, NEW i \in X,
           \A x \in X : new[x] \in ItemType /\ mid[x] \in ItemType /\ old[x] \in ItemType,
           \A x \in X \ {i} : new[x].received = mid[x].received
    PROVE  More(new, old, X) = More(mid, old, X) + new[i].received - mid[i].received
  <1> DEFINE e == [x \in X |-> new[x].received - old[x].received]
             f == [x \in X |-> mid[x].received - old[x].received]
  <1>1. IsFiniteSet(X) /\ More(new, old, X) = SumFunctionOnSet(e, X)
    BY MoreInt
  <1>2. More(mid, old, X) = SumFunctionOnSet(f, X) /\ More(mid, old, X) \in Int
    BY MoreInt
  <1>3. \A x \in X : new[x].received \in Nat /\ mid[x].received \in Nat /\ old[x].received \in Nat
    BY ItemNat
  <1>4. /\ \A x \in X : f[x] \in Int /\ e[x] \in Int
        /\ \A x \in X \ {i} : e[x] = f[x]
    BY <1>3
  <1>5. e[i] = new[i].received - old[i].received /\ f[i] = mid[i].received - old[i].received
    OBVIOUS
  <1> HIDE DEF e, f
  <1>6. SumFunctionOnSet(e, X) = SumFunctionOnSet(f, X) - f[i] + e[i]
    BY <1>1, <1>4, SumChange
  <1> QED
    BY <1>1, <1>2, <1>3, <1>5, <1>6

\* It is the difference of what they have received in total.
LEMMA TotalsGrow ==
    ASSUME NEW new, NEW old, NEW X \in SUBSET Item, \A i \in X : new[i] \in ItemType /\ old[i] \in ItemType
    PROVE  /\ Total(new, X, "received") = Total(old, X, "received") + More(new, old, X)
           /\ Total(old, X, "received") \in Nat /\ More(new, old, X) \in Int
  <1> DEFINE e == [i \in X |-> old[i].received]
             f == [i \in X |-> new[i].received - old[i].received]
             h == [i \in X |-> new[i].received]
  <1>1. IsFiniteSet(X) /\ More(new, old, X) \in Int
    BY MoreInt
  <1>2. Total(new, X, "received") = SumFunction(h) /\ Total(old, X, "received") = SumFunction(e)
        /\ More(new, old, X) = SumFunction(f)
    BY DEF Total, More
  <1>3. \A i \in X : new[i].received \in Nat /\ old[i].received \in Nat
    BY ItemNat
  <1>4. /\ e \in [X -> Int] /\ f \in [X -> Int] /\ h \in [X -> Int]
        /\ \A i \in X : h[i] = e[i] + f[i] /\ e[i] \in Nat
    BY <1>3
  <1> HIDE DEF e, f, h
  <1>5. PointwiseSum(X, e, f, h)
    BY <1>1, <1>4 DEF PointwiseSum
  <1>6. SumFunction(e) = SumFunctionOnSet(e, X) /\ SumFunctionOnSet(e, X) \in Nat
    BY <1>1, <1>4, FunctionSum, SumNat
  <1> QED
    BY <1>1, <1>2, <1>5, <1>6, FunctionsAdd
-----------------------------------------------------------------------------
(* Steps that commit nothing: the items. *)

\* The versions of the items stay sound when what is seen and read is.
LEMMA FollowVersions ==
    ASSUME Versions', ItemVersions, db' = db, NEW t \in Txn, NEW rows, Wrote(t, rows), Moves(t),
           \A i \in Item : ItemSound(i, See(t)'[i]), ItemsSound(seen[t])'
    PROVE  ItemVersions'
  <1>1. ASSUME NEW i \in Item \cap DOMAIN mine'[t] PROVE ItemSound(i, mine'[t][i])
    <2>1. See(t)'[i] = mine'[t][i]
      BY <1>1 DEF See, Over
    <2> QED
      BY <2>1
  <1>2. ItemsSound(mine[t])'
    BY <1>1 DEF ItemsSound
  <1>3. ASSUME NEW u \in Txn \ {t} PROVE ItemsSound(mine[u])' /\ ItemsSound(seen[u])'
    <2>1. mine'[u] = mine[u] /\ seen'[u] = seen[u]
      BY DEF Wrote, Moves
    <2>2. ItemsSound(mine[u]) /\ ItemsSound(seen[u])
      BY DEF ItemVersions
    <2> QED
      BY <2>1, <2>2
  <1>4. ItemsSound(db)'
    BY DEF ItemVersions
  <1> QED
    BY <1>2, <1>3, <1>4 DEF ItemVersions

\* What the others give, cut and know stays.
LEMMA OthersFollow ==
    ASSUME db' = db, NEW u, Follows(u), mine'[u] = mine[u], seen'[u] = seen[u], job'[u] = job[u]
    PROVE  Follows(u)'
  <1>1. See(u)' = See(u)
    BY DEF See
  <1>2. /\ \A op, step : At(u, op, step)' <=> At(u, op, step)
        /\ \A g : MayGive(u, g)' = MayGive(u, g) /\ Gained(u, g)' = Gained(u, g)
    BY <1>1 DEF At, MayGive, Gained, Past, Receiving
  <1>3. GivesWhatCame(u)' /\ CutsOwn(u)' /\ SplitsOwn(u)' /\ Whole(See(u))'
    BY <1>1, <1>2 DEF Follows, GivesWhatCame, CutsOwn, SplitsOwn, Whole
  <1>4. KnowsReturned(u)'
    <2>1. KnowsReturned(u)
      BY DEF Follows
    <2> QED
      BY <1>1, <2>1 DEF KnowsReturned, Whole, WithStatus
  <1>5. KnowsOpen(u)'
    <2>1. KnowsOpen(u)
      BY DEF Follows
    <2> QED
      BY <1>1, <1>2, <2>1 DEF KnowsOpen
  <1>6. KnowsHeld(u)'
    <2>1. KnowsHeld(u)
      BY DEF Follows
    <2> QED
      BY <1>1, <1>2, <2>1 DEF KnowsHeld, OrdersHeld
  <1> QED
    BY <1>3, <1>4, <1>5, <1>6 DEF Follows

\* It is left to see what the request gives, cuts and knows.
LEMMA FollowUncommitted ==
    ASSUME FollowInvariant, BackedInvariant', db' = db, NEW t \in Txn, NEW rows, Wrote(t, rows), Moves(t),
           \A i \in Item : ItemSound(i, See(t)'[i]), ItemsSound(seen[t])', Follows(t)'
    PROVE  FollowInvariant'
  <1>1. ItemVersions'
    BY FollowVersions DEF FollowInvariant, BackedInvariant
  <1>2. ClosedNoneOrdered' /\ NoMoreThanCame' /\ Whole(db)'
    BY DEF FollowInvariant, ClosedNoneOrdered, NoMoreThanCame, Whole, WithStatus, Total, Received
  <1>3. ASSUME NEW u \in Txn PROVE Follows(u)'
    <2>1. CASE u # t
      BY <1>3, <2>1, OthersFollow DEF Wrote, Moves, FollowInvariant
    <2> QED
      BY <2>1
  <1> QED
    BY <1>1, <1>2, <1>3 DEF FollowInvariant

\* The items are seen as they were, in all that matters here; what is read is what is seen
\* or committed; and the request may give what it might.
SameItem(v, old) == v.status = old.status /\ v.quantity = old.quantity /\ v.received = old.received
SameItems(t) == \A i \in Item : SameItem(See(t)'[i], See(t)[i])
ReadsSeen(t) == seen' = seen \/ \E X : seen'[t] \in {Restrict(See(t), X), Restrict(db, X)}
KnowsItsItems(t) == KnowsReturned(t) /\ KnowsOpen(t) /\ KnowsHeld(t)

\* A statement that writes no item, or one item without these.
LEMMA FollowQuiet ==
    ASSUME FollowInvariant, BackedInvariant', db' = db, NEW t \in Txn, NEW rows, Wrote(t, rows), Moves(t),
           SameItems(t), ReadsSeen(t), \A g \in Good : MayGive(t, g)' = MayGive(t, g), KnowsItsItems(t)'
    PROVE  FollowInvariant'
  <1>1. /\ BackedInvariant /\ Versions /\ ItemVersions
        /\ GivesWhatCame(t) /\ CutsOwn(t) /\ SplitsOwn(t) /\ Whole(See(t))
    BY DEF FollowInvariant, BackedInvariant, Follows
  <1>2. \A i \in Item : ItemSound(i, See(t)'[i])
    <2>1. \A i \in Item : ItemSound(i, See(t)[i])
      BY <1>1, SeesItems
    <2> QED
      BY <2>1 DEF SameItems, SameItem, ItemSound
  <1>3. ItemsSound(seen[t])'
    <2>1. ItemsSound(seen[t])
      BY <1>1 DEF ItemVersions
    <2>2. ASSUME NEW X PROVE ItemsSound(Restrict(See(t), X)) /\ ItemsSound(Restrict(db, X))
      <3>1. \A i \in Item : ItemSound(i, See(t)[i]) /\ ItemSound(i, db[i])
        BY <1>1, SeesItems
      <3> QED
        BY <3>1 DEF ItemsSound, Restrict
    <2> QED
      BY <2>1, <2>2 DEF ReadsSeen
  <1>4. GivesWhatCame(t)'
    <2> SUFFICES ASSUME NEW g \in Good PROVE Gained(t, g)' = Gained(t, g)
      BY <1>1 DEF GivesWhatCame
    <2>1. \A i \in OfGood(g) : See(t)'[i].received - db'[i].received = See(t)[i].received - db[i].received
      BY DEF SameItems, SameItem, OfGood
    <2>2. More(See(t)', db', OfGood(g)) = More(See(t), db, OfGood(g))
      BY <2>1, MoreSame
    <2> QED
      BY <2>2 DEF Gained
  <1>5. DOMAIN mine[t] \subseteq DOMAIN mine'[t]
    BY DEF Wrote
  <1>6. CutsOwn(t)' /\ SplitsOwn(t)' /\ Whole(See(t))'
    <2>1. CutsOwn(t)'
      BY <1>1, <1>5 DEF CutsOwn, SameItems, SameItem
    <2>2. \A i \in Nobodys : {i, RestOf[i]} \subseteq Item
      BY RestsAre DEF Nobodys
    <2>3. SplitsOwn(t)'
      <3> SUFFICES ASSUME NEW i \in Nobodys, NEW x \in {i, RestOf[i]}, See(t)'[x].quantity # db'[x].quantity
                   PROVE  {i, RestOf[i]} \subseteq DOMAIN mine'[t]
        BY DEF SplitsOwn
      <3>1. See(t)[x].quantity # db[x].quantity
        BY <2>2 DEF SameItems, SameItem
      <3> QED
        BY <1>1, <1>5, <3>1 DEF SplitsOwn
    <2>4. Whole(See(t))'
      BY <1>1, <2>2 DEF Whole, SameItems, SameItem
    <2> QED
      BY <2>1, <2>3, <2>4
  <1>7. Follows(t)'
    BY <1>4, <1>6 DEF Follows, KnowsItsItems
  <1> QED
    BY <1>2, <1>3, <1>7, FollowUncommitted

\* A statement that writes no item leaves the items.
LEMMA ItemsAside ==
    ASSUME NEW t \in Txn, NEW rows, Wrote(t, rows), DOMAIN rows \cap Item = {}
    PROVE  SameItems(t)
  BY Tables DEF Wrote, SameItems, SameItem
-----------------------------------------------------------------------------
(* The quiet steps: the items. *)

\* The next await of a request that shares no goods now.
LEMMA FollowGoto ==
    ASSUME FollowInvariant, BackedInvariant', db' = db, NEW t \in Txn, NEW rows, Wrote(t, rows), NEW s, Goto(t, s),
           SameItems(t), ReadsSeen(t), seen' = seen \/ \E r : seen' = [seen EXCEPT ![t] = r],
           Receiving(t) => (s \in BeforeShares <=> job[t].step \in BeforeShares), KnowsItsItems(t)'
    PROVE  FollowInvariant'
  <1>1. BookInvariant
    BY DEF FollowInvariant, BackedInvariant
  <1>2. /\ job'[t].op = job[t].op /\ job'[t].arg = job[t].arg /\ job'[t].step = s
        /\ \A u \in Txn \ {t} : job'[u] = job[u]
    BY <1>1, NextAwait DEF BookInvariant
  <1>3. Moves(t)
    BY <1>1, <1>2, MovesOn
  <1>4. \A g \in Good : MayGive(t, g)' = MayGive(t, g)
    BY <1>2 DEF MayGive, Past, Receiving
  <1> QED
    BY <1>3, <1>4, FollowQuiet

\* The await of a request that needs to know nothing.
LEMMA FollowPlain ==
    ASSUME FollowInvariant, BackedInvariant', UNCHANGED <<db, seen>>, NEW t \in Txn, NEW rows, Wrote(t, rows),
           NEW s \in {"lines", "stock", "items", "reread", "movement"}, Goto(t, s), SameItems(t),
           Receiving(t) => (s \in BeforeShares <=> job[t].step \in BeforeShares)
    PROVE  FollowInvariant'
  <1>1. job'[t].step = s
    BY NextAwait DEF FollowInvariant, BackedInvariant, BookInvariant
  <1>2. KnowsItsItems(t)'
    BY <1>1 DEF KnowsItsItems, KnowsReturned, KnowsOpen, KnowsHeld, At
  <1> QED
    BY <1>2, FollowGoto DEF ReadsSeen

\* A request that begins.
LEMMA FollowBegins ==
    ASSUME FollowInvariant, BackedInvariant', db' = db, NEW t \in Txn, NEW rows, Wrote(t, rows), SameItems(t),
           job[t] = Idle, NEW j, job' = [job EXCEPT ![t] = j], j.op = "receive" => j.step \in BeforeShares,
           ReadsSeen(t), seen' = seen \/ \E r : seen' = [seen EXCEPT ![t] = r], KnowsItsItems(t)'
    PROVE  FollowInvariant'
  <1>1. BookInvariant
    BY DEF FollowInvariant, BackedInvariant
  <1>2. job'[t] = j /\ \A u \in Txn \ {t} : job'[u] = job[u]
    BY <1>1, NewJob DEF BookInvariant
  <1>3. Moves(t)
    BY <1>1, <1>2, MovesOn
  <1>4. \A g \in Good : MayGive(t, g)' = 0 /\ MayGive(t, g) = 0
    BY <1>2 DEF MayGive, Past, Receiving, Idle
  <1> QED
    BY <1>3, <1>4, FollowQuiet

\* A step that writes nothing at all leaves the items.
LEMMA ItemsRead ==
    ASSUME FollowInvariant, UNCHANGED <<db, mine>>, NEW t \in Txn
    PROVE  Wrote(t, NoRows) /\ SameItems(t) /\ See(t)' = See(t)
  <1>1. Wrote(t, NoRows)
    BY BookReads DEF FollowInvariant, BackedInvariant
  <1>2. SameItems(t)
    BY <1>1, NoRowsSound, ItemsAside
  <1> QED
    BY <1>1, <1>2 DEF See

\* A receipt begins,
LEMMA FollowStartReceive ==
    ASSUME FollowInvariant, BackedInvariant', NEW t \in Txn, NEW k \in Key, StartReceive(t, k)
    PROVE  FollowInvariant'
  <1> DEFINE j == [op |-> "receive", step |-> "begin", arg |-> k, from |-> db[PO], to |-> db[PO]]
             r == Restrict(db, ActiveLines(k))
  <1>1. /\ job[t] = Idle /\ job' = [job EXCEPT ![t] = j] /\ db' = db /\ mine' = mine
        /\ seen' = [seen EXCEPT ![t] = r]
    BY DEF StartReceive
  <1>2. BookInvariant
    BY DEF FollowInvariant, BackedInvariant
  <1>3. Wrote(t, NoRows) /\ SameItems(t)
    BY <1>1, ItemsRead
  <1>4. seen'[t] = r
    BY <1>1, <1>2 DEF BookInvariant
  <1>5. ReadsSeen(t)
    BY <1>4 DEF ReadsSeen
  <1>6. j.op = "receive" /\ j.step = "begin"
    OBVIOUS
  <1> HIDE DEF j
  <1>7. job'[t] = j
    BY <1>1, <1>2, NewJob DEF BookInvariant
  <1>8. KnowsItsItems(t)'
    BY <1>6, <1>7 DEF KnowsItsItems, KnowsReturned, KnowsOpen, KnowsHeld, At
  <1> QED
    BY <1>1, <1>3, <1>5, <1>6, <1>8, FollowBegins DEF BeforeShares, BeforeStock, BeforeLines

\* holds the work orders,
LEMMA FollowLockOrders ==
    ASSUME FollowInvariant, BackedInvariant', NEW t \in Txn, LockOrders(t)
    PROVE  FollowInvariant'
  <1> DEFINE rows == [x \in Candidates(t) |-> See(t)[x]]
  <1>1. /\ job[t].op = "receive" /\ job[t].step = "begin" /\ Write(t, rows) /\ Goto(t, "lines")
        /\ db' = db /\ seen' = seen
    BY DEF LockOrders, At, Hold
  <1>2. Candidates(t) \subseteq Order
    BY GoodsReceiptAssumption DEF Candidates, WithStatus
  <1>3. Wrote(t, rows) /\ DOMAIN rows = Candidates(t)
    BY <1>1, BookWrites DEF FollowInvariant, BackedInvariant
  <1> HIDE DEF rows
  <1>4. SameItems(t)
    BY <1>2, <1>3, ItemsAside, Tables
  <1> QED
    BY <1>1, <1>3, <1>4, FollowPlain DEF BeforeShares, BeforeStock, BeforeLines

\* writes the lines,
LEMMA FollowReceiveLines ==
    ASSUME FollowInvariant, BackedInvariant', NEW t \in Txn, ReceiveLines(t)
    PROVE  FollowInvariant'
  <1> DEFINE k == job[t].arg
             rows == [l \in ActiveLines(k) |-> See(t)[l] + Body[k][l]]
  <1>1. /\ job[t].op = "receive" /\ job[t].step = "lines" /\ Write(t, rows) /\ Goto(t, "stock")
        /\ db' = db /\ seen' = seen
    BY DEF ReceiveLines, At
  <1>2. ActiveLines(k) \subseteq Line
    BY DEF ActiveLines
  <1>3. Wrote(t, rows) /\ DOMAIN rows = ActiveLines(k)
    BY <1>1, BookWrites DEF FollowInvariant, BackedInvariant
  <1> HIDE DEF rows, k
  <1>4. SameItems(t)
    BY <1>2, <1>3, ItemsAside, Tables
  <1> QED
    BY <1>1, <1>3, <1>4, FollowPlain DEF BeforeShares, BeforeStock, BeforeLines

\* the stock,
LEMMA FollowPostReceipt ==
    ASSUME FollowInvariant, BackedInvariant', NEW t \in Txn, PostReceipt(t)
    PROVE  FollowInvariant'
  <1> DEFINE k == job[t].arg
             rows == [g \in GoodsOf(k) |-> [See(t)[g] EXCEPT !.quantity = @ + Arrived(k, g)]]
  <1>1. /\ job[t].op = "receive" /\ job[t].step = "stock" /\ Write(t, rows) /\ Goto(t, "items")
        /\ db' = db /\ seen' = seen
    BY DEF PostReceipt, At
  <1>2. GoodsOf(k) \subseteq Good
    BY GoodsReceiptAssumption DEF GoodsOf, ActiveLines
  <1>3. Wrote(t, rows) /\ DOMAIN rows = GoodsOf(k)
    BY <1>1, BookWrites DEF FollowInvariant, BackedInvariant
  <1> HIDE DEF rows, k
  <1>4. SameItems(t)
    BY <1>2, <1>3, ItemsAside, Tables
  <1> QED
    BY <1>1, <1>3, <1>4, FollowPlain DEF BeforeShares, BeforeStock, BeforeLines

\* reads the items as they are,
LEMMA FollowReadItems ==
    ASSUME FollowInvariant, BackedInvariant', NEW t \in Txn, ReadItems(t)
    PROVE  FollowInvariant'
  <1> DEFINE X == Item \cup Order \cup GoodsOf(job[t].arg)
  <1>1. /\ job[t].op = "receive" /\ job[t].step = "items" /\ Read(t, X) /\ Goto(t, "allocate")
        /\ db' = db /\ mine' = mine
    BY DEF ReadItems, At
  <1>2. BookInvariant
    BY DEF FollowInvariant, BackedInvariant
  <1>3. Wrote(t, NoRows) /\ SameItems(t) /\ See(t)' = See(t)
    BY <1>1, ItemsRead
  <1>4. seen'[t] = Restrict(See(t), X)
    BY <1>1, <1>2 DEF Read, BookInvariant
  <1>5. \A i \in Item : seen'[t][i] = See(t)'[i]
    BY <1>3, <1>4 DEF Restrict
  <1> HIDE DEF X
  <1>6. ReadsSeen(t) /\ \E r : seen' = [seen EXCEPT ![t] = r]
    BY <1>1, <1>4 DEF ReadsSeen, Read
  <1>7. job'[t].step = "allocate"
    BY <1>1, <1>2, NextAwait DEF BookInvariant
  <1>8. KnowsItsItems(t)'
    BY <1>5, <1>7 DEF KnowsItsItems, KnowsReturned, KnowsOpen, KnowsHeld, At
  <1> QED
    BY <1>1, <1>3, <1>6, <1>8, FollowGoto DEF BeforeShares, BeforeStock, BeforeLines

\* charges,
LEMMA FollowCharge ==
    ASSUME FollowInvariant, BackedInvariant', NEW t \in Txn, Charge(t)
    PROVE  FollowInvariant'
  <1> DEFINE charge == [x \in {Account} |-> See(t)[x] + Amount(job[t].arg)]
             rows == IF Amount(job[t].arg) > 0 THEN charge ELSE NoRows
  <1>1. /\ job[t].op = "receive" /\ job[t].step = "charge" /\ Goto(t, "reread")
        /\ db' = db /\ seen' = seen
        /\ IF Amount(job[t].arg) > 0 THEN Write(t, charge) ELSE mine' = mine
    BY DEF Charge, At
  <1>2. BookInvariant
    BY DEF FollowInvariant, BackedInvariant
  <1>3. Wrote(t, rows) /\ DOMAIN rows \subseteq {Account}
    BY <1>1, <1>2, BookWrites, BookReads, NoRowsSound
  <1> HIDE DEF rows
  <1>4. SameItems(t)
    BY <1>3, ItemsAside, Tables
  <1> QED
    BY <1>1, <1>3, <1>4, FollowPlain DEF BeforeShares, BeforeStock, BeforeLines

\* What is read for the closing of the order is what is ordered, and nobody's items are whole.
LEMMA ClosingKnows ==
    ASSUME FollowInvariant, NEW t \in Txn, BookInvariant, Read(t, Item \cup Order), UNCHANGED <<db, mine>>,
           job'[t].step \in {"close", "status"}, job'[t].step = "status" => job'[t].to \notin CLOSED_FOR_LISTS
    PROVE  ReadsSeen(t) /\ (\E r : seen' = [seen EXCEPT ![t] = r]) /\ KnowsItsItems(t)'
  <1> DEFINE X == Item \cup Order
  <1>1. seen'[t] = Restrict(See(t), X)
    BY DEF Read, BookInvariant
  <1>2. See(t)' = See(t)
    BY DEF See
  <1>3. \A i \in Item : seen'[t][i] = See(t)'[i]
    BY <1>1, <1>2 DEF Restrict
  <1> HIDE DEF X
  <1>4. ReadsSeen(t) /\ \E r : seen' = [seen EXCEPT ![t] = r]
    BY <1>1 DEF ReadsSeen, Read
  <1>5. Whole(seen'[t])
    <2>1. \A i \in Nobodys : i \in Item /\ RestOf[i] \in Item
      BY RestsAre DEF Nobodys
    <2>2. Whole(See(t)')
      BY <1>2 DEF FollowInvariant, Follows
    <2> QED
      BY <1>3, <2>1, <2>2 DEF Whole
  <1>6. KnowsReturned(t)'
    BY <1>3, <1>5 DEF KnowsReturned
  <1>7. KnowsOpen(t)' /\ KnowsHeld(t)'
    BY DEF KnowsOpen, KnowsHeld, At
  <1> QED
    BY <1>4, <1>6, <1>7 DEF KnowsItsItems

\* and finds its new status.
LEMMA FollowRereadLines ==
    ASSUME FollowInvariant, BackedInvariant', NEW t \in Txn, RereadLines(t)
    PROVE  FollowInvariant'
  <1> DEFINE to == StatusAfter(See(t), job[t].from)
             s == IF to \in CLOSED_FOR_LISTS THEN "close" ELSE "status"
             j == [job[t] EXCEPT !.to = to, !.step = s]
  <1>1. /\ job[t].op = "receive" /\ job[t].step = "reread" /\ Read(t, Item \cup Order)
        /\ db' = db /\ mine' = mine /\ job' = [job EXCEPT ![t] = j]
    BY DEF RereadLines, At
  <1>2. BookInvariant
    BY DEF FollowInvariant, BackedInvariant
  <1>3. s \in {"close", "status"} /\ (s = "status" => to \notin CLOSED_FOR_LISTS)
    OBVIOUS
  <1> HIDE DEF to, s
  <1>4. j.op = job[t].op /\ j.arg = job[t].arg /\ j.step = s /\ j.to = to
    <2>1. IsJob(job[t])
      BY <1>2, JobIsJob DEF BookInvariant
    <2> QED
      BY <2>1 DEF IsJob
  <1> HIDE DEF j
  <1>5. job'[t] = j /\ \A u \in Txn \ {t} : job'[u] = job[u]
    BY <1>1, <1>2, NewJob DEF BookInvariant
  <1>6. ReadsSeen(t) /\ (\E r : seen' = [seen EXCEPT ![t] = r]) /\ KnowsItsItems(t)'
    BY <1>1, <1>2, <1>3, <1>4, <1>5, ClosingKnows
  <1>7. Moves(t)
    BY <1>2, <1>5, <1>6, MovesOn
  <1>8. Wrote(t, NoRows) /\ SameItems(t)
    BY <1>1, ItemsRead
  <1>9. \A g \in Good : MayGive(t, g)' = MayGive(t, g)
    BY <1>1, <1>3, <1>4, <1>5 DEF MayGive, Past, Receiving, BeforeShares, BeforeStock, BeforeLines
  <1> QED
    BY <1>1, <1>6, <1>7, <1>8, <1>9, FollowQuiet

\* The order is called off, or called received.
LEMMA FollowStartTransition ==
    ASSUME FollowInvariant, BackedInvariant', NEW t \in Txn, NEW to, StartTransition(t, to)
    PROVE  FollowInvariant'
  <1> DEFINE j == [op |-> "transition", arg |-> PO, from |-> db[PO], to |-> to,
                   step |-> IF to \in CLOSED_FOR_LISTS THEN "close" ELSE "status"]
  <1>1. /\ job[t] = Idle /\ job' = [job EXCEPT ![t] = j] /\ db' = db /\ mine' = mine
        /\ Read(t, Item \cup Order)
    BY DEF StartTransition
  <1>2. BookInvariant
    BY DEF FollowInvariant, BackedInvariant
  <1>3. /\ j.op = "transition" /\ j.step \in {"close", "status"}
        /\ j.step = "status" => j.to \notin CLOSED_FOR_LISTS
    OBVIOUS
  <1> HIDE DEF j
  <1>4. job'[t] = j
    BY <1>1, <1>2, NewJob DEF BookInvariant
  <1>5. ReadsSeen(t) /\ (\E r : seen' = [seen EXCEPT ![t] = r]) /\ KnowsItsItems(t)'
    BY <1>1, <1>2, <1>3, <1>4, ClosingKnows
  <1>6. Wrote(t, NoRows) /\ SameItems(t)
    BY <1>1, ItemsRead
  <1> QED
    BY <1>1, <1>3, <1>5, <1>6, FollowBegins

\* A work order is closed,
LEMMA FollowStartFinish ==
    ASSUME FollowInvariant, BackedInvariant', NEW t \in Txn, NEW w \in Order, NEW to \in {"COMPLETED", "CANCELLED"},
           StartFinish(t, w, to)
    PROVE  FollowInvariant'
  <1> DEFINE j == [op |-> "finish", step |-> "release", arg |-> w, from |-> "IN_PROGRESS", to |-> to]
             rows == [x \in {w} |-> to]
  <1>1. job[t] = Idle /\ job' = [job EXCEPT ![t] = j] /\ Write(t, rows) /\ db' = db /\ seen' = seen
    BY DEF StartFinish
  <1>2. BookInvariant
    BY DEF FollowInvariant, BackedInvariant
  <1>3. Wrote(t, rows) /\ DOMAIN rows = {w}
    BY <1>1, <1>2, BookWrites
  <1>4. j.op = "finish" /\ j.step = "release"
    OBVIOUS
  <1> HIDE DEF j, rows
  <1>5. SameItems(t)
    BY <1>3, ItemsAside, Tables
  <1>6. job'[t] = j
    BY <1>1, <1>2, NewJob DEF BookInvariant
  <1>7. KnowsItsItems(t)'
    BY <1>4, <1>6 DEF KnowsItsItems, KnowsReturned, KnowsOpen, KnowsHeld, At
  <1> QED
    BY <1>1, <1>3, <1>4, <1>5, <1>7, FollowBegins DEF ReadsSeen

\* its parts are written off.
LEMMA FollowReleaseStock ==
    ASSUME FollowInvariant, BackedInvariant', NEW t \in Txn, ReleaseStock(t)
    PROVE  FollowInvariant'
  <1>1. PICK rows : /\ DOMAIN rows \subseteq Good /\ Write(t, rows) /\ Goto(t, "items")
                    /\ job[t].op = "finish" /\ db' = db /\ seen' = seen
    <2> DEFINE w == job[t].arg
               Used(g) == IF job[t].to = "COMPLETED" THEN Need[w][g] ELSE 0
               Left1(g) == [See(t)[g] EXCEPT !.quantity = @ - Used(g), !.reserved = @ - See(t)[g].net[w], !.net[w] = 0]
               moved == {g \in Good : Used(g) > 0 \/ See(t)[g].net[w] > 0}
               rows == [g \in moved |-> Left1(g)]
    <2>1. Write(t, rows) /\ Goto(t, "items") /\ job[t].op = "finish" /\ db' = db /\ seen' = seen
      BY DEF ReleaseStock, At
    <2>2. DOMAIN rows \subseteq Good
      OBVIOUS
    <2> HIDE DEF rows
    <2> QED
      BY <2>1, <2>2
  <1>2. Wrote(t, rows)
    BY <1>1, BookWrites DEF FollowInvariant, BackedInvariant
  <1>3. SameItems(t)
    BY <1>1, <1>2, ItemsAside, Tables
  <1> QED
    BY <1>1, <1>2, <1>3, FollowPlain DEF Receiving

\* The release of what an item shows begins,
LEMMA FollowStartRelease ==
    ASSUME FollowInvariant, BackedInvariant', NEW t \in Txn, NEW i \in Item, StartRelease(t, i)
    PROVE  FollowInvariant'
  <1> DEFINE j == [op |-> "release", step |-> "item", arg |-> i, from |-> "none", to |-> "none"]
  <1>1. job[t] = Idle /\ job' = [job EXCEPT ![t] = j] /\ Read(t, {i}) /\ db' = db /\ mine' = mine
    BY DEF StartRelease
  <1>2. BookInvariant
    BY DEF FollowInvariant, BackedInvariant
  <1>3. Wrote(t, NoRows) /\ SameItems(t)
    BY <1>1, ItemsRead
  <1>4. seen' = [seen EXCEPT ![t] = Restrict(See(t), {i})]
    BY <1>1 DEF Read
  <1>5. seen'[t] = Restrict(See(t), {i})
    BY <1>2, <1>4 DEF BookInvariant
  <1>6. ReadsSeen(t)
    BY <1>5 DEF ReadsSeen
  <1>7. j.op = "release" /\ j.step = "item"
    OBVIOUS
  <1> HIDE DEF j
  <1>8. job'[t] = j
    BY <1>1, <1>2, NewJob DEF BookInvariant
  <1>9. KnowsItsItems(t)'
    BY <1>7, <1>8 DEF KnowsItsItems, KnowsReturned, KnowsOpen, KnowsHeld, At
  <1> QED
    BY <1>1, <1>3, <1>4, <1>6, <1>7, <1>9, FollowBegins

\* and the item shows less.
LEMMA FollowReleaseItem ==
    ASSUME FollowInvariant, BackedInvariant', NEW t \in Txn, ReleaseItem(t)
    PROVE  FollowInvariant'
  <1> DEFINE i == job[t].arg
             w == ItemOrder[i]
             stock == See(t)[ItemGood[i]]
             amount == Min2(seen[t][i].reserved, Min2(stock.net[w], stock.reserved))
             less == [See(t)[i] EXCEPT !.reserved = @ - amount]
             rows == [x \in {i, w} |-> IF x = i THEN [See(t)[x] EXCEPT !.reserved = @ - amount] ELSE See(t)[x]]
  <1>1. /\ job[t].op = "release" /\ job[t].step = "item" /\ Write(t, rows) /\ Goto(t, "movement")
        /\ db' = db /\ seen' = seen
    BY DEF ReleaseItem, At
  <1>2. BookInvariant /\ Versions
    BY DEF FollowInvariant, BackedInvariant
  <1>3. i \in Item /\ w \in Order /\ i # w /\ w \notin Item
    <2>1. i \in Item /\ w \in Order
      BY <1>1, <1>2 DEF BookInvariant, Sees, JobShaped
    <2> QED
      BY <2>1, Tables
  <1>4. Wrote(t, rows) /\ DOMAIN rows = {i, w} /\ rows[i] = less
    BY <1>1, <1>2, <1>3, BookWrites
  <1>5. See(t)[i] \in ItemType
    BY <1>2, <1>3, SeesTyped
  <1> HIDE DEF amount, w
  <1>6. SameItem(less, See(t)[i])
    BY <1>5 DEF SameItem, ItemType
  <1> HIDE DEF less, rows, i
  <1>7. SameItems(t)
    <2> SUFFICES ASSUME NEW x \in Item PROVE SameItem(See(t)'[x], See(t)[x])
      BY DEF SameItems
    <2>1. See(t)'[x] = IF x \in DOMAIN rows THEN rows[x] ELSE See(t)[x]
      BY <1>4, Tables DEF Wrote
    <2>2. CASE x = i
      BY <1>4, <1>6, <2>1, <2>2
    <2>3. CASE x # i
      BY <1>3, <1>4, <2>1, <2>3 DEF SameItem
    <2> QED
      BY <2>2, <2>3
  <1> QED
    BY <1>1, <1>4, <1>7, FollowPlain DEF Receiving

\* What the supplier has not confirmed: the work orders of all that is ordered are held,
LEMMA FollowStartUnconfirmed ==
    ASSUME FollowInvariant, BackedInvariant', NEW t \in Txn, StartUnconfirmed(t)
    PROVE  FollowInvariant'
  <1> DEFINE j == [op |-> "unconfirmed", step |-> "read", arg |-> PO, from |-> "none", to |-> "none"]
             X == {ItemOrder[i] : i \in WithStatus(db, "ORDERED")} \ {NoOrder}
             rows == [x \in X |-> See(t)[x]]
  <1>1. job[t] = Idle /\ job' = [job EXCEPT ![t] = j] /\ Write(t, rows) /\ db' = db /\ seen' = seen
    BY DEF StartUnconfirmed, Hold
  <1>2. BookInvariant /\ OrdersNone(t)
    BY DEF FollowInvariant, BackedInvariant, Backs
  <1>3. X \subseteq Order
    BY GoodsReceiptAssumption DEF WithStatus
  <1>4. Wrote(t, rows) /\ DOMAIN rows = X
    BY <1>1, <1>2, BookWrites
  <1>5. j.op = "unconfirmed" /\ j.step = "read"
    OBVIOUS
  <1> HIDE DEF j, rows
  <1>6. SameItems(t)
    BY <1>3, <1>4, ItemsAside, Tables
  <1>7. job'[t] = j
    BY <1>1, <1>2, NewJob DEF BookInvariant
  <1>8. OrdersHeld(t, See(t))'
    <2> SUFFICES ASSUME NEW i \in Item, See(t)'[i].status = "ORDERED"
                 PROVE  ItemOrder[i] \in DOMAIN mine'[t] \cup {NoOrder}
      BY DEF OrdersHeld
    <2>1. db[i].status = "ORDERED"
      BY <1>2, <1>6 DEF SameItems, SameItem, OrdersNone
    <2>2. ItemOrder[i] \in X \cup {NoOrder}
      BY <2>1 DEF WithStatus
    <2> HIDE DEF X
    <2> QED
      BY <1>4, <2>2 DEF Wrote
  <1>9. KnowsItsItems(t)'
    BY <1>5, <1>7, <1>8 DEF KnowsItsItems, KnowsReturned, KnowsOpen, KnowsHeld, At
  <1> QED
    BY <1>1, <1>4, <1>5, <1>6, <1>9, FollowBegins DEF ReadsSeen

\* and the items are read.
LEMMA FollowReadUnconfirmed ==
    ASSUME FollowInvariant, BackedInvariant', NEW t \in Txn, ReadUnconfirmed(t)
    PROVE  FollowInvariant'
  <1> DEFINE X == Item \cup Order
  <1>1. /\ job[t].op = "unconfirmed" /\ job[t].step = "read" /\ Read(t, X)
        /\ Goto(t, "return") /\ db' = db /\ mine' = mine
    BY DEF ReadUnconfirmed, At
  <1>2. BookInvariant
    BY DEF FollowInvariant, BackedInvariant
  <1>3. Wrote(t, NoRows) /\ SameItems(t) /\ See(t)' = See(t)
    BY <1>1, ItemsRead
  <1>4. seen' = [seen EXCEPT ![t] = Restrict(See(t), X)]
    BY <1>1 DEF Read
  <1>5. seen'[t] = Restrict(See(t), X)
    BY <1>2, <1>4 DEF BookInvariant
  <1>6. \A i \in Item : seen'[t][i] = See(t)[i]
    BY <1>5 DEF Restrict
  <1> HIDE DEF X
  <1>7. ReadsSeen(t)
    BY <1>5 DEF ReadsSeen
  <1>8. job'[t].op = "unconfirmed" /\ job'[t].step = "return"
    BY <1>1, <1>2, NextAwait DEF BookInvariant
  <1>9. OrdersHeld(t, seen[t])'
    <2>1. OrdersHeld(t, See(t))
      BY <1>1 DEF FollowInvariant, Follows, KnowsHeld, At
    <2> QED
      BY <1>1, <1>6, <2>1 DEF OrdersHeld
  <1>10. KnowsItsItems(t)'
    BY <1>8, <1>9 DEF KnowsItsItems, KnowsReturned, KnowsOpen, KnowsHeld, At
  <1> QED
    BY <1>1, <1>3, <1>4, <1>7, <1>10, FollowGoto DEF Receiving
-----------------------------------------------------------------------------
(* What the sharing of the goods gives the items. *)

\* An ordered item that is given no more than it lacks, and is received when it lacks nothing.
GivenItem(v, old) ==
    /\ v.quantity = old.quantity /\ v.received >= old.received /\ v.received <= v.quantity
    /\ v # old => old.status = "ORDERED"
    /\ v.status # old.status => v.status = "RECEIVED" /\ v.received = v.quantity

\* What is given of a good and what is left of it is what came.
Deals(k, old) ==
    {a \in Shares(k, old) :
        /\ \A i \in Item : GivenItem(a.rows[i], old[i])
        /\ \A g \in Good : More(a.rows, old, OfGood(g)) + a.left[g] = Arrived(k, g)}

\* The rows of a sharing, and what it was begun with.
LEMMA DealsTyped ==
    ASSUME NEW k \in Key, NEW old, ReadForSharing(k, old), NEW a \in Shares(k, old)
    PROVE  /\ \A i \in Item : a.rows[i] \in ItemType /\ old[i] \in ItemType
           /\ a.left \in [Good -> Nat] /\ DOMAIN a.rows = Item \cup Order \cup GoodsOf(k)
           /\ GoodsOf(k) \subseteq Good
  BY GoodsReceiptAssumption, Tables
     DEF Shares, SharedRows, SharedItems, ReadForSharing, Sound, SoundRow, GoodsOf, ActiveLines

\* Nothing is given at first,
LEMMA DealsNone ==
    ASSUME NEW k \in Key, NEW old, ReadForSharing(k, old), ItemsSound(old)
    PROVE  [left |-> [g \in Good |-> Arrived(k, g)], rows |-> old] \in Deals(k, old)
  <1> DEFINE a == [left |-> [g \in Good |-> Arrived(k, g)], rows |-> old]
  <1>1. a \in Shares(k, old)
    BY SharesNone
  <1>2. a.rows = old /\ \A g \in Good : a.left[g] = Arrived(k, g)
    OBVIOUS
  <1> HIDE DEF a
  <1>3. \A i \in Item : old[i] \in ItemType /\ ItemSound(i, old[i])
    <2>1. \A i \in Item : i \in DOMAIN old
      BY DEF ReadForSharing
    <2> QED
      BY <1>1, <2>1, DealsTyped DEF ItemsSound
  <1>4. \A i \in Item : GivenItem(old[i], old[i])
    BY <1>3, ItemNat DEF GivenItem, ItemSound
  <1>5. ASSUME NEW g \in Good PROVE More(old, old, OfGood(g)) = 0 /\ Arrived(k, g) \in Nat
    <2>1. OfGood(g) \in SUBSET Item
      BY DEF OfGood
    <2> QED
      BY <1>3, <2>1, MoreNone, ArrivedNat
  <1>6. \A g \in Good : More(a.rows, old, OfGood(g)) + a.left[g] = Arrived(k, g)
    BY <1>2, <1>5
  <1>7. a \in Deals(k, old)
    BY <1>1, <1>2, <1>4, <1>6 DEF Deals
  <1> QED
    BY <1>7 DEF a

\* What an item takes of a good.
LEMMA GivenTakes ==
    ASSUME NEW r \in ItemType, NEW old \in ItemType, NEW take \in Nat, NEW v \in ItemType, GivenItem(r, old),
           take # 0, r.status = "ORDERED", take <= Undelivered(r),
           v.quantity = r.quantity, v.received = r.received + take,
           v.status = IF Undelivered(r) = take THEN "RECEIVED" ELSE r.status
    PROVE  GivenItem(v, old)
  <1>1. /\ r.quantity \in Nat /\ r.received \in Nat /\ old.quantity \in Nat /\ old.received \in Nat
    BY ItemNat
  <1>2. Undelivered(r) = r.quantity - r.received /\ v.received <= v.quantity
    BY <1>1 DEF Undelivered, Less
  <1>3. v.quantity = old.quantity /\ v.received >= old.received
    BY <1>1 DEF GivenItem
  <1>4. old.status = "ORDERED"
    BY DEF GivenItem
  <1>5. v.status # old.status => v.status = "RECEIVED" /\ v.received = v.quantity
    BY <1>1, <1>2, <1>4
  <1> QED
    BY <1>2, <1>3, <1>4, <1>5 DEF GivenItem

\* and an item is given what is left, as far as it lacks it.
LEMMA DealsOne ==
    ASSUME NEW k \in Key, NEW old, ReadForSharing(k, old), NEW a \in Deals(k, old), NEW i \in Item
    PROVE  Given(a, i) \in Deals(k, old)
  <1> DEFINE r == a.rows
             g == ItemGood[i]
             take == IF i \in WithStatus(r, "ORDERED") THEN Min2(a.left[g], Undelivered(r[i])) ELSE 0
             reserve == Reserve(r, i, take)
             item == [r[i] EXCEPT !.received = @ + take, !.reserved = @ + reserve,
                                  !.status = IF Undelivered(r[i]) = take THEN "RECEIVED" ELSE @]
             stock == [r[g] EXCEPT !.reserved = @ + reserve, !.net[ItemOrder[i]] = @ + reserve]
             left == [a.left EXCEPT ![g] = @ - take]
             rows == IF reserve = 0 THEN [r EXCEPT ![i] = item] ELSE [r EXCEPT ![i] = item, ![g] = stock]
             b == Given(a, i)
  <1>1. b = IF take = 0 THEN a ELSE [left |-> left, rows |-> rows]
    BY DEF Given
  <1>2. a \in Shares(k, old) /\ b \in Shares(k, old)
    BY SharesOne DEF Deals
  <1>3. g \in Good
    BY GoodsReceiptAssumption
  <1>4. /\ \A x \in Item : r[x] \in ItemType /\ old[x] \in ItemType
        /\ a.left \in [Good -> Nat] /\ i \in DOMAIN r /\ a.left[g] \in Nat
    BY <1>2, <1>3, DealsTyped
  <1>5. /\ \A x \in Item : GivenItem(r[x], old[x])
        /\ \A h \in Good : More(r, old, OfGood(h)) + a.left[h] = Arrived(k, h)
    BY DEF Deals
  <1>6. CASE take = 0
    BY <1>1, <1>6
  <1>7. CASE take # 0
    <2>1. r[i].status = "ORDERED"
      BY <1>7 DEF WithStatus
    <2>2. take \in Nat /\ take <= a.left[g] /\ take <= Undelivered(r[i])
      <3> DEFINE n == a.left[g]
                 u == Undelivered(r[i])
      <3>1. take = Min2(n, u)
        BY <1>7
      <3>2. r[i].quantity \in Nat /\ r[i].received \in Nat
        BY <1>4, ItemNat
      <3>3. n \in Nat /\ u \in Nat
        BY <1>4, <3>2, TakesNat DEF Undelivered
      <3> HIDE DEF n, u, take
      <3>4. take \in Nat /\ take <= n /\ take <= u
        BY <3>1, <3>3, TakesNat
      <3> QED
        BY <3>4 DEF n, u
    <2>3. b.left = left /\ b.rows = rows
      BY <1>1, <1>7
    <2> HIDE DEF b
    <2>4. \A x \in Item : b.rows[x] \in ItemType
      BY <1>2, DealsTyped
    <2> HIDE DEF take, reserve, stock
    <2>5. rows[i] = item /\ \A x \in Item \ {i} : rows[x] = r[x]
      <3>1. i # g /\ g \notin Item
        BY <1>3, Tables
      <3> HIDE DEF item
      <3>2. [r EXCEPT ![i] = item][i] = item /\ [r EXCEPT ![i] = item, ![g] = stock][i] = item
        BY <1>4, <3>1
      <3>3. ASSUME NEW x \in Item \ {i} PROVE rows[x] = r[x]
        <4>1. x \in DOMAIN r /\ x # i /\ x # g
          <5>1. DOMAIN r = Item \cup Order \cup GoodsOf(k)
            BY <1>2, DealsTyped
          <5> QED
            BY <3>1, <5>1
        <4> QED
          BY <4>1
      <3> QED
        BY <3>2, <3>3
    <2>6. /\ item.quantity = r[i].quantity /\ item.received = r[i].received + take
          /\ item.status = IF Undelivered(r[i]) = take THEN "RECEIVED" ELSE r[i].status
      BY <1>4 DEF ItemType
    <2> HIDE DEF item, rows
    <2>7. GivenItem(b.rows[i], old[i])
      <3>1. item \in ItemType
        BY <2>3, <2>4, <2>5
      <3> DEFINE p == r[i]
      <3>2. p \in ItemType /\ old[i] \in ItemType /\ GivenItem(p, old[i])
        BY <1>4, <1>5
      <3>3. p.status = "ORDERED" /\ take <= Undelivered(p)
        BY <2>1, <2>2
      <3>4. /\ item.quantity = p.quantity /\ item.received = p.received + take
            /\ item.status = IF Undelivered(p) = take THEN "RECEIVED" ELSE p.status
        BY <2>6
      <3> HIDE DEF p
      <3>5. GivenItem(item, old[i])
        BY <1>7, <2>2, <3>1, <3>2, <3>3, <3>4, GivenTakes
      <3> QED
        BY <2>3, <2>5, <3>5
    <2>8. \A x \in Item : GivenItem(b.rows[x], old[x])
      <3> SUFFICES ASSUME NEW x \in Item PROVE GivenItem(b.rows[x], old[x])
        OBVIOUS
      <3>1. x # i => b.rows[x] = r[x]
        BY <2>3, <2>5
      <3> QED
        BY <1>5, <2>7, <3>1
    <2>9. ASSUME NEW h \in Good PROVE More(b.rows, old, OfGood(h)) + b.left[h] = Arrived(k, h)
      <3> DEFINE X == OfGood(h)
      <3>1. X \in SUBSET Item /\ (i \in X <=> h = g)
        BY DEF OfGood
      <3>2. \A x \in X : b.rows[x] \in ItemType /\ r[x] \in ItemType /\ old[x] \in ItemType
        BY <1>4, <2>4, <3>1
      <3>3. More(r, old, X) + a.left[h] = Arrived(k, h) /\ a.left[h] \in Nat /\ More(r, old, X) \in Int
        BY <1>4, <1>5, <3>1, <3>2, MoreInt
      <3> HIDE DEF X
      <3>4. \A x \in X \ {i} : b.rows[x].received = r[x].received
        BY <2>3, <2>5, <3>1
      <3>5. CASE h = g
        <4> DEFINE new == b.rows
                   mid == a.rows
        <4>1. /\ \A x \in X : new[x] \in ItemType /\ mid[x] \in ItemType /\ old[x] \in ItemType
              /\ \A x \in X \ {i} : new[x].received = mid[x].received
              /\ i \in X
          BY <3>1, <3>2, <3>4, <3>5
        <4> HIDE DEF new, mid
        <4>2. More(new, old, X) = More(mid, old, X) + new[i].received - mid[i].received
          BY <3>1, <4>1, MoreOne
        <4>3. new[i].received = mid[i].received + take /\ mid[i].received \in Nat
          BY <1>4, <2>3, <2>5, <2>6, ItemNat DEF new, mid
        <4>4. b.left[h] = a.left[h] - take
          BY <1>4, <2>3, <3>5
        <4>5. More(new, old, X) = More(mid, old, X) + take
          BY <2>2, <3>3, <4>2, <4>3 DEF mid
        <4>6. More(new, old, X) + b.left[h] = Arrived(k, h)
          BY <2>2, <3>3, <4>4, <4>5 DEF mid
        <4> QED
          BY <4>6 DEF new, X
      <3>6. CASE h # g
        <4>1. \A x \in X : b.rows[x].received - old[x].received = r[x].received - old[x].received
          BY <3>1, <3>4, <3>6
        <4>2. More(b.rows, old, X) = More(r, old, X)
          BY <4>1, MoreSame
        <4>3. b.left[h] = a.left[h]
          BY <1>4, <2>3, <3>6
        <4> QED
          BY <3>3, <4>2, <4>3 DEF X
      <3> QED
        BY <3>5, <3>6
    <2>10. b \in Deals(k, old)
      BY <1>2, <2>8, <2>9 DEF Deals
    <2> QED
      BY <2>10 DEF b
  <1> QED
    BY <1>6, <1>7

\* So no item is given more than it lacks, and no more is given than came.
LEMMA AllocationDeals ==
    ASSUME NEW k \in Key, NEW old, ReadForSharing(k, old), ItemsSound(old)
    PROVE  /\ \A i \in Item : GivenItem(Allocation(k, old)[i], old[i]) /\ Allocation(k, old)[i] \in ItemType
           /\ \A g \in Good : More(Allocation(k, old), old, OfGood(g)) <= Arrived(k, g)
  <1> DEFINE base == [left |-> [g \in Good |-> Arrived(k, g)], rows |-> old]
             A == Deals(k, old)
             Walk(h) == h = [s \in SUBSET DOMAIN ByAge |->
                                IF s = {} THEN base ELSE Given(h[s \ {Max(s)}], ByAge[Max(s)])]
  <1>1. Allocation(k, old) = (CHOOSE h : Walk(h))[DOMAIN ByAge].rows
    BY DEF Allocation, FoldLeft, MapThenFoldSet
  <1>2. base \in A
    BY DealsNone
  <1>3. ASSUME NEW a \in A, NEW i \in Item PROVE Given(a, i) \in A
    BY DealsOne
  <1> HIDE DEF A, base
  <1>4. PICK n \in Nat : DOMAIN ByAge = 1..n /\ \A j \in 1..n : ByAge[j] \in Item
    BY AgesAre
  <1> DEFINE F == [p \in A \X (1..n) |-> Given(p[1], ByAge[p[2]])]
  <1>5. F \in [A \X (1..n) -> A]
    BY <1>3, <1>4
  <1>6. ASSUME NEW a \in A, NEW j \in 1..n PROVE F[<<a, j>>] = Given(a, ByAge[j])
    OBVIOUS
  <1> HIDE DEF F
  <1>7. PICK h : Walks(n, base, F, h) /\ \A s \in SUBSET (1..n) : h[s] \in A
    BY <1>2, <1>5, WalkExists
  <1>8. Walk(h)
    <2>1. ASSUME NEW s \in SUBSET (1..n), s # {}
          PROVE  F[<<h[s \ {Max(s)}], Max(s)>>] = Given(h[s \ {Max(s)}], ByAge[Max(s)])
      <3>1. Max(s) \in 1..n /\ s \ {Max(s)} \in SUBSET (1..n)
        BY <2>1, LastIs
      <3> QED
        BY <1>6, <1>7, <3>1
    <2> QED
      BY <1>4, <1>7, <2>1 DEF Walks
  <1> DEFINE r == CHOOSE x : Walk(x)
  <1>9. Walk(r)
    BY <1>8
  <1> HIDE DEF r
  <1>10. r[{}] \in A
    BY <1>2, <1>9
  <1>11. ASSUME NEW s \in SUBSET (1..n), s # {}, r[s \ {Max(s)}] \in A PROVE r[s] \in A
    <2>1. r[s] = Given(r[s \ {Max(s)}], ByAge[Max(s)])
      BY <1>4, <1>9, <1>11
    <2>2. Max(s) \in 1..n
      BY <1>11, LastIs
    <2> QED
      BY <1>3, <1>4, <1>11, <2>1, <2>2
  <1>12. r[1..n] \in A
    BY <1>10, <1>11, WalkEnds
  <1> DEFINE a == r[1..n]
  <1>13. a \in Deals(k, old) /\ Allocation(k, old) = a.rows
    BY <1>1, <1>4, <1>12 DEF r, A
  <1> HIDE DEF a
  <1>14. a \in Shares(k, old)
    BY <1>13 DEF Deals
  <1>15. (\A i \in Item : a.rows[i] \in ItemType /\ old[i] \in ItemType) /\ a.left \in [Good -> Nat]
    BY <1>14, DealsTyped
  <1>16. ASSUME NEW g \in Good PROVE More(a.rows, old, OfGood(g)) <= Arrived(k, g)
    <2>1. OfGood(g) \in SUBSET Item
      BY DEF OfGood
    <2>2. More(a.rows, old, OfGood(g)) \in Int
      BY <1>15, <2>1, MoreInt
    <2>3. More(a.rows, old, OfGood(g)) + a.left[g] = Arrived(k, g) /\ a.left[g] \in Nat
      BY <1>13, <1>15 DEF Deals
    <2> QED
      BY <2>2, <2>3
  <1> QED
    BY <1>13, <1>15, <1>16 DEF Deals
-----------------------------------------------------------------------------
(* The writing of the shares: the items. *)

\* An item as it is written with its share.
LEMMA ShareFields ==
    ASSUME NEW v \in ItemType, NEW r, NEW s
    PROVE  LET e == ItemShare(v, r, s)
           IN e.quantity = v.quantity /\ e.received = r.received /\ e.status = r.status
  BY DEF ItemShare, ItemType

\* One that is as it was read stays sound.
LEMMA ShareSound ==
    ASSUME NEW i \in Item, NEW v \in ItemType, ItemSound(i, v), NEW r \in ItemType, NEW s \in ItemType,
           GivenItem(r, s), r # s, v.status = "ORDERED", v.quantity = s.quantity,
           NEW e, e.quantity = v.quantity, e.received = r.received, e.status = r.status
    PROVE  ItemSound(i, e)
  <1>1. s.status = "ORDERED" /\ r.quantity = s.quantity /\ r.received <= r.quantity
    BY DEF GivenItem
  <1>2. r.status = "ORDERED" \/ (r.status = "RECEIVED" /\ r.received = r.quantity)
    BY <1>1 DEF GivenItem
  <1>3. i \in Range(Items)
    BY DEF ItemSound
  <1>4. ItemOrder[i] = NoOrder => v.quantity = Wanted[i]
    BY DEF ItemSound
  <1> QED
    BY <1>1, <1>2, <1>3, <1>4 DEF ItemSound

\* A receipt gives what came to items that are as they were read.
LEMMA FollowAllocate ==
    ASSUME FollowInvariant, BackedInvariant', NEW t \in Txn, Allocate(t)
    PROVE  FollowInvariant'
  <1> DEFINE k == job[t].arg
             old == seen[t]
             r == Allocation(k, old)
             given == Changed(r, Restrict(old, Item \cup GoodsOf(k)))
             Backed(g) == [See(t)[g] EXCEPT !.reserved = given[g].reserved, !.net = given[g].net]
             Shared(i) == [See(t)[i] EXCEPT !.received = given[i].received, !.status = given[i].status,
                                            !.reserved = @ + given[i].reserved - seen[t][i].reserved]
             rows == [x \in DOMAIN given |-> IF x \in Item THEN Shared(x) ELSE Backed(x)]
  <1>1. /\ job[t].op = "receive" /\ job[t].step = "allocate" /\ Goto(t, "charge")
        /\ Write(t, rows) /\ db' = db /\ seen' = seen
        /\ \A i \in DOMAIN given \cap Item : See(t)[i].status = "ORDERED" /\ See(t)[i].received = seen[t][i].received
    BY DEF Allocate, At
  <1>2. /\ BackedInvariant /\ BookInvariant /\ Versions /\ InPlace(t) /\ ItemVersions
        /\ GivesWhatCame(t) /\ CutsOwn(t) /\ SplitsOwn(t) /\ Whole(See(t)) /\ KnowsOpen(t)
    BY DEF FollowInvariant, BackedInvariant, Follows
  <1>3. k \in Key
    BY <1>1, <1>2, ReceiptHasKey
  <1>4. GoodsOf(k) \subseteq Good
    BY <1>3, GoodsReceiptAssumption DEF GoodsOf, ActiveLines
  <1>5. DOMAIN old = Item \cup Order \cup GoodsOf(k)
    BY <1>1, <1>2 DEF InPlace, KnowsFree, At
  <1>6. ReadForSharing(k, old) /\ ItemsSound(old)
    BY <1>2, <1>5 DEF Versions, ReadForSharing, ItemVersions
  <1>7. SharedItems(k, r, old)
    <2>1. r \in SharedRows(k, old)
      BY <1>3, <1>6, AllocationShares
    <2> HIDE DEF r
    <2> QED
      BY <2>1 DEF SharedRows
  <1>8. /\ \A i \in Item : GivenItem(r[i], old[i]) /\ r[i] \in ItemType
        /\ \A g \in Good : More(r, old, OfGood(g)) <= Arrived(k, g)
    BY <1>3, <1>6, AllocationDeals
  <1> HIDE DEF r
  <1>9. /\ DOMAIN given = {x \in Item \cup GoodsOf(k) : r[x] # old[x]}
        /\ \A x \in DOMAIN given : given[x] = r[x]
    <2> DEFINE part == Restrict(old, Item \cup GoodsOf(k))
    <2>1. DOMAIN part = Item \cup GoodsOf(k) /\ \A x \in DOMAIN part : part[x] = old[x]
      BY DEF Restrict
    <2> HIDE DEF part
    <2>2. given = [x \in {y \in DOMAIN part : r[y] # part[y]} |-> r[x]]
      BY DEF Changed, Restrict, part
    <2> QED
      BY <2>1, <2>2
  <1>10. Wrote(t, rows) /\ DOMAIN rows = DOMAIN given
    <2> HIDE DEF given, Shared, Backed
    <2> QED
      BY <1>1, <1>2, BookWrites
  <1>11. ASSUME NEW i \in Item PROVE See(t)[i] \in ItemType /\ old[i] \in ItemType /\ ItemSound(i, See(t)[i])
    BY <1>2, <1>6, SeesTyped, SeesItems, Tables DEF ReadForSharing, Sound, SoundRow
  <1>12. ASSUME NEW i \in DOMAIN given \cap Item
         PROVE  /\ rows[i].quantity = See(t)[i].quantity /\ rows[i].received = r[i].received
                /\ rows[i].status = r[i].status
                /\ See(t)[i].quantity = old[i].quantity /\ See(t)[i].received = old[i].received
                /\ old[i].status = "ORDERED" /\ See(t)[i].status = "ORDERED"
    <2>1. r[i] # old[i] /\ given[i] = r[i]
      BY <1>9
    <2>2. old[i].status = "ORDERED"
      BY <1>8, <2>1 DEF GivenItem
    <2>3. ItemGood[i] \in GoodsOf(k)
      BY <1>7, <2>1 DEF SharedItems
    <2>4. See(t)[i].status = "ORDERED" /\ See(t)[i].received = old[i].received
      BY <1>1
    <2>5. See(t)[i].quantity = old[i].quantity
      BY <1>1, <1>2, <2>2, <2>3, <2>4 DEF KnowsOpen, At
    <2> DEFINE v == See(t)[i]
               e == rows[i]
    <2>6. e = ItemShare(v, given[i], old[i])
      BY DEF ItemShare
    <2>7. v \in ItemType
      BY <1>11
    <2> HIDE DEF given, v, e
    <2>8. e.quantity = v.quantity /\ e.received = r[i].received /\ e.status = r[i].status
      BY <2>1, <2>6, <2>7, ShareFields
    <2> QED
      BY <2>2, <2>4, <2>5, <2>8 DEF v, e
  <1> HIDE DEF rows, Shared, Backed
  <1>13. ASSUME NEW i \in Item
         PROVE  /\ See(t)'[i].quantity = See(t)[i].quantity /\ ItemSound(i, See(t)'[i])
                /\ See(t)'[i].received = See(t)[i].received + r[i].received - old[i].received
                /\ See(t)'[i].status = "ORDERED" => See(t)[i].status = "ORDERED"
    <2>1. See(t)'[i] = IF i \in DOMAIN given THEN rows[i] ELSE See(t)[i]
      BY <1>10, Tables DEF Wrote
    <2>2. See(t)[i].received \in Nat /\ old[i].received \in Nat /\ r[i].received \in Nat
      BY <1>8, <1>11, ItemNat
    <2>3. CASE i \in DOMAIN given
      <3>1. r[i] # old[i]
        BY <1>9, <2>3
      <3> DEFINE v == See(t)[i]
                 a == r[i]
                 b == old[i]
                 e == rows[i]
      <3>2. /\ v \in ItemType /\ ItemSound(i, v) /\ a \in ItemType /\ b \in ItemType /\ GivenItem(a, b) /\ a # b
            /\ v.status = "ORDERED" /\ v.quantity = b.quantity
            /\ e.quantity = v.quantity /\ e.received = a.received /\ e.status = a.status
        BY <1>8, <1>11, <1>12, <2>3, <3>1
      <3> HIDE DEF v, a, b, e
      <3>3. ItemSound(i, e)
        BY <3>2, ShareSound
      <3> QED
        BY <1>12, <2>1, <2>2, <2>3, <3>3 DEF e
    <2>4. CASE i \notin DOMAIN given
      <3>1. r[i] = old[i]
        BY <1>9, <2>4
      <3> QED
        BY <1>11, <2>1, <2>2, <2>4, <3>1
    <2> QED
      BY <2>3, <2>4
  <1>14. /\ job'[t].op = "receive" /\ job'[t].step = "charge" /\ job'[t].arg = k
         /\ \A u \in Txn \ {t} : job'[u] = job[u]
    BY <1>1, <1>2, NextAwait DEF BookInvariant
  <1>15. Moves(t)
    BY <1>1, <1>2, <1>14, MovesOn
  <1>16. DOMAIN mine[t] \subseteq DOMAIN mine'[t]
    BY <1>10 DEF Wrote
  <1>17. ItemsSound(seen[t])'
    BY <1>1, <1>2 DEF ItemVersions
  <1>18. GivesWhatCame(t)'
    <2> SUFFICES ASSUME NEW g \in Good PROVE Gained(t, g)' <= MayGive(t, g)'
      BY DEF GivesWhatCame
    <2> DEFINE X == OfGood(g)
               new == See(t)'
               mid == See(t)
    <2>1. X \in SUBSET Item
      BY DEF OfGood
    <2>2. \A x \in X : /\ new[x] \in ItemType /\ mid[x] \in ItemType /\ db[x] \in ItemType
                       /\ r[x] \in ItemType /\ old[x] \in ItemType
      <3>1. \A x \in Item : See(t)'[x] \in ItemType
        <4>1. Versions'
          BY DEF BackedInvariant
        <4>2. ASSUME NEW x \in Item PROVE See(t)'[x] \in ItemType
          <5>1. See(t)'[x] = IF x \in DOMAIN mine'[t] THEN mine'[t][x] ELSE db'[x]
            BY <4>1, Tables DEF See, Over, Versions
          <5>2. x \in DOMAIN db'
            BY <4>1, Tables DEF Versions
          <5> QED
            BY <4>1, <5>1, <5>2 DEF Versions, Sound, SoundRow
        <4> QED
          BY <4>2
      <3>2. \A x \in Item : See(t)[x] \in ItemType /\ db[x] \in ItemType
        BY <1>2, SeesTyped
      <3> QED
        BY <1>8, <1>11, <2>1, <3>1, <3>2
    <2>3. \A x \in X : new[x].received = mid[x].received + r[x].received - old[x].received
      BY <1>13, <2>1
    <2>4. Gained(t, g) = More(mid, db, X) /\ Gained(t, g)' = More(new, db, X)
      BY <1>1 DEF Gained
    <2> HIDE DEF X, new, mid
    <2>5. More(new, db, X) = More(mid, db, X) + More(r, old, X)
      BY <2>1, <2>2, <2>3, MoreSum
    <2>6. More(mid, db, X) \in Int /\ More(r, old, X) \in Int /\ More(new, db, X) \in Int
      BY <2>1, <2>2, MoreInt
    <2>7. More(mid, db, X) <= 0
      <3>1. MayGive(t, g) = 0
        BY <1>1 DEF MayGive, Past, BeforeShares
      <3>2. Gained(t, g) <= MayGive(t, g)
        BY <1>2 DEF GivesWhatCame
      <3> QED
        BY <2>4, <3>1, <3>2
    <2>8. More(r, old, X) <= Arrived(k, g) /\ Arrived(k, g) \in Nat
      BY <1>3, <1>8, ArrivedNat DEF X
    <2>9. MayGive(t, g)' = Arrived(k, g)
      BY <1>14 DEF MayGive, Past, Receiving, BeforeShares, BeforeStock, BeforeLines
    <2> QED
      BY <2>4, <2>5, <2>6, <2>7, <2>8, <2>9
  <1>19. CutsOwn(t)'
    BY <1>1, <1>2, <1>13, <1>16 DEF CutsOwn
  <1>20. \A i \in Nobodys : i \in Item /\ RestOf[i] \in Item
    BY RestsAre DEF Nobodys
  <1>21. SplitsOwn(t)'
    <2> SUFFICES ASSUME NEW i \in Nobodys, NEW x \in {i, RestOf[i]}, See(t)'[x].quantity # db'[x].quantity
                 PROVE  {i, RestOf[i]} \subseteq DOMAIN mine'[t]
      BY DEF SplitsOwn
    <2>1. See(t)[x].quantity # db[x].quantity
      BY <1>1, <1>13, <1>20
    <2> QED
      BY <1>2, <1>16, <2>1 DEF SplitsOwn
  <1>22. Whole(See(t))'
    BY <1>2, <1>13, <1>20 DEF Whole
  <1>23. KnowsReturned(t)' /\ KnowsOpen(t)' /\ KnowsHeld(t)'
    BY <1>14 DEF KnowsReturned, KnowsOpen, KnowsHeld, At
  <1>24. Follows(t)'
    BY <1>18, <1>19, <1>21, <1>22, <1>23 DEF Follows
  <1>25. \A i \in Item : ItemSound(i, See(t)'[i])
    BY <1>13
  <1> QED
    BY <1>1, <1>10, <1>15, <1>17, <1>24, <1>25, FollowUncommitted
-----------------------------------------------------------------------------
(* Items that return to their lists: what is kept of them. *)

\* An item that is given back has received what it had.
LEMMA RecastFields ==
    ASSUME NEW t, NEW returned, NEW i, See(t)[i] \in ItemType
    PROVE  /\ Recast(t, returned, i).received = See(t)[i].received
           /\ returned[i] = seen[t][i] => Recast(t, returned, i) = See(t)[i]
           /\ returned[i] # seen[t][i] => /\ Recast(t, returned, i).status = returned[i].status
                                          /\ Recast(t, returned, i).quantity = returned[i].quantity
  BY DEF Recast, ItemType

\* A lowered item stays sound.
LEMMA LoweredSound ==
    ASSUME NEW i \in Item, NEW v \in ItemType, NEW old \in ItemType, Lowered(v, old), ItemSound(i, old)
    PROVE  ItemSound(i, v)
  <1>1. v.quantity \in Nat /\ old.quantity \in Nat /\ v.received = old.received
    BY ItemNat DEF Lowered
  <1>2. CASE old.status = "OPEN"
    <2>1. v.received = 0 /\ v.status \in {"OPEN", "CANCELLED"}
      BY <1>1, <1>2 DEF Lowered, ItemSound
    <2> QED
      BY <1>1, <2>1 DEF ItemSound
  <1>3. CASE old.status # "OPEN"
    <2>1. v.status = old.status /\ v.quantity = old.quantity
      BY <1>3 DEF Lowered
    <2> QED
      BY <1>1, <2>1 DEF ItemSound
  <1> QED
    BY <1>2, <1>3

\* The items as they are given back: sound; one that is still ordered is cut only by who
\* holds its order; and one of nobody is cut in two, or not at all.
ReturnsWhole(t, returned) ==
    /\ \A i \in Item : ItemSound(i, Recast(t, returned, i))
    /\ \A i \in Item : Recast(t, returned, i).status = "ORDERED" /\ Recast(t, returned, i).quantity # db[i].quantity =>
          i \in Unconfirmed /\ ItemOrder[i] \in DOMAIN mine[t]
    /\ \A i \in Nobodys :
          /\ Recast(t, returned, i).quantity + Recast(t, returned, RestOf[i]).quantity = Wanted[i]
          /\ \/ \A x \in {i, RestOf[i]} : Recast(t, returned, x).quantity = See(t)[x].quantity
             \/ \A x \in {i, RestOf[i]} : Recast(t, returned, x) # See(t)[x]

\* What is written of them then keeps all that matters.
LEMMA FollowReturns ==
    ASSUME FollowInvariant, BackedInvariant', db' = db, seen' = seen, NEW t \in Txn, NEW returned,
           NEW items \in SUBSET Item, ReturnToList(t, returned, items), returned \in ReturnedRows(seen[t], items),
           job[t].step \in {"close", "return"}, Receiving(t) => job[t].step = "close",
           NEW s \in {"status", "end"}, Goto(t, s), Receiving(t) => s = "status", ReturnsWhole(t, returned),
           s = "status" => \A i \in Item : Recast(t, returned, i).status # "ORDERED"
    PROVE  FollowInvariant'
  <1>1. /\ BackedInvariant /\ BookInvariant /\ Versions /\ InPlace(t) /\ ItemVersions
        /\ GivesWhatCame(t) /\ CutsOwn(t) /\ SplitsOwn(t) /\ Whole(See(t))
    BY DEF FollowInvariant, BackedInvariant, Follows
  <1>2. Item \subseteq DOMAIN seen[t]
    BY <1>1 DEF InPlace, KnowsItems
  <1>3. PICK rows : /\ Wrote(t, rows) /\ DOMAIN rows \subseteq Item
                    /\ \A i \in Item :
                          /\ See(t)'[i] \in ItemType /\ Recast(t, returned, i) \in ItemType
                          /\ Lowered(See(t)'[i], Recast(t, returned, i))
                          /\ ItemOrder[i] = NoOrder => See(t)'[i] = Recast(t, returned, i)
                          /\ See(t)'[i] # See(t)[i] => i \in DOMAIN mine'[t]
    BY <1>1, <1>2, ReturnWrites
  <1>4. /\ job'[t].op = job[t].op /\ job'[t].arg = job[t].arg /\ job'[t].step = s
        /\ \A u \in Txn \ {t} : job'[u] = job[u]
    BY <1>1, NextAwait DEF BookInvariant
  <1>5. Moves(t)
    BY <1>1, <1>4, MovesOn
  <1>6. \A i \in Item : ItemSound(i, See(t)'[i])
    BY <1>3, LoweredSound DEF ReturnsWhole
  <1>7. ItemsSound(seen[t])'
    BY <1>1 DEF ItemVersions
  <1>8. GivesWhatCame(t)'
    <2> SUFFICES ASSUME NEW g \in Good PROVE Gained(t, g)' = Gained(t, g) /\ MayGive(t, g)' = MayGive(t, g)
      BY <1>1 DEF GivesWhatCame
    <2>1. MayGive(t, g)' = MayGive(t, g)
      BY <1>4 DEF MayGive, Past, Receiving, BeforeShares, BeforeStock, BeforeLines
    <2>2. \A i \in Item : See(t)'[i].received = See(t)[i].received
      <3> SUFFICES ASSUME NEW i \in Item PROVE See(t)'[i].received = See(t)[i].received
        OBVIOUS
      <3>1. See(t)[i] \in ItemType
        BY <1>1, SeesTyped
      <3>2. Recast(t, returned, i).received = See(t)[i].received
        BY <3>1, RecastFields
      <3> QED
        BY <1>3, <3>2 DEF Lowered
    <2>3. \A i \in OfGood(g) : See(t)'[i].received - db'[i].received = See(t)[i].received - db[i].received
      BY <2>2 DEF OfGood
    <2>4. More(See(t)', db', OfGood(g)) = More(See(t), db, OfGood(g))
      BY <2>3, MoreSame
    <2> QED
      BY <2>1, <2>4 DEF Gained
  <1>9. DOMAIN mine[t] \subseteq DOMAIN mine'[t]
    BY <1>3 DEF Wrote
  <1>10. ASSUME NEW i \in Item, See(t)'[i].status = "ORDERED"
         PROVE  Recast(t, returned, i).status = "ORDERED" /\ See(t)'[i].quantity = Recast(t, returned, i).quantity
    BY <1>3, <1>10 DEF Lowered
  <1>11. CutsOwn(t)'
    <2> SUFFICES ASSUME NEW i \in Item, See(t)'[i].status = "ORDERED", See(t)'[i].quantity # db'[i].quantity
                 PROVE  i \in Unconfirmed /\ ItemOrder[i] \in DOMAIN mine'[t]
      BY DEF CutsOwn
    <2>1. i \in Unconfirmed /\ ItemOrder[i] \in DOMAIN mine[t]
      BY <1>10 DEF ReturnsWhole
    <2> QED
      BY <1>9, <2>1
  <1>12. ASSUME NEW i \in Nobodys, NEW x \in {i, RestOf[i]}
         PROVE  x \in Item /\ See(t)'[x] = Recast(t, returned, x)
    <2>1. x \in Item /\ ItemOrder[x] = NoOrder
      BY RestsAre DEF Nobodys
    <2> QED
      BY <1>3, <2>1
  <1>13. SplitsOwn(t)'
    <2> SUFFICES ASSUME NEW i \in Nobodys, NEW x \in {i, RestOf[i]}, See(t)'[x].quantity # db'[x].quantity
                 PROVE  {i, RestOf[i]} \subseteq DOMAIN mine'[t]
      BY DEF SplitsOwn
    <2>1. CASE \A y \in {i, RestOf[i]} : Recast(t, returned, y).quantity = See(t)[y].quantity
      <3>1. See(t)[x].quantity # db[x].quantity
        BY <1>12, <2>1
      <3> QED
        BY <1>1, <1>9, <3>1 DEF SplitsOwn
    <2>2. CASE \A y \in {i, RestOf[i]} : Recast(t, returned, y) # See(t)[y]
      BY <1>3, <1>12, <2>2
    <2> QED
      BY <2>1, <2>2 DEF ReturnsWhole
  <1>14. Whole(See(t))'
    BY <1>12 DEF Whole, ReturnsWhole
  <1>15. KnowsReturned(t)'
    <2>1. s = "status" => \A i \in Item : See(t)'[i].status # "ORDERED"
      BY <1>10
    <2>2. s = "status" => WithStatus(See(t)', "ORDERED") = {}
      BY <2>1 DEF WithStatus
    <2>3. job'[t].step = s /\ s # "close"
      BY <1>4
    <2> QED
      BY <2>2, <2>3 DEF KnowsReturned
  <1>16. KnowsOpen(t)' /\ KnowsHeld(t)'
    BY <1>4 DEF KnowsOpen, KnowsHeld, At
  <1>17. Follows(t)'
    BY <1>8, <1>11, <1>13, <1>14, <1>15, <1>16 DEF Follows
  <1> QED
    BY <1>3, <1>5, <1>6, <1>7, <1>17, FollowUncommitted

\* Closing the order returns all that is ordered, each with the part split off it.
LEMMA CloseWhole ==
    ASSUME FollowInvariant, NEW t \in Txn, job[t].step = "close", Item \subseteq DOMAIN seen[t],
           NEW r, r \in PartedRows(seen[t], WithStatus(seen[t], "ORDERED")),
           \A i \in WithStatus(seen[t], "ORDERED") : Left(r[i], seen[t][i]) /\ Unmoved(t, i),
           WithStatus(seen[t], "ORDERED") \subseteq Range(Items)
    PROVE  ReturnsWhole(t, r) /\ \A i \in Item : Recast(t, r, i).status # "ORDERED"
  <1> DEFINE X == WithStatus(seen[t], "ORDERED")
             old == seen[t]
             c(i) == Recast(t, r, i)
  <1>1. /\ Versions /\ ItemVersions /\ Whole(See(t)) /\ Whole(old)
        /\ \A i \in Item : See(t)[i].status = "ORDERED" => i \in X
    BY DEF FollowInvariant, BackedInvariant, Follows, KnowsReturned, WithStatus
  <1>2. ASSUME NEW i \in Item
        PROVE  /\ See(t)[i] \in ItemType /\ ItemSound(i, See(t)[i]) /\ ItemSound(i, old[i]) /\ old[i] \in ItemType
    BY <1>1, <1>2, SeesTyped, SeesItems, Tables DEF Versions, Sound, SoundRow
  <1>3. ASSUME NEW i \in X
        PROVE  /\ i \in Item /\ old[i].status = "ORDERED" /\ c(i).quantity = r[i].quantity /\ c(i).status = r[i].status
               /\ c(i).received = old[i].received /\ c(i).status # "ORDERED"
               /\ See(t)[i].quantity = old[i].quantity /\ See(t)[i].status = "ORDERED"
    <2>1. i \in Item /\ old[i].status = "ORDERED" /\ Left(r[i], old[i]) /\ Unmoved(t, i)
      BY <1>3 DEF WithStatus
    <2>2. r[i].status # "ORDERED"
      BY <2>1 DEF Left
    <2>3. r[i] # old[i]
      BY <2>1, <2>2
    <2>4. c(i).received = See(t)[i].received /\ c(i).status = r[i].status /\ c(i).quantity = r[i].quantity
      BY <1>2, <2>1, <2>3, RecastFields
    <2> HIDE DEF c
    <2> QED
      BY <2>1, <2>2, <2>4 DEF Unmoved
  <1>4. ASSUME NEW i \in Item, i \notin X
        PROVE  \/ r[i] = old[i] /\ c(i) = See(t)[i]
               \/ \E j \in X, status \in {"OPEN", "CANCELLED"} :
                     /\ i = RestOf[j] /\ r[j].quantity < old[j].quantity
                     /\ r[i] = NewItem(status, old[j].quantity - r[j].quantity)
                     /\ r[i] # old[i] /\ c(i).status = status /\ c(i).quantity = r[i].quantity
    <2>1. CASE r[i] = old[i]
      BY <1>2, <1>4, <2>1, RecastFields
    <2>2. CASE r[i] # old[i]
      <3>1. PICK j \in X : i = RestOf[j]
        BY <1>4, <2>2 DEF PartedRows
      <3>2. PartsKept(r, old, j)
        BY <3>1 DEF PartedRows
      <3>3. PICK status \in {"OPEN", "CANCELLED"} :
               r[j].quantity < old[j].quantity /\ r[i] = NewItem(status, old[j].quantity - r[j].quantity)
        BY <2>2, <3>1, <3>2 DEF PartsKept
      <3>4. c(i).status = r[i].status /\ c(i).quantity = r[i].quantity
        BY <1>2, <1>4, <2>2, RecastFields
      <3>5. r[i].status = status
        BY <3>3 DEF NewItem
      <3> HIDE DEF c
      <3> QED
        BY <2>2, <3>1, <3>3, <3>4, <3>5
    <2> QED
      BY <2>1, <2>2
  <1>5. ASSUME NEW i \in Item PROVE c(i).status # "ORDERED"
    <2>1. CASE i \in X
      BY <1>3, <2>1
    <2>2. CASE i \notin X
      <3>1. See(t)[i].status # "ORDERED"
        BY <1>1, <2>2
      <3> HIDE DEF c, X
      <3> QED
        BY <1>4, <2>2, <3>1
    <2> QED
      BY <2>1, <2>2
  <1>6. ASSUME NEW j \in X
        PROVE  /\ r[j].quantity \in Nat /\ old[j].quantity \in Nat /\ old[j].received \in Nat
               /\ NewItem("OPEN", old[j].quantity - r[j].quantity).quantity = old[j].quantity - r[j].quantity
               /\ NewItem("CANCELLED", old[j].quantity - r[j].quantity).quantity = old[j].quantity - r[j].quantity
    <2>1. r[j] \in ItemType /\ old[j] \in ItemType
      BY <1>2, <1>3 DEF Left
    <2> QED
      BY <2>1, ItemNat DEF NewItem
  <1>7. ASSUME NEW i \in Item PROVE ItemSound(i, c(i))
    <2>1. CASE i \in X
      <3>1. Left(r[i], old[i]) /\ i \in Range(Items)
        BY <2>1
      <3>2. /\ c(i).quantity = r[i].quantity /\ c(i).status = r[i].status
            /\ c(i).received = old[i].received
        BY <1>3, <2>1
      <3>3. old[i].received \in Nat /\ old[i].quantity \in Nat
        BY <1>6, <2>1
      <3> HIDE DEF c
      <3> QED
        BY <3>1, <3>2, <3>3 DEF Left, ItemSound
    <2>2. CASE i \notin X
      <3>1. CASE c(i) = See(t)[i]
        BY <1>2, <3>1
      <3>2. ASSUME NEW j \in X, NEW status \in {"OPEN", "CANCELLED"}, i = RestOf[j], r[j].quantity < old[j].quantity,
                   r[i] = NewItem(status, old[j].quantity - r[j].quantity),
                   c(i).status = status, c(i).quantity = r[i].quantity
            PROVE  ItemSound(i, c(i))
        <4>1. i \notin Range(Items)
          BY <3>2, RestsAre
        <4>2. See(t)[i].received = 0
          BY <1>2, <4>1 DEF ItemSound
        <4>3. c(i).received = 0
          BY <1>2, <4>2, RecastFields
        <4>4. c(i).quantity \in Nat
          BY <1>6, <3>2
        <4> HIDE DEF c
        <4> QED
          BY <3>2, <4>1, <4>3, <4>4 DEF ItemSound
      <3> HIDE DEF c, X
      <3> QED
        BY <1>4, <2>2, <3>1, <3>2
    <2> QED
      BY <2>1, <2>2
  <1>8. ASSUME NEW i \in Nobodys
        PROVE  /\ c(i).quantity + c(RestOf[i]).quantity = Wanted[i]
               /\ \/ \A x \in {i, RestOf[i]} : c(x).quantity = See(t)[x].quantity
                  \/ \A x \in {i, RestOf[i]} : c(x) # See(t)[x]
    <2> DEFINE p == RestOf[i]
    <2>1. /\ i \in Item /\ p \in Item /\ p \notin Range(Items) /\ p # i /\ i \in Range(Items)
          /\ \A j \in Range(Items) : RestOf[j] = p => j = i
          /\ ItemOrder[i] = NoOrder /\ Wanted[i] \in Nat
      BY RestsAre DEF Nobodys
    <2>2. p \notin X
      BY <2>1
    <2>3. See(t)[i].quantity + See(t)[p].quantity = Wanted[i] /\ old[i].quantity + old[p].quantity = Wanted[i]
      BY <1>1 DEF Whole
    <2> HIDE DEF p
    <2>4. See(t)[i].quantity \in Nat /\ See(t)[p].quantity \in Nat /\ old[i].quantity \in Nat /\ old[p].quantity \in Nat
      BY <1>2, <2>1, ItemNat
    <2>5. CASE i \in X
      <3>1. /\ c(i).quantity = r[i].quantity /\ See(t)[i].quantity = old[i].quantity /\ old[i].status = "ORDERED"
            /\ c(i).status # "ORDERED" /\ See(t)[i].status = "ORDERED"
        BY <1>3, <2>5
      <3>2. old[i].quantity = Wanted[i]
        BY <1>2, <2>1, <3>1 DEF ItemSound
      <3>3. old[p].quantity = 0 /\ See(t)[p].quantity = 0
        BY <2>3, <2>4, <3>1, <3>2
      <3>4. PartsKept(r, old, i)
        BY <2>5 DEF PartedRows
      <3>5. CASE r[i].quantity = old[i].quantity /\ r[p] = old[p]
        <4>1. c(p) = See(t)[p]
          BY <1>2, <2>1, <3>5, RecastFields
        <4>2. c(i).quantity = See(t)[i].quantity
          BY <3>1, <3>5
        <4> HIDE DEF c, X
        <4> QED
          BY <2>3, <4>1, <4>2 DEF p
      <3>6. ASSUME r[i].quantity < old[i].quantity, NEW status \in {"OPEN", "CANCELLED"},
                   r[p] = NewItem(status, old[i].quantity - r[i].quantity)
            PROVE  c(i).quantity + c(p).quantity = Wanted[i] /\ c(i) # See(t)[i] /\ c(p) # See(t)[p]
        <4>1. r[i].quantity \in Nat /\ r[p].quantity = old[i].quantity - r[i].quantity
          BY <1>6, <2>5, <3>6
        <4>2. r[p].quantity > 0 /\ r[p] # old[p]
          BY <2>4, <3>3, <3>6, <4>1
        <4>3. c(p).quantity = r[p].quantity
          BY <1>2, <2>1, <4>2, RecastFields
        <4> HIDE DEF c
        <4> QED
          BY <2>4, <3>1, <3>2, <3>3, <4>1, <4>2, <4>3
      <3> HIDE DEF c, X
      <3> QED
        BY <3>4, <3>5, <3>6 DEF PartsKept, p
    <2>6. CASE i \notin X
      <3>1. \A j \in X : i # RestOf[j] /\ p # RestOf[j]
        BY <2>1, <2>6, RestsAre
      <3>2. c(i) = See(t)[i] /\ c(p) = See(t)[p]
        <4> HIDE DEF c, X
        <4> QED
          BY <1>4, <2>1, <2>2, <2>6, <3>1
      <3> HIDE DEF c, X
      <3> QED
        BY <2>3, <3>2 DEF p
    <2> QED
      BY <2>5, <2>6
  <1> HIDE DEF X
  <1> QED
    BY <1>5, <1>7, <1>8 DEF ReturnsWhole

\* The order is closed for its items,
LEMMA FollowCloseForLists ==
    ASSUME FollowInvariant, BackedInvariant', NEW t \in Txn, CloseForLists(t)
    PROVE  FollowInvariant'
  <1> DEFINE X == WithStatus(seen[t], "ORDERED")
             Return(rows, i) == IF i \in X THEN Returned(rows, i, Undelivered(rows[i])) ELSE rows
             returned == FoldLeft(Return, seen[t], ByAge)
  <1>1. /\ job[t].step = "close" /\ ReturnToList(t, returned, X) /\ Goto(t, "status")
        /\ db' = db /\ seen' = seen
    BY DEF CloseForLists
  <1>2. BackedInvariant /\ ItemVersions
    BY DEF FollowInvariant
  <1>3. X \in SUBSET Item
    BY DEF WithStatus
  <1>4. ItemsTyped(seen[t])
    BY <1>1, <1>2, ReadItemsTyped
  <1>5. Item \subseteq DOMAIN seen[t]
    BY <1>4 DEF ItemsTyped
  <1>6. \A i \in Item : ItemSound(i, seen[t][i])
    BY <1>2, <1>5 DEF ItemVersions, ItemsSound
  <1>7. X \in SUBSET Range(Items) /\ \A i \in X : seen[t][i].received <= seen[t][i].quantity
    BY <1>6 DEF WithStatus, ItemSound
  <1>8. returned \in ReturnedRows(seen[t], X)
    <2> HIDE DEF X
    <2> QED
      BY <1>3, <1>4, CloseReturns
  <1>9. returned \in PartedRows(seen[t], X) /\ \A i \in X : Left(returned[i], seen[t][i])
    <2> HIDE DEF X
    <2> QED
      BY <1>4, <1>7, CloseLeaves
  <1>10. \A i \in X : Unmoved(t, i)
    BY <1>1 DEF ReturnToList
  <1> HIDE DEF returned
  <1>11. ReturnsWhole(t, returned) /\ \A i \in Item : Recast(t, returned, i).status # "ORDERED"
    BY <1>1, <1>5, <1>7, <1>9, <1>10, CloseWhole
  <1> HIDE DEF X
  <1> QED
    BY <1>1, <1>3, <1>8, <1>11, FollowReturns

\* What the supplier has not confirmed is wanted by a work order.
UnconfirmedHasOrder == \A i \in Unconfirmed : ItemOrder[i] # NoOrder

\* An ordered item of which a part is returned.
LEMMA CutFields ==
    ASSUME NEW rows, ItemsTyped(rows), NEW i \in Item, RestOf[i] # i,
           NEW cut \in Nat \ {0}, cut <= Undelivered(rows[i])
    PROVE  LET r == Returned(rows, i, cut)
           IN /\ \A x \in Item \ {i, RestOf[i]} : r[x] = rows[x]
              /\ r[RestOf[i]] # rows[RestOf[i]] =>
                    r[RestOf[i]].status \in {"OPEN", "CANCELLED"} /\ r[RestOf[i]].quantity = cut
              /\ r[i] # rows[i] =>
                    \/ r[i].status \in {"OPEN", "CANCELLED"} /\ r[i].quantity = rows[i].quantity
                       /\ rows[i].received = 0
                    \/ r[i].status = "RECEIVED" /\ r[i].quantity = rows[i].received
                    \/ r[i].status = rows[i].status /\ r[i].quantity > rows[i].received /\ r[i].quantity \in Nat
  <1> DEFINE status == IF ItemOrder[i] \in Active(rows) \cup {NoOrder} THEN "OPEN" ELSE "CANCELLED"
             p == RestOf[i]
             v == rows[i]
             keep == v.quantity - cut
             new == Returned(rows, i, cut)
  <1>1. /\ v \in ItemType /\ i \in DOMAIN rows /\ p \in Item /\ p \in DOMAIN rows /\ p # i
    BY GoodsReceiptAssumption DEF ItemsTyped
  <1>2. /\ v.quantity \in Nat /\ v.received \in Nat /\ cut \in Nat /\ cut > 0
        /\ cut <= v.quantity - v.received /\ keep \in Nat /\ keep >= v.received
    <2>1. v.quantity \in Nat /\ v.received \in Nat
      BY <1>1, ItemNat
    <2>2. cut <= Undelivered(v)
      OBVIOUS
    <2> HIDE DEF v
    <2>3. cut <= v.quantity - v.received
      BY <2>1, <2>2 DEF Undelivered, Less
    <2> QED
      BY <2>1, <2>3 DEF keep
  <1>3. status \in {"OPEN", "CANCELLED"}
    OBVIOUS
  <1> DEFINE part == NewItem(status, cut)
             rest == [v EXCEPT !.quantity = keep, !.status = IF keep <= v.received THEN "RECEIVED" ELSE @]
  <1>4. new = IF cut = v.quantity THEN [rows EXCEPT ![i].status = status]
              ELSE [rows EXCEPT ![p] = part, ![i] = rest]
    BY <1>2 DEF Returned, SplitOff
  <1> HIDE DEF status, new
  <1>5. part.status = status /\ part.quantity = cut
    BY DEF NewItem
  <1>6. rest.quantity = keep /\ rest.status = IF keep <= v.received THEN "RECEIVED" ELSE v.status
    <2>1. v \in ItemType
      BY <1>1
    <2> HIDE DEF v, keep
    <2> QED
      BY <2>1 DEF ItemType
  <1> HIDE DEF part, rest
  <1>7. CASE cut = v.quantity
    <2> DEFINE e == [v EXCEPT !.status = status]
    <2>1. new = [rows EXCEPT ![i] = e]
      BY <1>4, <1>7
    <2>2. e.status = status /\ e.quantity = v.quantity
      <3>1. v \in ItemType
        BY <1>1
      <3> HIDE DEF v
      <3> QED
        BY <3>1 DEF ItemType
    <2>3. v.received = 0
      BY <1>2, <1>7
    <2> HIDE DEF e
    <2>4. new[i] = e /\ \A x \in Item \ {i} : new[x] = rows[x]
      BY <1>1, <2>1 DEF ItemsTyped
    <2> QED
      BY <1>1, <1>3, <2>2, <2>3, <2>4 DEF new, p
  <1>8. CASE cut # v.quantity
    <2>1. new = [rows EXCEPT ![p] = part, ![i] = rest]
      BY <1>4, <1>8
    <2>2. new[i] = rest /\ new[p] = part /\ \A x \in Item \ {i, p} : new[x] = rows[x]
      BY <1>1, <2>1 DEF ItemsTyped
    <2>3. \/ rest.status = "RECEIVED" /\ rest.quantity = v.received
          \/ rest.status = v.status /\ rest.quantity > v.received /\ rest.quantity \in Nat
      BY <1>2, <1>6
    <2> QED
      BY <1>3, <1>5, <2>2, <2>3 DEF new, p
  <1> QED
    BY <1>7, <1>8

\* A part returned of an item whose order is held leaves all whole.
LEMMA CutWhole ==
    ASSUME FollowInvariant, NEW t \in Txn, At(t, "unconfirmed", "return"), ItemsTyped(seen[t]),
           UnconfirmedHasOrder, NEW i \in Unconfirmed, NEW cut \in Nat \ {0}, cut <= Undelivered(seen[t][i]),
           seen[t][i].status = "ORDERED", Unmoved(t, i)
    PROVE  ReturnsWhole(t, Returned(seen[t], i, cut))
  <1> DEFINE old == seen[t]
             r == Returned(old, i, cut)
             p == RestOf[i]
             c(x) == Recast(t, r, x)
  <1>1. /\ Versions /\ ItemVersions /\ Whole(See(t)) /\ CutsOwn(t) /\ OrdersHeld(t, old)
    BY DEF FollowInvariant, BackedInvariant, Follows, KnowsHeld
  <1>2. ASSUME NEW x \in Item
        PROVE  See(t)[x] \in ItemType /\ ItemSound(x, See(t)[x]) /\ ItemSound(x, old[x]) /\ old[x] \in ItemType
    <2>1. x \in DOMAIN old /\ old[x] \in ItemType
      BY DEF ItemsTyped
    <2> QED
      BY <1>1, <2>1, SeesTyped, SeesItems
  <1>3. i \in Item
    BY GoodsReceiptAssumption
  <1>4. /\ i \in Range(Items) /\ ItemOrder[i] # NoOrder /\ ItemOrder[i] \in DOMAIN mine[t]
        /\ p \in Item /\ p # i /\ p \notin Range(Items)
    <2>1. i \in Range(Items)
      BY <1>2, <1>3 DEF ItemSound
    <2> QED
      BY <1>1, <1>3, <2>1, RestsAre DEF UnconfirmedHasOrder, OrdersHeld
  <1>5. /\ \A x \in Item \ {i, p} : r[x] = old[x]
        /\ r[p] # old[p] => r[p].status \in {"OPEN", "CANCELLED"} /\ r[p].quantity = cut
        /\ r[i] # old[i] =>
              \/ r[i].status \in {"OPEN", "CANCELLED"} /\ r[i].quantity = old[i].quantity /\ old[i].received = 0
              \/ r[i].status = "RECEIVED" /\ r[i].quantity = old[i].received
              \/ r[i].status = old[i].status /\ r[i].quantity > old[i].received /\ r[i].quantity \in Nat
    BY <1>3, <1>4, CutFields
  <1> HIDE DEF r
  <1>6. ASSUME NEW x \in Item PROVE c(x).received = See(t)[x].received
    BY <1>2, RecastFields
  <1>7. ASSUME NEW x \in Item, r[x] = old[x] PROVE c(x) = See(t)[x]
    BY <1>2, <1>7, RecastFields
  <1>8. ASSUME NEW x \in Item, r[x] # old[x] PROVE c(x).status = r[x].status /\ c(x).quantity = r[x].quantity
    BY <1>2, <1>8, RecastFields
  <1> HIDE DEF c
  <1>9. \A x \in Item \ {i, p} : c(x) = See(t)[x]
    BY <1>5, <1>7
  <1>10. See(t)[i].received = old[i].received /\ See(t)[i].quantity = old[i].quantity
    BY DEF Unmoved
  <1>11. old[i].quantity \in Nat /\ old[i].received \in Nat /\ See(t)[p].received = 0
    BY <1>2, <1>3, <1>4, ItemNat DEF ItemSound
  <1>12. ItemSound(i, c(i))
    <2>1. CASE r[i] = old[i]
      BY <1>2, <1>3, <1>7, <2>1
    <2>2. CASE r[i] # old[i]
      BY <1>3, <1>4, <1>5, <1>6, <1>8, <1>10, <1>11, <2>2 DEF ItemSound
    <2> QED
      BY <2>1, <2>2
  <1>13. ItemSound(p, c(p)) /\ c(p).status # "ORDERED"
    <2>1. CASE r[p] = old[p]
      BY <1>2, <1>4, <1>7, <2>1 DEF ItemSound
    <2>2. CASE r[p] # old[p]
      BY <1>4, <1>5, <1>6, <1>8, <1>11, <2>2 DEF ItemSound
    <2> QED
      BY <2>1, <2>2
  <1>14. \A x \in Item : ItemSound(x, c(x))
    BY <1>2, <1>9, <1>12, <1>13
  <1>15. ASSUME NEW x \in Item, c(x).status = "ORDERED", c(x).quantity # db[x].quantity
         PROVE  x \in Unconfirmed /\ ItemOrder[x] \in DOMAIN mine[t]
    <2>1. CASE x = i
      BY <1>4, <2>1
    <2>2. CASE x # i
      <3>1. c(x) = See(t)[x]
        BY <1>9, <1>13, <1>15, <2>2
      <3> QED
        BY <1>1, <1>15, <3>1 DEF CutsOwn
    <2> QED
      BY <2>1, <2>2
  <1>16. ASSUME NEW j \in Nobodys
         PROVE  /\ c(j).quantity + c(RestOf[j]).quantity = Wanted[j]
                /\ \A x \in {j, RestOf[j]} : c(x).quantity = See(t)[x].quantity
    <2>1. /\ j \in Item /\ RestOf[j] \in Item /\ j \in Range(Items) /\ RestOf[j] \notin Range(Items)
          /\ ItemOrder[j] = NoOrder
      BY RestsAre DEF Nobodys
    <2>2. j # i /\ j # p /\ RestOf[j] # i /\ RestOf[j] # p
      <3>1. ItemOrder[p] = ItemOrder[i]
        BY <1>4, RestsAre
      <3>2. ItemOrder[RestOf[j]] = NoOrder
        BY <2>1, RestsAre
      <3> HIDE DEF p
      <3> QED
        BY <1>4, <2>1, <3>1, <3>2
    <2> HIDE DEF p
    <2>3. c(j) = See(t)[j] /\ c(RestOf[j]) = See(t)[RestOf[j]]
      BY <1>9, <2>1, <2>2
    <2> QED
      BY <1>1, <2>3 DEF Whole
  <1>17. ReturnsWhole(t, r)
    <2> USE DEF c
    <2> QED
      BY <1>14, <1>15, <1>16 DEF ReturnsWhole
  <1> QED
    BY <1>17 DEF r

\* or the supplier has not confirmed one.
LEMMA FollowReturnUnconfirmed ==
    ASSUME UnconfirmedHasOrder, FollowInvariant, BackedInvariant', NEW t \in Txn,
           NEW i \in Unconfirmed, NEW cut \in 1..Wanted[i], ReturnUnconfirmed(t, i, cut)
    PROVE  FollowInvariant'
  <1> DEFINE returned == Returned(seen[t], i, cut)
  <1>1. /\ job[t].op = "unconfirmed" /\ job[t].step = "return" /\ ReturnToList(t, returned, {i})
        /\ Goto(t, "end") /\ db' = db /\ seen' = seen /\ cut <= Undelivered(seen[t][i])
        /\ seen[t][i].status = "ORDERED" /\ At(t, "unconfirmed", "return")
    BY DEF ReturnUnconfirmed, At, WithStatus
  <1>2. BackedInvariant
    BY DEF FollowInvariant
  <1>3. i \in Item
    BY GoodsReceiptAssumption
  <1>4. ItemsTyped(seen[t])
    BY <1>1, <1>2, ReadItemsTyped
  <1>5. cut \in Nat \ {0} /\ cut <= seen[t][i].quantity
    <2>1. Wanted[i] \in Nat
      BY <1>3, GoodsReceiptAssumption
    <2>2. seen[t][i].quantity \in Nat /\ seen[t][i].received \in Nat
      BY <1>3, <1>4, ItemNat DEF ItemsTyped
    <2>3. cut \in Nat \ {0}
      BY <2>1
    <2> QED
      BY <1>1, <2>2, <2>3 DEF Undelivered, Less
  <1>6. returned \in ReturnedRows(seen[t], {i})
    BY <1>3, <1>4, <1>5, ReturnsOne
  <1>7. Unmoved(t, i)
    BY <1>1 DEF ReturnToList
  <1>8. ReturnsWhole(t, returned)
    BY <1>1, <1>4, <1>5, <1>7, CutWhole
  <1> HIDE DEF returned
  <1> QED
    BY <1>1, <1>3, <1>6, <1>8, FollowReturns DEF Receiving
-----------------------------------------------------------------------------
(* The commits: the items. *)

\* A commit leaves the items as the request saw them, but for open ones it cancels; and
\* a receipt commits at its end.
Keeps(t) ==
    /\ \A i \in Item : /\ db'[i].quantity = See(t)[i].quantity /\ db'[i].received = See(t)[i].received
                       /\ \/ db'[i].status = See(t)[i].status
                          \/ See(t)[i].status = "OPEN" /\ db'[i].status = "CANCELLED"
    /\ Receiving(t) => job[t].step = "status"

\* What has come grows by what the receipt brought, which is what it may have given.
LEMMA ReceivedGrows ==
    ASSUME BookInvariant, NEW t \in Txn, Posts(t), Receiving(t) => job[t].step = "status", NEW g \in Good
    PROVE  /\ Received(g)' = Received(g) + Came(t, g) /\ MayGive(t, g) = Came(t, g)
           /\ Received(g) \in Int /\ Came(t, g) \in Nat
  <1> DEFINE f == [l \in Line |-> IF LineGood[l] = g THEN db[l] ELSE 0]
             h == [l \in Line |-> IF LineGood[l] = g THEN db'[l] ELSE 0]
  <1>1. Counted /\ IsFiniteSet(Line)
    BY GoodsReceiptAssumption DEF BookInvariant
  <1>2. Came(t, g) \in Nat /\ \A l \in Line : Brought(t, l) \in Nat
    BY AddsNat
  <1>3. \A l \in Line : db[l] \in Nat /\ db'[l] = db[l] + Brought(t, l)
    BY <1>1 DEF Counted, Posts
  <1>4. f \in [Line -> Int] /\ h \in [Line -> Int]
    BY <1>2, <1>3
  <1>5. Received(g) = SumFunction(f) /\ Received(g)' = SumFunction(h)
    BY DEF Received
  <1>6. Received(g) \in Int
    <2> HIDE DEF f
    <2> QED
      BY <1>1, <1>4, <1>5, FunctionSum
  <1>7. CASE Receiving(t)
    <2> DEFINE k == job[t].arg
               e == [l \in Line |-> IF LineGood[l] = g THEN Body[k][l] ELSE 0]
    <2>1. /\ Came(t, g) = Arrived(k, g) /\ MayGive(t, g) = Arrived(k, g)
          /\ \A l \in Line : Brought(t, l) = Body[k][l]
      BY <1>7 DEF Came, MayGive, Brought, Past, BeforeShares, BeforeStock, BeforeLines
    <2>2. Arrived(k, g) = SumFunction(e)
      BY DEF Arrived
    <2>3. e \in [Line -> Int] /\ \A l \in Line : h[l] = f[l] + e[l]
      BY <1>2, <1>3, <2>1
    <2> HIDE DEF e, f, h
    <2>4. PointwiseSum(Line, f, e, h)
      BY <1>1, <1>4, <2>3 DEF PointwiseSum
    <2>5. SumFunction(h) = SumFunction(f) + SumFunction(e)
      BY <2>4, FunctionsAdd
    <2> QED
      BY <1>2, <1>5, <1>6, <2>1, <2>2, <2>5
  <1>8. CASE ~Receiving(t)
    <2>1. Came(t, g) = 0 /\ MayGive(t, g) = 0 /\ \A l \in Line : Brought(t, l) = 0
      BY <1>8 DEF Came, MayGive, Brought, Past
    <2>2. \A l \in Line : h[l] = f[l]
      BY <1>3, <2>1
    <2>3. h = f
      BY <2>2
    <2> HIDE DEF f, h
    <2> QED
      BY <1>5, <1>6, <2>1, <2>3
  <1> QED
    BY <1>7, <1>8

\* What is committed of the items stays right.
LEMMA CommitItems ==
    ASSUME FollowInvariant, BackedInvariant', NEW t \in Txn, NEW rows, Committed(t, rows), Posts(t), Keeps(t)
    PROVE  ItemVersions' /\ NoMoreThanCame' /\ Whole(db)'
  <1>1. /\ BookInvariant /\ Versions /\ Versions' /\ ItemVersions /\ NoMoreThanCame
        /\ GivesWhatCame(t) /\ Whole(See(t))
    BY DEF FollowInvariant, BackedInvariant, Follows
  <1>2. ASSUME NEW i \in Item PROVE ItemSound(i, db'[i])
    <2>1. ItemSound(i, See(t)[i])
      BY <1>1, SeesItems
    <2> QED
      BY <2>1 DEF Keeps, ItemSound
  <1>3. ItemVersions'
    <2>1. ItemsSound(db)'
      BY <1>2 DEF ItemsSound
    <2>2. ASSUME NEW u \in Txn PROVE ItemsSound(mine[u])' /\ ItemsSound(seen[u])'
      <3>1. CASE u = t
        <4>1. ItemsSound(NoRows)
          BY NoRowsSound DEF ItemsSound
        <4> QED
          BY <3>1, <4>1 DEF Committed
      <3>2. CASE u # t
        <4>1. mine'[u] = mine[u] /\ seen'[u] = seen[u]
          BY <3>2 DEF Committed
        <4>2. ItemsSound(mine[u]) /\ ItemsSound(seen[u])
          BY <1>1 DEF ItemVersions
        <4> QED
          BY <4>1, <4>2
      <3> QED
        BY <3>1, <3>2
    <2> QED
      BY <2>1, <2>2 DEF ItemVersions
  <1>4. ASSUME NEW g \in Good PROVE Total(db', OfGood(g), "received") <= Received(g)'
    <2>1. OfGood(g) \in SUBSET Item
      BY DEF OfGood
    <2>2. \A i \in Item : db'[i] \in ItemType /\ db[i] \in ItemType /\ See(t)[i] \in ItemType
      <3>1. \A i \in Item : db'[i] \in ItemType
        BY <1>1, Tables DEF Versions, Sound, SoundRow
      <3> QED
        BY <1>1, <3>1, SeesTyped
    <2>3. /\ Total(db', OfGood(g), "received") = Total(db, OfGood(g), "received") + More(db', db, OfGood(g))
          /\ Total(db, OfGood(g), "received") \in Nat /\ More(db', db, OfGood(g)) \in Int
      BY <2>1, <2>2, TotalsGrow
    <2>4. More(db', db, OfGood(g)) = Gained(t, g)
      <3>1. \A i \in OfGood(g) : db'[i].received - db[i].received = See(t)[i].received - db[i].received
        BY <2>1 DEF Keeps
      <3> QED
        BY <3>1, MoreSame DEF Gained
    <2>5. /\ Received(g)' = Received(g) + Came(t, g) /\ MayGive(t, g) = Came(t, g)
          /\ Received(g) \in Int /\ Came(t, g) \in Nat
      BY <1>1, ReceivedGrows DEF Keeps
    <2>6. Gained(t, g) <= Came(t, g) /\ Total(db, OfGood(g), "received") <= Received(g)
      BY <1>1, <2>5 DEF GivesWhatCame, NoMoreThanCame
    <2> QED
      BY <2>3, <2>4, <2>5, <2>6
  <1>5. NoMoreThanCame'
    BY <1>4 DEF NoMoreThanCame, OfGood
  <1>6. Whole(db)'
    <2>1. \A i \in Nobodys : i \in Item /\ RestOf[i] \in Item
      BY RestsAre DEF Nobodys
    <2> QED
      BY <1>1, <2>1 DEF Whole, Keeps
  <1> QED
    BY <1>3, <1>5, <1>6

\* A request that has ended has given, cut and known nothing.
LEMMA IdleFollows ==
    ASSUME NEW t \in Txn, Versions', Whole(db)', job'[t] = Idle, mine'[t] = NoRows
    PROVE  Follows(t)'
  <1>1. \A i \in Item : See(t)'[i] = db'[i] /\ db'[i] \in ItemType
    <2>1. \A x \in Row : See(t)'[x] = db'[x]
      BY DEF See, Over, NoRows, Versions
    <2> QED
      BY <2>1, Tables DEF Versions, Sound, SoundRow
  <1>2. GivesWhatCame(t)'
    <2> SUFFICES ASSUME NEW g \in Good PROVE Gained(t, g)' <= MayGive(t, g)'
      BY DEF GivesWhatCame
    <2>1. OfGood(g) \in SUBSET Item
      BY DEF OfGood
    <2>2. More(See(t)', db', OfGood(g)) = 0
      BY <1>1, <2>1, MoreNone
    <2>3. Gained(t, g)' = 0
      BY <2>2 DEF Gained, OfGood
    <2>4. MayGive(t, g)' = 0
      BY DEF MayGive, Past, Receiving, Idle
    <2> QED
      BY <2>3, <2>4
  <1>3. \A i \in Nobodys : i \in Item /\ RestOf[i] \in Item
    BY RestsAre DEF Nobodys
  <1>4. CutsOwn(t)' /\ SplitsOwn(t)'
    BY <1>1, <1>3 DEF CutsOwn, SplitsOwn
  <1>5. Whole(See(t))'
    BY <1>1, <1>3 DEF Whole
  <1>6. KnowsReturned(t)' /\ KnowsOpen(t)' /\ KnowsHeld(t)'
    BY DEF KnowsReturned, KnowsOpen, KnowsHeld, At, Idle
  <1> QED
    BY <1>2, <1>4, <1>5, <1>6 DEF Follows

\* Another request has given and cut what it had, and knows what it knew: what it is about
\* to give its goods to, nobody cuts who does not hold the order.
LEMMA CommitFollows ==
    ASSUME FollowInvariant, BackedInvariant', Whole(db)', UnconfirmedHasOrder, NEW t \in Txn, NEW rows,
           Committed(t, rows), Keeps(t), NEW u \in Txn \ {t}
    PROVE  Follows(u)'
  <1>1. /\ Versions /\ Versions' /\ Backs(t) /\ InPlace(u) /\ Follows(t) /\ Follows(u)
    BY DEF FollowInvariant, BackedInvariant
  <1>2. mine'[u] = mine[u] /\ seen'[u] = seen[u] /\ job'[u] = job[u] /\ DOMAIN mine[u] \cap DOMAIN mine[t] = {}
    BY DEF Committed
  <1>3. \A x \in Item : IF x \in DOMAIN mine[u] THEN db'[x] = db[x] /\ See(u)'[x] = See(u)[x]
                        ELSE See(u)'[x] = db'[x] /\ See(u)[x] = db[x]
    BY <1>1, CommitSees, Tables
  <1>4. \A i \in Item : db'[i] \in ItemType /\ db[i] \in ItemType
    BY <1>1, Tables DEF Versions, Sound, SoundRow
  <1>5. ASSUME NEW i \in Item, See(u)'[i].status = "ORDERED" PROVE See(u)[i].status = "ORDERED"
    <2>1. CASE i \in DOMAIN mine[u]
      BY <1>3, <1>5, <2>1
    <2>2. CASE i \notin DOMAIN mine[u]
      <3>1. db'[i].status = "ORDERED" /\ See(u)[i] = db[i]
        BY <1>3, <1>5, <2>2
      <3>2. See(t)[i].status = "ORDERED"
        BY <3>1 DEF Keeps
      <3> QED
        BY <1>1, <3>1, <3>2 DEF Backs, OrdersNone
    <2> QED
      BY <2>1, <2>2
  <1>6. \A i \in Nobodys : i \in Item /\ RestOf[i] \in Item
    BY RestsAre DEF Nobodys
  <1>7. GivesWhatCame(u)'
    <2> SUFFICES ASSUME NEW g \in Good PROVE Gained(u, g)' <= MayGive(u, g)'
      BY DEF GivesWhatCame
    <2>1. \A i \in OfGood(g) : i \in Item
      BY DEF OfGood
    <2>2. ASSUME NEW i \in OfGood(g)
          PROVE  See(u)'[i].received - db'[i].received = See(u)[i].received - db[i].received
      <3>1. i \in Item /\ db'[i].received \in Nat /\ db[i].received \in Nat
        BY <1>4, <2>1, ItemNat
      <3> QED
        BY <1>3, <3>1
    <2>3. More(See(u)', db', OfGood(g)) = More(See(u), db, OfGood(g))
      BY <2>2, MoreSame
    <2>4. Gained(u, g)' = Gained(u, g)
      BY <2>3 DEF Gained, OfGood
    <2>5. MayGive(u, g)' = MayGive(u, g)
      BY <1>2 DEF MayGive, Past, Receiving
    <2> QED
      BY <1>1, <2>4, <2>5 DEF Follows, GivesWhatCame
  <1>8. CutsOwn(u)'
    BY <1>1, <1>2, <1>3 DEF Follows, CutsOwn
  <1>9. ASSUME NEW i \in Nobodys, NEW x \in {i, RestOf[i]}, See(u)'[x].quantity # db'[x].quantity
        PROVE  {i, RestOf[i]} \subseteq DOMAIN mine[u]
    <2>1. See(u)[x].quantity # db[x].quantity
      BY <1>3, <1>6, <1>9
    <2> QED
      BY <1>1, <2>1 DEF Follows, SplitsOwn
  <1>10. SplitsOwn(u)'
    BY <1>2, <1>9 DEF SplitsOwn
  <1>11. Whole(See(u))'
    <2> SUFFICES ASSUME NEW i \in Nobodys
                 PROVE  See(u)'[i].quantity + See(u)'[RestOf[i]].quantity = Wanted[i]
      BY DEF Whole
    <2>1. i \in Item /\ RestOf[i] \in Item
      BY <1>6
    <2>2. CASE {i, RestOf[i]} \subseteq DOMAIN mine[u]
      <3>1. See(u)'[i] = See(u)[i] /\ See(u)'[RestOf[i]] = See(u)[RestOf[i]]
        BY <1>3, <2>1, <2>2
      <3> QED
        BY <1>1, <3>1 DEF Follows, Whole
    <2>3. CASE ~({i, RestOf[i]} \subseteq DOMAIN mine[u])
      <3>1. See(u)'[i].quantity = db'[i].quantity /\ See(u)'[RestOf[i]].quantity = db'[RestOf[i]].quantity
        BY <1>9, <2>3
      <3> QED
        BY <3>1 DEF Whole
    <2> QED
      BY <2>2, <2>3
  <1>12. KnowsReturned(u)'
    <2>1. KnowsReturned(u)
      BY <1>1 DEF Follows
    <2>2. job[u].step = "close" =>
             (\A i \in Item : See(u)'[i].status = "ORDERED" => seen'[u][i].status = "ORDERED") /\ Whole(seen'[u])
      BY <1>2, <1>5, <2>1 DEF KnowsReturned
    <2>3. job[u].step = "status" /\ job[u].to \in CLOSED_FOR_LISTS => WithStatus(See(u)', "ORDERED") = {}
      BY <1>5, <2>1 DEF KnowsReturned, WithStatus
    <2> QED
      BY <1>2, <2>2, <2>3 DEF KnowsReturned
  <1>13. KnowsOpen(u)'
    <2> SUFFICES ASSUME At(u, "receive", "allocate"), NEW i \in Item, seen[u][i].status = "ORDERED",
                        See(u)'[i].status = "ORDERED", ItemGood[i] \in GoodsOf(job[u].arg)
                 PROVE  See(u)'[i].quantity = seen[u][i].quantity
      BY <1>2 DEF KnowsOpen, At
    <2>1. See(u)[i].quantity = seen[u][i].quantity
      BY <1>1, <1>5 DEF Follows, KnowsOpen
    <2>2. CASE i \in DOMAIN mine[u]
      BY <1>3, <2>1, <2>2
    <2>3. CASE i \notin DOMAIN mine[u]
      <3>1. See(u)'[i] = db'[i] /\ See(u)[i] = db[i]
        BY <1>3, <2>3
      <3>2. See(t)[i].status = "ORDERED" /\ db'[i].quantity = See(t)[i].quantity
        BY <3>1 DEF Keeps
      <3>3. CASE See(t)[i].quantity = db[i].quantity
        BY <2>1, <3>1, <3>2, <3>3
      <3>4. CASE See(t)[i].quantity # db[i].quantity
        <4>1. i \in Unconfirmed /\ ItemOrder[i] \in DOMAIN mine[t]
          BY <1>1, <3>2, <3>4 DEF Follows, CutsOwn
        <4>2. ItemOrder[i] \in Wanting(job[u].arg, seen[u])
          BY <4>1 DEF Wanting, WithStatus, UnconfirmedHasOrder
        <4>3. ItemOrder[i] \in DOMAIN mine[u]
          BY <1>1, <4>2 DEF InPlace, KnowsFree
        <4> QED
          BY <1>2, <4>1, <4>3
      <3> QED
        BY <3>3, <3>4
    <2> QED
      BY <2>2, <2>3
  <1>14. KnowsHeld(u)'
    <2>1. KnowsHeld(u)
      BY <1>1 DEF Follows
    <2> QED
      BY <1>2, <1>5, <2>1 DEF KnowsHeld, OrdersHeld, At
  <1> QED
    BY <1>7, <1>8, <1>10, <1>11, <1>12, <1>13, <1>14 DEF Follows

\* A commit that leaves the items as they were seen, and none ordered from a closed order.
LEMMA FollowCommit ==
    ASSUME FollowInvariant, BackedInvariant', UnconfirmedHasOrder, NEW t \in Txn, NEW rows, Committed(t, rows),
           Posts(t), Keeps(t), ClosedNoneOrdered'
    PROVE  FollowInvariant'
  <1>1. ItemVersions' /\ NoMoreThanCame' /\ Whole(db)'
    BY CommitItems
  <1>2. ASSUME NEW u \in Txn PROVE Follows(u)'
    <2>1. CASE u = t
      BY <1>1, <2>1, IdleFollows DEF Committed, BackedInvariant
    <2>2. CASE u # t
      BY <1>1, <2>2, CommitFollows
    <2> QED
      BY <2>1, <2>2
  <1> QED
    BY <1>1, <1>2 DEF FollowInvariant

\* A receipt, or a transition of the order, ends; an order that closes leaves none ordered.
LEMMA FollowSetStatus ==
    ASSUME FollowInvariant, BackedInvariant', UnconfirmedHasOrder, NEW t \in Txn, SetStatus(t)
    PROVE  FollowInvariant'
  <1> DEFINE rows == [x \in {PO} |-> job[t].to]
  <1>1. BookInvariant /\ Versions /\ KnowsReturned(t)
    BY DEF FollowInvariant, BackedInvariant, Follows
  <1>2. Commit(t, rows) /\ job[t].step = "status"
    BY DEF SetStatus
  <1>3. Posts(t) /\ db'[PO] = job[t].to
    BY <1>1, PostsSetStatus
  <1>4. DOMAIN rows = {PO} /\ PO \in Row
    BY DEF Row
  <1> HIDE DEF rows
  <1>5. Committed(t, rows)
    BY <1>1, <1>2, <1>4, CommitCommits
  <1>6. \A i \in Item : db'[i] = See(t)[i]
    BY <1>4, <1>5, Tables DEF Committed
  <1>7. Keeps(t)
    BY <1>2, <1>6 DEF Keeps
  <1>8. ClosedNoneOrdered'
    BY <1>1, <1>2, <1>3, <1>6 DEF ClosedNoneOrdered, KnowsReturned, WithStatus
  <1> QED
    BY <1>3, <1>5, <1>7, <1>8, FollowCommit

\* Any other commit leaves the status of the supplier order, and orders no item.
LEMMA FollowBeside ==
    ASSUME FollowInvariant, BackedInvariant', UnconfirmedHasOrder, NEW t \in Txn, NEW rows, Commit(t, rows),
           DOMAIN rows \subseteq Row, PostsBeside(t),
           \A i \in Item \cap DOMAIN rows :
              /\ rows[i].quantity = See(t)[i].quantity /\ rows[i].received = See(t)[i].received
              /\ \/ rows[i].status = See(t)[i].status
                 \/ See(t)[i].status = "OPEN" /\ rows[i].status = "CANCELLED"
    PROVE  FollowInvariant'
  <1>1. BookInvariant /\ Versions /\ Backs(t) /\ ClosedNoneOrdered
    BY DEF FollowInvariant, BackedInvariant
  <1>2. Posts(t) /\ db'[PO] = db[PO] /\ ~Receiving(t)
    BY DEF PostsBeside
  <1>3. Committed(t, rows)
    BY <1>1, CommitCommits
  <1>4. \A i \in Item : db'[i] = IF i \in DOMAIN rows THEN rows[i] ELSE See(t)[i]
    BY <1>3, Tables DEF Committed
  <1>5. Keeps(t)
    BY <1>2, <1>4 DEF Keeps
  <1>6. \A i \in Item : db'[i].status = "ORDERED" => db[i].status = "ORDERED"
    BY <1>1, <1>5 DEF Keeps, Backs, OrdersNone
  <1>7. ClosedNoneOrdered'
    BY <1>1, <1>2, <1>6 DEF ClosedNoneOrdered, WithStatus
  <1> QED
    BY <1>2, <1>3, <1>5, <1>7, FollowCommit

\* The return of what was not confirmed ends,
LEMMA FollowEndUnconfirmed ==
    ASSUME FollowInvariant, BackedInvariant', UnconfirmedHasOrder, NEW t \in Txn, EndUnconfirmed(t)
    PROVE  FollowInvariant'
  <1>1. Commit(t, NoRows)
    BY DEF EndUnconfirmed
  <1>2. PostsBeside(t)
    BY PostsEndUnconfirmed DEF FollowInvariant, BackedInvariant
  <1> QED
    BY <1>1, <1>2, NoRowsSound, FollowBeside

\* the release of an item,
LEMMA FollowReleaseMovement ==
    ASSUME FollowInvariant, BackedInvariant', UnconfirmedHasOrder, NEW t \in Txn, ReleaseMovement(t)
    PROVE  FollowInvariant'
  <1>1. BookInvariant
    BY DEF FollowInvariant, BackedInvariant
  <1>2. PICK rows : Commit(t, rows) /\ DOMAIN rows = {ItemGood[job[t].arg]} /\ job[t].op = "release"
    BY DEF ReleaseMovement, At
  <1>3. ItemGood[job[t].arg] \in Good
    BY <1>1, <1>2, GoodsReceiptAssumption DEF BookInvariant, Sees, JobShaped
  <1>4. DOMAIN rows \subseteq Row /\ DOMAIN rows \cap Item = {}
    BY <1>2, <1>3, Tables
  <1>5. PostsBeside(t)
    BY <1>1, PostsReleaseMovement
  <1> QED
    BY <1>2, <1>4, <1>5, FollowBeside

\* the closing of a work order, which cancels its open items.
LEMMA FollowCancelItems ==
    ASSUME FollowInvariant, BackedInvariant', UnconfirmedHasOrder, NEW t \in Txn, CancelItems(t)
    PROVE  FollowInvariant'
  <1> DEFINE w == job[t].arg
             of == {i \in Item : ItemOrder[i] = w}
             Closed(r) == [r EXCEPT !.status = IF @ = "OPEN" THEN "CANCELLED" ELSE @,
                                    !.reserved = IF job[t].to = "CANCELLED" THEN 0 ELSE @]
             new == [x \in of |-> Closed(See(t)[x])]
             rows == Changed(new, Restrict(See(t), of))
  <1>1. BookInvariant /\ Versions
    BY DEF FollowInvariant, BackedInvariant
  <1>2. Commit(t, rows)
    BY DEF CancelItems
  <1>3. PostsBeside(t)
    BY <1>1, PostsCancelItems
  <1>4. ASSUME NEW i \in of
        PROVE  /\ new[i].quantity = See(t)[i].quantity /\ new[i].received = See(t)[i].received
               /\ \/ new[i].status = See(t)[i].status
                  \/ See(t)[i].status = "OPEN" /\ new[i].status = "CANCELLED"
    <2> DEFINE v == See(t)[i]
               s == IF v.status = "OPEN" THEN "CANCELLED" ELSE v.status
               n == IF job[t].to = "CANCELLED" THEN 0 ELSE v.reserved
    <2>1. v \in ItemType
      BY <1>1, SeesTyped
    <2>2. new[i] = [v EXCEPT !.status = s, !.reserved = n]
      OBVIOUS
    <2>3. s = v.status \/ (v.status = "OPEN" /\ s = "CANCELLED")
      OBVIOUS
    <2> HIDE DEF v, s, n, new
    <2>4. new[i].quantity = v.quantity /\ new[i].received = v.received /\ new[i].status = s
      BY <2>1, <2>2 DEF ItemType
    <2> QED
      BY <2>3, <2>4 DEF v
  <1>5. of \subseteq Item
    OBVIOUS
  <1> HIDE DEF new, of
  <1>6. DOMAIN rows \subseteq of /\ \A x \in DOMAIN rows : rows[x] = new[x]
    <2> DEFINE part == Restrict(See(t), of)
    <2>1. DOMAIN part = of
      BY DEF Restrict
    <2> HIDE DEF part
    <2>2. rows = [x \in {y \in DOMAIN part : new[y] # part[y]} |-> new[x]]
      BY DEF Changed, Restrict, part
    <2> QED
      BY <2>1, <2>2
  <1> HIDE DEF rows
  <1>7. DOMAIN rows \subseteq Row
    BY <1>5, <1>6, Tables
  <1> QED
    BY <1>2, <1>3, <1>4, <1>6, <1>7, FollowBeside

\* A request that fails takes back what it has written of the items.
LEMMA FollowAbort ==
    ASSUME FollowInvariant, BackedInvariant', NEW t \in Txn, Abort(t)
    PROVE  FollowInvariant'
  <1>1. /\ mine' = [mine EXCEPT ![t] = NoRows] /\ seen' = [seen EXCEPT ![t] = NoRows]
        /\ job' = [job EXCEPT ![t] = Idle] /\ db' = db
    BY DEF Abort
  <1>2. BookInvariant /\ Versions' /\ ItemVersions
    BY DEF FollowInvariant, BackedInvariant
  <1>3. job'[t] = Idle /\ \A u \in Txn \ {t} : job'[u] = job[u]
    BY <1>1, <1>2, NewJob DEF BookInvariant
  <1>4. /\ mine'[t] = NoRows /\ seen'[t] = NoRows
        /\ \A u \in Txn \ {t} : mine'[u] = mine[u] /\ seen'[u] = seen[u]
    BY <1>1, <1>2 DEF BookInvariant
  <1>5. ItemVersions'
    <2>1. ItemsSound(NoRows)
      BY NoRowsSound DEF ItemsSound
    <2>2. \A u \in Txn : ItemsSound(mine'[u]) /\ ItemsSound(seen'[u])
      BY <1>2, <1>4, <2>1 DEF ItemVersions
    <2>3. ItemsSound(db')
      BY <1>1, <1>2 DEF ItemVersions
    <2> QED
      BY <2>2, <2>3 DEF ItemVersions
  <1>6. ClosedNoneOrdered' /\ NoMoreThanCame' /\ Whole(db)'
    BY <1>1 DEF FollowInvariant, ClosedNoneOrdered, NoMoreThanCame, Whole, WithStatus, Total, Received
  <1>7. ASSUME NEW u \in Txn PROVE Follows(u)'
    <2>1. CASE u = t
      BY <1>2, <1>3, <1>4, <1>6, <2>1, IdleFollows
    <2>2. CASE u # t
      <3>1. mine'[u] = mine[u] /\ seen'[u] = seen[u] /\ job'[u] = job[u]
        BY <1>3, <1>4, <2>2
      <3> QED
        BY <1>1, <3>1, OthersFollow DEF FollowInvariant
    <2> QED
      BY <2>1, <2>2
  <1> QED
    BY <1>5, <1>6, <1>7 DEF FollowInvariant
-----------------------------------------------------------------------------
\* At the start what is wanted is ordered and nothing has come.
LEMMA FollowInit == Init => FollowInvariant
  <1> SUFFICES ASSUME Init PROVE FollowInvariant
    OBVIOUS
  <1>1. BackedInvariant /\ BookInvariant /\ Versions
    BY BackedInit DEF BackedInvariant
  <1>2. \A t \in Txn : mine[t] = NoRows /\ seen[t] = NoRows /\ job[t] = Idle
    BY DEF Init
  <1>3. db[PO] = "ORDERED"
    BY GoodsReceiptAssumption DEF Init, Row
  <1>4. ASSUME NEW i \in Item
        PROVE  IF i \in Range(Items) THEN db[i] = NewItem("ORDERED", Wanted[i]) ELSE db[i] = NoItem
    BY Tables DEF Init
  <1>5. ASSUME NEW i \in Item
        PROVE  /\ ItemSound(i, db[i]) /\ db[i].received = 0 /\ db[i] \in ItemType
               /\ db[i].quantity = IF i \in Range(Items) THEN Wanted[i] ELSE 0
    <2> DEFINE v == db[i]
    <2>1. Wanted[i] \in Nat
      BY GoodsReceiptAssumption
    <2>2. CASE i \in Range(Items)
      <3>1. v = [status |-> "ORDERED", quantity |-> Wanted[i], received |-> 0, reserved |-> 0]
        BY <1>4, <2>2 DEF NewItem
      <3> HIDE DEF v
      <3>2. v \in ItemType /\ v.received = 0 /\ v.quantity = Wanted[i] /\ v.status = "ORDERED"
        BY <2>1, <3>1 DEF ItemType
      <3> QED
        BY <2>1, <2>2, <3>2 DEF ItemSound, v
    <2>3. CASE i \notin Range(Items)
      <3>1. v = [status |-> "none", quantity |-> 0, received |-> 0, reserved |-> 0]
        BY <1>4, <2>3 DEF NoItem, NewItem
      <3> HIDE DEF v
      <3>2. v \in ItemType /\ v.received = 0 /\ v.quantity = 0 /\ v.status = "none"
        BY <3>1 DEF ItemType
      <3> QED
        BY <2>3, <3>2 DEF ItemSound, v
    <2> QED
      BY <2>2, <2>3
  <1>6. ItemVersions
    <2>1. ItemsSound(NoRows)
      BY NoRowsSound DEF ItemsSound
    <2> QED
      BY <1>2, <1>5, <2>1 DEF ItemVersions, ItemsSound
  <1>7. ClosedNoneOrdered
    BY <1>3 DEF ClosedNoneOrdered, CLOSED_FOR_LISTS
  <1>8. ASSUME NEW g \in Good PROVE Total(db, OfGood(g), "received") <= Received(g)
    <2> DEFINE f == [l \in Line |-> IF LineGood[l] = g THEN db[l] ELSE 0]
               e == [i \in OfGood(g) |-> db[i].received]
    <2>1. \A l \in Line : db[l] = 0
      BY Tables DEF Init
    <2>2. f \in [Line -> Int] /\ (\A l \in Line : f[l] = 0) /\ Received(g) = SumFunction(f)
      BY <2>1 DEF Received
    <2>3. OfGood(g) \in SUBSET Item
      BY DEF OfGood
    <2>4. IsFiniteSet(OfGood(g)) /\ IsFiniteSet(Line)
      BY <2>3, FS_Subset, GoodsReceiptAssumption
    <2>5. e \in [OfGood(g) -> Int] /\ (\A i \in OfGood(g) : e[i] = 0) /\ Total(db, OfGood(g), "received") = SumFunction(e)
      BY <1>5, <2>3 DEF Total
    <2> HIDE DEF e, f
    <2>6. SumFunction(e) = 0 /\ SumFunction(f) = 0
      BY <2>2, <2>4, <2>5, FunctionZero
    <2> QED
      BY <2>2, <2>5, <2>6
  <1>9. Whole(db)
    <2> SUFFICES ASSUME NEW i \in Nobodys PROVE db[i].quantity + db[RestOf[i]].quantity = Wanted[i]
      BY DEF Whole
    <2>1. i \in Range(Items) /\ i \in Item /\ RestOf[i] \in Item /\ RestOf[i] \notin Range(Items) /\ Wanted[i] \in Nat
      BY RestsAre DEF Nobodys
    <2>2. db[i].quantity = Wanted[i] /\ db[RestOf[i]].quantity = 0
      BY <1>5, <2>1
    <2> QED
      BY <2>1, <2>2
  <1>10. ASSUME NEW t \in Txn PROVE Follows(t)
    <2>1. \A i \in Item : See(t)[i] = db[i]
      BY <1>1, <1>2, Tables DEF See, Over, NoRows, Versions
    <2>2. GivesWhatCame(t)
      <3> SUFFICES ASSUME NEW g \in Good PROVE Gained(t, g) <= MayGive(t, g)
        BY DEF GivesWhatCame
      <3>1. OfGood(g) \in SUBSET Item
        BY DEF OfGood
      <3>2. More(See(t), db, OfGood(g)) = 0
        BY <1>5, <2>1, <3>1, MoreNone
      <3> QED
        BY <1>2, <3>2 DEF Gained, MayGive, Past, Receiving, Idle
    <2>3. \A i \in Nobodys : i \in Item /\ RestOf[i] \in Item
      BY RestsAre DEF Nobodys
    <2>4. CutsOwn(t) /\ SplitsOwn(t)
      BY <2>1, <2>3 DEF CutsOwn, SplitsOwn
    <2>5. Whole(See(t))
      BY <1>9, <2>1, <2>3 DEF Whole
    <2>6. KnowsReturned(t) /\ KnowsOpen(t) /\ KnowsHeld(t)
      BY <1>2 DEF KnowsReturned, KnowsOpen, KnowsHeld, At, Idle
    <2> QED
      BY <2>2, <2>4, <2>5, <2>6 DEF Follows
  <1>11. NoMoreThanCame
    BY <1>8 DEF NoMoreThanCame
  <1> QED
    BY <1>1, <1>6, <1>7, <1>9, <1>10, <1>11 DEF FollowInvariant

\* Every step keeps the items with what came.
LEMMA FollowStep ==
    ASSUME UnconfirmedHasOrder
    PROVE  FollowInvariant /\ [Next]_vars => FollowInvariant'
  <1> SUFFICES ASSUME FollowInvariant, [Next]_vars PROVE FollowInvariant'
    OBVIOUS
  <1>1. BackedInvariant'
    BY BackedStep DEF FollowInvariant
  <1>2. ASSUME NEW t \in Txn, ReceiveStep(t) PROVE FollowInvariant'
    BY <1>1, <1>2, FollowStartReceive, FollowLockOrders, FollowReceiveLines, FollowPostReceipt, FollowReadItems,
       FollowAllocate, FollowCharge, FollowRereadLines, FollowCloseForLists, FollowSetStatus DEF ReceiveStep
  <1>3. ASSUME NEW t \in Txn, OtherStep(t) PROVE FollowInvariant'
    BY <1>1, <1>3, FollowStartTransition, FollowStartFinish, FollowReleaseStock, FollowCancelItems,
       FollowStartRelease, FollowReleaseItem, FollowReleaseMovement, FollowStartUnconfirmed,
       FollowReadUnconfirmed, FollowEndUnconfirmed, FollowReturnUnconfirmed DEF OtherStep
  <1>4. ASSUME NEW t \in Txn, Abort(t) PROVE FollowInvariant'
    BY <1>1, <1>4, FollowAbort
  <1>5. CASE UNCHANGED vars
    <2>1. UNCHANGED <<db, mine, job, seen, key, receipts>>
      BY <1>5 DEF vars
    <2>2. ItemVersions'
      <3>1. ItemVersions
        BY DEF FollowInvariant
      <3> QED
        BY <2>1, <3>1 DEF ItemVersions, ItemsSound
    <2>3. ClosedNoneOrdered' /\ NoMoreThanCame' /\ Whole(db)'
      BY <2>1 DEF FollowInvariant, ClosedNoneOrdered, NoMoreThanCame, Whole, WithStatus, Total, Received
    <2>4. \A t \in Txn : Follows(t)'
      BY <2>1, OthersFollow DEF FollowInvariant
    <2> QED
      BY <1>1, <2>2, <2>3, <2>4 DEF FollowInvariant
  <1> QED
    BY <1>2, <1>3, <1>4, <1>5 DEF Next

\* Whatever receipts, closings and returns race: the items of a good show no more of it than
\* came, none more than its quantity and a received one just that; none waits for a closed
\* order; and what nobody's order wants is whole.  What the supplier has not confirmed must
\* be wanted by a work order, for only the hold on that keeps it from being cut beside a receipt.
THEOREM ItemsAlwaysFollow ==
    ASSUME UnconfirmedHasOrder
    PROVE  Spec => []ItemsFollowReceipt
  <1>1. FollowInvariant => ItemsFollowReceipt
    <2> SUFFICES ASSUME FollowInvariant PROVE ItemsFollowReceipt
      OBVIOUS
    <2>1. Versions /\ ItemVersions /\ ClosedNoneOrdered /\ NoMoreThanCame /\ Whole(db)
      BY DEF FollowInvariant, BackedInvariant
    <2>2. \A i \in Item : ItemSound(i, db[i])
      BY <2>1, Tables DEF ItemVersions, ItemsSound, Versions
    <2>3. \A g \in Good : Total(db, {i \in Item : ItemGood[i] = g}, "received") <= Received(g)
      BY <2>1 DEF NoMoreThanCame, OfGood
    <2>4. ReceivedWithinItem /\ \A i \in WithStatus(db, "RECEIVED") : db[i].received = db[i].quantity
      BY <2>2 DEF ReceivedWithinItem, ItemSound, WithStatus
    <2>5. db[PO] \in {"CANCELLED", "RECEIVED"} => WithStatus(db, "ORDERED") = {}
      BY <2>1 DEF ClosedNoneOrdered, CLOSED_FOR_LISTS
    <2>6. \A i \in Range(Items) : ItemOrder[i] = NoOrder => db[i].quantity + db[RestOf[i]].quantity = Wanted[i]
      BY <2>1 DEF Whole, Nobodys
    <2> QED
      BY <2>3, <2>4, <2>5, <2>6 DEF ItemsFollowReceipt
  <1> QED
    BY FollowInit, FollowStep, <1>1, PTL DEF Spec
=============================================================================
