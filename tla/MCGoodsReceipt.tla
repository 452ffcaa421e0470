---------------------------- MODULE MCGoodsReceipt ----------------------------
EXTENDS GoodsReceipt

CONSTANTS l1, l2, g1, g2, i1, i2, r1, r2, w1, k1, k2, k3

TwoLines == l1 :> g1 @@ l2 :> g2
TwoOne == l1 :> 2 @@ l2 :> 1
AllPriced == l1 :> 1 @@ l2 :> 1

\* One item of a work order, one of nobody, and the parts split off them.
OldItems == <<i1, i2>>
Rests == i1 :> r1 @@ i2 :> r2 @@ r1 :> r1 @@ r2 :> r2
AllFirstGood == [i \in Item |-> g1]
FirstForOrder == i1 :> w1 @@ r1 :> w1 @@ i2 :> NoOrder @@ r2 :> NoOrder
NobodysItems == [i \in Item |-> NoOrder]
WantTwo == i1 :> 2 @@ r1 :> 2 @@ i2 :> 2 @@ r2 :> 2
NeedOne == w1 :> (g1 :> 1 @@ g2 :> 0)

Bodies == k1 :> (l1 :> 1 @@ l2 :> 0) @@ k2 :> (l1 :> 2 @@ l2 :> 0) @@ k3 :> (l1 :> 0 @@ l2 :> 1)

TxnSymmetry == Permutations(Txn)
=============================================================================
