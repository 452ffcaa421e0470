SPECIFICATION Spec
CONSTANTS
    l1 = l1
    l2 = l2
    g1 = g1
    g2 = g2
    i1 = i1
    i2 = i2
    r1 = r1
    r2 = r2
    w1 = w1
    k1 = k1
    k2 = k2
    k3 = k3
    t1 = t1
    t2 = t2
    Line = {l1, l2}
    Good = {g1, g2}
    LineGood <- TwoLines
    Ordered <- TwoOne
    Price <- AllPriced
    Item = {i1, i2, r1, r2}
    Items <- OldItems
    RestOf <- Rests
    ItemGood <- AllFirstGood
    ItemOrder <- NobodysItems
    Wanted <- WantTwo
    Order = {w1}
    NoOrder = NoOrder
    Need <- NeedOne
    Unconfirmed = {i1}
    PO = PO
    Account = Account
    Key = {k1, k2, k3}
    Body <- Bodies
    Txn = {t1, t2}
SYMMETRY TxnSymmetry
CHECK_DEADLOCK FALSE
INVARIANT ReceivedWithinItem
