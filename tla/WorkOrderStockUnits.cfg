SPECIFICATION OrderSpec
CONSTANTS
    k1 = k1
    w1 = w1
    w2 = w2
    l1 = l1
    l2 = l2
    l3 = l3
    t1 = t1
    t2 = t2
    Keys = {k1}
    Docs = {w1, w2}
    NoDoc = NoDoc
    Lines = {l1, l2, l3}
    NoLine = NoLine
    Txns = {t1, t2}
    NoTxn = NoTxn
    Programs <- NoPrograms
    InitialQty = 2
    MaxLots = 0
    PartKey <- OneKeyPartKey
    KeyOrder <- OneKey
    InitialParts <- OneKeyParts
    PartOwner <- OneKeyOwner
    MaxPart = 2
    MaxEdits = 0
    MaxUnitChanges = 1
    MaxReceipts = 0
SYMMETRY TxnSymmetry
CHECK_DEADLOCK FALSE
INVARIANTS
    CancelReturnsWrittenOff
