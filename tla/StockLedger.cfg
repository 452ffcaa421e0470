SPECIFICATION FairSpec
CONSTANTS
    k1 = k1
    k2 = k2
    d1 = d1
    d2 = d2
    l1 = l1
    l2 = l2
    t1 = t1
    t2 = t2
    Keys = {k1, k2}
    Docs = {d1, d2}
    NoDoc = NoDoc
    Lines = {l1, l2}
    NoLine = NoLine
    Txns = {t1, t2}
    NoTxn = NoTxn
    Programs <- CallerPrograms
    InitialQty = 2
    MaxLots = 2
INVARIANTS
    TypeOK
    ReservedWithinQuantity
    
    JournalExplainsBatches
PROPERTIES
    SerialBook
    EveryTransactionEnds
