SPECIFICATION Spec
CONSTANTS
    Requests = {r1, r2}
    Payments = {p1, p2}
    InitialWorth = 2
    MaxTotal = 3
    MaxEdits = 2
    MaxInvoices = 0
    MaxInvoiceEdits = 0
    r1 = r1
    r2 = r2
    p1 = p1
    p2 = p2
    p3 = p3
SYMMETRY Symmetry
CHECK_DEADLOCK FALSE
INVARIANTS
    TypeOK
    PaidIsReceived
    BalanceExplained
    ChargedOnce
    ClosedSettlesToZero
PROPERTIES
    
    PaidOnlyWhenCovered
