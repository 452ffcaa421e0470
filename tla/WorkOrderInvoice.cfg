SPECIFICATION Spec
CONSTANTS
    Requests = {r1, r2}
    Payments = {p1, p2, p3}
    InitialWorth = 2
    MaxTotal = 3
    MaxEdits = 0
    MaxInvoices = 2
    MaxInvoiceEdits = 1
    r1 = r1
    r2 = r2
    p1 = p1
    p2 = p2
    p3 = p3
SYMMETRY Symmetry
CHECK_DEADLOCK FALSE
INVARIANTS
    PaidMeansCovered
    
