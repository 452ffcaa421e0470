SPECIFICATION Spec
CONSTANTS
    p1 = p1
    p2 = p2
    c1 = c1
    c2 = c2
    w1 = w1
    j1 = j1
    j2 = j2
    Payment = {p1, p2}
    Points <- OneTwo
    Client = {c1, c2}
    Job = {j1, j2}
    Worker = {w1}
    Attempts = 1
    Nobody = Nobody
    MaxFaults = 1
SYMMETRY Symmetry
CHECK_DEADLOCK FALSE
INVARIANTS
    PointsExplained
    
