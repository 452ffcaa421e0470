SPECIFICATION FairSpec
CONSTANTS
    o1 = o1
    o2 = o2
    Order = {o1}
    Steps = 3
    NonRepeatable = 2
    MaxAttempts = 2
    Pollers = {"due"}
    MaxFaults = 1
CHECK_DEADLOCK FALSE
INVARIANTS
    TypeOK
    
    KnownIsTrue
    
PROPERTIES
    
    
    QueuedIsLeft
