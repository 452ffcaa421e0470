SPECIFICATION FairSpec
CONSTANTS
    i1 = i1
    i2 = i2
    w1 = w1
    w2 = w2
    Intents = {i1}
    Workers = {w1, w2}
    Amount <- OneEach
    InvoiceAmount = 2
    MAX_POLL_ATTEMPTS = 1
    MAX_FINALIZE_ATTEMPTS = 2
    MaxLosses = 2
    MaxFaults = 1
CHECK_DEADLOCK FALSE
INVARIANTS
    TypeOK
    CreditedOnce
    CreditedIsConfirmed
PROPERTIES
    OutcomeIsFinal
    PollingEnds
    ArrivedIsSettled
