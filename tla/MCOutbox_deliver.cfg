SPECIFICATION FairSpec
CONSTANTS
    c1 = c1
    c2 = c2
    None = None
    Row <- TwoRows
    Consumer <- TwoConsumers
    Limit = 2
    Lease = 6
    Interval = 2
    RenewReaches = TRUE
    Prompt = TRUE
    MaxClaims = 4
    MaxFaults = 1
    MaxCrashes = 1
INVARIANTS
    HandledAlone
PROPERTIES
    EveryRowSent
CHECK_DEADLOCK FALSE
