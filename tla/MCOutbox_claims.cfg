SPECIFICATION Spec
CONSTANTS
    c1 = c1
    c2 = c2
    None = None
    Row <- TwoRows
    Consumer <- TwoConsumers
    Limit = 2
    Lease = 2
    Interval = 1
    RenewReaches = TRUE
    Prompt = FALSE
    MaxClaims = 2
    MaxFaults = 1
    MaxCrashes = 1
SYMMETRY ConsumerSymmetry
INVARIANTS
    TypeOK
    ClaimsExclusive
    SentMeansHandled
PROPERTIES
    SentIsFinal
    LostClaimSettlesNothing
    ImplementsDelivery
CHECK_DEADLOCK FALSE
