SPECIFICATION Spec
CONSTANTS
    c1 = c1
    c2 = c2
    None = None
    Row <- TwoRows
    Consumer <- TwoConsumers
    Limit = 2
    Lease = 3
    Interval = 1
    RenewReaches = FALSE
    Prompt = TRUE
    MaxClaims = 3
    MaxFaults = 0
    MaxCrashes = 0
SYMMETRY ConsumerSymmetry
INVARIANTS
    RenewalGranted
CHECK_DEADLOCK FALSE
