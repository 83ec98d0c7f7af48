SPECIFICATION FairSpec
CONSTANTS
    h1 = h1
    None = None
    Handler <- OneHandler
    MaxAttempts = 2
    Deadline = 2
    BaseBackoff = 1
    MaxBackoff = 2
    Sole = TRUE
    Contended = FALSE
    MaxFaults = 0
PROPERTIES
    VerifiedIsResolved
CHECK_DEADLOCK FALSE
