SPECIFICATION FairSpec
CONSTANTS
    h1 = h1
    None = None
    Handler <- OneHandler
    MaxAttempts = 2
    Deadline = 2
    BaseBackoff = 1
    MaxBackoff = 2
    Sole = FALSE
    Contended = TRUE
    MaxFaults = 1
INVARIANTS
    TypeOK
    AttemptBudget
    FailedMeansGone
    SettledOnEvidence
    BackoffKept
PROPERTIES
    SettledStays
    DoubtEndsOrWakeUpSpent
CHECK_DEADLOCK FALSE
