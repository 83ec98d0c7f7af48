SPECIFICATION FairSpec
CONSTANTS
    h1 = h1
    c1 = c1
    Handler <- OneHandler
    Candidate <- OneCandidate
    Rows = 2
    MaxPlans = 2
    MaxFaults = 1
    None = None
PROPERTIES
    ApprovedIsAnnounced
CHECK_DEADLOCK FALSE
