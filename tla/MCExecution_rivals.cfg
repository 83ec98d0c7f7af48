SPECIFICATION FairSpec
CONSTANTS
    a1 = a1
    a2 = a2
    i1 = i1
    i2 = i2
    r1 = r1
    r2 = r2
    w1 = w1
    w2 = w2
    None = None
    Action <- TwoActions
    Incident <- TwoIncidents
    Resource <- OneResource
    Worker <- TwoWorkers
    IncidentOf <- RivalIncidentOf
    ResourceOf <- RivalResourceOf
    Kind <- GeofenceAndSlice
    Rolling = FALSE
    MaxDeliveries = 1
    MaxFaults = 1
    MaxRestarts = 1
INVARIANTS
    Exclusive
PROPERTIES
    SentIsDecided
CHECK_DEADLOCK FALSE
