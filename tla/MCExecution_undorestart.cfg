SPECIFICATION Spec
CONSTANTS
    a1 = a1
    a2 = a2
    i1 = i1
    i2 = i2
    r1 = r1
    r2 = r2
    w1 = w1
    w2 = w2
    None = None
    Action <- OneAction
    Incident <- OneIncident
    Resource <- OneResource
    Worker <- OneWorker
    IncidentOf <- OneIncidentOf
    ResourceOf <- OneResourceOf
    Kind <- OneKind
    Rolling = FALSE
    MaxDeliveries = 1
    MaxFaults = 0
    MaxRestarts = 1
INVARIANTS
    RollbackSurvivesRestart
CHECK_DEADLOCK FALSE
