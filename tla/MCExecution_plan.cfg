SPECIFICATION Spec
CONSTANTS
    a1 = a1
    a2 = a2
    i1 = i1
    i2 = i2
    r1 = r1
    r2 = r2
    w1 = w1
    w2 = w2
    None = None
    Action <- TwoActions
    Incident <- OneIncident
    Resource <- TwoResources
    Worker <- TwoWorkers
    IncidentOf <- PlanIncidentOf
    ResourceOf <- PlanResourceOf
    Kind <- QosAndSlice
    Rolling = FALSE
    MaxDeliveries = 2
    MaxFaults = 0
    MaxRestarts = 0
SYMMETRY WorkerSymmetry
INVARIANTS
    VerifiedOutcome
    ClaimSurvives
CHECK_DEADLOCK FALSE
