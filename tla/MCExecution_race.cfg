SPECIFICATION Spec
CONSTANTS
    a1 = a1
    a2 = a2
    i1 = i1
    i2 = i2
    r1 = r1
    r2 = r2
    w1 = w1
    w2 = w2
    None = None
    Action <- OneAction
    Incident <- OneIncident
    Resource <- OneResource
    Worker <- TwoWorkers
    IncidentOf <- OneIncidentOf
    ResourceOf <- OneResourceOf
    Kind <- OneKind
    Rolling = TRUE
    MaxDeliveries = 3
    MaxFaults = 1
    MaxRestarts = 1
SYMMETRY WorkerSymmetry
INVARIANTS
    TypeOK
    AtMostOneMutation
    CopiesCurrent
    CopiesFit
    MutationLicence
    RollbackLicence
    FailedMeansNoEffect
    RolledBackMeansGone
PROPERTIES
    LegalActionSteps
CHECK_DEADLOCK FALSE
