SPECIFICATION Spec
CONSTANTS
    h1 = h1
    h2 = h2
    c1 = c1
    c2 = c2
    p1 = p1
    p2 = p2
    r1 = r1
    r2 = r2
    r3 = r3
    k1 = k1
    k2 = k2
    crit = crit
    bulk = bulk
    t1 = t1
    None = None
    Deployment <- MCDeployment
    HandlersOf <- MCHandlersOf
    CandidatesOf <- MCCandidatesOf
    RowsOf <- MCRowsOf
    PlansOf <- MCPlansOf
    FaultsOf <- MCFaultsOf
    TimeOf <- MCTimeOf
    KindOf <- MCKindOf
    HighOf <- MCHighOf
    Checkpoint <- MCCheckpoint
    WriterOf <- MCWriterOf
    KindsOf <- MCKindsOf
    Tier <- MCTier
    CellOf <- MCCellOf
    FixtureLevel <- MCFixtureLevel
    Process = {p1, p2}
    Reading = {r1, r2, r3}
    PlanAttempts = 2
    MaxCrashes = 1
    Writer = {w1, w2}
    Retries = 2
    MaxTouches = 1
    MaxReads = 2
    Incident = {i1}
    Engineers = 3
    MaxAsked = 2
    MaxTries = 3
    Cycle = {k1, k2}
    Modes = {"fixture", "live_read_only"}
    Device = {crit, bulk}
    Cell = {t1}
    Geofencing = TRUE
    MinBulk = 1
    MaxDevices = 1
    RaisingKinds = {"geofence"}
    SeenLevels = {2, 3}
    MaxFaults = 1
INVARIANTS
    TypeOK
    AckedIsDecided
    AnnouncedIsBacked
    RowsResolve
    CopyBehind
    CleanIsProven
    AskedOnce
    ChainsVerify
    KeptIsMitigated
    PlanIsWhole
PROPERTIES
    ReviewEnds
    ProjectionForward
CHECK_DEADLOCK FALSE
