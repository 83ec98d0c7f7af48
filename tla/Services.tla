------------------------------ MODULE Services ------------------------------
(***************************************************************************)
(* The services that share no state with each other, as one state space:  *)
(* an initial state picks a service, and only its variables change.        *)
(* Services that use a variable of the same name share it.  A deployment   *)
(* is one size of the reasoning service, of which a run may look at more   *)
(* than one.                                                               *)
(***************************************************************************)
EXTENDS Naturals

CONSTANTS
    \* Reasoning, by deployment.
    Deployment, HandlersOf, CandidatesOf, RowsOf, PlansOf, FaultsOf,
    \* Ingestion, and the processes that keep an audit history.
    Process, Reading, TimeOf, KindOf, HighOf, PlanAttempts, MaxCrashes,
    \* Recovery records.
    Writer, Retries, MaxTouches,
    \* Cleanup.
    MaxReads,
    \* Trusted dispatch.
    Incident, Engineers, MaxAsked,
    \* Audit history.
    Checkpoint, WriterOf, MaxTries,
    \* The control graph.
    Cycle, KindsOf, Modes, Device, Cell, Tier, CellOf, FixtureLevel, Geofencing, MinBulk,
    MaxDevices, RaisingKinds, SeenLevels, MaxFaults,
    None

VARIABLES
    part,
    incident, row, faults, view, proc, record, latest,
    action, announced, handler,
    inbox, projection, crashes,
    copy, writer, touches,
    original, release, lease, reads, proof, session, operator,
    pending, attempted, receipts, tokens, result,
    chain,
    conf, cycle, held, level

reasoning == <<action, announced, handler>>
review == <<incident, row, faults, reasoning>>
ingestion == <<inbox, projection, crashes>>
recovery == <<copy, writer, touches>>
cleanup == <<original, release, lease, reads, proof, session, operator>>
dispatch == <<pending, attempted, receipts, tokens, result>>
graph == <<conf, cycle, held, level>>

vars == <<part, incident, row, faults, view, proc, record, latest, reasoning,
          ingestion, recovery, cleanup, dispatch, chain, graph>>

Reason(d) == INSTANCE Reasoning WITH
    Handler <- HandlersOf[d], Candidate <- CandidatesOf[d], Rows <- RowsOf[d],
    MaxPlans <- PlansOf[d], MaxFaults <- FaultsOf[d]
Ingest == INSTANCE Ingestion WITH MaxAttempts <- PlanAttempts
Recover == INSTANCE RecoveryRecord
Clean == INSTANCE Cleanup
Dispatch == INSTANCE TrustedDispatch WITH MaxAttempts <- MaxAsked
History == INSTANCE AuditHistory
Graph == INSTANCE CycleGraph

Service == {"ingestion", "recovery", "cleanup", "dispatch", "history", "graph"}

ASSUME ServicesAssumption ==
    /\ Deployment \cap Service = {}
    /\ \A d \in Deployment : Reason(d)!ReasoningAssumption
    /\ Ingest!IngestionAssumption
    /\ Recover!RecoveryAssumption
    /\ Clean!CleanupAssumption
    /\ Dispatch!DispatchAssumption
    /\ History!HistoryAssumption
    /\ Graph!CycleAssumption

Off == "off"
NoReasoning == action = Off /\ announced = Off /\ handler = Off
NoIngestion == inbox = Off /\ projection = Off /\ crashes = Off
NoRecovery == copy = Off /\ writer = Off /\ touches = Off
NoCleanup == /\ original = Off /\ release = Off /\ lease = Off /\ reads = Off
             /\ proof = Off /\ session = Off /\ operator = Off
NoDispatch == /\ pending = Off /\ attempted = Off /\ receipts = Off
              /\ tokens = Off /\ result = Off
NoHistory == chain = Off
NoGraph == conf = Off /\ cycle = Off /\ held = Off /\ level = Off

Init ==
    \/ /\ \E d \in Deployment : part = d /\ Reason(d)!Init
       /\ view = Off /\ proc = Off /\ record = Off /\ latest = Off
       /\ NoIngestion /\ NoRecovery /\ NoCleanup /\ NoDispatch /\ NoHistory /\ NoGraph
    \/ /\ part = "ingestion" /\ Ingest!Init
       /\ faults = Off /\ record = Off /\ latest = Off
       /\ NoReasoning /\ NoRecovery /\ NoCleanup /\ NoDispatch /\ NoHistory /\ NoGraph
    \/ /\ part = "recovery" /\ Recover!Init
       /\ incident = Off /\ row = Off /\ faults = Off /\ view = Off /\ proc = Off /\ latest = Off
       /\ NoReasoning /\ NoIngestion /\ NoCleanup /\ NoDispatch /\ NoHistory /\ NoGraph
    \/ /\ part = "cleanup" /\ Clean!Init
       /\ row = Off /\ faults = Off /\ view = Off /\ proc = Off /\ latest = Off
       /\ NoReasoning /\ NoIngestion /\ NoRecovery /\ NoDispatch /\ NoHistory /\ NoGraph
    \/ /\ part = "dispatch" /\ Dispatch!Init
       /\ incident = Off /\ row = Off /\ faults = Off /\ view = Off /\ proc = Off /\ record = Off
       /\ NoReasoning /\ NoIngestion /\ NoRecovery /\ NoCleanup /\ NoHistory /\ NoGraph
    \/ /\ part = "history" /\ History!Init
       /\ incident = Off /\ row = Off /\ faults = Off /\ record = Off /\ latest = Off
       /\ NoReasoning /\ NoIngestion /\ NoRecovery /\ NoCleanup /\ NoDispatch /\ NoGraph
    \/ /\ part = "graph" /\ Graph!Init
       /\ incident = Off /\ row = Off /\ view = Off /\ proc = Off /\ record = Off
       /\ NoReasoning /\ NoIngestion /\ NoRecovery /\ NoCleanup /\ NoDispatch /\ NoHistory

Review ==
    /\ \E d \in Deployment : part = d /\ Reason(d)!Next
    /\ UNCHANGED <<part, view, proc, record, latest, ingestion, recovery, cleanup, dispatch,
                   chain, graph>>

Read ==
    /\ part = "ingestion" /\ Ingest!Next
    /\ UNCHANGED <<part, faults, record, latest, reasoning, recovery, cleanup, dispatch,
                   chain, graph>>

SaveRecovery ==
    /\ part = "recovery" /\ Recover!Next
    /\ UNCHANGED <<part, incident, row, faults, view, proc, latest, reasoning, ingestion,
                   cleanup, dispatch, chain, graph>>

CleanUp ==
    /\ part = "cleanup" /\ Clean!Next
    /\ UNCHANGED <<part, row, faults, view, proc, latest, reasoning, ingestion, recovery,
                   dispatch, chain, graph>>

Ask ==
    /\ part = "dispatch" /\ Dispatch!Next
    /\ UNCHANGED <<part, incident, row, faults, view, proc, record, reasoning, ingestion,
                   recovery, cleanup, chain, graph>>

Record ==
    /\ part = "history" /\ History!Next
    /\ UNCHANGED <<part, incident, row, faults, record, latest, reasoning, ingestion,
                   recovery, cleanup, dispatch, graph>>

RunCycle ==
    /\ part = "graph" /\ Graph!Next
    /\ UNCHANGED <<part, incident, row, view, proc, record, reasoning, ingestion, recovery,
                   cleanup, dispatch, chain>>

Next == Review \/ Read \/ SaveRecovery \/ CleanUp \/ Ask \/ Record \/ RunCycle

\* The fairness of Reasoning (there is none to assume of the other services).
FairReview ==
    \A d \in Deployment :
        /\ \A h \in HandlersOf[d] : WF_review(part = d /\ Reason(d)!Handle(h))
        /\ \A r \in 1..RowsOf[d] :
              WF_review(part = d /\ \E h \in HandlersOf[d] : Reason(d)!Deliver(h, r))

Spec == Init /\ [][Next]_vars /\ FairReview

(***************************************************************************)
(* Properties: those of the services, each where it applies.               *)
(***************************************************************************)
\* Every service keeps to its types.
TypeOK ==
    /\ part \in Deployment \cup Service
    /\ \A d \in Deployment : part = d => Reason(d)!TypeOK
    /\ part = "ingestion" => Ingest!TypeOK
    /\ part = "recovery" => Recover!TypeOK
    /\ part = "cleanup" => Clean!TypeOK
    /\ part = "dispatch" => Dispatch!TypeOK
    /\ part = "history" => History!TypeOK
    /\ part = "graph" => Graph!TypeOK

\* Reasoning: a row is acknowledged only when its incident has been decided.
AckedIsDecided == \A d \in Deployment : part = d => Reason(d)!AckedIsDecided

\* Reasoning: what the executor is told to do exists, and is told once.
AnnouncedIsBacked == \A d \in Deployment : part = d => Reason(d)!AnnouncedIsBacked

\* Reasoning: review comes to an end though processes race and one fails.
InReview == \E d \in Deployment : part = d /\ incident.state \in Reason(d)!UnderReview
ReviewEnds == InReview ~> ~InReview

\* Ingestion: every incident a row or the projection names exists, and at most one
\* is open.
RowsResolve == part = "ingestion" => Ingest!RowsResolve

\* Ingestion: readings never take the projection back in time.
ProjectionForward == [][part = "ingestion" => Ingest!Forward]_vars

\* Recovery: the incident's copy is behind the record by at most an edge.
CopyBehind == part = "recovery" => Recover!CopyBehind

\* Cleanup: what is closed was proven gone, in order.
CleanIsProven == part = "cleanup" => Clean!CleanIsProven

\* Trusted dispatch: nobody is asked twice, nor too many, nor two at once.
AskedOnce == part = "dispatch" => Dispatch!AskedOnce

\* History: the chain verifies in every process.
ChainsVerify == part = "history" => History!ChainsVerify

\* Control graph: what an ended cycle keeps is a verified mitigation.
KeptIsMitigated == part = "graph" => Graph!KeptIsMitigated

\* Control graph: rankings never split the protection of a device.
PlanIsWhole == part = "graph" => Graph!PlanIsWhole
=============================================================================
