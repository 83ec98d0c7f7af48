---------------------------- MODULE MCExecution ----------------------------
(***************************************************************************)
(* Instances of Execution for TLC.                                         *)
(***************************************************************************)
EXTENDS Execution, TLC

CONSTANTS a1, a2, i1, i2, r1, r2, w1, w2

\* One QoD action of one incident.
OneAction == {a1}
OneIncident == {i1}
OneResource == {r1}
OneIncidentOf == a1 :> i1
OneResourceOf == a1 :> r1
OneKind == a1 :> "qos"
TwoWorkers == {w1, w2}
WorkerSymmetry == Permutations(TwoWorkers)

\* A plan of two actions on two devices of one incident.
TwoActions == {a1, a2}
TwoResources == {r1, r2}
PlanIncidentOf == a1 :> i1 @@ a2 :> i1
PlanResourceOf == a1 :> r1 @@ a2 :> r2
QosTwice == a1 :> "qos" @@ a2 :> "qos"
QosAndSlice == a1 :> "qos" @@ a2 :> "slice_attach"
OneWorker == {w1}

\* Two incidents that want the same device.
TwoIncidents == {i1, i2}
RivalIncidentOf == a1 :> i1 @@ a2 :> i2
RivalResourceOf == a1 :> r1 @@ a2 :> r1

GeofenceAndSlice == a1 :> "geofence" @@ a2 :> "slice_attach"
=============================================================================
