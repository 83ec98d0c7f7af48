--------------------------- MODULE ServicesProofs ---------------------------
(***************************************************************************)
(* Proofs about Services: which service a behaviour is about never         *)
(* changes, so an invariant of one service is an invariant of the whole    *)
(* (Parted, Starts); and the services that keep records: recovery copies,  *)
(* the cleanup of a validation run and the audit history.                  *)
(***************************************************************************)
EXTENDS Services, TLAPS, SequenceTheorems, Integers

(***************************************************************************)
(* One service at a time.                                                  *)
(***************************************************************************)
\* An initial state is an initial state of its service.
LEMMA Starts ==
    ASSUME Init
    PROVE  /\ part \in Deployment \cup Service
           /\ \A d \in Deployment : part = d => Reason(d)!Init
           /\ part = "ingestion" => Ingest!Init
           /\ part = "recovery" => Recover!Init
           /\ part = "cleanup" => Clean!Init
           /\ part = "dispatch" => Dispatch!Init
           /\ part = "history" => History!Init
           /\ part = "graph" => Graph!Init
  BY ServicesAssumption DEF Init, Service

\* A step is a step of its service, or changes nothing of it.
LEMMA Parted ==
    ASSUME [Next]_vars, part \in Deployment \cup Service
    PROVE  /\ part' = part
           /\ \A d \in Deployment : part = d => [Reason(d)!Next]_review
           /\ part = "ingestion" => [Ingest!Next]_(Ingest!vars)
           /\ part = "recovery" => [Recover!Next]_(Recover!vars)
           /\ part = "cleanup" => [Clean!Next]_(Clean!vars)
           /\ part = "dispatch" => [Dispatch!Next]_(Dispatch!vars)
           /\ part = "history" => [History!Next]_(History!vars)
           /\ part = "graph" => [Graph!Next]_(Graph!vars)
  <1>1. CASE UNCHANGED vars
    BY <1>1 DEF vars, review, reasoning, ingestion, recovery, cleanup, dispatch, graph,
                Ingest!vars, Recover!vars, Clean!vars, Dispatch!vars, History!vars, Graph!vars
  <1>2. CASE Review
    BY <1>2, ServicesAssumption DEF Review, Service
  <1>3. CASE Read \/ SaveRecovery \/ CleanUp \/ Ask \/ Record \/ RunCycle
    BY <1>3, ServicesAssumption
       DEF Read, SaveRecovery, CleanUp, Ask, Record, RunCycle, Service
  <1> QED BY <1>1, <1>2, <1>3 DEF Next

(***************************************************************************)
(* Recovery records.                                                       *)
(***************************************************************************)
\* A writer that goes to save knows of an edge from the record, if nobody has written
\* it since; one that repairs carries a state that is behind the record.
RecoveryInvariant ==
    /\ Recover!TypeOK
    /\ Recover!CopyBehind
    /\ \A w \in Writer :
          /\ writer[w].at = "save" =>
                /\ writer[w].target \in Recover!RecoveryStates
                /\ writer[w].version <= record.version
                /\ writer[w].version = record.version =>
                      Recover!ValidForward(record.state, writer[w].target)
          /\ writer[w].at \in {"get", "write"} =>
                /\ writer[w].target \in Recover!RecoveryStates
                /\ Recover!ValidForward(writer[w].target, record.state)
                /\ record.state # Recover!NoRecovery

\* The edges of a recovery record make an order.
LEMMA EdgesCompose ==
    ASSUME NEW s \in Recover!RecoveryStates \cup {Recover!NoRecovery},
           NEW t \in Recover!RecoveryStates \cup {Recover!NoRecovery},
           NEW u \in Recover!RecoveryStates \cup {Recover!NoRecovery},
           Recover!ValidForward(s, t), Recover!ValidForward(t, u)
    PROVE  Recover!ValidForward(s, u)
  BY DEF Recover!ValidForward, Recover!Forward, Recover!RecoveryStates, Recover!NoRecovery

LEMMA RecoveryStarts == ASSUME Recover!Init PROVE RecoveryInvariant
  BY ServicesAssumption
     DEF Recover!Init, RecoveryInvariant, Recover!TypeOK, Recover!CopyBehind, Recover!Record,
         Recover!IdleWriter, Recover!ValidForward, Recover!NoRecovery, Recover!Absent,
         Recover!RecoveryAssumption, Recover!RecoveryStates

LEMMA RecoveryStep ==
    ASSUME RecoveryInvariant, Recover!Next
    PROVE  RecoveryInvariant'
  <1> USE DEF Recover!NoRecovery, Recover!Absent
  <1>0. /\ Retries \in Nat \ {0} /\ MaxTouches \in Nat
        /\ Recover!NoRecovery \notin Recover!RecoveryStates
    BY ServicesAssumption DEF Recover!RecoveryAssumption, Recover!RecoveryStates
  <1>1. ASSUME NEW w \in Writer, NEW target \in Recover!RecoveryStates,
               Recover!Begin(w, target)
        PROVE  RecoveryInvariant'
    BY <1>0, <1>1 DEF Recover!Begin, Recover!At, RecoveryInvariant, Recover!TypeOK,
             Recover!CopyBehind, Recover!Record
  <1>2. ASSUME NEW w \in Writer, Recover!Save(w)
        PROVE  RecoveryInvariant'
    <2>1. CASE record.version = writer[w].version
      <3>1. /\ record' = [state |-> writer[w].target, version |-> record.version + 1]
            /\ writer' = [writer EXCEPT ![w].at = "reread"]
            /\ copy' = copy /\ touches' = touches
            /\ Recover!ValidForward(record.state, record'.state)
            /\ record'.state \in Recover!RecoveryStates
        BY <1>2, <2>1 DEF Recover!Save, Recover!Put, Recover!GoTo, Recover!At,
                          RecoveryInvariant
      <3>2. Recover!TypeOK'
        BY <3>1 DEF RecoveryInvariant, Recover!TypeOK, Recover!Record
      <3>3. Recover!CopyBehind'
        <4>1. CASE record.state = Recover!NoRecovery
          BY <1>0, <3>1, <4>1 DEF RecoveryInvariant, Recover!CopyBehind, Recover!ValidForward,
             Recover!Forward, Recover!RecoveryStates
        <4>2. CASE record.state # Recover!NoRecovery
          BY <1>0, <3>1, <4>2, EdgesCompose DEF RecoveryInvariant, Recover!TypeOK,
             Recover!Record, Recover!CopyBehind
        <4> QED BY <4>1, <4>2
      <3>4. ASSUME NEW v \in Writer, writer'[v].at \in {"get", "write"}
            PROVE  /\ writer'[v].target \in Recover!RecoveryStates
                   /\ Recover!ValidForward(writer'[v].target, record'.state)
                   /\ record'.state # Recover!NoRecovery
        BY <1>0, <3>1, <3>4, EdgesCompose DEF RecoveryInvariant, Recover!TypeOK, Recover!Record
      <3>5. ASSUME NEW v \in Writer, writer'[v].at = "save"
            PROVE  /\ writer'[v].target \in Recover!RecoveryStates
                   /\ writer'[v].version < record'.version
        BY <3>1, <3>5 DEF RecoveryInvariant, Recover!TypeOK, Recover!Record
      <3> QED BY <3>2, <3>3, <3>4, <3>5 DEF RecoveryInvariant, Recover!TypeOK, Recover!Record
    <2>2. CASE record.version # writer[w].version
      BY <1>0, <1>2, <2>2 DEF Recover!Save, Recover!Done, Recover!IdleWriter,
             RecoveryInvariant, Recover!TypeOK, Recover!CopyBehind, Recover!Record
    <2> QED BY <2>1, <2>2
  <1>3. ASSUME NEW w \in Writer, Recover!Reread(w) \/ Recover!Get(w) \/ Recover!Crash(w)
        PROVE  RecoveryInvariant'
    BY <1>0, <1>3 DEF Recover!Reread, Recover!Get, Recover!Crash, Recover!Done, Recover!At,
           Recover!IdleWriter, RecoveryInvariant, Recover!TypeOK, Recover!CopyBehind,
           Recover!Record, Recover!ValidForward
  <1>4. ASSUME NEW w \in Writer, Recover!Write(w)
        PROVE  RecoveryInvariant'
    BY <1>0, <1>4 DEF Recover!Write, Recover!Done, Recover!GoTo, Recover!At,
           Recover!IdleWriter, RecoveryInvariant, Recover!TypeOK, Recover!CopyBehind,
           Recover!Record
  <1>5. CASE Recover!Touch
    BY <1>0, <1>5 DEF Recover!Touch, RecoveryInvariant, Recover!TypeOK, Recover!CopyBehind,
           Recover!Record
  <1> QED BY <1>1, <1>2, <1>3, <1>4, <1>5 DEF Recover!Next

RecoveryKept == part \in Deployment \cup Service /\ (part = "recovery" => RecoveryInvariant)

LEMMA RecoveryAlways == Spec => []RecoveryKept
  <1>1. Init => RecoveryKept
    BY Starts, RecoveryStarts DEF RecoveryKept
  <1>2. RecoveryKept /\ [Next]_vars => RecoveryKept'
    <2> SUFFICES ASSUME RecoveryKept, [Next]_vars  PROVE RecoveryKept'
      OBVIOUS
    <2>1. part' = part /\ (part = "recovery" => [Recover!Next]_(Recover!vars))
      BY Parted DEF RecoveryKept
    <2>2. ASSUME part = "recovery"  PROVE RecoveryInvariant'
      <3>1. CASE Recover!Next
        BY <2>2, <3>1, RecoveryStep DEF RecoveryKept
      <3>2. CASE UNCHANGED Recover!vars
        BY <2>2, <3>2 DEF RecoveryKept, Recover!vars, RecoveryInvariant, Recover!TypeOK,
                          Recover!CopyBehind
      <3> QED BY <2>1, <2>2, <3>1, <3>2
    <2> QED BY <2>1, <2>2 DEF RecoveryKept
  <1> QED BY <1>1, <1>2, PTL DEF Spec

\* The incident's copy of its recovery state is never ahead of the record nor beside it:
\* one forward edge leads from the copy to the record, and where there is none the copy is
\* PENDING, for every number of writers, retries and other writes.
THEOREM CopiesStayBehind == Spec => []CopyBehind
  <1>1. RecoveryKept => CopyBehind
    BY DEF RecoveryKept, RecoveryInvariant, CopyBehind
  <1> QED BY RecoveryAlways, <1>1, PTL

(***************************************************************************)
(* Cleanup.                                                                *)
(***************************************************************************)
\* The types, in parts.
Operator ==
    [at : {"idle", "authorize", "read", "save", "defer", "complete", "release",
           "original", "record", "incident", "fields", "lease"},
     seen : Clean!ActionStates \cup {"ABSENT"}, verified : BOOLEAN]

RecordsTyped ==
    /\ original \in {"ACKNOWLEDGED", "SUCCESS", "RECONCILIATION_REQUIRED",
                     "ROLLBACK_REQUIRED", "ROLLED_BACK"}
    /\ release \in Clean!ActionStates \cup {"ABSENT"}
    /\ record \in Clean!RecoveryStates \cup {Clean!NoRecovery}
    /\ lease \in {"ours", "none", "other"}
    /\ session \in {"ACTIVE", "GONE"}

IncidentTyped == incident \in [state : Clean!IncidentStates, outcome : BOOLEAN]
Proof == {"none", "readback", "executor"}
ReadsTyped == reads \in 0..MaxReads /\ (operator.at \in {"read", "save"} => reads < MaxReads)

CleanTypes ==
    operator \in Operator /\ RecordsTyped /\ IncidentTyped /\ ReadsTyped /\ proof \in Proof

LEMMA CleanTypesAre == CleanTypes => Clean!TypeOK
  <1> SUFFICES ASSUME CleanTypes  PROVE Clean!TypeOK
    OBVIOUS
  <1>1. reads \in 0..MaxReads /\ operator \in Operator /\ proof \in Proof
    BY DEF CleanTypes, ReadsTyped
  <1>2. RecordsTyped /\ IncidentTyped
    BY DEF CleanTypes
  <1> QED BY <1>1, <1>2 DEF RecordsTyped, IncidentTyped, Operator, Proof, Clean!TypeOK

\* The read that proves the session gone comes first: what the operator's place in
\* the code presupposes, down the ladder of records.
CleanOrder ==
    /\ Clean!CleanIsProven
    /\ proof # "none" => session = "GONE" /\ release # "ABSENT"
    /\ operator.verified => session = "GONE" /\ release # "ABSENT"
    /\ operator.at \in {"read", "save", "defer", "complete"} => release # "ABSENT"
    /\ operator.at = "authorize" => original \notin {"ROLLBACK_REQUIRED", "ROLLED_BACK"}
    /\ release # "ABSENT" => original \in {"ROLLBACK_REQUIRED", "ROLLED_BACK"}
    /\ operator.at = "release" => proof # "none"
    /\ operator.at = "original" => release = "ROLLED_BACK"
    /\ operator.at = "record" => original = "ROLLED_BACK"
    /\ operator.at = "incident" => record = "COMPLETE"
    /\ operator.at = "fields" => incident.state = "RESOLVED"

CleanInvariant == CleanTypes /\ CleanOrder

LEMMA CleanStarts == ASSUME Clean!Init PROVE CleanInvariant
  <1>1. incident.state \in {"MITIGATING", "VERIFYING", "ESCALATED"} /\ incident.outcome = FALSE
    BY DEF Clean!Init
  <1>2. IncidentTyped
    BY DEF Clean!Init, Clean!IncidentStates, IncidentTyped
  <1>3. operator = Clean!Idle /\ operator \in Operator /\ proof \in Proof
    BY DEF Clean!Init, Clean!Idle, Operator, Proof
  <1>4. RecordsTyped
    BY DEF Clean!Init, RecordsTyped
  <1>5. ReadsTyped
    BY <1>3, ServicesAssumption DEF Clean!Init, ReadsTyped, Clean!CleanupAssumption, Clean!Idle
  <1>6. CleanOrder
    BY <1>1, <1>3 DEF Clean!Init, CleanOrder, Clean!Idle, Clean!CleanIsProven, Clean!NoRecovery
  <1> QED BY <1>2, <1>3, <1>4, <1>5, <1>6 DEF CleanInvariant, CleanTypes

\* The operator goes on: its place changes and nothing it has read.
LEMMA OperatorGoes ==
    ASSUME operator \in Operator, NEW place, Clean!GoTo(place)
    PROVE  /\ operator'.at = place /\ operator'.verified = operator.verified
           /\ place \in {"authorize", "read", "defer", "complete", "original", "record",
                         "incident", "fields", "lease"} => operator' \in Operator
  BY DEF Clean!GoTo, Operator

LEMMA OperatorStops ==
    ASSUME Clean!Stop
    PROVE  operator'.at = "idle" /\ operator'.verified = FALSE /\ operator' \in Operator
  BY DEF Clean!Stop, Clean!Idle, Operator

LEMMA OperatorTyped ==
    ASSUME operator \in Operator, release \in Clean!ActionStates \cup {"ABSENT"}, Clean!Next
    PROVE  operator' \in Operator
  <1>1. CASE Clean!Acquire \/ Clean!Authorize \/ Clean!Reconcile \/ Clean!Defer
    BY <1>1, OperatorGoes, OperatorStops
       DEF Clean!Acquire, Clean!Authorize, Clean!Reconcile, Clean!Defer
  <1>2. CASE Clean!Roll \/ Clean!Answer \/ Clean!Verify \/ Clean!Doubt \/ Clean!Expire
    BY <1>2 DEF Clean!Roll, Clean!Answer, Clean!Verify, Clean!Doubt, Clean!Expire
  <1>3. CASE Clean!Read
    <2>1. PICK available \in BOOLEAN :
             operator' = [operator EXCEPT !.at = "save",
                                          !.verified = available /\ session = "GONE"]
      BY <1>3 DEF Clean!Read
    <2>2. (available /\ session = "GONE") \in BOOLEAN
      BY Zenon
    <2> QED BY <2>1, <2>2 DEF Operator
  <1>4. CASE Clean!SaveRead
    <2>1. CASE operator.verified
      BY <1>4, <2>1, OperatorGoes DEF Clean!SaveRead
    <2>2. CASE ~operator.verified
      BY <1>4, <2>2, OperatorGoes DEF Clean!SaveRead
    <2> QED BY <2>1, <2>2
  <1>5. CASE Clean!Complete
    <2>1. \/ operator' = [operator EXCEPT !.at = "release", !.seen = release]
          \/ operator' \in Operator
      BY <1>5, OperatorStops DEF Clean!Complete
    <2> QED BY <2>1 DEF Operator
  <1>6. CASE Clean!CloseRelease \/ Clean!CloseOriginal \/ Clean!CloseRecord
    BY <1>6, OperatorGoes, OperatorStops
       DEF Clean!CloseRelease, Clean!CloseOriginal, Clean!CloseRecord
  <1>7. CASE Clean!CloseIncident
    BY <1>7, OperatorGoes DEF Clean!CloseIncident
  <1>8. CASE Clean!WriteOutcome \/ Clean!ReleaseLease \/ Clean!Crash
    BY <1>8, OperatorGoes, OperatorStops DEF Clean!WriteOutcome, Clean!ReleaseLease, Clean!Crash
  <1> QED BY <1>1, <1>2, <1>3, <1>4, <1>5, <1>6, <1>7, <1>8 DEF Clean!Next

LEMMA RecordsTypedStep ==
    ASSUME RecordsTyped, Clean!Next
    PROVE  RecordsTyped'
  <1> USE DEF RecordsTyped, Clean!durable
  <1>1. CASE Clean!Acquire \/ Clean!Authorize \/ Clean!Reconcile \/ Clean!Read \/ Clean!SaveRead
    BY <1>1 DEF Clean!Acquire, Clean!Authorize, Clean!Reconcile, Clean!Read, Clean!SaveRead
  <1>2. CASE Clean!Roll \/ Clean!Doubt \/ Clean!Expire \/ Clean!Defer
    BY <1>2 DEF Clean!Roll, Clean!Doubt, Clean!Expire, Clean!Defer, Clean!ActionStates,
                Clean!RecoveryStates
  <1>5. CASE Clean!Answer
    BY <1>5 DEF Clean!Answer, Clean!ActionStates, Clean!RecoveryStates
  <1>6. CASE Clean!Verify
    BY <1>6 DEF Clean!Verify, Clean!CloseVerified, Clean!ActionStates, Clean!RecoveryStates
  <1>3. CASE Clean!Complete \/ Clean!CloseRelease \/ Clean!CloseOriginal \/ Clean!CloseRecord
    BY <1>3 DEF Clean!Complete, Clean!CloseRelease, Clean!CloseOriginal, Clean!CloseRecord,
                Clean!ActionStates, Clean!RecoveryStates
  <1>4. CASE Clean!CloseIncident \/ Clean!WriteOutcome \/ Clean!ReleaseLease \/ Clean!Crash
    BY <1>4 DEF Clean!CloseIncident, Clean!WriteOutcome, Clean!ReleaseLease, Clean!Crash
  <1> QED BY <1>1, <1>2, <1>3, <1>4, <1>5, <1>6 DEF Clean!Next

\* The executor takes an incident out of VERIFYING and changes no other.
LEMMA RecoveringGoes ==
    ASSUME IncidentTyped, Clean!Recovering
    PROVE  /\ IncidentTyped' /\ incident'.outcome = incident.outcome
           /\ \/ incident'.state = incident.state
              \/ incident'.state = "RECOVERING" /\ incident.state = "VERIFYING"
  BY DEF Clean!Recovering, IncidentTyped, Clean!IncidentStates

\* What a step does to the incident.
LEMMA IncidentGoes ==
    ASSUME IncidentTyped, Clean!Next
    PROVE  /\ IncidentTyped'
           /\ \/ incident' = incident
              \/ Clean!Answer \/ Clean!Verify
              \/ Clean!CloseIncident
              \/ Clean!WriteOutcome
  <1>1. CASE incident' = incident
    BY <1>1 DEF IncidentTyped
  <1>2. CASE Clean!Answer \/ Clean!Verify
    <2>1. CASE incident' \in [state : {"RESOLVED"}, outcome : BOOLEAN]
      BY <1>2, <2>1 DEF IncidentTyped, Clean!IncidentStates
    <2>2. \/ incident' = incident \/ Clean!Recovering
          \/ incident' \in [state : {"RESOLVED"}, outcome : BOOLEAN]
      BY <1>2 DEF Clean!Answer, Clean!Verify, Clean!CloseVerified
    <2> QED BY <1>2, <2>1, <2>2, RecoveringGoes DEF IncidentTyped
  <1>3. CASE Clean!CloseIncident
    BY <1>3 DEF Clean!CloseIncident, IncidentTyped, Clean!IncidentStates
  <1>4. CASE Clean!WriteOutcome
    BY <1>4 DEF Clean!WriteOutcome, IncidentTyped
  <1>5. CASE \/ Clean!Acquire \/ Clean!Authorize \/ Clean!Roll \/ Clean!Doubt \/ Clean!Expire
             \/ Clean!Reconcile \/ Clean!Read \/ Clean!SaveRead \/ Clean!Defer
             \/ Clean!Complete \/ Clean!CloseRelease \/ Clean!CloseOriginal
             \/ Clean!CloseRecord \/ Clean!ReleaseLease \/ Clean!Crash
    BY <1>1, <1>5 DEF Clean!Acquire, Clean!Authorize, Clean!Roll, Clean!Doubt, Clean!Expire,
           Clean!Reconcile, Clean!Read, Clean!SaveRead, Clean!Defer, Clean!Complete,
           Clean!CloseRelease, Clean!CloseOriginal, Clean!CloseRecord, Clean!ReleaseLease,
           Clean!Crash, Clean!durable
  <1> QED BY <1>2, <1>3, <1>4, <1>5 DEF Clean!Next

LEMMA ReadsTypedStep ==
    ASSUME ReadsTyped, operator \in Operator, proof \in Proof, Clean!Next
    PROVE  ReadsTyped' /\ proof' \in Proof
  <1>0. MaxReads \in Nat \ {0}
    BY ServicesAssumption DEF Clean!CleanupAssumption
  <1>1. CASE Clean!SaveRead
    <2>1. operator.at = "save" /\ reads' = reads + 1
      BY <1>1 DEF Clean!SaveRead, Clean!At
    <2>2. operator'.at \in {"complete", "defer"}
      BY <1>1, OperatorGoes DEF Clean!SaveRead
    <2>3. proof' \in Proof
      BY <1>1 DEF Clean!SaveRead, Proof
    <2> QED BY <1>0, <2>1, <2>2, <2>3 DEF ReadsTyped
  <1>2. CASE Clean!Reconcile
    BY <1>2, OperatorGoes DEF Clean!Reconcile, ReadsTyped, Clean!durable
  <1>3. CASE Clean!Read
    <2>1. operator'.at = "save" /\ operator.at = "read" /\ reads' = reads /\ proof' = proof
      BY <1>3 DEF Clean!Read, Clean!At, Clean!durable, Operator
    <2> QED BY <2>1 DEF ReadsTyped
  <1>4. CASE \/ Clean!Acquire \/ Clean!Authorize \/ Clean!Roll \/ Clean!Answer
             \/ Clean!Doubt \/ Clean!Expire
    <2>1. /\ reads' = reads /\ proof' = proof
          /\ operator' = operator \/ operator'.at \in {"authorize", "idle"}
      BY <1>4, OperatorGoes, OperatorStops
         DEF Clean!Acquire, Clean!Authorize, Clean!Roll, Clean!Answer, Clean!Doubt, Clean!Expire
    <2> QED BY <2>1 DEF ReadsTyped
  <1>5. CASE \/ Clean!Defer \/ Clean!Complete \/ Clean!CloseRelease \/ Clean!CloseOriginal
             \/ Clean!CloseRecord \/ Clean!CloseIncident \/ Clean!WriteOutcome
             \/ Clean!ReleaseLease \/ Clean!Crash
    <2>1. reads' = reads /\ proof' = proof
      BY <1>5 DEF Clean!Defer, Clean!Complete, Clean!CloseRelease, Clean!CloseOriginal,
             Clean!CloseRecord, Clean!CloseIncident, Clean!WriteOutcome, Clean!ReleaseLease,
             Clean!Crash, Clean!durable
    <2>2. operator' = operator \/ operator'.at \notin {"read", "save"}
      <3>1. CASE Clean!Complete
        BY <3>1, OperatorStops DEF Clean!Complete, Operator
      <3>2. CASE Clean!CloseIncident
        BY <3>2, OperatorGoes DEF Clean!CloseIncident
      <3>3. CASE Clean!CloseRelease
        <4>1. CASE Clean!GoTo("original")
          BY <4>1, OperatorGoes
        <4>2. CASE Clean!Stop
          BY <4>2, OperatorStops
        <4> QED BY <3>3, <4>1, <4>2 DEF Clean!CloseRelease
      <3>4. CASE Clean!CloseOriginal
        BY <3>4, OperatorGoes DEF Clean!CloseOriginal
      <3>5. CASE Clean!CloseRecord
        <4>1. CASE Clean!GoTo("incident")
          BY <4>1, OperatorGoes
        <4>2. CASE Clean!Stop
          BY <4>2, OperatorStops
        <4> QED BY <3>5, <4>1, <4>2 DEF Clean!CloseRecord
      <3>6. CASE Clean!WriteOutcome
        BY <3>6, OperatorGoes DEF Clean!WriteOutcome
      <3>7. CASE Clean!Defer \/ Clean!ReleaseLease \/ Clean!Crash
        BY <3>7, OperatorStops DEF Clean!Defer, Clean!ReleaseLease, Clean!Crash
      <3> QED BY <1>5, <3>1, <3>2, <3>3, <3>4, <3>5, <3>6, <3>7
    <2> QED BY <2>1, <2>2 DEF ReadsTyped
  <1>6. CASE Clean!Verify
    BY <1>6 DEF Clean!Verify, Clean!CloseVerified, ReadsTyped, Proof
  <1> QED BY <1>1, <1>2, <1>3, <1>4, <1>5, <1>6 DEF Clean!Next

LEMMA CleanOrderStep ==
    ASSUME CleanInvariant, Clean!Next
    PROVE  CleanOrder'
  <1> USE DEF CleanInvariant, CleanOrder, Clean!CleanIsProven, Clean!durable, Clean!At
  <1>0. /\ operator \in Operator /\ IncidentTyped /\ proof \in Proof
        /\ operator.verified \in BOOLEAN
    BY DEF CleanTypes, Operator
  <1>1. CASE Clean!Acquire
    <2>1. CASE original = "ROLLBACK_REQUIRED"
      BY <1>1, <2>1, OperatorStops DEF Clean!Acquire
    <2>2. CASE original # "ROLLBACK_REQUIRED"
      <3>1. operator'.at = "authorize" /\ operator'.verified = operator.verified
        BY <1>0, <1>1, <2>2, OperatorGoes DEF Clean!Acquire
      <3> QED BY <1>1, <2>2, <3>1 DEF Clean!Acquire
    <2> QED BY <2>1, <2>2
  <1>14. CASE Clean!Authorize
    <2>1. operator'.at = "idle" /\ operator'.verified = FALSE
      BY <1>14, OperatorStops DEF Clean!Authorize
    <2> QED BY <1>14, <2>1 DEF Clean!Authorize
  <1>2. CASE Clean!Roll
    <2>1. /\ record' \in {record, "RELEASING"} /\ release = "ABSENT" /\ release' = "SENT"
          /\ original = "ROLLBACK_REQUIRED"
          /\ UNCHANGED <<original, incident, proof, session, operator>>
      BY <1>2 DEF Clean!Roll
    <2> QED BY <2>1
  <1>16. CASE Clean!Answer
    <2>1. /\ release = "SENT" /\ release' \in {"FAILED", "OUTCOME_UNKNOWN", "ACKNOWLEDGED"}
          /\ record = "RELEASING" /\ record' \in {"RELEASING", "FAILED", "PARTIAL"}
          /\ UNCHANGED <<original, proof, session, operator>>
      BY <1>16 DEF Clean!Answer
    <2>2. incident' = incident \/ Clean!Recovering
      BY <1>16 DEF Clean!Answer
    <2>3. /\ incident'.outcome = incident.outcome
          /\ incident'.state = "RESOLVED" => incident.state = "RESOLVED"
      BY <1>0, <2>2, RecoveringGoes
    <2>4. incident.state # "RESOLVED" /\ incident.outcome = FALSE
      BY <1>0, <2>1 DEF IncidentTyped
    <2> QED BY <2>1, <2>3, <2>4
  <1>17. CASE Clean!Verify
    <2>1. /\ release = "ACKNOWLEDGED" /\ UNCHANGED <<session, operator>>
          /\ original # "ROLLED_BACK" /\ record # "COMPLETE" /\ original = "ROLLBACK_REQUIRED"
          /\ incident.state # "RESOLVED" /\ incident.outcome = FALSE
      BY <1>0, <1>17 DEF Clean!Verify, IncidentTyped
    <2>2. Clean!Recovering => incident'.state # "RESOLVED" /\ incident'.outcome = FALSE
      BY <1>0, <2>1, RecoveringGoes
    <2>3. CASE Clean!CloseVerified
      <3>1. session = "GONE" /\ release' = "ROLLED_BACK" /\ proof' # "none"
            /\ original' \in {original, "ROLLED_BACK"}
        BY <2>3 DEF Clean!CloseVerified
      <3>2. CASE Clean!Recovering /\ UNCHANGED record
        BY <2>1, <2>2, <3>1, <3>2
      <3>3. CASE original' = "ROLLED_BACK" /\ record' = "COMPLETE"
        <4>1. CASE Clean!Recovering
          BY <2>1, <2>2, <3>1, <3>3, <4>1
        <4>2. CASE incident' \in [state : {"RESOLVED"}, outcome : BOOLEAN]
          BY <2>1, <3>1, <3>3, <4>2
        <4> QED BY <2>3, <3>3, <4>1, <4>2 DEF Clean!CloseVerified
      <3> QED BY <2>3, <3>2, <3>3 DEF Clean!CloseVerified
    <2>4. CASE ~Clean!CloseVerified
      <3>1. /\ release' \in {release, "RECONCILIATION_REQUIRED"}
            /\ record' \in {record, "PARTIAL"} /\ Clean!Recovering
            /\ UNCHANGED <<original, proof>>
        BY <1>17, <2>4 DEF Clean!Verify
      <3> QED BY <2>1, <2>2, <3>1
    <2> QED BY <2>3, <2>4
  <1>3. CASE Clean!Doubt \/ Clean!Expire
    BY <1>3 DEF Clean!Doubt, Clean!Expire
  <1>4. CASE Clean!Reconcile
    BY <1>0, <1>4, OperatorGoes DEF Clean!Reconcile
  <1>5. CASE Clean!Read
    <2>0. PICK available \in BOOLEAN :
             operator' = [operator EXCEPT !.at = "save",
                                          !.verified = available /\ session = "GONE"]
      BY <1>5 DEF Clean!Read
    <2>1. operator'.at = "save" /\ (operator'.verified => session = "GONE")
      BY <1>0, <2>0 DEF Operator
    <2> QED BY <1>5, <2>1 DEF Clean!Read
  <1>6. CASE Clean!SaveRead
    BY <1>0, <1>6, OperatorGoes DEF Clean!SaveRead
  <1>7. CASE Clean!Defer
    BY <1>7, OperatorStops DEF Clean!Defer
  <1>8. CASE Clean!Complete
    <2>1. \/ operator'.at = "idle" /\ operator'.verified = FALSE
          \/ operator'.at = "release" /\ proof # "none" /\ operator'.verified = operator.verified
      BY <1>0, <1>8, OperatorStops DEF Clean!Complete, Operator, IncidentTyped
    <2> QED BY <1>8, <2>1 DEF Clean!Complete
  <1>9. CASE Clean!CloseRelease
    <2>1. CASE release = operator.seen
      <3>1. operator'.at = "original" /\ operator'.verified = operator.verified
        BY <1>0, <1>9, <2>1, OperatorGoes DEF Clean!CloseRelease
      <3> QED BY <1>9, <2>1, <3>1 DEF Clean!CloseRelease
    <2>2. CASE release # operator.seen
      BY <1>9, <2>2, OperatorStops DEF Clean!CloseRelease
    <2> QED BY <2>1, <2>2
  <1>15. CASE Clean!CloseOriginal
    <2>1. operator'.at = "record" /\ operator'.verified = operator.verified
      BY <1>0, <1>15, OperatorGoes DEF Clean!CloseOriginal
    <2> QED BY <1>15, <2>1 DEF Clean!CloseOriginal
  <1>10. CASE Clean!CloseRecord
    <2>1. CASE Clean!ValidForward(record, "COMPLETE")
      <3>1. operator'.at = "incident" /\ operator'.verified = operator.verified
        BY <1>0, <1>10, <2>1, OperatorGoes DEF Clean!CloseRecord
      <3> QED BY <1>10, <2>1, <3>1 DEF Clean!CloseRecord
    <2>2. CASE ~Clean!ValidForward(record, "COMPLETE")
      BY <1>10, <2>2, OperatorStops DEF Clean!CloseRecord
    <2> QED BY <2>1, <2>2
  <1>11. CASE Clean!CloseIncident
    <2>1. CASE incident.state \in {"VERIFYING", "ESCALATED"}
      <3>1. /\ incident'.state = "RECOVERING" /\ incident'.outcome = incident.outcome
            /\ operator' = operator
        BY <1>0, <1>11, <2>1 DEF Clean!CloseIncident, Operator, IncidentTyped
      <3> QED BY <1>11, <2>1, <3>1 DEF Clean!CloseIncident
    <2>2. CASE incident.state = "RECOVERING"
      <3>1. /\ incident'.state = "RESOLVED" /\ incident'.outcome = incident.outcome
            /\ operator'.at = "fields" /\ operator'.verified = operator.verified
        BY <1>0, <1>11, <2>2, OperatorGoes DEF Clean!CloseIncident, Operator, IncidentTyped
      <3> QED BY <1>11, <2>2, <3>1 DEF Clean!CloseIncident
    <2>3. CASE incident.state \notin {"VERIFYING", "ESCALATED", "RECOVERING"}
      <3>1. /\ incident' = incident
            /\ operator'.at = "lease" /\ operator'.verified = operator.verified
        BY <1>0, <1>11, <2>3, OperatorGoes DEF Clean!CloseIncident
      <3> QED BY <1>11, <2>3, <3>1 DEF Clean!CloseIncident
    <2> QED BY <2>1, <2>2, <2>3
  <1>12. CASE Clean!WriteOutcome
    <2>1. /\ incident'.state = incident.state
          /\ operator'.at = "lease" /\ operator'.verified = operator.verified
      BY <1>0, <1>12, OperatorGoes DEF Clean!WriteOutcome, Operator, IncidentTyped
    <2> QED BY <1>12, <2>1 DEF Clean!WriteOutcome
  <1>13. CASE Clean!ReleaseLease \/ Clean!Crash
    <2>1. operator'.at = "idle" /\ operator'.verified = FALSE
      BY <1>13, OperatorStops DEF Clean!ReleaseLease, Clean!Crash
    <2>2. UNCHANGED <<original, release, record, incident, proof, session>>
      BY <1>13 DEF Clean!ReleaseLease, Clean!Crash
    <2> QED BY <2>1, <2>2
  <1> QED BY <1>1, <1>2, <1>3, <1>4, <1>5, <1>6, <1>7, <1>8, <1>9, <1>10, <1>11, <1>12,
             <1>13, <1>14, <1>15, <1>16, <1>17 DEF Clean!Next

CleanKept == part \in Deployment \cup Service /\ (part = "cleanup" => CleanInvariant)

LEMMA CleanAlways == Spec => []CleanKept
  <1>1. Init => CleanKept
    BY Starts, CleanStarts DEF CleanKept
  <1>2. CleanKept /\ [Next]_vars => CleanKept'
    <2> SUFFICES ASSUME CleanKept, [Next]_vars  PROVE CleanKept'
      OBVIOUS
    <2>1. part' = part /\ (part = "cleanup" => [Clean!Next]_(Clean!vars))
      BY Parted DEF CleanKept
    <2>2. ASSUME part = "cleanup"  PROVE CleanInvariant'
      <3>1. CASE Clean!Next
        <4>1. CleanTypes /\ CleanOrder
          BY <2>2 DEF CleanKept, CleanInvariant
        <4>2. operator' \in Operator /\ RecordsTyped' /\ IncidentTyped'
          BY <3>1, <4>1, OperatorTyped, RecordsTypedStep, IncidentGoes
             DEF CleanTypes, RecordsTyped
        <4>3. ReadsTyped' /\ proof' \in Proof
          BY <3>1, <4>1, ReadsTypedStep DEF CleanTypes
        <4> QED BY <3>1, <4>1, <4>2, <4>3, CleanOrderStep DEF CleanTypes, CleanInvariant
      <3>2. CASE UNCHANGED Clean!vars
        BY <2>2, <3>2 DEF CleanKept, Clean!vars, CleanInvariant, CleanTypes, CleanOrder,
           Clean!CleanIsProven, RecordsTyped, IncidentTyped, ReadsTyped
      <3> QED BY <2>1, <2>2, <3>1, <3>2
    <2> QED BY <2>1, <2>2 DEF CleanKept
  <1> QED BY <1>1, <1>2, PTL DEF Spec

\* A release is closed only on a read that proves that the session is gone, and the action, the
\* record, the incident and its outcome only after it, wherever the operator's process
\* dies and whatever the lease and the session do meanwhile.
THEOREM CleanupIsProven == Spec => []CleanIsProven
  <1>1. CleanKept => CleanIsProven
    BY DEF CleanKept, CleanInvariant, CleanOrder, CleanIsProven
  <1> QED BY CleanAlways, <1>1, PTL

(***************************************************************************)
(* Audit history.                                                          *)
(***************************************************************************)
Records == Seq(Seq(Checkpoint))

\* The store holds one chain, in which the n-th record is n checkpoints long and goes on
\* from the one before it; a copy agrees with it as far as it goes.
ChainOrder ==
    /\ chain \in Records
    /\ \A n \in 1..Len(chain) :
          /\ Len(chain[n]) = n
          /\ SubSeq(chain[n], 1, n - 1) = IF n = 1 THEN <<>> ELSE chain[n - 1]
    /\ \A m, n \in 1..Len(chain) : m # n => chain[m][m] # chain[n][n]

Begins(copied, records) ==
    /\ copied \in Records
    /\ Len(copied) <= Len(records)
    /\ \A n \in 1..Len(copied) : copied[n] = records[n]

ProcRecord == [loaded : BOOLEAN, at : {"idle", "append", "reload"},
               tries : 0..MaxTries, checkpoint : Checkpoint \cup {"none"}]

ProcTypes ==
    /\ proc \in [Process -> ProcRecord]
    /\ \A p \in Process : proc[p].at # "idle" => proc[p].checkpoint \in Checkpoint

ViewsBegin ==
    /\ view \in [Process -> Records]
    /\ \A p \in Process : Begins(view[p], chain)

HistoryInvariant == ChainOrder /\ ProcTypes /\ ViewsBegin

LEMMA FirstRecords ==
    ASSUME NEW S, NEW s \in Seq(S), NEW n \in 0..Len(s)
    PROVE  /\ SubSeq(s, 1, n) \in Seq(S)
           /\ Len(SubSeq(s, 1, n)) = n
           /\ \A i \in 1..n : SubSeq(s, 1, n)[i] = s[i]
  <1>1. Len(s) \in Nat /\ \A i \in 1..n : s[i] \in S
    BY ElementOfSeq, LenProperties
  <1> QED BY <1>1, SubSeqProperties

\* The hash of a copy is the record the store holds at its end.
LEMMA HashOfCopy ==
    ASSUME ChainOrder, NEW copied, Begins(copied, chain)
    PROVE  /\ History!Hash(copied) \in Seq(Checkpoint)
           /\ Len(History!Hash(copied)) = Len(copied)
           /\ History!Hash(copied) = IF Len(copied) = 0 THEN <<>> ELSE chain[Len(copied)]
  <1>1. Len(copied) \in Nat /\ (copied = <<>> <=> Len(copied) = 0)
    BY EmptySeq, LenProperties DEF Begins, Records
  <1>2. CASE copied = <<>>
    BY <1>1, <1>2, EmptySeq DEF History!Hash
  <1>3. CASE copied # <<>>
    <2>1. Len(copied) \in 1..Len(copied) /\ Len(copied) \in 1..Len(chain)
      BY <1>1, <1>3, LenProperties DEF Begins, ChainOrder, Records
    <2>2. chain[Len(copied)] \in Seq(Checkpoint)
      BY <2>1, ElementOfSeq DEF ChainOrder, Records
    <2> QED BY <1>1, <1>3, <2>1, <2>2 DEF History!Hash, Begins, ChainOrder
  <1> QED BY <1>2, <1>3

\* A checkpoint hashed over a copy.
LEMMA RecordOverCopy ==
    ASSUME ChainOrder, NEW copied, Begins(copied, chain), NEW c \in Checkpoint,
           NEW k, k = Len(copied),
           NEW r, r = Append(History!Hash(copied), c)
    PROVE  /\ r \in Seq(Checkpoint) /\ k \in Nat /\ Len(r) = k + 1 /\ r[k + 1] = c
           /\ SubSeq(r, 1, k) = History!Hash(copied)
  <1> DEFINE h == History!Hash(copied)
  <1>1. h \in Seq(Checkpoint) /\ Len(h) = k /\ k \in Nat
    BY HashOfCopy, LenProperties DEF Begins, Records
  <1>2. /\ r \in Seq(Checkpoint) /\ Len(r) = k + 1 /\ r[k + 1] = c
        /\ \A i \in 1..k : r[i] = h[i]
    <2> HIDE DEF h
    <2>1. r = Append(h, c)
      BY DEF h
    <2> QED BY <1>1, <2>1, AppendProperties
  <1>3. /\ SubSeq(r, 1, k) \in Seq(Checkpoint) /\ Len(SubSeq(r, 1, k)) = k
        /\ \A i \in 1..k : SubSeq(r, 1, k)[i] = r[i]
    <2>1. k \in 0..Len(r)
      BY <1>1, <1>2
    <2> QED BY <1>2, <2>1, FirstRecords
  <1>4. SubSeq(r, 1, k) = h
    <2> HIDE DEF h
    <2> QED BY <1>1, <1>2, <1>3, SeqEqual
  <1> QED BY <1>1, <1>2, <1>4

\* A copy that learns the record the store holds next still agrees with the store.
LEMMA CopyLearns ==
    ASSUME ChainOrder, NEW copied, Begins(copied, chain), Len(copied) < Len(chain)
    PROVE  Begins(Append(copied, chain[Len(copied) + 1]), chain)
  <1>1. Len(copied) \in Nat /\ Len(chain) \in Nat
    BY LenProperties DEF Begins, ChainOrder, Records
  <1>2. chain[Len(copied) + 1] \in Seq(Checkpoint)
    <2>1. Len(copied) + 1 \in 1..Len(chain)
      BY <1>1
    <2> QED BY <2>1, ElementOfSeq DEF ChainOrder, Records
  <1> DEFINE r == chain[Len(copied) + 1]
             more == Append(copied, r)
  <1>3. /\ more \in Records /\ Len(more) = Len(copied) + 1
        /\ \A i \in 1..Len(copied) : more[i] = copied[i]
        /\ more[Len(copied) + 1] = r
    <2> HIDE DEF r
    <2> QED BY <1>2, AppendProperties DEF Records, Begins, r
  <1> HIDE DEF more
  <1>4. ASSUME NEW n \in 1..Len(more)
        PROVE  more[n] = chain[n]
    <2>1. n \in 1..Len(copied) \/ n = Len(copied) + 1
      BY <1>1, <1>3
    <2> QED BY <1>3, <2>1 DEF Begins
  <1> QED BY <1>1, <1>3, <1>4 DEF Begins, more

\* The chain grows by a record that goes on from its last one, of a checkpoint it does
\* not hold; what agreed with it still does.
LEMMA ChainGrows ==
    ASSUME ChainOrder, NEW r \in Seq(Checkpoint), Len(r) = Len(chain) + 1,
           SubSeq(r, 1, Len(chain)) = History!Hash(chain),
           \A n \in 1..Len(chain) : chain[n][n] # r[Len(chain) + 1],
           chain' = Append(chain, r)
    PROVE  /\ ChainOrder'
           /\ chain'[Len(chain) + 1] = r /\ Len(chain') = Len(chain) + 1
           /\ \A copied : Begins(copied, chain) => Begins(copied, chain')
  <1>1. /\ chain \in Records /\ Len(chain) \in Nat
        /\ History!Hash(chain) = IF Len(chain) = 0 THEN <<>> ELSE chain[Len(chain)]
    BY EmptySeq, LenProperties DEF ChainOrder, Records, History!Hash
  <1>2. /\ chain' \in Records /\ Len(chain') = Len(chain) + 1
        /\ \A n \in 1..Len(chain) : chain'[n] = chain[n]
        /\ chain'[Len(chain) + 1] = r
    BY <1>1, AppendProperties DEF Records
  <1>3. ASSUME NEW n \in 1..Len(chain')
        PROVE  /\ Len(chain'[n]) = n
               /\ SubSeq(chain'[n], 1, n - 1) = IF n = 1 THEN <<>> ELSE chain'[n - 1]
    <2>1. CASE n \in 1..Len(chain)
      <3>1. n # 1 => n - 1 \in 1..Len(chain)
        BY <1>1, <2>1
      <3> QED BY <1>2, <2>1, <3>1 DEF ChainOrder
    <2>2. CASE n = Len(chain) + 1
      <3>1. n - 1 = Len(chain) /\ (n = 1 <=> Len(chain) = 0)
        BY <1>1, <2>2
      <3>2. Len(chain) # 0 => chain'[Len(chain)] = chain[Len(chain)]
        BY <1>1, <1>2
      <3> QED BY <1>1, <1>2, <2>2, <3>1, <3>2
    <2> QED BY <1>1, <1>2, <2>1, <2>2
  <1>4. ASSUME NEW m \in 1..Len(chain'), NEW n \in 1..Len(chain'), m # n
        PROVE  chain'[m][m] # chain'[n][n]
    <2>1. /\ m \in 1..Len(chain) \/ m = Len(chain) + 1
          /\ n \in 1..Len(chain) \/ n = Len(chain) + 1
      BY <1>1, <1>2
    <2> QED BY <1>2, <1>4, <2>1 DEF ChainOrder
  <1>5. ChainOrder'
    BY <1>2, <1>3, <1>4 DEF ChainOrder
  <1>6. ASSUME NEW copied, Begins(copied, chain)
        PROVE  Begins(copied, chain')
    <2>1. Len(copied) \in Nat
      BY <1>6, LenProperties DEF Begins, Records
    <2> QED BY <1>1, <1>2, <1>6, <2>1 DEF Begins
  <1> QED BY <1>2, <1>5, <1>6

LEMMA HistoryStarts == ASSUME History!Init PROVE HistoryInvariant
  <1>1. MaxTries \in Nat
    BY ServicesAssumption DEF History!HistoryAssumption
  <1>2. chain = <<>> /\ Len(<<>>) = 0 /\ <<>> \in Records
    BY EmptySeq DEF History!Init, Records
  <1>3. ChainOrder
    BY <1>2 DEF ChainOrder
  <1>4. ProcTypes
    <2>1. History!Started \in ProcRecord /\ History!Started.at = "idle"
      BY <1>1 DEF History!Started, ProcRecord
    <2> QED BY <2>1 DEF History!Init, ProcTypes
  <1>5. ViewsBegin
    BY <1>2 DEF History!Init, ViewsBegin, Begins
  <1> QED BY <1>3, <1>4, <1>5 DEF HistoryInvariant

\* Holding a checkpoint, by the place of its record.
LEMMA HeldAt ==
    ASSUME ChainOrder, NEW c
    PROVE  /\ History!Holds(chain, c) <=> \E n \in 1..Len(chain) : chain[n][n] = c
           /\ History!Holds(chain, c) =>
                 \E n \in 1..Len(chain) : History!RecordOf(c) = chain[n] /\ chain[n][n] = c
  <1>1. DOMAIN chain = 1..Len(chain) /\ \A n \in 1..Len(chain) : Len(chain[n]) = n
    BY LenProperties DEF ChainOrder, Records
  <1> QED BY <1>1 DEF History!Holds, History!RecordOf

\* A process writes its own variables.
LEMMA ProcWritten ==
    ASSUME ProcTypes, NEW p \in Process, NEW rec \in ProcRecord,
           rec.at # "idle" => rec.checkpoint \in Checkpoint,
           proc' = [proc EXCEPT ![p] = rec]
    PROVE  ProcTypes'
  BY DEF ProcTypes

LEMMA ProcTypesStep ==
    ASSUME ProcTypes, History!Next
    PROVE  ProcTypes'
  <1>1. MaxTries \in Nat /\ 1 \in 0..MaxTries /\ 0 \in 0..MaxTries
    BY ServicesAssumption DEF History!HistoryAssumption
  <1>2. ASSUME NEW p \in Process, History!Idle(p)
        PROVE  ProcTypes'
    <2> DEFINE rec == [History!Started EXCEPT !.loaded = TRUE]
    <2>1. rec \in ProcRecord /\ rec.at = "idle"
      BY <1>1 DEF History!Started, ProcRecord
    <2> HIDE DEF rec
    <2> QED BY <1>2, <2>1, ProcWritten DEF History!Idle, rec
  <1>3. PICK p \in Process :
           \/ History!Load(p) \/ History!AppendRecord(p) \/ History!Reload(p) \/ History!Fail(p)
           \/ \E c \in Checkpoint : History!Remember(p, c)
    BY DEF History!Next
  <1>4. CASE History!Load(p)
    BY <1>2, <1>4 DEF History!Load
  <1>5. CASE History!AppendRecord(p)
    <2>1. History!Idle(p) \/ proc' = [proc EXCEPT ![p].at = "reload"]
      BY <1>5 DEF History!AppendRecord
    <2>2. proc[p].checkpoint \in Checkpoint
      BY <1>5 DEF History!AppendRecord, ProcTypes
    <2> DEFINE rec == [proc[p] EXCEPT !.at = "reload"]
    <2>3. rec \in ProcRecord /\ rec.checkpoint \in Checkpoint
      BY <2>2 DEF ProcTypes, ProcRecord
    <2> HIDE DEF rec
    <2> QED BY <1>2, <2>1, <2>3, ProcWritten DEF rec
  <1>6. CASE History!Reload(p)
    <2> DEFINE rec == [proc[p] EXCEPT !.at = "append", !.tries = @ + 1]
    <2>1. proc[p] \in ProcRecord /\ proc[p].checkpoint \in Checkpoint
      BY <1>6 DEF History!Reload, ProcTypes
    <2>2. History!Idle(p) \/ (proc[p].tries # MaxTries /\ proc' = [proc EXCEPT ![p] = rec])
      BY <1>6 DEF History!Reload
    <2>3. CASE proc[p].tries # MaxTries /\ proc' = [proc EXCEPT ![p] = rec]
      <3>1. proc[p].tries + 1 \in 0..MaxTries
        BY <1>1, <2>1, <2>3 DEF ProcRecord
      <3>2. rec \in ProcRecord /\ rec.checkpoint \in Checkpoint
        BY <2>1, <3>1 DEF ProcRecord
      <3> HIDE DEF rec
      <3> QED BY <2>3, <3>2, ProcWritten
    <2> QED BY <1>2, <2>2, <2>3
  <1>7. CASE History!Fail(p)
    <2>1. History!Started \in ProcRecord /\ History!Started.at = "idle"
      BY <1>1 DEF History!Started, ProcRecord
    <2> QED BY <1>2, <1>7, <2>1, ProcWritten DEF History!Fail
  <1>8. ASSUME NEW c \in Checkpoint, History!Remember(p, c)
        PROVE  ProcTypes'
    <2> DEFINE rec == [proc[p] EXCEPT !.at = "append", !.checkpoint = c, !.tries = 1]
    <2>1. proc[p] \in ProcRecord
      BY DEF ProcTypes
    <2>2. rec \in ProcRecord /\ rec.at = "append" /\ rec.checkpoint = c
      BY <1>1, <2>1 DEF ProcRecord
    <2>3. proc' = [proc EXCEPT ![p] = rec]
      BY <1>8 DEF History!Remember
    <2> HIDE DEF rec
    <2> QED BY <2>2, <2>3, ProcWritten
  <1> QED BY <1>3, <1>4, <1>5, <1>6, <1>7, <1>8

\* The view of one process changes to a beginning of the chain, or none does.
LEMMA ViewsLearn ==
    ASSUME ViewsBegin, NEW p \in Process, NEW v, Begins(v, chain'),
           view' = [view EXCEPT ![p] = v] \/ view' = view,
           \A copied : Begins(copied, chain) => Begins(copied, chain')
    PROVE  ViewsBegin'
  <1>1. ASSUME NEW q \in Process  PROVE view'[q] = view[q] \/ view'[q] = v
    BY DEF ViewsBegin
  <1>2. ASSUME NEW q \in Process  PROVE Begins(view'[q], chain')
    <2>1. CASE view'[q] = v
      BY <2>1
    <2>2. CASE view'[q] = view[q]
      <3>1. Begins(view[q], chain)
        BY DEF ViewsBegin
      <3>2. Begins(view[q], chain')
        BY <3>1
      <3> QED BY <2>2, <3>2
    <2> QED BY <1>1, <2>1, <2>2
  <1>3. view' \in [Process -> Records]
    BY <1>2 DEF ViewsBegin, Begins
  <1> QED BY <1>2, <1>3 DEF ViewsBegin

LEMMA HistoryStep ==
    ASSUME HistoryInvariant, History!Next
    PROVE  HistoryInvariant'
  <1>1. ChainOrder /\ ProcTypes /\ ViewsBegin /\ ProcTypes'
    BY ProcTypesStep DEF HistoryInvariant
  <1>2. Begins(chain, chain) /\ Begins(<<>>, chain) /\ Len(chain) \in Nat
    BY EmptySeq, LenProperties DEF Begins, ChainOrder, Records, HistoryInvariant
  <1>3. PICK p \in Process :
           \/ History!Load(p) \/ History!AppendRecord(p) \/ History!Reload(p) \/ History!Fail(p)
           \/ \E c \in Checkpoint : History!Remember(p, c)
    BY DEF History!Next
  <1>4. ASSUME chain' = chain,
               \/ view' = view
               \/ view' = [view EXCEPT ![p] = chain]
               \/ view' = [view EXCEPT ![p] = <<>>]
        PROVE  HistoryInvariant'
    <2>1. ChainOrder'
      BY <1>1, <1>4 DEF ChainOrder
    <2>2. \A copied : Begins(copied, chain) => Begins(copied, chain')
      BY <1>4
    <2>3. Begins(chain, chain') /\ Begins(<<>>, chain')
      BY <1>2, <2>2
    <2>4. ViewsBegin'
      BY <1>1, <1>4, <2>2, <2>3, ViewsLearn
    <2> QED BY <1>1, <2>1, <2>4 DEF HistoryInvariant
  <1>5. CASE History!Load(p) \/ History!Reload(p)
    BY <1>4, <1>5 DEF History!Load, History!Reload
  <1>6. CASE History!Fail(p)
    BY <1>4, <1>6 DEF History!Fail
  <1>7. ASSUME NEW c \in Checkpoint, History!Remember(p, c)
        PROVE  HistoryInvariant'
    BY <1>4, <1>7 DEF History!Remember
  <1>8. CASE History!AppendRecord(p)
    <2> DEFINE copied == view[p]
               c == proc[p].checkpoint
               r == Append(History!Hash(copied), c)
               k == Len(copied)
    <2>1. c \in Checkpoint /\ Begins(copied, chain)
      BY <1>1, <1>8 DEF History!AppendRecord, ProcTypes, ViewsBegin
    <2>2. /\ r \in Seq(Checkpoint) /\ k \in Nat /\ Len(r) = k + 1 /\ r[k + 1] = c
          /\ SubSeq(r, 1, k) = History!Hash(copied)
      <3> HIDE DEF copied, c, k
      <3>1. k = Len(copied)
        BY DEF k
      <3>2. r = Append(History!Hash(copied), c)
        OBVIOUS
      <3> HIDE DEF r
      <3> QED BY <1>1, <2>1, <3>1, <3>2, RecordOverCopy
    <2>3. CASE UNCHANGED <<chain, view>>
      BY <1>4, <2>3
    <2>4. CASE /\ History!Holds(chain, c) /\ History!RecordOf(c) = r
               /\ view' = [view EXCEPT ![p] = Append(copied, r)] /\ chain' = chain
      <3>1. PICK n \in 1..Len(chain) : r = chain[n]
        BY <1>1, <2>4, HeldAt
      <3>2. n = k + 1 /\ k < Len(chain)
        BY <1>1, <1>2, <2>2, <3>1 DEF ChainOrder
      <3>3. Begins(Append(copied, r), chain)
        <4> HIDE DEF copied, r
        <4>1. r = chain[Len(copied) + 1] /\ Len(copied) < Len(chain)
          BY <3>1, <3>2
        <4> QED BY <1>1, <2>1, <4>1, CopyLearns
      <3>4. ChainOrder'
        BY <1>1, <2>4 DEF ChainOrder
      <3>5. ViewsBegin'
        BY <1>1, <2>4, <3>3, ViewsLearn
      <3> QED BY <1>1, <3>4, <3>5 DEF HistoryInvariant
    <2>5. CASE /\ ~History!Holds(chain, c) /\ History!OnTail(r)
               /\ view' = [view EXCEPT ![p] = Append(copied, r)] \/ view' = view
               /\ chain' = Append(chain, r)
      <3>1. History!Hash(chain) = History!Hash(copied)
        BY <2>2, <2>5 DEF History!OnTail
      <3>2. Len(chain) = k
        BY <1>1, <1>2, <2>1, <3>1, HashOfCopy
      <3>3. \A n \in 1..Len(chain) : chain[n][n] # r[Len(chain) + 1]
        BY <1>1, <2>2, <2>5, <3>2, HeldAt
      <3>4. /\ ChainOrder'
            /\ chain'[Len(chain) + 1] = r /\ Len(chain') = Len(chain) + 1
            /\ \A old : Begins(old, chain) => Begins(old, chain')
        <4>1. /\ Len(r) = Len(chain) + 1 /\ SubSeq(r, 1, Len(chain)) = History!Hash(chain)
              /\ r \in Seq(Checkpoint)
          BY <2>2, <3>1, <3>2
        <4> HIDE DEF r
        <4> QED BY <1>1, <2>5, <3>3, <4>1, ChainGrows
      <3>5. Begins(Append(copied, r), chain')
        <4>1. /\ Begins(copied, chain') /\ Len(copied) < Len(chain')
              /\ r = chain'[Len(copied) + 1]
          BY <1>2, <2>1, <3>2, <3>4
        <4>2. /\ copied \in Records /\ Append(copied, r) \in Records
              /\ Len(Append(copied, r)) = Len(copied) + 1
              /\ \A i \in 1..Len(copied) : Append(copied, r)[i] = copied[i]
              /\ Append(copied, r)[Len(copied) + 1] = r
          <5> HIDE DEF copied, r
          <5> QED BY <2>1, <2>2, AppendProperties DEF Begins, Records
        <4> DEFINE more == Append(copied, r)
        <4>3. ASSUME NEW i \in 1..Len(more)  PROVE more[i] = chain'[i]
          <5> HIDE DEF copied, r
          <5>1. i \in 1..Len(copied) \/ i = Len(copied) + 1
            BY <2>2, <4>2
          <5> QED BY <4>1, <4>2, <5>1 DEF Begins
        <4> HIDE DEF copied, r
        <4> QED BY <1>2, <3>4, <4>1, <4>2, <4>3 DEF Begins
      <3>6. ViewsBegin'
        <4> HIDE DEF r
        <4> QED BY <1>1, <2>5, <3>4, <3>5, ViewsLearn
      <3> QED BY <1>1, <3>4, <3>6 DEF HistoryInvariant
    <2> QED BY <1>8, <2>3, <2>4, <2>5 DEF History!AppendRecord, History!Learn
  <1> QED BY <1>3, <1>5, <1>6, <1>7, <1>8

HistoryKept == part \in Deployment \cup Service /\ (part = "history" => HistoryInvariant)

LEMMA HistoryAlways == Spec => []HistoryKept
  <1>1. Init => HistoryKept
    BY Starts, HistoryStarts DEF HistoryKept
  <1>2. HistoryKept /\ [Next]_vars => HistoryKept'
    <2> SUFFICES ASSUME HistoryKept, [Next]_vars  PROVE HistoryKept'
      OBVIOUS
    <2>1. part' = part /\ (part = "history" => [History!Next]_(History!vars))
      BY Parted DEF HistoryKept
    <2>2. ASSUME part = "history"  PROVE HistoryInvariant'
      <3>1. CASE History!Next
        BY <2>2, <3>1, HistoryStep DEF HistoryKept
      <3>2. CASE UNCHANGED History!vars
        BY <2>2, <3>2 DEF HistoryKept, History!vars, HistoryInvariant, ChainOrder, ProcTypes,
                          ViewsBegin
      <3> QED BY <2>1, <2>2, <3>1, <3>2
    <2> QED BY <2>1, <2>2 DEF HistoryKept
  <1> QED BY <1>1, <1>2, PTL DEF Spec

\* Writers that race for the tail, answers that are lost, copies that never loaded and
\* restarts leave one chain that verifies, holds no checkpoint twice and begins with every
\* process's copy: for every number of processes, checkpoints and tries.
THEOREM HistoryVerifies == Spec => []ChainsVerify
  <1>1. HistoryInvariant => History!ChainsVerify
    <2> SUFFICES ASSUME ChainOrder, ViewsBegin  PROVE History!ChainsVerify
      BY DEF HistoryInvariant
    <2>1. /\ chain \in Records /\ Len(chain) \in Nat /\ DOMAIN chain = 1..Len(chain)
          /\ \A n \in 1..Len(chain) : Len(chain[n]) = n
      BY LenProperties DEF ChainOrder, Records
    <2>2. ASSUME NEW n \in 1..Len(chain)
          PROVE  SubSeq(chain[n], 1, n - 1) = History!Hash(SubSeq(chain, 1, n - 1))
      <3>1. n - 1 \in 0..Len(chain)
        BY <2>1
      <3> DEFINE old == SubSeq(chain, 1, n - 1)
      <3>2. /\ old \in Records /\ Len(old) = n - 1
            /\ \A i \in 1..(n - 1) : old[i] = chain[i]
        BY <2>1, <3>1, FirstRecords DEF Records
      <3> HIDE DEF old
      <3>3. Begins(old, chain)
        BY <2>1, <3>1, <3>2 DEF Begins
      <3>4. History!Hash(old) = IF n - 1 = 0 THEN <<>> ELSE chain[n - 1]
        BY <3>2, <3>3, HashOfCopy
      <3>5. SubSeq(chain[n], 1, n - 1) = IF n = 1 THEN <<>> ELSE chain[n - 1]
        BY DEF ChainOrder
      <3>6. n - 1 = 0 <=> n = 1
        BY <2>1
      <3>7. SubSeq(chain[n], 1, n - 1) = History!Hash(old)
        BY <3>4, <3>5, <3>6
      <3> QED BY <3>7 DEF old
    <2>3. History!Verifies(chain)
      BY <2>1, <2>2 DEF History!Verifies
    <2>4. ASSUME NEW p \in Process
          PROVE  Len(view[p]) <= Len(chain) /\ view[p] = SubSeq(chain, 1, Len(view[p]))
      <3>1. /\ view[p] \in Records /\ Len(view[p]) \in 0..Len(chain)
            /\ \A i \in 1..Len(view[p]) : view[p][i] = chain[i]
        BY <2>1, LenProperties DEF ViewsBegin, Begins, Records
      <3>2. /\ SubSeq(chain, 1, Len(view[p])) \in Records
            /\ Len(SubSeq(chain, 1, Len(view[p]))) = Len(view[p])
            /\ \A i \in 1..Len(view[p]) : SubSeq(chain, 1, Len(view[p]))[i] = chain[i]
        BY <2>1, <3>1, FirstRecords DEF Records
      <3>3. view[p] = SubSeq(chain, 1, Len(view[p]))
        BY <3>1, <3>2, SeqEqual DEF Records
      <3> QED BY <2>1, <3>1, <3>3
    <2> QED BY <2>1, <2>3, <2>4 DEF History!ChainsVerify, ChainOrder
  <1>2. HistoryKept => ChainsVerify
    BY <1>1 DEF HistoryKept, ChainsVerify
  <1> QED BY HistoryAlways, <1>2, PTL
=============================================================================
