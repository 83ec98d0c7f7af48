------------------------------ MODULE Cleanup ------------------------------
(***************************************************************************)
(* The cleanup of a validation run: an operator has the QoD session of one *)
(* incident rolled back, and when the release is in doubt reads it back    *)
(* and, once it is proven, closes the actions, the recovery record, the    *)
(* incident and the lease, one durable write after the other.              *)
(* prepare_validation_cleanup and complete_verified_validation_cleanup are *)
(* in durable_execution.py, reconcile_validation_cleanup, which never      *)
(* sends a DELETE, in durable_reconciliation.py.                           *)
(*                                                                         *)
(* The rollback between the two is the executor's (module Execution); it   *)
(* acts here by what its compare-and-swaps of the release leave behind.    *)
(***************************************************************************)
EXTENDS DurableCore, Integers

CONSTANTS MaxReads      \* durable_reconciliation_max_attempts

CleanupAssumption == MaxReads \in Nat \ {0}

VARIABLES
    original,   \* the QOD_PLAN action
    release,    \* the QOD_RELEASE action
    record,     \* the recovery record
    incident,   \* its state and whether the outcome ROLLED_BACK_SAFELY is written
    lease,      \* who owns the device
    reads,      \* the ROLLBACK_RECONCILIATION attempts
    proof,      \* whose read proves the rollback: one of them, or the executor's
    session,    \* the session at the provider
    operator    \* the operator's process: its place and what it has read

vars == <<original, release, record, incident, lease, reads, proof, session, operator>>
durable == <<original, release, record, incident, lease, reads, proof>>

Idle == [at |-> "idle", seen |-> "ABSENT", verified |-> FALSE]

TypeOK ==
    /\ original \in {"ACKNOWLEDGED", "SUCCESS", "RECONCILIATION_REQUIRED",
                     "ROLLBACK_REQUIRED", "ROLLED_BACK"}
    /\ release \in ActionStates \cup {"ABSENT"}
    /\ record \in RecoveryStates \cup {NoRecovery}
    /\ incident \in [state : IncidentStates, outcome : BOOLEAN]
    /\ lease \in {"ours", "none", "other"}
    /\ reads \in 0..MaxReads
    /\ proof \in {"none", "readback", "executor"}
    /\ session \in {"ACTIVE", "GONE"}
    /\ operator \in [at : {"idle", "authorize", "read", "save", "defer", "complete", "release",
                           "original", "record", "incident", "fields", "lease"},
                     seen : ActionStates \cup {"ABSENT"}, verified : BOOLEAN]

\* The harness has created the session and run its verification.
Init ==
    /\ original \in {"ACKNOWLEDGED", "SUCCESS", "RECONCILIATION_REQUIRED"}
    /\ release = "ABSENT" /\ record = NoRecovery
    /\ incident \in [state : {"MITIGATING", "VERIFYING", "ESCALATED"}, outcome : {FALSE}]
    /\ lease \in {"ours", "none"}
    /\ reads = 0 /\ proof = "none" /\ session = "ACTIVE"
    /\ operator = Idle

At(place) == operator.at = place
GoTo(place) == operator' = [operator EXCEPT !.at = place]
Stop == operator' = Idle

(***************************************************************************)
(* prepare_validation_cleanup, and the executor's rollback.                *)
(***************************************************************************)
Acquire ==
    /\ At("idle") /\ original # "ROLLED_BACK" /\ lease # "other"
    /\ lease' = "ours"
    /\ IF original = "ROLLBACK_REQUIRED" THEN Stop ELSE GoTo("authorize")
    /\ UNCHANGED <<original, release, record, incident, reads, proof, session>>

Authorize ==
    /\ At("authorize")
    /\ original' = "ROLLBACK_REQUIRED"
    /\ Stop
    /\ UNCHANGED <<release, record, incident, lease, reads, proof, session>>

\* The executor claims the release, and may die before it marks the record.
Roll ==
    /\ original = "ROLLBACK_REQUIRED" /\ release = "ABSENT"
    /\ release' = "SENT"
    /\ record' \in {record, "RELEASING"}
    /\ UNCHANGED <<original, incident, lease, reads, proof, session, operator>>

Recovering ==
    incident' = [incident EXCEPT !.state = IF @ = "VERIFYING" THEN "RECOVERING" ELSE @]

\* The provider refuses, leaves it in doubt (or the lease is lost) or accepts; the
\* incident and then the record follow, unless the executor dies first.
Answer ==
    /\ release = "SENT" /\ record = "RELEASING"
    /\ \/ /\ release' = "FAILED" /\ record' \in {"RELEASING", "FAILED"}
          /\ UNCHANGED incident
       \/ /\ release' \in {"OUTCOME_UNKNOWN", "ACKNOWLEDGED"}
          /\ UNCHANGED <<record, incident>>
       \/ /\ release' = "OUTCOME_UNKNOWN" /\ record' \in {"RELEASING", "PARTIAL"}
          /\ Recovering
    /\ UNCHANGED <<original, lease, reads, proof, session, operator>>

\* Where the executor's own readback proves an accepted release it closes the records
\* itself, as far as it gets; it leaves the lease.
CloseVerified ==
    /\ session = "GONE"
    /\ release' = "ROLLED_BACK"
    /\ proof' = IF proof = "none" THEN "executor" ELSE proof
    /\ \/ Recovering /\ original' \in {original, "ROLLED_BACK"} /\ UNCHANGED record
       \/ /\ original' = "ROLLED_BACK" /\ record' = "COMPLETE"
          /\ \/ Recovering
             \/ /\ incident.state \in {"VERIFYING", "RECOVERING"}
                /\ incident' \in [state : {"RESOLVED"}, outcome : BOOLEAN]

Verify ==
    /\ release = "ACKNOWLEDGED"
    /\ \/ Recovering /\ UNCHANGED <<original, release, record, proof>>
       \/ /\ release' = "RECONCILIATION_REQUIRED" /\ record' \in {record, "PARTIAL"}
          /\ Recovering
          /\ UNCHANGED <<original, proof>>
       \/ CloseVerified
    /\ UNCHANGED <<lease, reads, session, operator>>

\* A redelivery or a restart does not trust a release that is SENT.
Doubt ==
    /\ release = "SENT"
    /\ release' = "OUTCOME_UNKNOWN"
    /\ UNCHANGED <<original, record, incident, lease, reads, proof, session, operator>>

\* The session ends late; the lease lapses, and another incident may take the device.
Expire ==
    /\ \/ release # "ABSENT" /\ session' = "GONE" /\ UNCHANGED lease
       \/ lease = "ours" /\ lease' = "none" /\ UNCHANGED session
       \/ lease = "none" /\ lease' = "other" /\ UNCHANGED session
    /\ UNCHANGED <<original, release, record, incident, reads, proof, operator>>

(***************************************************************************)
(* reconcile_validation_cleanup.                                           *)
(***************************************************************************)
\* A lease of another incident, a spent budget and any other state of the release
\* end the run before it reads.
Reconcile ==
    /\ At("idle")
    /\ release \in {"SENT", "ACKNOWLEDGED", "OUTCOME_UNKNOWN", "RECONCILIATION_REQUIRED"}
    /\ lease # "other"
    /\ \/ proof = "readback" /\ GoTo("complete")
       \/ proof # "readback" /\ reads < MaxReads /\ GoTo("read")
    /\ UNCHANGED <<durable, session>>

\* Wrong: no answer is taken for an answer.
ReadTrusts ==
    /\ At("read")
    /\ \E available \in BOOLEAN :
          operator' = [operator EXCEPT !.at = "save",
                          !.verified = available => session = "GONE"]
    /\ UNCHANGED <<durable, session>>

Read ==
    /\ At("read")
    /\ \E available \in BOOLEAN :
          operator' = [operator EXCEPT !.at = "save",
                          !.verified = available /\ session = "GONE"]
    /\ UNCHANGED <<durable, session>>

SaveRead ==
    /\ At("save")
    /\ reads' = reads + 1
    /\ proof' = IF operator.verified THEN "readback" ELSE proof
    /\ GoTo(IF operator.verified THEN "complete" ELSE "defer")
    /\ UNCHANGED <<original, release, record, incident, lease, session>>

Defer ==
    /\ At("defer")
    /\ release' = IF release \in {"SENT", "ACKNOWLEDGED", "OUTCOME_UNKNOWN"}
                  THEN "RECONCILIATION_REQUIRED" ELSE release
    /\ Stop
    /\ UNCHANGED <<original, record, incident, lease, reads, proof, session>>

(***************************************************************************)
(* complete_verified_validation_cleanup.                                   *)
(***************************************************************************)
\* Both actions are read again; a release that is SENT is refused here.
Complete ==
    /\ At("complete")
    /\ IF /\ release \in {"ACKNOWLEDGED", "OUTCOME_UNKNOWN", "RECONCILIATION_REQUIRED"}
          /\ proof = "readback"
       THEN operator' = [operator EXCEPT !.at = "release", !.seen = release]
       ELSE Stop
    /\ UNCHANGED <<durable, session>>

CloseRelease ==
    /\ At("release")
    /\ IF release = operator.seen
       THEN release' = "ROLLED_BACK" /\ GoTo("original")
       ELSE Stop /\ UNCHANGED release
    /\ UNCHANGED <<original, record, incident, lease, reads, proof, session>>

CloseOriginal ==
    /\ At("original")
    /\ original' = "ROLLED_BACK"
    /\ GoTo("record")
    /\ UNCHANGED <<release, record, incident, lease, reads, proof, session>>

CloseRecord ==
    /\ At("record")
    /\ IF ValidForward(record, "COMPLETE")
       THEN record' = "COMPLETE" /\ GoTo("incident")
       ELSE Stop /\ UNCHANGED record
    /\ UNCHANGED <<original, release, incident, lease, reads, proof, session>>

\* VERIFYING and ESCALATED pass through RECOVERING; other states stay.
CloseIncident ==
    /\ At("incident")
    /\ CASE incident.state \in {"VERIFYING", "ESCALATED"} ->
              incident' = [incident EXCEPT !.state = "RECOVERING"] /\ UNCHANGED operator
         [] incident.state = "RECOVERING" ->
              incident' = [incident EXCEPT !.state = "RESOLVED"] /\ GoTo("fields")
         [] OTHER -> GoTo("lease") /\ UNCHANGED incident
    /\ UNCHANGED <<original, release, record, lease, reads, proof, session>>

WriteOutcome ==
    /\ At("fields")
    /\ incident' = [incident EXCEPT !.outcome = TRUE]
    /\ GoTo("lease")
    /\ UNCHANGED <<original, release, record, lease, reads, proof, session>>

\* The last write: the lease, if it is still ours.
ReleaseLease ==
    /\ At("lease")
    /\ lease' = IF lease = "ours" THEN "none" ELSE lease
    /\ Stop
    /\ UNCHANGED <<original, release, record, incident, reads, proof, session>>

\* The operator's process dies, or a repository call raises.
Crash ==
    /\ ~At("idle")
    /\ Stop
    /\ UNCHANGED <<durable, session>>

Next ==
    \/ Acquire \/ Authorize \/ Roll \/ Answer \/ Verify \/ Doubt \/ Expire
    \/ Reconcile \/ Read \/ SaveRead \/ Defer
    \/ Complete \/ CloseRelease \/ CloseOriginal \/ CloseRecord \/ CloseIncident
    \/ WriteOutcome \/ ReleaseLease \/ Crash

Spec == Init /\ [][Next]_vars

(***************************************************************************)
(* Properties.                                                             *)
(***************************************************************************)
\* Whatever fails in between, what the records say was earned: a release is closed only
\* when a read, the executor's or a saved one, proves the session gone, and everything
\* that closes after it (the action, the record, the incident) closes after it.
CleanIsProven ==
    /\ release = "ROLLED_BACK" => proof # "none" /\ session = "GONE"
    /\ original = "ROLLED_BACK" => release = "ROLLED_BACK"
    /\ record = "COMPLETE" => original = "ROLLED_BACK"
    /\ incident.state = "RESOLVED" => record = "COMPLETE"
    /\ incident.outcome => incident.state = "RESOLVED"
=============================================================================
