----------------------------- MODULE Execution -----------------------------
(***************************************************************************)
(* The durable action executor of durable_execution.py.                    *)
(*                                                                         *)
(* A committed decision leaves an APPROVED incident, one READY action per  *)
(* planned mutation and an outbox row that wakes an executor.  Executors   *)
(* (Worker) claim rows at least once and run execute_ready_action for each *)
(* action of the incident.  Between two durable writes, and across every   *)
(* provider await, anything else may happen: a second executor, a lapsed   *)
(* lease, a withdrawn authorization, an exception, a crash and a restart.  *)
(*                                                                         *)
(* A step is one durable write with the synchronous reads that decide it,  *)
(* or one provider call.  Writes to an action are compare-and-swap on the  *)
(* version of the copy the executor holds; writes to an incident read it   *)
(* first, so losing that race is one of the exceptions Fault stands for.   *)
(***************************************************************************)
EXTENDS DurableCore, Naturals

CONSTANTS
    Action,         \* planned mutations, each an ActionCommand
    Incident, Resource,
    Worker,         \* concurrent executions of the outbox consumer
    IncidentOf, ResourceOf,
    Kind,           \* ACTION_KIND of each action
    Rolling,        \* may a new process reconstruct while an old one runs?
    MaxDeliveries,  \* bound: claims of one incident's row
    MaxFaults,      \* bound: exceptions
    MaxRestarts,    \* bound: crashes and overlapping starts
    None

ASSUME ConstantsAssumption ==
    /\ IncidentOf \in [Action -> Incident]
    /\ ResourceOf \in [Action -> Resource]
    /\ Kind \in [Action -> {"qos", "geofence", "slice_attach"}]
    /\ Rolling \in BOOLEAN
    /\ MaxDeliveries \in Nat /\ MaxFaults \in Nat /\ MaxRestarts \in Nat
    /\ None \notin Action \cup Incident \cup Worker

VARIABLES
    action,     \* the durable ActionCommand of each planned mutation
    undo,       \* its rollback command, ABSENT until one is created
    incident,   \* state and outcome
    verdict,    \* the NETWORK_ACTION verification record of each action
    recovery,   \* state of the incident's one recovery record
    lease,      \* resource ownership
    allowed,    \* does the stored authority still let the plan run?
    reserved,   \* actions with a cost-ledger entry
    provider,   \* the operator's network: effect and calls received
    row,        \* the incident's DURABLE_DECISION_READY outbox row
    used,       \* how much of each bound is spent
    status,     \* platform lifecycle of the serving process
    configured, \* do its mode and adapter configuration permit the actions?
    worker      \* the executors' local variables, lost in a crash

durable == <<action, undo, incident, verdict, recovery, lease, allowed, reserved>>
outside == <<provider, row, used, status, configured>>
vars == <<durable, outside, worker>>

ActionsOf(i) == {a \in Action : IncidentOf[a] = i}
Reversible(a) == Kind[a] # "slice_attach"

\* Verdicts: RESOURCE is VERIFIED_RESOURCE, stored as IMPROVED but with
\* mitigation_improved false; UNCHANGED stands for DEGRADED too.
Verdicts == {"NONE", "IMPROVED", "RESOURCE", "UNCHANGED", "INSUFFICIENT", "FAILED"}
ProviderAnswers == {"ACCEPTED", "FAILED", "AMBIGUOUS", "UNKNOWN", "VERIFIED", "UNAVAILABLE"}

\* Where an executor can be suspended, grouped by the method that is running.
ClaimSteps == {"block", "blockIncident", "own", "recheck", "claim"}
\* The action is claimed and the provider has not been called yet.
PreCall == {"confirm", "reserve", "call"}
ResultSteps == {"result", "recordFailure"}
VerifySteps == {"verify", "readback", "record", "publish", "commit",
                "resolve", "outcome", "release"}
ReconcileSteps == {"reconcile", "reconciled"}
UndoPreCall == {"undoRecord", "undoConfirm", "undoCall"}
UndoSteps == {"undo", "escalate", "undoClaim", "undoResult", "undoAmbiguous",
              "undoPartial", "undoReadback", "undoRecover", "undoCommit",
              "undoOriginal", "undoComplete", "undoResolve", "undoOutcome"}
              \cup UndoPreCall
Busy == ClaimSteps \cup PreCall \cup ResultSteps \cup VerifySteps
        \cup ReconcileSteps \cup UndoSteps

Places == {"idle", "next"} \cup Busy

ActionRecord == [state : ActionStates, version : Nat, rid : BOOLEAN]
UndoRecord == [state : ActionStates \cup {"ABSENT"}, version : Nat]
IncidentRecord ==
    [state : IncidentStates,
     outcome : {"NONE", "VERIFIED_IMPROVED", "ROLLED_BACK_SAFELY"},
     evidence : Verdicts]
LeaseRecord == [owner : Incident \cup {None}, live : BOOLEAN]
ProviderRecord == [effect : {"none", "active", "gone"}, execs : Nat, undos : Nat]
RowRecord == [state : {"PENDING", "CLAIMED", "SENT"}, owner : Worker \cup {None}]
\* seen is the executor's copy of the action, held the version of its copy of
\* the rollback command, got the provider's last answer.
WorkerRecord ==
    [at : Places, inc : Incident \cup {None}, todo : SUBSET Action,
     act : Action \cup {None}, seen : ActionRecord, held : Nat,
     got : Verdicts \cup ProviderAnswers]

Fresh == [state |-> "READY", version |-> 0, rid |-> FALSE]

IdleWorker == [at |-> "idle", inc |-> None, todo |-> {}, act |-> None,
               seen |-> Fresh, held |-> 0, got |-> "NONE"]

TypeOK ==
    /\ action \in [Action -> ActionRecord]
    /\ undo \in [Action -> UndoRecord]
    /\ incident \in [Incident -> IncidentRecord]
    /\ verdict \in [Action -> Verdicts]
    /\ recovery \in [Incident -> RecoveryStates \cup {NoRecovery}]
    /\ lease \in [Resource -> LeaseRecord]
    /\ allowed \in [Incident -> BOOLEAN]
    /\ reserved \in SUBSET Action
    /\ provider \in [Action -> ProviderRecord]
    /\ row \in [Incident -> RowRecord]
    /\ used \in [deliveries : [Incident -> Nat], faults : Nat, restarts : Nat]
    /\ status \in {"READY", "DOWN", "FAILED"}
    /\ configured \in BOOLEAN
    /\ worker \in [Worker -> WorkerRecord]

Init ==
    /\ action = [a \in Action |-> Fresh]
    /\ undo = [a \in Action |-> [state |-> "ABSENT", version |-> 0]]
    /\ incident = [i \in Incident |->
           [state |-> "APPROVED", outcome |-> "NONE", evidence |-> "NONE"]]
    /\ verdict = [a \in Action |-> "NONE"]
    /\ recovery = [i \in Incident |-> NoRecovery]
    /\ lease = [r \in Resource |-> [owner |-> None, live |-> FALSE]]
    /\ allowed = [i \in Incident |-> TRUE]
    /\ reserved = {}
    /\ provider = [a \in Action |-> [effect |-> "none", execs |-> 0, undos |-> 0]]
    /\ row = [i \in Incident |-> [state |-> "PENDING", owner |-> None]]
    /\ used = [deliveries |-> [i \in Incident |-> 0], faults |-> 0, restarts |-> 0]
    /\ status = "READY"
    /\ configured = TRUE
    /\ worker = [w \in Worker |-> IdleWorker]

(***************************************************************************)
(* Building blocks.                                                        *)
(***************************************************************************)
Act(w) == worker[w].act
Inc(w) == IncidentOf[worker[w].act]
At(w, place) == worker[w].at = place

GoTo(w, place) == worker' = [worker EXCEPT ![w].at = place]

\* The call for the current action returns; the consumer takes the next id.
Return(w) ==
    worker' = [worker EXCEPT ![w] =
        [IdleWorker EXCEPT !.at = "next", !.inc = worker[w].inc, !.todo = worker[w].todo]]

\* Wrong: an update that ignores the expected version.
CurrentUnchecked(w) == TRUE

\* Wrong: an update that takes the version back instead of forward.
WrittenBackwards(rec, s) == [state |-> s, version |-> rec.version - 1, rid |-> rec.rid]

\* _update_action: repository CAS on the version of the copy the executor holds.
Current(w) == worker[w].seen.version = action[Act(w)].version
Written(rec, s) == [state |-> s, version |-> rec.version + 1, rid |-> rec.rid]
UpdateAction(w, s) ==
    /\ Current(w)
    /\ action' = [action EXCEPT ![Act(w)] = Written(worker[w].seen, s)]

\* The executor writes its action and goes on with the updated copy.
UpdateAndGo(w, s, place) ==
    /\ UpdateAction(w, s)
    /\ worker' = [worker EXCEPT ![w].seen = Written(worker[w].seen, s), ![w].at = place]

UndoCurrent(w) == worker[w].held = undo[Act(w)].version
UpdateUndo(w, s) ==
    /\ UndoCurrent(w)
    /\ undo' = [undo EXCEPT ![Act(w)] =
                    [state |-> s, version |-> undo[Act(w)].version + 1]]
UpdateUndoAndGo(w, s, place) ==
    /\ UpdateUndo(w, s)
    /\ worker' = [worker EXCEPT ![w].held = worker[w].held + 1, ![w].at = place]

\* `if incident state is x: self._transition(incident, y)`.
MoveIncident(i, from, to) ==
    incident' = IF incident[i].state = from /\ to \in Transitions[from]
                THEN [incident EXCEPT ![i].state = to] ELSE incident

\* save_recovery_and_repair: a backward move raises VersionConflict.
SaveRecovery(i, target) ==
    /\ ValidForward(recovery[i], target)
    /\ recovery' = [recovery EXCEPT ![i] = target]

\* _eligibility_reason is None.
Eligible(a) ==
    /\ incident[IncidentOf[a]].state \in ActionableIncidentStates
    /\ allowed[IncidentOf[a]]

\* _ownership_is_current.
Owns(a) == lease[ResourceOf[a]] = [owner |-> IncidentOf[a], live |-> TRUE]

(***************************************************************************)
(* The outbox consumer around execute_ready_action.                        *)
(***************************************************************************)
\* A pending row, or one whose claim has lapsed, is claimed.
Deliver(w, i) ==
    /\ status = "READY"
    /\ At(w, "idle")
    /\ row[i].state \in {"PENDING", "CLAIMED"}
    /\ used.deliveries[i] < MaxDeliveries
    /\ used' = [used EXCEPT !.deliveries[i] = @ + 1]
    /\ row' = [row EXCEPT ![i] = [state |-> "CLAIMED", owner |-> w]]
    /\ worker' = [worker EXCEPT ![w] =
           [IdleWorker EXCEPT !.at = "next", !.inc = i, !.todo = ActionsOf(i)]]
    /\ UNCHANGED <<durable, provider, status, configured>>

\* Every action returned: ack, which only the latest claim can do.
Acknowledge(w) ==
    /\ At(w, "next")
    /\ worker[w].todo = {}
    /\ row' = IF row[worker[w].inc].owner = w
              THEN [row EXCEPT ![worker[w].inc] = [state |-> "SENT", owner |-> None]]
              ELSE row
    /\ worker' = [worker EXCEPT ![w] = IdleWorker]
    /\ UNCHANGED <<durable, provider, used, status, configured>>

\* An exception reaches the consumer, which fails the row for a retry.
Raise(w) ==
    /\ row' = IF row[worker[w].inc].owner = w
              THEN [row EXCEPT ![worker[w].inc] = [state |-> "PENDING", owner |-> None]]
              ELSE row
    /\ worker' = [worker EXCEPT ![w] = IdleWorker]
    /\ UNCHANGED <<durable, provider, status, configured>>

\* Any repository call may be unavailable or lose a race.
Fault(w) ==
    /\ ~At(w, "idle")
    /\ used.faults < MaxFaults
    /\ used' = [used EXCEPT !.faults = @ + 1]
    /\ Raise(w)

\* The adapter can undo this kind, and the provider's id for it is known.
CanUndo(w) == Reversible(Act(w)) /\ configured /\ worker[w].seen.rid

\* The compare-and-swap the executor is about to do finds another version, or
\* the recovery record has moved where the write may not follow.
RecoveryWrites == [undo |-> "FAILED", undoRecord |-> "RELEASING",
                   undoPartial |-> "PARTIAL", undoComplete |-> "COMPLETE"]

\* reconcile_action writes nothing for an answer that adds nothing.
StillUnknown(w) ==
    worker[w].got = "UNKNOWN" /\ worker[w].seen.state = "RECONCILIATION_REQUIRED"

Conflict(w) ==
    /\ \/ worker[w].at \in {"claim", "result", "commit"} /\ ~Current(w)
       \/ At(w, "confirm") /\ ~Owns(Act(w)) /\ ~Current(w)
       \/ At(w, "reconciled") /\ ~(Current(w) \/ StillUnknown(w))
       \/ At(w, "undoConfirm") /\ ~Owns(Act(w)) /\ ~UndoCurrent(w)
       \/ worker[w].at \in {"undoResult", "undoCommit"} /\ ~UndoCurrent(w)
       \/ /\ worker[w].at \in DOMAIN RecoveryWrites
          /\ ~(At(w, "undo") /\ CanUndo(w))
          /\ ~ValidForward(recovery[Inc(w)], RecoveryWrites[worker[w].at])
    /\ Raise(w)
    /\ UNCHANGED used

(***************************************************************************)
(* execute_ready_action.                                                   *)
(***************************************************************************)
\* Wrong: an executor that finds a SENT action reconciles it at once.
RouteReconcilesSent(a, operating) ==
    CASE action[a].state \in {"SENT", "OUTCOME_UNKNOWN", "RECONCILIATION_REQUIRED"} -> "reconcile"
      [] action[a].state = "READY" /\ Eligible(a) -> "own"
      [] OTHER -> "return"

\* adapter.capability: a slice is attached only while it is OPERATING.
Capable(a, operating) == configured /\ (Kind[a] = "slice_attach" => operating)

\* The branch execute_ready_action takes on the state it reads.
Route(a, operating) ==
    CASE action[a].state \in TerminalActionStates \cup {"SENT"} -> "return"
      [] action[a].state \in {"OUTCOME_UNKNOWN", "RECONCILIATION_REQUIRED"} -> "reconcile"
      [] action[a].state = "ACKNOWLEDGED" -> "verify"
      [] action[a].state = "ROLLBACK_REQUIRED" -> "undo"
      [] action[a].state = "READY" ->
            IF Eligible(a) /\ Capable(a, operating) THEN "own" ELSE "block"
      [] OTHER -> "return"

Taking(w, a, place) ==
    [at |-> place, inc |-> worker[w].inc, todo |-> worker[w].todo \ {a},
     act |-> a, seen |-> action[a], held |-> 0, got |-> "NONE"]

Dispatch(w) ==
    /\ At(w, "next")
    /\ \E a \in worker[w].todo, operating \in BOOLEAN :
          LET place == Route(a, operating) IN
          worker' = IF place = "return"
                    THEN [worker EXCEPT ![w].todo = worker[w].todo \ {a}]
                    ELSE [worker EXCEPT ![w] = Taking(w, a, place)]
    /\ UNCHANGED <<durable, outside>>

\* _persist_block: fail the action if it is still READY ...
Block(w) ==
    /\ At(w, "block")
    /\ action' = IF action[Act(w)].state = "READY"
                 THEN [action EXCEPT ![Act(w)] = Written(@, "FAILED")] ELSE action
    /\ GoTo(w, "blockIncident")
    /\ UNCHANGED <<undo, incident, verdict, recovery, lease, allowed, reserved, outside>>

\* ... then block the incident if nothing has started for it.
BlockIncident(w) ==
    /\ At(w, "blockIncident")
    /\ MoveIncident(Inc(w), "APPROVED", "BLOCKED")
    /\ Return(w)
    /\ UNCHANGED <<action, undo, verdict, recovery, lease, allowed, reserved, outside>>

\* Wrong: ownership taken from an incident whose lease is still live.
OwnTakes(w) ==
    /\ At(w, "own")
    /\ lease' = [lease EXCEPT ![ResourceOf[Act(w)]] = [owner |-> Inc(w), live |-> TRUE]]
    /\ GoTo(w, "recheck")
    /\ UNCHANGED <<action, undo, incident, verdict, recovery, allowed, reserved, outside>>

\* _ensure_ownership: keep a live lease, take a free or lapsed one, or block.
Own(w) ==
    /\ At(w, "own")
    /\ LET r == ResourceOf[Act(w)] IN
       IF lease[r].owner \notin {None, Inc(w)} /\ lease[r].live
       THEN GoTo(w, "block") /\ UNCHANGED lease
       ELSE /\ lease' = [lease EXCEPT ![r] = [owner |-> Inc(w), live |-> TRUE]]
            /\ GoTo(w, "recheck")
    /\ UNCHANGED <<action, undo, incident, verdict, recovery, allowed, reserved, outside>>

\* Re-read every authority before the claim; the copy read here is the claim's.
Recheck(w) ==
    /\ At(w, "recheck")
    /\ IF action[Act(w)].state # "READY"
       THEN Return(w) /\ UNCHANGED incident
       ELSE IF ~Eligible(Act(w))
       THEN GoTo(w, "block") /\ UNCHANGED incident
       ELSE /\ MoveIncident(Inc(w), "APPROVED", "MITIGATING")
            /\ worker' = [worker EXCEPT ![w].seen = action[Act(w)], ![w].at = "claim"]
    /\ UNCHANGED <<action, undo, verdict, recovery, lease, allowed, reserved, outside>>

\* READY -> SENT is the execution claim.
Claim(w) ==
    /\ At(w, "claim")
    /\ UpdateAndGo(w, "SENT", "confirm")
    /\ UNCHANGED <<undo, incident, verdict, recovery, lease, allowed, reserved, outside>>

\* Ownership and authority are read once more.  A lost lease is an unknown
\* outcome; a lost authority fails the action if the claim is still SENT.
Confirm(w) ==
    /\ At(w, "confirm")
    /\ \/ /\ ~Owns(Act(w))
          /\ UpdateAction(w, "OUTCOME_UNKNOWN")
          /\ Return(w)
       \/ /\ Owns(Act(w))
          /\ ~(Current(w) /\ Eligible(Act(w)))
          /\ action' = IF action[Act(w)].state = "SENT"
                       THEN [action EXCEPT ![Act(w)] = Written(@, "FAILED")]
                       ELSE action
          /\ Return(w)
       \/ /\ Owns(Act(w)) /\ Current(w) /\ Eligible(Act(w))
          /\ GoTo(w, "reserve") /\ UNCHANGED action
    /\ UNCHANGED <<undo, incident, verdict, recovery, lease, allowed, reserved, outside>>

\* _record_cost_once: once per action that costs something, and only QoD does;
\* a failing ledger fails the action.
Paid(a) == Kind[a] = "qos"
Reserve(w) ==
    /\ At(w, "reserve")
    /\ \/ /\ reserved' = IF Paid(Act(w)) THEN reserved \cup {Act(w)} ELSE reserved
          /\ GoTo(w, "call")
          /\ UNCHANGED <<action, used>>
       \/ /\ Paid(Act(w)) /\ Act(w) \notin reserved
          /\ used.faults < MaxFaults
          /\ used' = [used EXCEPT !.faults = @ + 1]
          /\ UpdateAction(w, "FAILED")
          /\ Return(w)
          /\ UNCHANGED reserved
    /\ UNCHANGED <<undo, incident, verdict, recovery, lease, allowed,
                   provider, row, status, configured>>

\* The network after one more mutation, or one more release.
Mutated(p, applied) ==
    [effect |-> IF applied THEN "active" ELSE p.effect,
     execs |-> p.execs + 1, undos |-> p.undos]
Released(p, released) ==
    [effect |-> IF released THEN "gone" ELSE p.effect,
     execs |-> p.execs, undos |-> p.undos + 1]

\* adapter.execute: an exception leaves the effect open; a QoD request is
\* never answered with an explicit failure.
CallProvider(w) ==
    /\ At(w, "call")
    /\ \E answer \in {"ACCEPTED", "FAILED", "AMBIGUOUS"}, applied \in BOOLEAN :
          /\ answer = "ACCEPTED" => applied
          /\ answer = "FAILED" => ~applied /\ Kind[Act(w)] # "qos"
          /\ provider' = [provider EXCEPT ![Act(w)] = Mutated(@, applied)]
          /\ worker' = [worker EXCEPT ![w].got = answer, ![w].at = "result"]
    /\ UNCHANGED <<durable, row, used, status, configured>>

\* The accepted action, with the resource id the provider returned (attaching a
\* slice returns none).
Accepted(w) ==
    [state |-> "ACKNOWLEDGED", version |-> worker[w].seen.version + 1,
     rid |-> Reversible(Act(w))]

\* The provider's answer becomes durable.
Result(w) ==
    /\ At(w, "result")
    /\ \/ /\ worker[w].got = "ACCEPTED"
          /\ Current(w)
          /\ action' = [action EXCEPT ![Act(w)] = Accepted(w)]
          /\ worker' = [worker EXCEPT ![w].seen = Accepted(w), ![w].at = "verify"]
       \/ worker[w].got = "FAILED" /\ UpdateAndGo(w, "FAILED", "recordFailure")
       \/ worker[w].got = "AMBIGUOUS" /\ UpdateAction(w, "OUTCOME_UNKNOWN") /\ Return(w)
    /\ UNCHANGED <<undo, incident, verdict, recovery, lease, allowed, reserved, outside>>

\* _save_provider_failure_verification.
RecordFailure(w) ==
    /\ At(w, "recordFailure")
    /\ verdict' = [verdict EXCEPT ![Act(w)] = "FAILED"]
    /\ Return(w)
    /\ UNCHANGED <<action, undo, incident, recovery, lease, allowed, reserved, outside>>

(***************************************************************************)
(* reconcile_action: a safe read, never a resend.                          *)
(***************************************************************************)
\* Wrong: a resource whose id was never learnt is taken for absent.
ReconcileAssumesAbsent(w) ==
    /\ At(w, "reconcile")
    /\ \E answer \in {"ACCEPTED", "FAILED", "UNKNOWN"} :
          /\ answer = "ACCEPTED" => worker[w].seen.rid
          /\ answer = "FAILED" => provider[Act(w)].effect = "gone" \/ ~worker[w].seen.rid
          /\ worker' = [worker EXCEPT ![w].got = answer, ![w].at = "reconciled"]
    /\ UNCHANGED <<durable, outside>>

\* adapter.reconcile: without a resource id nothing can be learnt.
Reconcile(w) ==
    /\ At(w, "reconcile")
    /\ \E answer \in {"ACCEPTED", "FAILED", "UNKNOWN"} :
          /\ ~worker[w].seen.rid => answer = "UNKNOWN"
          /\ answer = "FAILED" => provider[Act(w)].effect = "gone"
          /\ worker' = [worker EXCEPT ![w].got = answer, ![w].at = "reconciled"]
    /\ UNCHANGED <<durable, outside>>

Reconciled(w) ==
    /\ At(w, "reconciled")
    /\ \/ worker[w].got = "ACCEPTED" /\ UpdateAndGo(w, "ACKNOWLEDGED", "verify")
       \/ worker[w].got = "FAILED" /\ UpdateAction(w, "FAILED") /\ Return(w)
       \/ /\ worker[w].got = "UNKNOWN"
          /\ IF StillUnknown(w) THEN UNCHANGED action
             ELSE UpdateAction(w, "RECONCILIATION_REQUIRED")
          /\ Return(w)
    /\ UNCHANGED <<undo, incident, verdict, recovery, lease, allowed, reserved, outside>>

(***************************************************************************)
(* _verify_known and _maybe_resolve.                                       *)
(***************************************************************************)
Verify(w) ==
    /\ At(w, "verify")
    /\ MoveIncident(Inc(w), "MITIGATING", "VERIFYING")
    /\ GoTo(w, "readback")
    /\ UNCHANGED <<action, undo, verdict, recovery, lease, allowed, reserved, outside>>

\* adapter.verify: only an active resource whose id is known supports a
\* verdict; congestion is compared for QoD, presence alone for a geofence.
Readback(w) ==
    /\ At(w, "readback")
    /\ \E answer \in {"IMPROVED", "RESOURCE", "UNCHANGED", "INSUFFICIENT"} :
          /\ answer # "INSUFFICIENT" =>
                worker[w].seen.rid /\ provider[Act(w)].effect = "active"
          /\ answer \in {"IMPROVED", "UNCHANGED"} => Kind[Act(w)] = "qos"
          /\ answer = "RESOURCE" => Kind[Act(w)] = "geofence"
          /\ worker' = [worker EXCEPT ![w].got = answer, ![w].at = "record"]
    /\ UNCHANGED <<durable, outside>>

\* verification.save is an upsert: no version guards it.
Record(w) ==
    /\ At(w, "record")
    /\ verdict' = [verdict EXCEPT ![Act(w)] = worker[w].got]
    /\ GoTo(w, "publish")
    /\ UNCHANGED <<action, undo, incident, recovery, lease, allowed, reserved, outside>>

\* The incident's verification_state, whatever state the incident is in.
Publish(w) ==
    /\ At(w, "publish")
    /\ incident' = [incident EXCEPT ![Inc(w)].evidence = worker[w].got]
    /\ GoTo(w, "commit")
    /\ UNCHANGED <<action, undo, verdict, recovery, lease, allowed, reserved, outside>>

Commit(w) ==
    /\ At(w, "commit")
    /\ \/ worker[w].got \in {"IMPROVED", "RESOURCE"} /\ UpdateAndGo(w, "SUCCESS", "resolve")
       \/ worker[w].got = "UNCHANGED" /\ UpdateAndGo(w, "ROLLBACK_REQUIRED", "undo")
       \/ /\ worker[w].got = "INSUFFICIENT"
          /\ UpdateAction(w, "RECONCILIATION_REQUIRED")
          /\ Return(w)
    /\ UNCHANGED <<undo, incident, verdict, recovery, lease, allowed, reserved, outside>>

\* Wrong: one successful action resolves the whole plan.
PlanPartlyVerified(i) ==
    \E a \in ActionsOf(i) : action[a].state = "SUCCESS" /\ verdict[a] = "IMPROVED"

\* Every action of the plan succeeded and one of them improved the network.
PlanVerified(i) ==
    /\ \A a \in ActionsOf(i) : action[a].state = "SUCCESS"
    /\ \E a \in ActionsOf(i) : verdict[a] = "IMPROVED"

Resolve(w) ==
    /\ At(w, "resolve")
    /\ IF ~PlanVerified(Inc(w)) THEN Return(w) ELSE
       IF incident[Inc(w)].state = "VERIFYING" THEN GoTo(w, "outcome")
       ELSE GoTo(w, "release")
    /\ IF PlanVerified(Inc(w)) THEN MoveIncident(Inc(w), "VERIFYING", "RESOLVED")
       ELSE UNCHANGED incident
    /\ UNCHANGED <<action, undo, verdict, recovery, lease, allowed, reserved, outside>>

RecordOutcome(w) ==
    /\ At(w, "outcome")
    /\ incident' = [incident EXCEPT ![Inc(w)].outcome = "VERIFIED_IMPROVED",
                                    ![Inc(w)].evidence = "IMPROVED"]
    /\ GoTo(w, "release")
    /\ UNCHANGED <<action, undo, verdict, recovery, lease, allowed, reserved, outside>>

\* The leases the incident still holds are released one by one.
OwnedBy(i) == {r \in Resource : lease[r].owner = i}
Release(w) ==
    /\ At(w, "release")
    /\ IF OwnedBy(Inc(w)) = {} THEN Return(w) /\ UNCHANGED lease
       ELSE /\ \E r \in OwnedBy(Inc(w)) :
                  lease' = [lease EXCEPT ![r] = [owner |-> None, live |-> FALSE]]
            /\ UNCHANGED worker
    /\ UNCHANGED <<action, undo, incident, verdict, recovery, allowed, reserved, outside>>

(***************************************************************************)
(* _rollback.                                                              *)
(***************************************************************************)
\* The mode no longer permits mutations: nothing is written.
ModeForbidsUndo(w) ==
    /\ At(w, "undo")
    /\ ~configured
    /\ Return(w)
    /\ UNCHANGED <<durable, outside>>

\* Impossible: record the failed recovery, then escalate the incident.
CannotUndo(w) ==
    /\ At(w, "undo")
    /\ ~CanUndo(w)
    /\ SaveRecovery(Inc(w), "FAILED")
    /\ GoTo(w, "escalate")
    /\ UNCHANGED <<action, undo, incident, verdict, lease, allowed, reserved, outside>>

Escalate(w) ==
    /\ At(w, "escalate")
    /\ MoveIncident(Inc(w), "VERIFYING", "ESCALATED")
    /\ Return(w)
    /\ UNCHANGED <<action, undo, verdict, recovery, lease, allowed, reserved, outside>>

\* Wrong: a rollback command found SENT is sent again.
CreateUndoAgain(w) ==
    /\ At(w, "undo")
    /\ CanUndo(w)
    /\ undo' = [undo EXCEPT ![Act(w)].state = IF @ = "ABSENT" THEN "READY" ELSE @]
    /\ worker' = [worker EXCEPT ![w].held = undo[Act(w)].version, ![w].at = "undoClaim"]
    /\ UNCHANGED <<action, incident, verdict, recovery, lease, allowed, reserved, outside>>

\* create_or_get of the rollback command; one found SENT becomes unknown, and
\* only a READY one goes on.
CreateUndo(w) ==
    /\ At(w, "undo")
    /\ CanUndo(w)
    /\ \/ /\ undo[Act(w)].state = "ABSENT"
          /\ undo' = [undo EXCEPT ![Act(w)] = [state |-> "READY", version |-> 0]]
          /\ worker' = [worker EXCEPT ![w].held = 0, ![w].at = "undoClaim"]
       \/ /\ undo[Act(w)].state = "READY"
          /\ worker' = [worker EXCEPT ![w].held = undo[Act(w)].version,
                                      ![w].at = "undoClaim"]
          /\ UNCHANGED undo
       \/ /\ undo[Act(w)].state = "SENT"
          /\ undo' = [undo EXCEPT ![Act(w)] =
                 [state |-> "OUTCOME_UNKNOWN", version |-> undo[Act(w)].version + 1]]
          /\ Return(w)
       \/ /\ undo[Act(w)].state \notin {"ABSENT", "READY", "SENT"}
          /\ Return(w)
          /\ UNCHANGED undo
    /\ UNCHANGED <<action, incident, verdict, recovery, lease, allowed, reserved, outside>>

\* The claim of the rollback; losing it is an ordinary return.
ClaimUndo(w) ==
    /\ At(w, "undoClaim")
    /\ \/ UpdateUndoAndGo(w, "SENT", "undoRecord")
       \/ ~UndoCurrent(w) /\ Return(w) /\ UNCHANGED undo
    /\ UNCHANGED <<action, incident, verdict, recovery, lease, allowed, reserved, outside>>

RecordReleasing(w) ==
    /\ At(w, "undoRecord")
    /\ SaveRecovery(Inc(w), "RELEASING")
    /\ GoTo(w, "undoConfirm")
    /\ UNCHANGED <<action, undo, incident, verdict, lease, allowed, reserved, outside>>

ConfirmUndo(w) ==
    /\ At(w, "undoConfirm")
    /\ IF Owns(Act(w)) THEN GoTo(w, "undoCall") /\ UNCHANGED undo
       ELSE UpdateUndo(w, "OUTCOME_UNKNOWN") /\ Return(w)
    /\ UNCHANGED <<action, incident, verdict, recovery, lease, allowed, reserved, outside>>

\* adapter.rollback: an accepted release may take effect later.
CallUndo(w) ==
    /\ At(w, "undoCall")
    /\ \E answer \in {"ACCEPTED", "FAILED", "AMBIGUOUS"}, released \in BOOLEAN :
          /\ answer = "FAILED" => ~released
          /\ provider' = [provider EXCEPT ![Act(w)] = Released(@, released)]
          /\ worker' = [worker EXCEPT ![w].got = answer, ![w].at = "undoResult"]
    /\ UNCHANGED <<durable, row, used, status, configured>>

UndoResult(w) ==
    /\ At(w, "undoResult")
    /\ \/ /\ worker[w].got = "ACCEPTED"
          /\ UpdateUndoAndGo(w, "ACKNOWLEDGED", "undoReadback")
       \/ worker[w].got = "FAILED" /\ UpdateUndo(w, "FAILED") /\ Return(w)
       \/ /\ worker[w].got = "AMBIGUOUS"
          /\ UpdateUndoAndGo(w, "OUTCOME_UNKNOWN", "undoAmbiguous")
    /\ UNCHANGED <<action, incident, verdict, recovery, lease, allowed, reserved, outside>>

UndoAmbiguous(w) ==
    /\ At(w, "undoAmbiguous")
    /\ MoveIncident(Inc(w), "VERIFYING", "RECOVERING")
    /\ GoTo(w, "undoPartial")
    /\ UNCHANGED <<action, undo, verdict, recovery, lease, allowed, reserved, outside>>

UndoPartial(w) ==
    /\ At(w, "undoPartial")
    /\ SaveRecovery(Inc(w), "PARTIAL")
    /\ Return(w)
    /\ UNCHANGED <<action, undo, incident, verdict, lease, allowed, reserved, outside>>

\* Wrong: an accepted release is taken for a verified one.
UndoReadbackTrusts(w) ==
    /\ At(w, "undoReadback")
    /\ worker' = [worker EXCEPT ![w].got = "VERIFIED", ![w].at = "undoRecover"]
    /\ UNCHANGED <<durable, outside>>

\* adapter.verify_rollback proves absence only of a resource that is gone.
UndoReadback(w) ==
    /\ At(w, "undoReadback")
    /\ \E answer \in {"VERIFIED", "UNAVAILABLE"} :
          /\ answer = "VERIFIED" => provider[Act(w)].effect = "gone"
          /\ worker' = [worker EXCEPT ![w].got = answer, ![w].at = "undoRecover"]
    /\ UNCHANGED <<durable, outside>>

UndoRecover(w) ==
    /\ At(w, "undoRecover")
    /\ MoveIncident(Inc(w), "VERIFYING", "RECOVERING")
    /\ GoTo(w, "undoCommit")
    /\ UNCHANGED <<action, undo, verdict, recovery, lease, allowed, reserved, outside>>

UndoCommit(w) ==
    /\ At(w, "undoCommit")
    /\ \/ /\ worker[w].got = "VERIFIED"
          /\ UpdateUndoAndGo(w, "ROLLED_BACK", "undoOriginal")
       \/ /\ worker[w].got = "UNAVAILABLE"
          /\ UpdateUndoAndGo(w, "RECONCILIATION_REQUIRED", "undoPartial")
    /\ UNCHANGED <<action, incident, verdict, recovery, lease, allowed, reserved, outside>>

UndoOriginal(w) ==
    /\ At(w, "undoOriginal")
    /\ action' = IF action[Act(w)].state = "ROLLBACK_REQUIRED"
                 THEN [action EXCEPT ![Act(w)] = Written(@, "ROLLED_BACK")]
                 ELSE action
    /\ GoTo(w, "undoComplete")
    /\ UNCHANGED <<undo, incident, verdict, recovery, lease, allowed, reserved, outside>>

UndoComplete(w) ==
    /\ At(w, "undoComplete")
    /\ SaveRecovery(Inc(w), "COMPLETE")
    /\ GoTo(w, "undoResolve")
    /\ UNCHANGED <<action, undo, incident, verdict, lease, allowed, reserved, outside>>

\* The incident is resolved; its leases stay as they are.
UndoResolve(w) ==
    /\ At(w, "undoResolve")
    /\ IF incident[Inc(w)].state = "RECOVERING"
       THEN GoTo(w, "undoOutcome") ELSE Return(w)
    /\ MoveIncident(Inc(w), "RECOVERING", "RESOLVED")
    /\ UNCHANGED <<action, undo, verdict, recovery, lease, allowed, reserved, outside>>

UndoOutcome(w) ==
    /\ At(w, "undoOutcome")
    /\ incident' = [incident EXCEPT ![Inc(w)].outcome = "ROLLED_BACK_SAFELY"]
    /\ Return(w)
    /\ UNCHANGED <<action, undo, verdict, recovery, lease, allowed, reserved, outside>>

(***************************************************************************)
(* The environment, crashes and restarts.                                  *)
(***************************************************************************)
\* Warden decision, plan version, trust record or the 300 s authorization age
\* no longer hold: what _eligibility_reason refuses.
Withdraw(i) ==
    /\ allowed[i]
    /\ allowed' = [allowed EXCEPT ![i] = FALSE]
    /\ UNCHANGED <<action, undo, incident, verdict, recovery, lease, reserved,
                   provider, row, used, status, configured, worker>>

\* A lease lasts 300 s from an acquisition that follows the authorization, so
\* the authorization has aged out before the lease does.
Expire(r) ==
    /\ lease[r].live
    /\ ~allowed[lease[r].owner]
    /\ lease' = [lease EXCEPT ![r].live = FALSE]
    /\ UNCHANGED <<action, undo, incident, verdict, recovery, allowed, reserved,
                   provider, row, used, status, configured, worker>>

\* The provider ends the session or subscription on its own.
Lapse(a) ==
    /\ provider[a].effect = "active"
    /\ provider' = [provider EXCEPT ![a].effect = "gone"]
    /\ UNCHANGED <<durable, row, used, status, configured, worker>>

Crash ==
    /\ status = "READY"
    /\ used.restarts < MaxRestarts
    /\ used' = [used EXCEPT !.restarts = @ + 1]
    /\ status' = "DOWN"
    /\ worker' = [w \in Worker |-> IdleWorker]
    /\ UNCHANGED <<durable, provider, row, configured>>

\* Wrong: a restart puts orphaned actions back to READY.
MarkRestartReady ==
    /\ action' = [a \in Action |-> IF action[a].state = "SENT"
                     THEN Written(action[a], "READY") ELSE action[a]]
    /\ UNCHANGED undo

\* Wrong: a restart leaves orphaned actions SENT.
MarkRestartNothing == UNCHANGED <<action, undo>>

\* mark_restart_unknown: every orphaned SENT becomes OUTCOME_UNKNOWN.
MarkRestartUnknown ==
    /\ action' = [a \in Action |-> IF action[a].state = "SENT"
                     THEN Written(action[a], "OUTCOME_UNKNOWN") ELSE action[a]]
    /\ undo' = [a \in Action |-> IF undo[a].state = "SENT"
                   THEN [state |-> "OUTCOME_UNKNOWN", version |-> undo[a].version + 1]
                   ELSE undo[a]]

\* _validate_reconstruction: leases, non-terminal actions and pending
\* recoveries must belong to active incidents.
Reconstructible ==
    /\ \A r \in Resource :
          lease[r].owner # None => incident[lease[r].owner].state \in ActiveIncidentStates
    /\ \A a \in Action :
          {action[a].state, undo[a].state} \cap PendingOrUnknown # {}
             => incident[IncidentOf[a]].state \in ActiveIncidentStates
    /\ \A i \in Incident :
          recovery[i] \in PendingRecoveries => incident[i].state \in ActiveIncidentStates

\* The marks are made before the validation that may refuse to start.
Reconstruct ==
    /\ status = "DOWN"
    /\ MarkRestartUnknown
    /\ status' = IF Reconstructible THEN "READY" ELSE "FAILED"
    /\ configured' \in BOOLEAN
    /\ UNCHANGED <<incident, verdict, recovery, lease, allowed, reserved,
                   provider, row, used, worker>>

\* A rolling restart: the new process marks while the old executors still run.
Overlap ==
    /\ Rolling
    /\ status = "READY"
    /\ used.restarts < MaxRestarts
    /\ used' = [used EXCEPT !.restarts = @ + 1]
    /\ MarkRestartUnknown
    /\ UNCHANGED <<incident, verdict, recovery, lease, allowed, reserved,
                   provider, row, status, configured, worker>>

(***************************************************************************)
(* The specification.                                                      *)
(***************************************************************************)
ExecuteReadyAction(w) ==
    \/ Dispatch(w) \/ Block(w) \/ BlockIncident(w) \/ Own(w) \/ Recheck(w)
    \/ Claim(w) \/ Confirm(w) \/ Reserve(w) \/ CallProvider(w)
    \/ Result(w) \/ RecordFailure(w)

VerifyKnown(w) ==
    \/ Reconcile(w) \/ Reconciled(w)
    \/ Verify(w) \/ Readback(w) \/ Record(w) \/ Publish(w) \/ Commit(w)
    \/ Resolve(w) \/ RecordOutcome(w) \/ Release(w)

Rollback(w) ==
    \/ ModeForbidsUndo(w) \/ CannotUndo(w) \/ Escalate(w) \/ CreateUndo(w) \/ ClaimUndo(w)
    \/ RecordReleasing(w) \/ ConfirmUndo(w) \/ CallUndo(w) \/ UndoResult(w)
    \/ UndoAmbiguous(w) \/ UndoPartial(w) \/ UndoReadback(w) \/ UndoRecover(w)
    \/ UndoCommit(w) \/ UndoOriginal(w) \/ UndoComplete(w) \/ UndoResolve(w)
    \/ UndoOutcome(w)

Step(w) ==
    \/ Acknowledge(w) \/ Conflict(w)
    \/ ExecuteReadyAction(w) \/ VerifyKnown(w) \/ Rollback(w)

Environment ==
    \/ \E i \in Incident : Withdraw(i)
    \/ \E r \in Resource : Expire(r)
    \/ \E a \in Action : Lapse(a)
    \/ Crash \/ Overlap

Next ==
    \/ \E w \in Worker, i \in Incident : Deliver(w, i)
    \/ \E w \in Worker : Step(w) \/ Fault(w)
    \/ Reconstruct
    \/ Environment

Spec == Init /\ [][Next]_vars

\* An executor that can take a step takes it, and a process that is down is
\* started again by its supervisor.
FairSpec ==
    /\ Spec
    /\ \A w \in Worker : WF_vars(Step(w))
    /\ \A i \in Incident : WF_vars(\E w \in Worker : Deliver(w, i))
    /\ WF_vars(Reconstruct)

(***************************************************************************)
(* Properties.                                                             *)
(***************************************************************************)
\* However rows are redelivered, executors race, and the process restarts,
\* the provider receives at most one mutation and at most one rollback per
\* action: READY -> SENT is the only licence to call.
AtMostOneMutation ==
    \A a \in Action : provider[a].execs <= 1 /\ provider[a].undos <= 1

\* Why it holds.  A copy that a compare-and-swap would accept is the record
\* itself, and what it says is what the executor's place calls for ...
CopyCurrent(w) ==
    worker[w].at \in Busy =>
        /\ Act(w) \in Action
        /\ worker[w].seen.version <= action[Act(w)].version
        /\ Current(w) => worker[w].seen = action[Act(w)]

CopyFits(w) ==
    /\ At(w, "claim") => worker[w].seen.state = "READY"
    /\ worker[w].at \in PreCall \cup {"result"} => worker[w].seen.state = "SENT"
    /\ worker[w].at \in ReconcileSteps =>
          worker[w].seen.state \in {"OUTCOME_UNKNOWN", "RECONCILIATION_REQUIRED"}
    /\ worker[w].at \in {"verify", "readback", "record", "publish", "commit"} =>
          worker[w].seen.state = "ACKNOWLEDGED"
    /\ worker[w].at \in {"record", "publish", "commit"} => worker[w].got \in Verdicts

CopiesCurrent == \A w \in Worker : CopyCurrent(w)
CopiesFit == \A w \in Worker : CopyFits(w)

\* ... and the licence to mutate, once taken, is held by one executor, is spent
\* by the call, and cannot be taken again, because READY never comes back.
MutationLicence ==
    /\ \A a \in Action : provider[a].execs # 0 => action[a].state # "READY"
    /\ \A w \in Worker : worker[w].at \in PreCall =>
          provider[Act(w)].execs = 0 /\ action[Act(w)].state # "READY"
    /\ \A v, w \in Worker :
          v # w /\ worker[v].at \in PreCall /\ worker[w].at \in PreCall
             => Act(v) # Act(w)

\* The same licence for the rollback command.
RollbackLicence ==
    /\ \A a \in Action :
          /\ undo[a].state = "ABSENT" => undo[a].version = 0
          /\ provider[a].undos # 0 => undo[a].state \notin {"ABSENT", "READY"}
    /\ \A w \in Worker :
          /\ At(w, "undoClaim") =>
                /\ undo[Act(w)].state # "ABSENT"
                /\ worker[w].held <= undo[Act(w)].version
                /\ UndoCurrent(w) => undo[Act(w)].state = "READY"
          /\ worker[w].at \in UndoPreCall =>
                provider[Act(w)].undos = 0 /\ undo[Act(w)].state \notin {"ABSENT", "READY"}
    /\ \A v, w \in Worker :
          v # w /\ worker[v].at \in UndoPreCall /\ worker[w].at \in UndoPreCall
             => Act(v) # Act(w)

\* The life of an action as the rest of the system may rely on it: SENT never
\* goes back to READY, SUCCESS comes only from ACKNOWLEDGED, and SUCCESS,
\* FAILED and ROLLED_BACK are final whatever stale executor writes late.
ActionMoves ==
    ({"READY"} \X {"SENT", "FAILED"})
    \cup ({"SENT"} \X {"ACKNOWLEDGED", "FAILED", "OUTCOME_UNKNOWN"})
    \cup ({"OUTCOME_UNKNOWN"} \X {"RECONCILIATION_REQUIRED", "ACKNOWLEDGED", "FAILED"})
    \cup ({"RECONCILIATION_REQUIRED"} \X {"ACKNOWLEDGED", "FAILED"})
    \cup ({"ACKNOWLEDGED"} \X {"SUCCESS", "ROLLBACK_REQUIRED", "RECONCILIATION_REQUIRED"})
    \cup ({"ROLLBACK_REQUIRED"} \X {"ROLLED_BACK"})

LegalAction(a) ==
    \/ action'[a] = action[a]
    \/ /\ <<action[a].state, action'[a].state>> \in ActionMoves
       /\ action'[a].version = action[a].version + 1

LegalActionSteps == [][\A a \in Action : LegalAction(a)]_vars

\* A mutation the provider still carries is never written off as FAILED, the
\* state nothing reconciles or rolls back.
FailedMeansNoEffect ==
    \A a \in Action : action[a].state = "FAILED" => provider[a].effect # "active"

\* ROLLED_BACK is a fact about the network: the effect is gone for good, and
\* the rollback was asked for an action whose verification had failed.
RolledBackMeansGone ==
    \A a \in Action :
        /\ action[a].state = "ROLLED_BACK" => provider[a].effect = "gone"
        /\ provider[a].undos > 0 =>
              action[a].state \in {"ROLLBACK_REQUIRED", "ROLLED_BACK"}

\* No incident is reported VERIFIED_IMPROVED unless it is RESOLVED, every
\* action of its plan succeeded, and each reached the provider.
VerifiedOutcome ==
    \A i \in Incident :
        incident[i].outcome = "VERIFIED_IMPROVED" =>
            /\ incident[i].state = "RESOLVED"
            /\ \A a \in ActionsOf(i) :
                  action[a].state = "SUCCESS" /\ provider[a].execs = 1

\* While an executor is between its SENT commit and its result, no other
\* executor reclassifies the action (only a restart may).
ClaimSurvives ==
    \A w \in Worker :
        worker[w].act # None /\ worker[w].at \in PreCall \cup {"result"}
            => action[Act(w)].state = "SENT"

\* Two authorized incidents never both hold a mutation on one resource while
\* both are active, and the mutating incident keeps the lease meanwhile.
Exclusive ==
    \A a, b \in Action :
        /\ provider[a].execs = 1 /\ provider[b].execs = 1
        /\ ResourceOf[a] = ResourceOf[b]
        /\ IncidentOf[a] # IncidentOf[b]
        => \E c \in {a, b} :
              \/ ~allowed[IncidentOf[c]]
              \/ incident[IncidentOf[c]].state \notin ActiveIncidentStates

\* SENT, after an exception that was no crash, with no executor between claim and result.
Abandoned(a) ==
    /\ action[a].state = "SENT" /\ status = "READY" /\ used.faults > 0
    /\ \A w \in Worker :
          worker[w].act = a => worker[w].at \notin PreCall \cup {"result"}

\* An action in flight does not stay SENT: its executor decides it, unless an exception
\* takes the executor away, and then the next restart makes it OUTCOME_UNKNOWN, as it
\* does after a crash (nothing else does, and nothing forces that restart).
SentIsDecided ==
    \A a \in Action :
        /\ action[a].state = "SENT" ~> (action[a].state # "SENT" \/ Abandoned(a))
        /\ action[a].state = "SENT" /\ status = "DOWN" ~> action[a].state # "SENT"

(***************************************************************************)
(* What the repository says and the code does not do.  Each of these is    *)
(* refuted by a run of its own.                                            *)
(***************************************************************************)
\* The state a verified rollback leaves behind satisfies the invariants the next
\* restart validates (platform_lifecycle.py: a violation is a corrupt store).
RollbackSurvivesRestart ==
    status = "FAILED" => \A i \in Incident : incident[i].outcome # "ROLLED_BACK_SAFELY"

=============================================================================
