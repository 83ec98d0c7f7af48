-------------------------- MODULE ExecutionProofs --------------------------
(***************************************************************************)
(* Theorems about the durable action executor, for every number of         *)
(* actions, incidents, resources and executors and every value of the      *)
(* bounds.  The argument:                                                  *)
(*                                                                         *)
(*   CopyInvariant     a compare-and-swap accepts an executor's copy only  *)
(*                     if the copy is the record, and the copy says what   *)
(*                     the executor's place in the code presupposes;       *)
(*   LicenceInvariant  hence READY -> SENT is a licence one executor can   *)
(*                     take, and the provider call spends it.              *)
(*                                                                         *)
(* The two halves (types and copies, then licences) are inductive given    *)
(* the one before.                                                         *)
(***************************************************************************)
EXTENDS Execution, TLAPS

(***************************************************************************)
(* What the building blocks do to the local state of an executor.          *)
(***************************************************************************)
\* Everybody but w stays where it is.
Others(w) == \A v \in Worker \ {w} : worker'[v] = worker[v]

\* Going on to another place changes nothing else of the local state.
LEMMA GoToEffect ==
    ASSUME worker \in [Worker -> WorkerRecord], NEW w \in Worker, NEW place \in Places,
           GoTo(w, place)
    PROVE  /\ worker' \in [Worker -> WorkerRecord]
           /\ Others(w)
           /\ worker'[w].at = place
           /\ worker'[w].act = worker[w].act
           /\ worker'[w].seen = worker[w].seen
           /\ worker'[w].held = worker[w].held
  BY DEF GoTo, WorkerRecord, Others

\* The answer of the provider, and the place that deals with it.
LEMMA AnswerEffect ==
    ASSUME worker \in [Worker -> WorkerRecord], NEW w \in Worker, NEW place \in Places,
           NEW answer \in Verdicts \cup ProviderAnswers,
           worker' = [worker EXCEPT ![w].got = answer, ![w].at = place]
    PROVE  /\ worker' \in [Worker -> WorkerRecord]
           /\ Others(w)
           /\ worker'[w].at = place
           /\ worker'[w].act = worker[w].act
           /\ worker'[w].seen = worker[w].seen
  BY DEF WorkerRecord, Others

\* A fresh copy of the action, and the place it is for.
LEMMA TakeCopyEffect ==
    ASSUME worker \in [Worker -> WorkerRecord], NEW w \in Worker, NEW place \in Places,
           NEW copy \in ActionRecord,
           worker' = [worker EXCEPT ![w].seen = copy, ![w].at = place]
    PROVE  worker' \in [Worker -> WorkerRecord]
  <1>1. [worker[w] EXCEPT !.seen = copy, !.at = place] \in WorkerRecord
    BY DEF WorkerRecord
  <1> QED BY <1>1

\* The same for the version of the rollback command.
LEMMA HoldEffect ==
    ASSUME worker \in [Worker -> WorkerRecord], NEW w \in Worker, NEW place \in Places,
           NEW v \in Nat, worker' = [worker EXCEPT ![w].held = v, ![w].at = place]
    PROVE  worker' \in [Worker -> WorkerRecord]
  <1>1. [worker[w] EXCEPT !.held = v, !.at = place] \in WorkerRecord
    BY DEF WorkerRecord
  <1> QED BY <1>1

\* The local state of an executor at rest, and of a new action, are well typed.
LEMMA IdleType == IdleWorker \in WorkerRecord /\ Fresh \in ActionRecord
  BY DEF IdleWorker, WorkerRecord, Places, Fresh, ActionRecord, ActionStates, Verdicts

\* Returning from the call keeps the delivery and nothing of the action.
LEMMA ReturnEffect ==
    ASSUME worker \in [Worker -> WorkerRecord], NEW w \in Worker, Return(w)
    PROVE  /\ worker' \in [Worker -> WorkerRecord]
           /\ Others(w)
           /\ worker'[w].at = "next"
  BY IdleType DEF Return, WorkerRecord, IdleWorker, Places, Others

\* A write stores the new state under the next version.
LEMMA WrittenEffect ==
    ASSUME NEW r \in ActionRecord, NEW s \in ActionStates
    PROVE  /\ Written(r, s) \in ActionRecord
           /\ Written(r, s).state = s
           /\ Written(r, s).version = r.version + 1
  BY DEF Written, ActionRecord

\* _update_action stores its copy, advanced, over the version it expected.
LEMMA UpdateActionEffect ==
    ASSUME worker \in [Worker -> WorkerRecord], action \in [Action -> ActionRecord],
           NEW w \in Worker, NEW s \in ActionStates, UpdateAction(w, s), Act(w) \in Action
    PROVE  /\ action' \in [Action -> ActionRecord]
           /\ Current(w)
           /\ action'[Act(w)] = Written(worker[w].seen, s)
           /\ \A a \in Action \ {Act(w)} : action'[a] = action[a]
  <1>1. worker[w].seen \in ActionRecord  BY DEF WorkerRecord
  <1>2. Written(worker[w].seen, s) \in ActionRecord BY <1>1, WrittenEffect
  <1> QED BY <1>2 DEF UpdateAction

\* ... and goes on with the advanced copy.
LEMMA UpdateAndGoEffect ==
    ASSUME worker \in [Worker -> WorkerRecord], action \in [Action -> ActionRecord],
           NEW w \in Worker, NEW s \in ActionStates, NEW place \in Places,
           UpdateAndGo(w, s, place), Act(w) \in Action
    PROVE  /\ UpdateAction(w, s)
           /\ worker' \in [Worker -> WorkerRecord]
           /\ Others(w)
           /\ worker'[w].at = place
           /\ worker'[w].act = worker[w].act
           /\ worker'[w].seen = Written(worker[w].seen, s)
  <1>1. worker[w].seen \in ActionRecord  BY DEF WorkerRecord
  <1>2. Written(worker[w].seen, s) \in ActionRecord BY <1>1, WrittenEffect
  <1> QED BY <1>2 DEF UpdateAndGo, WorkerRecord, Others

\* The same for the rollback command ...
LEMMA UpdateUndoEffect ==
    ASSUME worker \in [Worker -> WorkerRecord], undo \in [Action -> UndoRecord],
           NEW w \in Worker, NEW s \in ActionStates, UpdateUndo(w, s), Act(w) \in Action
    PROVE  /\ undo' \in [Action -> UndoRecord]
           /\ UndoCurrent(w)
           /\ undo'[Act(w)].state = s
           /\ undo'[Act(w)].version = undo[Act(w)].version + 1
           /\ \A a \in Action \ {Act(w)} : undo'[a] = undo[a]
  BY DEF UpdateUndo, UndoRecord

\* ... which leaves the copy of the action alone.
LEMMA UpdateUndoAndGoEffect ==
    ASSUME worker \in [Worker -> WorkerRecord],
           NEW w \in Worker, NEW s \in ActionStates, NEW place \in Places,
           UpdateUndoAndGo(w, s, place), Act(w) \in Action
    PROVE  /\ UpdateUndo(w, s)
           /\ worker' \in [Worker -> WorkerRecord]
           /\ Others(w)
           /\ worker'[w].at = place
           /\ worker'[w].act = worker[w].act
           /\ worker'[w].seen = worker[w].seen
  <1>1. worker[w].held + 1 \in Nat  BY DEF WorkerRecord
  <1> QED BY <1>1 DEF UpdateUndoAndGo, WorkerRecord, Others

\* A transition of the incident leaves it well typed.
LEMMA MoveIncidentEffect ==
    ASSUME incident \in [Incident -> IncidentRecord],
           NEW i \in Incident, NEW from, NEW to \in IncidentStates, MoveIncident(i, from, to)
    PROVE  incident' \in [Incident -> IncidentRecord]
  BY DEF MoveIncident, IncidentRecord

\* What an executor inside a call works on.
LEMMA BusyFacts ==
    ASSUME TypeOK, CopiesCurrent, NEW w \in Worker, worker[w].at \in Busy
    PROVE  /\ Act(w) \in Action
           /\ Inc(w) \in Incident
           /\ worker[w].seen \in ActionRecord
           /\ worker[w].held \in Nat
           /\ action[Act(w)] \in ActionRecord
           /\ undo[Act(w)] \in UndoRecord
  <1>1. Act(w) \in Action  BY DEF CopiesCurrent, CopyCurrent
  <1>2. Inc(w) \in Incident  BY <1>1, ConstantsAssumption DEF Inc, Act
  <1> QED BY <1>1, <1>2 DEF TypeOK, WorkerRecord

\* Where an executor works is one of the places.
LEMMA PlaceFacts == Busy \subseteq Places /\ "next" \in Places /\ "idle" \in Places
  BY DEF Places

\* The steps of execute_ready_action are well typed.
LEMMA TypeExecute ==
    ASSUME TypeOK, CopiesCurrent, NEW w \in Worker, ExecuteReadyAction(w), ~Dispatch(w)
    PROVE  TypeOK'
  <1>1. worker[w].at \in Busy
    BY DEF ExecuteReadyAction, Block, BlockIncident, Own, Recheck, Claim,
           Confirm, Reserve, CallProvider, Result, RecordFailure, At, Busy,
           ClaimSteps, PreCall, ResultSteps
  <1>2. /\ Act(w) \in Action /\ Inc(w) \in Incident
        /\ action[Act(w)] \in ActionRecord /\ worker[w].seen \in ActionRecord
    BY <1>1, BusyFacts
  <1>3. {"block", "blockIncident", "recheck", "claim", "confirm", "reserve", "call",
         "result", "recordFailure", "verify"} \subseteq Places
    BY DEF Places, Busy, ClaimSteps, PreCall, ResultSteps, VerifySteps
  <1>4. {"FAILED", "SENT", "OUTCOME_UNKNOWN", "ACKNOWLEDGED"} \subseteq ActionStates
    BY DEF ActionStates
  <1>5. worker \in [Worker -> WorkerRecord] /\ action \in [Action -> ActionRecord]
    BY DEF TypeOK
  <1>10. CASE Block(w)
    <2>1. worker' \in [Worker -> WorkerRecord]
      BY <1>10, <1>3, <1>5, GoToEffect DEF Block
    <2>2. Written(action[Act(w)], "FAILED") \in ActionRecord
      BY <1>2, <1>4, WrittenEffect
    <2>3. action' \in [Action -> ActionRecord]
      BY <1>10, <2>2, <1>5 DEF Block
    <2> QED BY <1>10, <2>1, <2>3 DEF Block, TypeOK, outside
  <1>11. CASE BlockIncident(w)
    <2>1. worker' \in [Worker -> WorkerRecord]
      BY <1>11, <1>5, ReturnEffect DEF BlockIncident
    <2>2. incident' \in [Incident -> IncidentRecord]
      BY <1>11, <1>2, MoveIncidentEffect DEF BlockIncident, IncidentStates, TypeOK
    <2> QED BY <1>11, <2>1, <2>2 DEF BlockIncident, TypeOK, outside
  <1>12. CASE Own(w)
    <2>1. worker' \in [Worker -> WorkerRecord]
      BY <1>12, <1>3, <1>5, GoToEffect DEF Own
    <2>a. [owner |-> Inc(w), live |-> TRUE] \in LeaseRecord
      BY <1>2 DEF LeaseRecord
    <2>2. lease' \in [Resource -> LeaseRecord]
      BY <1>12, <2>a DEF Own, TypeOK
    <2> QED BY <1>12, <2>1, <2>2 DEF Own, TypeOK, outside
  <1>13. CASE Recheck(w)
    <2>1. incident' \in [Incident -> IncidentRecord]
      BY <1>13, <1>2, MoveIncidentEffect DEF Recheck, IncidentStates, TypeOK
    <2>2. worker' \in [Worker -> WorkerRecord]
      <3>1. CASE Return(w)  BY <3>1, <1>5, ReturnEffect
      <3>2. CASE GoTo(w, "block")  BY <3>2, <1>3, <1>5, GoToEffect
      <3>3. CASE worker' = [worker EXCEPT ![w].seen = action[Act(w)], ![w].at = "claim"]
        BY <3>3, <1>2, <1>3, <1>5, TakeCopyEffect
      <3> QED BY <3>1, <3>2, <3>3, <1>13 DEF Recheck
    <2> QED BY <1>13, <2>1, <2>2 DEF Recheck, TypeOK, outside
  <1>14. CASE Claim(w)
    <2>1. UpdateAction(w, "SENT") /\ worker' \in [Worker -> WorkerRecord]
      BY <1>14, <1>2, <1>3, <1>4, <1>5, UpdateAndGoEffect DEF Claim
    <2>2. action' \in [Action -> ActionRecord]
      BY <2>1, <1>2, <1>4, <1>5, UpdateActionEffect
    <2> QED BY <1>14, <2>1, <2>2 DEF Claim, TypeOK, outside
  <1>15. CASE Confirm(w)
    <2>1. worker' \in [Worker -> WorkerRecord]
      BY <1>15, <1>3, <1>5, ReturnEffect, GoToEffect DEF Confirm
    <2>2. Written(action[Act(w)], "FAILED") \in ActionRecord
      BY <1>2, <1>4, WrittenEffect
    <2>3. action' \in [Action -> ActionRecord]
      <3>1. CASE UpdateAction(w, "OUTCOME_UNKNOWN")
        BY <3>1, <1>2, <1>4, <1>5, UpdateActionEffect
      <3> QED BY <3>1, <1>15, <2>2, <1>5 DEF Confirm
    <2> QED BY <1>15, <2>1, <2>3 DEF Confirm, TypeOK, outside
  <1>16. CASE Reserve(w)
    <2>1. worker' \in [Worker -> WorkerRecord]
      BY <1>16, <1>3, <1>5, ReturnEffect, GoToEffect DEF Reserve
    <2>2. action' \in [Action -> ActionRecord]
      BY <1>16, <1>2, <1>4, <1>5, UpdateActionEffect DEF Reserve
    <2>3. reserved' \in SUBSET Action
      BY <1>16, <1>2 DEF Reserve, TypeOK
    <2>4. used' \in [deliveries : [Incident -> Nat], faults : Nat, restarts : Nat]
      BY <1>16 DEF Reserve, TypeOK
    <2> QED BY <1>16, <2>1, <2>2, <2>3, <2>4 DEF Reserve, TypeOK
  <1>17. CASE CallProvider(w)
    <2>1. PICK answer \in {"ACCEPTED", "FAILED", "AMBIGUOUS"}, applied \in BOOLEAN :
             /\ provider' = [provider EXCEPT ![Act(w)] = Mutated(@, applied)]
             /\ worker' = [worker EXCEPT ![w].got = answer, ![w].at = "result"]
      BY <1>17 DEF CallProvider
    <2>2. worker' \in [Worker -> WorkerRecord]
      <3>1. answer \in Verdicts \cup ProviderAnswers /\ "result" \in Places
        BY <2>1 DEF ProviderAnswers, Places, Busy, ResultSteps
      <3> QED BY <2>1, <3>1, <1>5, AnswerEffect
    <2>3. Mutated(provider[Act(w)], applied) \in ProviderRecord
      BY <1>2 DEF Mutated, ProviderRecord, TypeOK
    <2>4. provider' \in [Action -> ProviderRecord]
      BY <2>1, <2>3 DEF TypeOK
    <2> QED BY <1>17, <2>2, <2>4 DEF CallProvider, TypeOK, durable
  <1>18. CASE Result(w)
    <2>1. Accepted(w) \in ActionRecord
      BY <1>2, <1>4 DEF Accepted, ActionRecord, Reversible
    <2>2. worker' \in [Worker -> WorkerRecord]
      <3>1. CASE worker' = [worker EXCEPT ![w].seen = Accepted(w), ![w].at = "verify"]
        BY <3>1, <2>1, <1>3, <1>5, TakeCopyEffect
      <3>2. CASE UpdateAndGo(w, "FAILED", "recordFailure")
        BY <3>2, <1>2, <1>3, <1>4, <1>5, UpdateAndGoEffect
      <3>3. CASE Return(w)  BY <3>3, <1>5, ReturnEffect
      <3> QED BY <3>1, <3>2, <3>3, <1>18 DEF Result
    <2>3. action' \in [Action -> ActionRecord]
      <3>1. CASE action' = [action EXCEPT ![Act(w)] = Accepted(w)]
        BY <3>1, <2>1, <1>5
      <3>2. CASE UpdateAction(w, "FAILED") \/ UpdateAction(w, "OUTCOME_UNKNOWN")
        BY <3>2, <1>2, <1>4, <1>5, UpdateActionEffect
      <3> QED BY <3>1, <3>2, <1>18 DEF Result, UpdateAndGo
    <2> QED BY <1>18, <2>2, <2>3 DEF Result, TypeOK, outside
  <1>19. CASE RecordFailure(w)
    <2>1. worker' \in [Worker -> WorkerRecord]
      BY <1>19, <1>5, ReturnEffect DEF RecordFailure
    <2>2. verdict' \in [Action -> Verdicts]
      BY <1>19 DEF RecordFailure, TypeOK, Verdicts
    <2> QED BY <1>19, <2>1, <2>2 DEF RecordFailure, TypeOK, outside
  <1> QED
    BY <1>10, <1>11, <1>12, <1>13, <1>14, <1>15, <1>16, <1>17, <1>18, <1>19
       DEF ExecuteReadyAction

\* The steps of reconcile_action and _verify_known are well typed.
LEMMA TypeVerify ==
    ASSUME TypeOK, CopiesCurrent, CopiesFit, NEW w \in Worker, VerifyKnown(w)
    PROVE  TypeOK'
  <1>1. worker[w].at \in Busy
    BY DEF VerifyKnown, Reconcile, Reconciled, Verify, Readback, Record, Publish,
           Commit, Resolve, RecordOutcome, Release, At, Busy, VerifySteps, ReconcileSteps
  <1>2. Act(w) \in Action /\ Inc(w) \in Incident
    BY <1>1, BusyFacts
  <1>3. {"reconciled", "verify", "readback", "record", "publish", "commit", "resolve",
         "outcome", "release", "undo"} \subseteq Places
    BY DEF Places, Busy, VerifySteps, ReconcileSteps, UndoSteps
  <1>4. {"ACKNOWLEDGED", "FAILED", "RECONCILIATION_REQUIRED", "SUCCESS",
         "ROLLBACK_REQUIRED"} \subseteq ActionStates
    BY DEF ActionStates
  <1>5. /\ worker \in [Worker -> WorkerRecord] /\ action \in [Action -> ActionRecord]
        /\ incident \in [Incident -> IncidentRecord]
    BY DEF TypeOK
  <1>10. CASE Reconcile(w)
    <2>1. PICK answer \in {"ACCEPTED", "FAILED", "UNKNOWN"} :
             worker' = [worker EXCEPT ![w].got = answer, ![w].at = "reconciled"]
      BY <1>10 DEF Reconcile
    <2>2. worker' \in [Worker -> WorkerRecord]
      <3>1. answer \in Verdicts \cup ProviderAnswers /\ "reconciled" \in Places
        BY <2>1, <1>3 DEF ProviderAnswers
      <3> QED BY <2>1, <3>1, <1>5, AnswerEffect
    <2> QED BY <1>10, <2>2 DEF Reconcile, TypeOK, durable, outside
  <1>11. CASE Reconciled(w)
    <2>1. worker' \in [Worker -> WorkerRecord]
      BY <1>11, <1>2, <1>3, <1>4, <1>5, UpdateAndGoEffect, ReturnEffect DEF Reconciled
    <2>2. action' \in [Action -> ActionRecord]
      BY <1>11, <1>2, <1>4, <1>5, UpdateActionEffect DEF Reconciled, UpdateAndGo
    <2> QED BY <1>11, <2>1, <2>2 DEF Reconciled, TypeOK, outside
  <1>12. CASE Verify(w)
    <2>1. worker' \in [Worker -> WorkerRecord]
      BY <1>12, <1>3, <1>5, GoToEffect DEF Verify
    <2>2. incident' \in [Incident -> IncidentRecord]
      BY <1>12, <1>2, <1>5, MoveIncidentEffect DEF Verify, IncidentStates
    <2> QED BY <1>12, <2>1, <2>2 DEF Verify, TypeOK, outside
  <1>13. CASE Readback(w)
    <2>1. PICK answer \in {"IMPROVED", "RESOURCE", "UNCHANGED", "INSUFFICIENT"} :
             worker' = [worker EXCEPT ![w].got = answer, ![w].at = "record"]
      BY <1>13 DEF Readback
    <2>2. worker' \in [Worker -> WorkerRecord]
      <3>1. answer \in Verdicts \cup ProviderAnswers /\ "record" \in Places
        BY <2>1, <1>3 DEF Verdicts
      <3> QED BY <2>1, <3>1, <1>5, AnswerEffect
    <2> QED BY <1>13, <2>2 DEF Readback, TypeOK, durable, outside
  <1>14. CASE Record(w)
    <2>1. worker' \in [Worker -> WorkerRecord]
      BY <1>14, <1>3, <1>5, GoToEffect DEF Record
    <2>2. verdict' \in [Action -> Verdicts]
      BY <1>14 DEF Record, TypeOK, CopiesFit, CopyFits, At
    <2> QED BY <1>14, <2>1, <2>2 DEF Record, TypeOK, outside
  <1>15. CASE Publish(w)
    <2>1. worker' \in [Worker -> WorkerRecord]
      BY <1>15, <1>3, <1>5, GoToEffect DEF Publish
    <2>2. incident' \in [Incident -> IncidentRecord]
      BY <1>15, <1>5 DEF Publish, IncidentRecord, CopiesFit, CopyFits, At
    <2> QED BY <1>15, <2>1, <2>2 DEF Publish, TypeOK, outside
  <1>16. CASE Commit(w)
    <2>1. worker' \in [Worker -> WorkerRecord]
      BY <1>16, <1>2, <1>3, <1>4, <1>5, UpdateAndGoEffect, ReturnEffect DEF Commit
    <2>2. action' \in [Action -> ActionRecord]
      BY <1>16, <1>2, <1>4, <1>5, UpdateActionEffect DEF Commit, UpdateAndGo
    <2> QED BY <1>16, <2>1, <2>2 DEF Commit, TypeOK, outside
  <1>17. CASE Resolve(w)
    <2>1. worker' \in [Worker -> WorkerRecord]
      BY <1>17, <1>3, <1>5, GoToEffect, ReturnEffect DEF Resolve
    <2>2. incident' \in [Incident -> IncidentRecord]
      BY <1>17, <1>2, <1>5, MoveIncidentEffect DEF Resolve, IncidentStates
    <2> QED BY <1>17, <2>1, <2>2 DEF Resolve, TypeOK, outside
  <1>18. CASE RecordOutcome(w)
    <2>1. worker' \in [Worker -> WorkerRecord]
      BY <1>18, <1>3, <1>5, GoToEffect DEF RecordOutcome
    <2>2. incident' \in [Incident -> IncidentRecord]
      BY <1>18, <1>5 DEF RecordOutcome, IncidentRecord, Verdicts
    <2> QED BY <1>18, <2>1, <2>2 DEF RecordOutcome, TypeOK, outside
  <1>19. CASE Release(w)
    <2>1. worker' \in [Worker -> WorkerRecord]
      BY <1>19, <1>5, ReturnEffect DEF Release
    <2>2. [owner |-> None, live |-> FALSE] \in LeaseRecord
      BY DEF LeaseRecord
    <2>3. lease' \in [Resource -> LeaseRecord]
      BY <1>19, <2>2 DEF Release, TypeOK
    <2> QED BY <1>19, <2>1, <2>3 DEF Release, TypeOK, outside
  <1> QED
    BY <1>10, <1>11, <1>12, <1>13, <1>14, <1>15, <1>16, <1>17, <1>18, <1>19
       DEF VerifyKnown

\* Saving the recovery record leaves the records well typed.
LEMMA SaveRecoveryEffect ==
    ASSUME TypeOK, NEW i, NEW target \in RecoveryStates, SaveRecovery(i, target)
    PROVE  recovery' \in [Incident -> RecoveryStates \cup {NoRecovery}]
  BY DEF SaveRecovery, TypeOK

\* The steps of _rollback are well typed.
LEMMA TypeRollback ==
    ASSUME TypeOK, CopiesCurrent, NEW w \in Worker, Rollback(w)
    PROVE  TypeOK'
  <1>1. worker[w].at \in Busy
    BY DEF Rollback, ModeForbidsUndo, CannotUndo, Escalate, CreateUndo, ClaimUndo,
           RecordReleasing, ConfirmUndo, CallUndo, UndoResult, UndoAmbiguous,
           UndoPartial, UndoReadback, UndoRecover, UndoCommit, UndoOriginal,
           UndoComplete, UndoResolve, UndoOutcome, At, Busy, UndoSteps, UndoPreCall
  <1>2. /\ Act(w) \in Action /\ Inc(w) \in Incident
        /\ action[Act(w)] \in ActionRecord /\ undo[Act(w)] \in UndoRecord
        /\ undo[Act(w)].version \in Nat
    BY <1>1, BusyFacts DEF UndoRecord
  <1>3. {"escalate", "undoClaim", "undoRecord", "undoConfirm", "undoCall", "undoResult",
         "undoAmbiguous", "undoPartial", "undoReadback", "undoRecover", "undoCommit",
         "undoOriginal", "undoComplete", "undoResolve", "undoOutcome"} \subseteq Places
    BY DEF Places, Busy, UndoSteps, UndoPreCall
  <1>4. {"SENT", "ACKNOWLEDGED", "FAILED", "OUTCOME_UNKNOWN", "RECONCILIATION_REQUIRED",
         "ROLLED_BACK", "READY"} \subseteq ActionStates
    BY DEF ActionStates
  <1>5. /\ worker \in [Worker -> WorkerRecord] /\ action \in [Action -> ActionRecord]
        /\ incident \in [Incident -> IncidentRecord] /\ undo \in [Action -> UndoRecord]
    BY DEF TypeOK
  <1>6. {"FAILED", "RELEASING", "PARTIAL", "COMPLETE"} \subseteq RecoveryStates
    BY DEF RecoveryStates
  <1>7. ASSUME UNCHANGED <<verdict, lease, allowed, reserved, provider, row, used,
                           status, configured>>,
               action' \in [Action -> ActionRecord], undo' \in [Action -> UndoRecord],
               incident' \in [Incident -> IncidentRecord],
               recovery' \in [Incident -> RecoveryStates \cup {NoRecovery}],
               worker' \in [Worker -> WorkerRecord]
        PROVE  TypeOK'
    BY <1>7 DEF TypeOK
  <1>10. CASE ModeForbidsUndo(w)
    BY <1>10, <1>5, ReturnEffect DEF ModeForbidsUndo, TypeOK, durable, outside
  <1>11. CASE CannotUndo(w)
    BY <1>11, <1>3, <1>5, <1>6, <1>7, GoToEffect, SaveRecoveryEffect
       DEF CannotUndo, outside
  <1>12. CASE Escalate(w)
    <2>1. incident' \in [Incident -> IncidentRecord]
      BY <1>12, <1>2, <1>5, MoveIncidentEffect DEF Escalate, IncidentStates
    <2> QED BY <1>12, <2>1, <1>5, ReturnEffect DEF Escalate, TypeOK, outside
  <1>13. CASE CreateUndo(w)
    <2>1. worker' \in [Worker -> WorkerRecord]
      <3>1. ASSUME NEW v \in Nat,
                   worker' = [worker EXCEPT ![w].held = v, ![w].at = "undoClaim"]
            PROVE  worker' \in [Worker -> WorkerRecord]
        BY <3>1, <1>3, <1>5, HoldEffect
      <3>2. CASE Return(w)  BY <3>2, <1>5, ReturnEffect
      <3> QED BY <3>1, <3>2, <1>2, <1>13 DEF CreateUndo
    <2>2. undo' \in [Action -> UndoRecord]
      <3>1. /\ [state |-> "READY", version |-> 0] \in UndoRecord
            /\ [state |-> "OUTCOME_UNKNOWN", version |-> undo[Act(w)].version + 1]
                   \in UndoRecord
        BY <1>2, <1>4 DEF UndoRecord
      <3> QED BY <3>1, <1>5, <1>13 DEF CreateUndo
    <2> QED BY <1>13, <2>1, <2>2, <1>7, <1>5 DEF CreateUndo, TypeOK, outside
  <1>14. CASE ClaimUndo(w)
    <2>1. worker' \in [Worker -> WorkerRecord]
      BY <1>14, <1>2, <1>3, <1>4, <1>5, UpdateUndoAndGoEffect, ReturnEffect DEF ClaimUndo
    <2>2. undo' \in [Action -> UndoRecord]
      BY <1>14, <1>2, <1>4, <1>5, UpdateUndoEffect DEF ClaimUndo, UpdateUndoAndGo
    <2> QED BY <1>14, <2>1, <2>2 DEF ClaimUndo, TypeOK, outside
  <1>15. CASE RecordReleasing(w)
    <2>1. worker' \in [Worker -> WorkerRecord]
      BY <1>15, <1>3, <1>5, GoToEffect DEF RecordReleasing
    <2>2. recovery' \in [Incident -> RecoveryStates \cup {NoRecovery}]
      BY <1>15, <1>6, SaveRecoveryEffect DEF RecordReleasing
    <2> QED BY <1>15, <2>1, <2>2 DEF RecordReleasing, TypeOK, outside
  <1>16. CASE ConfirmUndo(w)
    <2>1. worker' \in [Worker -> WorkerRecord]
      BY <1>16, <1>3, <1>5, GoToEffect, ReturnEffect DEF ConfirmUndo
    <2>2. undo' \in [Action -> UndoRecord]
      BY <1>16, <1>2, <1>4, <1>5, UpdateUndoEffect DEF ConfirmUndo
    <2> QED BY <1>16, <2>1, <2>2 DEF ConfirmUndo, TypeOK, outside
  <1>17. CASE CallUndo(w)
    <2>1. PICK answer \in {"ACCEPTED", "FAILED", "AMBIGUOUS"}, released \in BOOLEAN :
             /\ provider' = [provider EXCEPT ![Act(w)] = Released(@, released)]
             /\ worker' = [worker EXCEPT ![w].got = answer, ![w].at = "undoResult"]
      BY <1>17 DEF CallUndo
    <2>2. worker' \in [Worker -> WorkerRecord]
      <3>1. answer \in Verdicts \cup ProviderAnswers /\ "undoResult" \in Places
        BY <2>1, <1>3 DEF ProviderAnswers
      <3> QED BY <2>1, <3>1, <1>5, AnswerEffect
    <2>3. Released(provider[Act(w)], released) \in ProviderRecord
      BY <1>2 DEF Released, ProviderRecord, TypeOK
    <2>4. provider' \in [Action -> ProviderRecord]
      BY <2>1, <2>3 DEF TypeOK
    <2> QED BY <1>17, <2>2, <2>4 DEF CallUndo, TypeOK, durable
  <1>18. CASE UndoResult(w)
    <2>1. worker' \in [Worker -> WorkerRecord]
      BY <1>18, <1>2, <1>3, <1>4, <1>5, UpdateUndoAndGoEffect, ReturnEffect DEF UndoResult
    <2>2. undo' \in [Action -> UndoRecord]
      BY <1>18, <1>2, <1>4, <1>5, UpdateUndoEffect DEF UndoResult, UpdateUndoAndGo
    <2> QED BY <1>18, <2>1, <2>2 DEF UndoResult, TypeOK, outside
  <1>19. CASE UndoAmbiguous(w)
    <2>1. worker' \in [Worker -> WorkerRecord]
      BY <1>19, <1>3, <1>5, GoToEffect DEF UndoAmbiguous
    <2>2. incident' \in [Incident -> IncidentRecord]
      BY <1>19, <1>2, <1>5, MoveIncidentEffect DEF UndoAmbiguous, IncidentStates
    <2> QED BY <1>19, <2>1, <2>2 DEF UndoAmbiguous, TypeOK, outside
  <1>20. CASE UndoPartial(w)
    <2>1. worker' \in [Worker -> WorkerRecord]
      BY <1>20, <1>5, ReturnEffect DEF UndoPartial
    <2>2. recovery' \in [Incident -> RecoveryStates \cup {NoRecovery}]
      BY <1>20, <1>6, SaveRecoveryEffect DEF UndoPartial
    <2> QED BY <1>20, <2>1, <2>2 DEF UndoPartial, TypeOK, outside
  <1>21. CASE UndoReadback(w)
    <2>1. PICK answer \in {"VERIFIED", "UNAVAILABLE"} :
             worker' = [worker EXCEPT ![w].got = answer, ![w].at = "undoRecover"]
      BY <1>21 DEF UndoReadback
    <2>2. worker' \in [Worker -> WorkerRecord]
      <3>1. answer \in Verdicts \cup ProviderAnswers /\ "undoRecover" \in Places
        BY <2>1, <1>3 DEF ProviderAnswers
      <3> QED BY <2>1, <3>1, <1>5, AnswerEffect
    <2> QED BY <1>21, <2>2 DEF UndoReadback, TypeOK, durable, outside
  <1>22. CASE UndoRecover(w)
    <2>1. worker' \in [Worker -> WorkerRecord]
      BY <1>22, <1>3, <1>5, GoToEffect DEF UndoRecover
    <2>2. incident' \in [Incident -> IncidentRecord]
      BY <1>22, <1>2, <1>5, MoveIncidentEffect DEF UndoRecover, IncidentStates
    <2> QED BY <1>22, <2>1, <2>2 DEF UndoRecover, TypeOK, outside
  <1>23. CASE UndoCommit(w)
    <2>1. worker' \in [Worker -> WorkerRecord]
      BY <1>23, <1>2, <1>3, <1>4, <1>5, UpdateUndoAndGoEffect DEF UndoCommit
    <2>2. undo' \in [Action -> UndoRecord]
      BY <1>23, <1>2, <1>4, <1>5, UpdateUndoEffect DEF UndoCommit, UpdateUndoAndGo
    <2> QED BY <1>23, <2>1, <2>2 DEF UndoCommit, TypeOK, outside
  <1>24. CASE UndoOriginal(w)
    <2>1. worker' \in [Worker -> WorkerRecord]
      BY <1>24, <1>3, <1>5, GoToEffect DEF UndoOriginal
    <2>2. Written(action[Act(w)], "ROLLED_BACK") \in ActionRecord
      BY <1>2, <1>4, WrittenEffect
    <2>3. action' \in [Action -> ActionRecord]
      BY <1>24, <2>2, <1>5 DEF UndoOriginal
    <2> QED BY <1>24, <2>1, <2>3 DEF UndoOriginal, TypeOK, outside
  <1>25. CASE UndoComplete(w)
    <2>1. worker' \in [Worker -> WorkerRecord]
      BY <1>25, <1>3, <1>5, GoToEffect DEF UndoComplete
    <2>2. recovery' \in [Incident -> RecoveryStates \cup {NoRecovery}]
      BY <1>25, <1>6, SaveRecoveryEffect DEF UndoComplete
    <2> QED BY <1>25, <2>1, <2>2 DEF UndoComplete, TypeOK, outside
  <1>26. CASE UndoResolve(w)
    <2>1. worker' \in [Worker -> WorkerRecord]
      BY <1>26, <1>3, <1>5, GoToEffect, ReturnEffect DEF UndoResolve
    <2>2. incident' \in [Incident -> IncidentRecord]
      BY <1>26, <1>2, <1>5, MoveIncidentEffect DEF UndoResolve, IncidentStates
    <2> QED BY <1>26, <2>1, <2>2 DEF UndoResolve, TypeOK, outside
  <1>27. CASE UndoOutcome(w)
    <2>1. worker' \in [Worker -> WorkerRecord]
      BY <1>27, <1>5, ReturnEffect DEF UndoOutcome
    <2>2. incident' \in [Incident -> IncidentRecord]
      BY <1>27, <1>5 DEF UndoOutcome, IncidentRecord
    <2> QED BY <1>27, <2>1, <2>2 DEF UndoOutcome, TypeOK, outside
  <1> QED
    BY <1>10, <1>11, <1>12, <1>13, <1>14, <1>15, <1>16, <1>17, <1>18, <1>19, <1>20,
       <1>21, <1>22, <1>23, <1>24, <1>25, <1>26, <1>27
       DEF Rollback

\* An exception puts the executor to rest and changes nothing durable.
LEMMA RaiseEffect ==
    ASSUME TypeOK, NEW w \in Worker, Raise(w)
    PROVE  /\ worker' \in [Worker -> WorkerRecord]
           /\ Others(w)
           /\ worker'[w].at = "idle"
           /\ row' \in [Incident -> RowRecord]
           /\ UNCHANGED <<durable, provider, status, configured>>
  <1>1. [state |-> "PENDING", owner |-> None] \in RowRecord
    BY DEF RowRecord
  <1>2. worker' \in [Worker -> WorkerRecord] /\ Others(w) /\ worker'[w].at = "idle"
    BY IdleType DEF Raise, TypeOK, Others, IdleWorker
  <1>3. row' \in [Incident -> RowRecord]
    BY <1>1 DEF Raise, TypeOK
  <1> QED BY <1>2, <1>3 DEF Raise

\* What an executor's copy is when it takes up an action.
LEMMA DispatchEffect ==
    ASSUME TypeOK, NEW w \in Worker, Dispatch(w)
    PROVE  /\ UNCHANGED <<durable, outside>>
           /\ worker' \in [Worker -> WorkerRecord]
           /\ Others(w)
           /\ \/ worker'[w].at = "next"
              \/ /\ worker'[w].act \in Action
                 /\ worker'[w].seen = action[worker'[w].act]
                 /\ \E operating \in BOOLEAN : worker'[w].at = Route(worker'[w].act, operating)
                 /\ worker'[w].at \in {"reconcile", "verify", "undo", "own", "block"}
  <1>1. PICK a \in worker[w].todo, operating \in BOOLEAN :
          worker' = IF Route(a, operating) = "return"
                    THEN [worker EXCEPT ![w].todo = worker[w].todo \ {a}]
                    ELSE [worker EXCEPT ![w] = Taking(w, a, Route(a, operating))]
    BY DEF Dispatch
  <1>2. /\ worker[w] \in WorkerRecord /\ a \in Action /\ action[a] \in ActionRecord
        /\ worker[w].todo \ {a} \in SUBSET Action /\ worker[w].at = "next"
    BY DEF TypeOK, WorkerRecord, Dispatch, At
  <1>3. CASE Route(a, operating) = "return"
    <2>1. worker' = [worker EXCEPT ![w].todo = worker[w].todo \ {a}]
      BY <1>1, <1>3
    <2> QED BY <2>1, <1>2 DEF TypeOK, WorkerRecord, Others, Dispatch
  <1>4. CASE Route(a, operating) # "return"
    <2> DEFINE place == Route(a, operating)
    <2>1. worker' = [worker EXCEPT ![w] = Taking(w, a, place)]
      BY <1>1, <1>4
    <2>2. place \in {"reconcile", "verify", "undo", "own", "block"}
      BY <1>4 DEF Route
    <2>3. place \in Places
      BY <2>2 DEF Places, Busy, ClaimSteps, VerifySteps, ReconcileSteps, UndoSteps
    <2> HIDE DEF place
    <2>4. Taking(w, a, place) \in WorkerRecord
      BY <2>3, <1>2 DEF Taking, WorkerRecord, Verdicts
    <2>5. /\ Taking(w, a, place).act = a /\ Taking(w, a, place).seen = action[a]
          /\ Taking(w, a, place).at = place
      BY DEF Taking
    <2>6. worker' \in [Worker -> WorkerRecord] /\ Others(w) /\ worker'[w] = Taking(w, a, place)
      BY <2>1, <2>4 DEF TypeOK, Others
    <2>7. worker'[w].at = Route(worker'[w].act, operating)
      BY <2>5, <2>6 DEF place
    <2>8. UNCHANGED <<durable, outside>>
      BY DEF Dispatch
    <2> QED BY <2>2, <2>5, <2>6, <2>7, <2>8, <1>2
  <1> QED BY <1>3, <1>4

\* mark_restart_unknown rewrites SENT to OUTCOME_UNKNOWN and nothing else.
LEMMA MarkRestartUnknownEffect ==
    ASSUME TypeOK, MarkRestartUnknown
    PROVE  /\ action' \in [Action -> ActionRecord]
           /\ undo' \in [Action -> UndoRecord]
           /\ \A a \in Action :
                 /\ \/ action'[a] = action[a]
                    \/ /\ action[a].state = "SENT"
                       /\ action'[a].state = "OUTCOME_UNKNOWN"
                       /\ action'[a].version = action[a].version + 1
                 /\ \/ undo'[a] = undo[a]
                    \/ /\ undo[a].state = "SENT"
                       /\ undo'[a].state = "OUTCOME_UNKNOWN"
                       /\ undo'[a].version = undo[a].version + 1
  <1>1. "OUTCOME_UNKNOWN" \in ActionStates
    BY DEF ActionStates
  <1>2. ASSUME NEW a \in Action
        PROVE  /\ Written(action[a], "OUTCOME_UNKNOWN") \in ActionRecord
               /\ Written(action[a], "OUTCOME_UNKNOWN").state = "OUTCOME_UNKNOWN"
               /\ Written(action[a], "OUTCOME_UNKNOWN").version = action[a].version + 1
               /\ [state |-> "OUTCOME_UNKNOWN", version |-> undo[a].version + 1]
                     \in UndoRecord
    <2>1. action[a] \in ActionRecord /\ undo[a] \in UndoRecord
      BY DEF TypeOK
    <2> QED BY <1>1, <2>1, WrittenEffect DEF UndoRecord
  <1> QED BY <1>2 DEF MarkRestartUnknown, TypeOK

\* Every step preserves the types.
LEMMA TypeStep ==
    ASSUME TypeOK, CopiesCurrent, CopiesFit, [Next]_vars
    PROVE  TypeOK'
  <1>1. CASE UNCHANGED vars
    BY <1>1 DEF vars, durable, outside, TypeOK
  <1>2. ASSUME NEW w \in Worker, NEW i \in Incident, Deliver(w, i)  PROVE TypeOK'
    <2>1. [state |-> "CLAIMED", owner |-> w] \in RowRecord
      BY DEF RowRecord
    <2>2. [IdleWorker EXCEPT !.at = "next", !.inc = i, !.todo = ActionsOf(i)] \in WorkerRecord
      BY IdleType, PlaceFacts DEF WorkerRecord, ActionsOf
    <2>3. used' \in [deliveries : [Incident -> Nat], faults : Nat, restarts : Nat]
      BY <1>2 DEF Deliver, TypeOK
    <2>4. worker' \in [Worker -> WorkerRecord] /\ row' \in [Incident -> RowRecord]
      BY <2>1, <2>2, <1>2 DEF Deliver, TypeOK
    <2> QED BY <2>3, <2>4, <1>2 DEF Deliver, TypeOK, durable
  <1>3. ASSUME NEW w \in Worker, Step(w)  PROVE TypeOK'
    <2>1. CASE Acknowledge(w)
      <3>1. [state |-> "SENT", owner |-> None] \in RowRecord
        BY DEF RowRecord
      <3>2. worker' \in [Worker -> WorkerRecord] /\ row' \in [Incident -> RowRecord]
        BY <2>1, <3>1, IdleType DEF Acknowledge, TypeOK
      <3> QED BY <2>1, <3>2 DEF Acknowledge, TypeOK, durable
    <2>2. CASE Conflict(w)
      BY <2>2, RaiseEffect DEF Conflict, TypeOK, durable
    <2>3. CASE Dispatch(w)
      BY <2>3, DispatchEffect DEF TypeOK, durable, outside
    <2> QED BY <1>3, <2>1, <2>2, <2>3, TypeExecute, TypeVerify, TypeRollback DEF Step
  <1>4. ASSUME NEW w \in Worker, Fault(w)  PROVE TypeOK'
    <2>1. used' \in [deliveries : [Incident -> Nat], faults : Nat, restarts : Nat]
      BY <1>4 DEF Fault, TypeOK
    <2> QED BY <2>1, <1>4, RaiseEffect DEF Fault, TypeOK, durable
  <1>5. CASE Reconstruct
    BY <1>5, MarkRestartUnknownEffect DEF Reconstruct, TypeOK
  <1>6. CASE Environment
    <2>1. ASSUME NEW i \in Incident, Withdraw(i)  PROVE TypeOK'
      BY <2>1 DEF Withdraw, TypeOK
    <2>2. ASSUME NEW r \in Resource, Expire(r)  PROVE TypeOK'
      <3>1. lease' \in [Resource -> LeaseRecord]
        BY <2>2 DEF Expire, TypeOK, LeaseRecord
      <3> QED BY <2>2, <3>1 DEF Expire, TypeOK
    <2>3. ASSUME NEW a \in Action, Lapse(a)  PROVE TypeOK'
      <3>1. provider' \in [Action -> ProviderRecord]
        BY <2>3 DEF Lapse, TypeOK, ProviderRecord
      <3> QED BY <2>3, <3>1 DEF Lapse, TypeOK, durable
    <2>4. CASE Crash
      <3>1. used' \in [deliveries : [Incident -> Nat], faults : Nat, restarts : Nat]
        BY <2>4 DEF Crash, TypeOK
      <3> QED BY <2>4, <3>1, IdleType DEF Crash, TypeOK, durable
    <2>5. CASE Overlap
      <3>1. used' \in [deliveries : [Incident -> Nat], faults : Nat, restarts : Nat]
        BY <2>5 DEF Overlap, TypeOK
      <3> QED BY <2>5, <3>1, MarkRestartUnknownEffect DEF Overlap, TypeOK
    <2> QED BY <1>6, <2>1, <2>2, <2>3, <2>4, <2>5 DEF Environment
  <1> QED BY <1>1, <1>2, <1>3, <1>4, <1>5, <1>6 DEF Next

(***************************************************************************)
(* Copies and legal moves.                                                 *)
(***************************************************************************)
\* A legal move takes the version forward and never back to READY.
LEMMA LegalAdvance ==
    ASSUME NEW a, LegalAction(a)
    PROVE  \/ action'[a] = action[a]
           \/ /\ action'[a].version = action[a].version + 1
              /\ action'[a].state # "READY"
  BY DEF LegalAction, ActionMoves

\* One executor's step leaves the other executors' copies as good as they were.
LEMMA OthersKeepCopies ==
    ASSUME TypeOK, CopiesCurrent, CopiesFit, NEW w \in Worker, Others(w),
           \A a \in Action : LegalAction(a), CopyCurrent(w)', CopyFits(w)'
    PROVE  CopiesCurrent' /\ CopiesFit'
  <1>1. ASSUME NEW v \in Worker, v # w  PROVE CopyCurrent(v)' /\ CopyFits(v)'
    <2>1. worker'[v] = worker[v] /\ CopyCurrent(v) /\ CopyFits(v)
      BY <1>1 DEF Others, CopiesCurrent, CopiesFit
    <2>2. CopyFits(v)'
      BY <2>1 DEF CopyFits, At
    <2>3. ASSUME worker[v].at \in Busy  PROVE CopyCurrent(v)'
      <3>1. /\ Act(v) \in Action /\ Act(v)' = Act(v)
            /\ worker[v].seen.version <= action[Act(v)].version
            /\ Current(v) => worker[v].seen = action[Act(v)]
        BY <2>1, <2>3 DEF CopyCurrent, Act
      <3>2. /\ worker[v].seen.version \in Nat /\ action[Act(v)].version \in Nat
        BY <3>1 DEF TypeOK, WorkerRecord, ActionRecord
      <3>3. \/ action'[Act(v)] = action[Act(v)]
            \/ action'[Act(v)].version = action[Act(v)].version + 1
        BY <3>1, LegalAdvance
      <3> QED BY <2>1, <3>1, <3>2, <3>3 DEF CopyCurrent, Current
    <2> QED BY <2>1, <2>2, <2>3 DEF CopyCurrent
  <1> QED BY <1>1 DEF CopiesCurrent, CopiesFit

\* An executor that returns, or gives up, holds no copy.
LEMMA RestCopies ==
    ASSUME NEW w \in Worker, worker'[w].at \in {"idle", "next"}
    PROVE  CopyCurrent(w)' /\ CopyFits(w)'
  BY DEF CopyCurrent, CopyFits, At, Busy, ClaimSteps, PreCall, ResultSteps,
         VerifySteps, ReconcileSteps, UndoSteps, UndoPreCall

\* An executor that keeps its copy keeps it good.
LEMMA KeptCopies ==
    ASSUME TypeOK, CopiesCurrent, NEW w \in Worker, worker[w].at \in Busy,
           \A a \in Action : LegalAction(a),
           worker'[w].act = worker[w].act, worker'[w].seen = worker[w].seen
    PROVE  CopyCurrent(w)'
  <1>1. /\ Act(w) \in Action /\ Act(w)' = Act(w)
        /\ worker[w].seen.version <= action[Act(w)].version
        /\ Current(w) => worker[w].seen = action[Act(w)]
    BY DEF CopiesCurrent, CopyCurrent, Act
  <1>2. /\ worker[w].seen.version \in Nat /\ action[Act(w)].version \in Nat
    BY <1>1 DEF TypeOK, WorkerRecord, ActionRecord
  <1>3. \/ action'[Act(w)] = action[Act(w)]
        \/ action'[Act(w)].version = action[Act(w)].version + 1
    BY <1>1, LegalAdvance
  <1> QED BY <1>1, <1>2, <1>3 DEF CopyCurrent, Current

\* An executor that has just read or written the action holds the record.
LEMMA FreshCopies ==
    ASSUME TypeOK', NEW w \in Worker, worker'[w].act \in Action,
           worker'[w].seen = action'[worker'[w].act]
    PROVE  CopyCurrent(w)'
  <1>1. action'[worker'[w].act].version \in Nat
    BY DEF TypeOK, ActionRecord
  <1> QED BY <1>1 DEF CopyCurrent, Act

\* A compare-and-swap that succeeds makes the move its copy's state allows.
LEMMA UpdateLegal ==
    ASSUME TypeOK, CopiesCurrent, NEW w \in Worker, worker[w].at \in Busy,
           NEW s \in ActionStates, UpdateAction(w, s),
           <<worker[w].seen.state, s>> \in ActionMoves
    PROVE  \A a \in Action : LegalAction(a)
  <1>1. Act(w) \in Action /\ worker[w].seen \in ActionRecord
    BY BusyFacts
  <1>2. /\ Current(w) /\ action'[Act(w)] = Written(worker[w].seen, s)
        /\ \A a \in Action \ {Act(w)} : action'[a] = action[a]
    BY <1>1, UpdateActionEffect DEF TypeOK
  <1>3. worker[w].seen = action[Act(w)]
    BY <1>2 DEF CopiesCurrent, CopyCurrent
  <1>4. LegalAction(Act(w))
    BY <1>1, <1>2, <1>3, WrittenEffect DEF LegalAction
  <1> QED BY <1>2, <1>4 DEF LegalAction

\* A step that does not write the actions moves them legally.
LEMMA UnchangedLegal ==
    ASSUME UNCHANGED action
    PROVE  \A a \in Action : LegalAction(a)
  BY DEF LegalAction

\* At these places nothing is asked of the copy.
FreePlaces ==
    {"idle", "next", "block", "blockIncident", "own", "recheck", "recordFailure",
     "resolve", "outcome", "release"} \cup UndoSteps

\* A copy held at a free place fits.
LEMMA FreeFits ==
    ASSUME NEW w \in Worker, worker'[w].at \in FreePlaces
    PROVE  CopyFits(w)'
  BY DEF CopyFits, At, FreePlaces, PreCall, ReconcileSteps, UndoSteps, UndoPreCall

CopiesKept(w) ==
    /\ Others(w)
    /\ \A a \in Action : LegalAction(a)
    /\ CopyCurrent(w)'
    /\ CopyFits(w)'

\* Returning keeps the copies sound.
LEMMA ReturnKeeps ==
    ASSUME TypeOK, NEW w \in Worker, Return(w), \A a \in Action : LegalAction(a)
    PROVE  CopiesKept(w)
  BY ReturnEffect, RestCopies DEF TypeOK, CopiesKept

\* So does going on to a free place.
LEMMA GoToKeeps ==
    ASSUME TypeOK, CopiesCurrent, NEW w \in Worker, worker[w].at \in Busy,
           NEW place \in Places \cap FreePlaces, GoTo(w, place),
           \A a \in Action : LegalAction(a)
    PROVE  CopiesKept(w)
  BY GoToEffect, KeptCopies, FreeFits DEF TypeOK, CopiesKept

\* A compare-and-swap from a copy that fits is a legal move, and its result is a current copy.
LEMMA UpdateAndGoKeeps ==
    ASSUME TypeOK, TypeOK', CopiesCurrent, NEW w \in Worker, worker[w].at \in Busy,
           NEW s \in ActionStates, NEW place \in Places, UpdateAndGo(w, s, place),
           <<worker[w].seen.state, s>> \in ActionMoves
    PROVE  /\ Others(w)
           /\ \A a \in Action : LegalAction(a)
           /\ CopyCurrent(w)'
           /\ worker'[w].at = place
           /\ worker'[w].seen.state = s
  <1>1. Act(w) \in Action /\ worker[w].seen \in ActionRecord
    BY BusyFacts
  <1>2. /\ UpdateAction(w, s) /\ Others(w) /\ worker'[w].at = place
        /\ worker'[w].act = worker[w].act
        /\ worker'[w].seen = Written(worker[w].seen, s)
    BY <1>1, UpdateAndGoEffect DEF TypeOK
  <1>3. action'[Act(w)] = Written(worker[w].seen, s)
    BY <1>1, <1>2, UpdateActionEffect DEF TypeOK
  <1>4. CopyCurrent(w)'
    BY <1>1, <1>2, <1>3, FreshCopies DEF Act
  <1>5. worker'[w].seen.state = s
    BY <1>1, <1>2, WrittenEffect
  <1> QED BY <1>2, <1>4, <1>5, UpdateLegal

\* A write from the record itself rather than from the copy.
LEMMA RewriteLegal ==
    ASSUME TypeOK, NEW a \in Action, NEW s \in ActionStates,
           <<action[a].state, s>> \in ActionMoves,
           action' = [action EXCEPT ![a] = Written(@, s)]
    PROVE  \A b \in Action : LegalAction(b)
  <1>1. action[a] \in ActionRecord
    BY DEF TypeOK
  <1> QED BY <1>1, WrittenEffect DEF LegalAction, TypeOK

\* execute_ready_action keeps the copies sound.
LEMMA CopiesExecute ==
    ASSUME TypeOK, TypeOK', CopiesCurrent, CopiesFit, NEW w \in Worker,
           ExecuteReadyAction(w), ~Dispatch(w)
    PROVE  CopiesKept(w)
  <1>1. worker[w].at \in Busy
    BY DEF ExecuteReadyAction, Block, BlockIncident, Own, Recheck, Claim,
           Confirm, Reserve, CallProvider, Result, RecordFailure, At, Busy,
           ClaimSteps, PreCall, ResultSteps
  <1>2. Act(w) \in Action /\ CopyCurrent(w) /\ CopyFits(w)
    BY <1>1, BusyFacts DEF CopiesCurrent, CopiesFit
  <1>3. {"block", "blockIncident", "recheck", "claim", "confirm", "reserve", "call",
         "result", "recordFailure", "verify"} \subseteq Places
    BY DEF Places, Busy, ClaimSteps, PreCall, ResultSteps, VerifySteps
  <1>4. {"FAILED", "SENT", "OUTCOME_UNKNOWN", "ACKNOWLEDGED"} \subseteq ActionStates
    BY DEF ActionStates
  <1>5. {"block", "blockIncident", "recheck", "recordFailure"} \subseteq FreePlaces
    BY DEF FreePlaces
  <1>6. /\ <<"READY", "SENT">> \in ActionMoves /\ <<"READY", "FAILED">> \in ActionMoves
        /\ <<"SENT", "FAILED">> \in ActionMoves
        /\ <<"SENT", "OUTCOME_UNKNOWN">> \in ActionMoves
        /\ <<"SENT", "ACKNOWLEDGED">> \in ActionMoves
    BY DEF ActionMoves
  <1>7. worker \in [Worker -> WorkerRecord]
    BY DEF TypeOK
  <1>10. CASE Block(w)
    <2>1. \A a \in Action : LegalAction(a)
      <3>1. CASE action[Act(w)].state = "READY"
        BY <3>1, <1>10, <1>2, <1>4, <1>6, RewriteLegal DEF Block
      <3>2. CASE action[Act(w)].state # "READY"
        BY <3>2, <1>10, UnchangedLegal DEF Block
      <3> QED BY <3>1, <3>2
    <2> QED BY <2>1, <1>10, <1>1, <1>3, <1>5, GoToKeeps DEF Block
  <1>11. CASE BlockIncident(w)
    BY <1>11, UnchangedLegal, ReturnKeeps DEF BlockIncident
  <1>12. CASE Own(w)
    BY <1>12, <1>1, <1>3, <1>5, UnchangedLegal, GoToKeeps DEF Own
  <1>13. CASE Recheck(w)
    <2>1. \A a \in Action : LegalAction(a)
      BY <1>13, UnchangedLegal DEF Recheck
    <2>2. CASE Return(w)  BY <2>1, <2>2, ReturnKeeps
    <2>3. CASE GoTo(w, "block")  BY <2>1, <2>3, <1>1, <1>3, <1>5, GoToKeeps
    <2>4. CASE /\ action[Act(w)].state = "READY"
               /\ worker' = [worker EXCEPT ![w].seen = action[Act(w)], ![w].at = "claim"]
      <3>1. /\ Others(w) /\ worker'[w].at = "claim" /\ worker'[w].act = Act(w)
            /\ worker'[w].seen = action[Act(w)]
        BY <2>4, <1>7 DEF Others, Act, WorkerRecord
      <3>2. CopyCurrent(w)'
        BY <3>1, <1>2, <1>13, FreshCopies DEF Recheck
      <3>3. CopyFits(w)'
        BY <3>1, <2>4 DEF CopyFits, At, PreCall, ReconcileSteps
      <3> QED BY <2>1, <3>1, <3>2, <3>3 DEF CopiesKept
    <2> QED BY <2>2, <2>3, <2>4, <1>13 DEF Recheck
  <1>14. CASE Claim(w)
    <2>1. worker[w].seen.state = "READY" /\ UpdateAndGo(w, "SENT", "confirm")
      BY <1>14, <1>2 DEF Claim, CopyFits
    <2>2. /\ Others(w) /\ CopyCurrent(w)'
          /\ \A a \in Action : LegalAction(a)
          /\ worker'[w].at = "confirm" /\ worker'[w].seen.state = "SENT"
      BY <2>1, <1>1, <1>3, <1>4, <1>6, UpdateAndGoKeeps
    <2>3. CopyFits(w)'
      BY <2>2 DEF CopyFits, At, PreCall, ReconcileSteps
    <2> QED BY <2>2, <2>3 DEF CopiesKept
  <1>15. CASE Confirm(w)
    <2>1. worker[w].seen.state = "SENT"
      BY <1>15, <1>2 DEF Confirm, CopyFits, At, PreCall
    <2>2. \A a \in Action : LegalAction(a)
      <3>1. CASE UpdateAction(w, "OUTCOME_UNKNOWN")
        BY <3>1, <2>1, <1>1, <1>4, <1>6, UpdateLegal
      <3>2. CASE UNCHANGED action
        BY <3>2, UnchangedLegal
      <3>3. CASE /\ action[Act(w)].state = "SENT"
                 /\ action' = [action EXCEPT ![Act(w)] = Written(@, "FAILED")]
        BY <3>3, <1>2, <1>4, <1>6, RewriteLegal
      <3> QED BY <3>1, <3>2, <3>3, <1>15 DEF Confirm
    <2>3. CASE Return(w)  BY <2>2, <2>3, ReturnKeeps
    <2>4. CASE GoTo(w, "reserve")
      <3>1. /\ Others(w) /\ worker'[w].at = "reserve"
            /\ worker'[w].act = worker[w].act /\ worker'[w].seen = worker[w].seen
        BY <2>4, <1>3, <1>7, GoToEffect
      <3>2. CopyFits(w)'
        BY <3>1, <2>1 DEF CopyFits, At, PreCall, ReconcileSteps
      <3> QED BY <2>2, <3>1, <3>2, <1>1, KeptCopies DEF CopiesKept
    <2> QED BY <2>3, <2>4, <1>15 DEF Confirm
  <1>16. CASE Reserve(w)
    <2>1. worker[w].seen.state = "SENT"
      BY <1>16, <1>2 DEF Reserve, CopyFits, At, PreCall
    <2>2. \A a \in Action : LegalAction(a)
      BY <2>1, <1>1, <1>4, <1>6, <1>16, UpdateLegal, UnchangedLegal DEF Reserve
    <2>3. CASE Return(w)  BY <2>2, <2>3, ReturnKeeps
    <2>4. CASE GoTo(w, "call")
      <3>1. /\ Others(w) /\ worker'[w].at = "call"
            /\ worker'[w].act = worker[w].act /\ worker'[w].seen = worker[w].seen
        BY <2>4, <1>3, <1>7, GoToEffect
      <3>2. CopyFits(w)'
        BY <3>1, <2>1 DEF CopyFits, At, PreCall, ReconcileSteps
      <3> QED BY <2>2, <3>1, <3>2, <1>1, KeptCopies DEF CopiesKept
    <2> QED BY <2>3, <2>4, <1>16 DEF Reserve
  <1>17. CASE CallProvider(w)
    <2>1. worker[w].seen.state = "SENT"
      BY <1>17, <1>2 DEF CallProvider, CopyFits, At, PreCall
    <2>2. \A a \in Action : LegalAction(a)
      BY <1>17, UnchangedLegal DEF CallProvider, durable
    <2>3. /\ Others(w) /\ worker'[w].at = "result"
          /\ worker'[w].act = worker[w].act /\ worker'[w].seen = worker[w].seen
      BY <1>17, <1>7 DEF CallProvider, Others, WorkerRecord
    <2>4. CopyFits(w)'
      BY <2>1, <2>3 DEF CopyFits, At, PreCall, ReconcileSteps
    <2> QED BY <2>2, <2>3, <2>4, <1>1, KeptCopies DEF CopiesKept
  <1>18. CASE Result(w)
    <2>1. worker[w].seen.state = "SENT"
      BY <1>18, <1>2 DEF Result, CopyFits, At
    <2>2. CASE /\ Current(w)
               /\ action' = [action EXCEPT ![Act(w)] = Accepted(w)]
               /\ worker' = [worker EXCEPT ![w].seen = Accepted(w), ![w].at = "verify"]
      <3>1. /\ Others(w) /\ worker'[w].at = "verify" /\ worker'[w].act = Act(w)
            /\ worker'[w].seen = Accepted(w)
        BY <2>2, <1>7 DEF Others, Act, WorkerRecord
      <3>2. /\ action'[Act(w)] = Accepted(w)
            /\ \A a \in Action \ {Act(w)} : action'[a] = action[a]
        BY <2>2, <1>2 DEF TypeOK
      <3>3. /\ Accepted(w).state = "ACKNOWLEDGED"
            /\ Accepted(w).version = action[Act(w)].version + 1
            /\ action[Act(w)].state = "SENT"
        BY <2>1, <2>2, <1>1, <1>2 DEF Accepted, CopyCurrent
      <3>4. \A a \in Action : LegalAction(a)
        BY <3>2, <3>3, <1>6 DEF LegalAction
      <3>5. CopyCurrent(w)'
        BY <3>1, <3>2, <1>2, FreshCopies
      <3>6. CopyFits(w)'
        BY <3>1, <3>3 DEF CopyFits, At, PreCall, ReconcileSteps
      <3> QED BY <3>1, <3>4, <3>5, <3>6 DEF CopiesKept
    <2>3. CASE UpdateAndGo(w, "FAILED", "recordFailure")
      <3>1. /\ Others(w) /\ CopyCurrent(w)'
            /\ \A a \in Action : LegalAction(a)
            /\ worker'[w].at = "recordFailure"
        BY <2>1, <2>3, <1>1, <1>3, <1>4, <1>6, UpdateAndGoKeeps
      <3>2. CopyFits(w)'
        BY <3>1, <1>5, FreeFits
      <3> QED BY <3>1, <3>2 DEF CopiesKept
    <2>4. CASE UpdateAction(w, "OUTCOME_UNKNOWN") /\ Return(w)
      BY <2>1, <2>4, <1>1, <1>4, <1>6, UpdateLegal, ReturnKeeps
    <2> QED BY <2>2, <2>3, <2>4, <1>18 DEF Result
  <1>19. CASE RecordFailure(w)
    BY <1>19, UnchangedLegal, ReturnKeeps DEF RecordFailure
  <1> QED
    BY <1>10, <1>11, <1>12, <1>13, <1>14, <1>15, <1>16, <1>17, <1>18, <1>19
       DEF ExecuteReadyAction

\* reconcile_action, _verify_known and _maybe_resolve keep the copies sound.
LEMMA CopiesVerify ==
    ASSUME TypeOK, TypeOK', CopiesCurrent, CopiesFit, NEW w \in Worker, VerifyKnown(w)
    PROVE  CopiesKept(w)
  <1>1. worker[w].at \in Busy
    BY DEF VerifyKnown, Reconcile, Reconciled, Verify, Readback, Record, Publish,
           Commit, Resolve, RecordOutcome, Release, At, Busy, VerifySteps, ReconcileSteps
  <1>2. CopyFits(w)
    BY DEF CopiesFit
  <1>3. {"reconciled", "verify", "readback", "record", "publish", "commit", "resolve",
         "outcome", "release", "undo"} \subseteq Places
    BY DEF Places, Busy, VerifySteps, ReconcileSteps, UndoSteps
  <1>4. {"ACKNOWLEDGED", "FAILED", "RECONCILIATION_REQUIRED", "SUCCESS",
         "ROLLBACK_REQUIRED"} \subseteq ActionStates
    BY DEF ActionStates
  <1>5. {"resolve", "outcome", "release", "undo"} \subseteq FreePlaces
    BY DEF FreePlaces, UndoSteps
  <1>6. worker \in [Worker -> WorkerRecord]
    BY DEF TypeOK
  <1>7. ASSUME NEW place \in {"readback", "publish", "commit"}, GoTo(w, place),
               UNCHANGED action, worker[w].seen.state = "ACKNOWLEDGED",
               place \in {"publish", "commit"} => worker[w].got \in Verdicts
        PROVE  CopiesKept(w)
    <2>1. /\ Others(w) /\ worker'[w].at = place
          /\ worker'[w].act = worker[w].act /\ worker'[w].seen = worker[w].seen
      BY <1>3, <1>6, <1>7, GoToEffect
    <2>2. worker'[w].got = worker[w].got
      BY <1>6, <1>7 DEF GoTo, WorkerRecord
    <2>3. CopyFits(w)'
      BY <2>1, <2>2, <1>7 DEF CopyFits, At, PreCall, ReconcileSteps
    <2> QED BY <2>1, <2>3, <1>1, <1>7, UnchangedLegal, KeptCopies DEF CopiesKept
  <1>8. ASSUME NEW answer, NEW place \in {"reconciled", "record"},
               worker' = [worker EXCEPT ![w].got = answer, ![w].at = place],
               UNCHANGED action,
               place = "reconciled" => At(w, "reconcile"),
               place = "record" => At(w, "readback") /\ answer \in Verdicts
        PROVE  CopiesKept(w)
    <2>1. /\ Others(w) /\ worker'[w].at = place /\ worker'[w].got = answer
          /\ worker'[w].act = worker[w].act /\ worker'[w].seen = worker[w].seen
      BY <1>6, <1>8 DEF Others, WorkerRecord
    <2>2. CopyFits(w)'
      BY <2>1, <1>2, <1>8 DEF CopyFits, At, PreCall, ReconcileSteps
    <2> QED BY <2>1, <2>2, <1>1, <1>8, UnchangedLegal, KeptCopies DEF CopiesKept
  <1>10. CASE Reconcile(w)
    BY <1>8, <1>10 DEF Reconcile, durable
  <1>11. CASE Reconciled(w)
    <2>1. worker[w].seen.state \in {"OUTCOME_UNKNOWN", "RECONCILIATION_REQUIRED"}
      BY <1>2, <1>11 DEF Reconciled, CopyFits, At, ReconcileSteps
    <2>2. /\ <<worker[w].seen.state, "ACKNOWLEDGED">> \in ActionMoves
          /\ <<worker[w].seen.state, "FAILED">> \in ActionMoves
      BY <2>1 DEF ActionMoves
    <2>3. CASE UpdateAndGo(w, "ACKNOWLEDGED", "verify")
      <3>1. /\ Others(w) /\ CopyCurrent(w)'
            /\ \A a \in Action : LegalAction(a)
            /\ worker'[w].at = "verify" /\ worker'[w].seen.state = "ACKNOWLEDGED"
        BY <2>2, <2>3, <1>1, <1>3, <1>4, UpdateAndGoKeeps
      <3>2. CopyFits(w)'
        BY <3>1 DEF CopyFits, At, PreCall, ReconcileSteps
      <3> QED BY <3>1, <3>2 DEF CopiesKept
    <2>4. CASE UpdateAction(w, "FAILED") /\ Return(w)
      BY <2>2, <2>4, <1>1, <1>4, UpdateLegal, ReturnKeeps
    <2>5. CASE StillUnknown(w) /\ UNCHANGED action /\ Return(w)
      BY <2>5, UnchangedLegal, ReturnKeeps
    <2>6. CASE /\ ~StillUnknown(w) /\ worker[w].got = "UNKNOWN"
               /\ UpdateAction(w, "RECONCILIATION_REQUIRED") /\ Return(w)
      <3>1. <<worker[w].seen.state, "RECONCILIATION_REQUIRED">> \in ActionMoves
        BY <2>1, <2>6 DEF StillUnknown, ActionMoves
      <3> QED BY <3>1, <2>6, <1>1, <1>4, UpdateLegal, ReturnKeeps
    <2> QED BY <2>3, <2>4, <2>5, <2>6, <1>11 DEF Reconciled
  <1>12. CASE Verify(w)
    BY <1>2, <1>7, <1>12 DEF Verify, CopyFits, At
  <1>13. CASE Readback(w)
    <2>1. PICK answer \in {"IMPROVED", "RESOURCE", "UNCHANGED", "INSUFFICIENT"} :
             worker' = [worker EXCEPT ![w].got = answer, ![w].at = "record"]
      BY <1>13 DEF Readback
    <2>2. answer \in Verdicts
      BY DEF Verdicts
    <2> QED BY <2>1, <2>2, <1>8, <1>13 DEF Readback, durable
  <1>14. CASE Record(w)
    BY <1>2, <1>7, <1>14 DEF Record, CopyFits, At
  <1>15. CASE Publish(w)
    BY <1>2, <1>7, <1>15 DEF Publish, CopyFits, At
  <1>16. CASE Commit(w)
    <2>1. worker[w].seen.state = "ACKNOWLEDGED"
      BY <1>2, <1>16 DEF Commit, CopyFits, At
    <2>2. /\ <<"ACKNOWLEDGED", "SUCCESS">> \in ActionMoves
          /\ <<"ACKNOWLEDGED", "ROLLBACK_REQUIRED">> \in ActionMoves
          /\ <<"ACKNOWLEDGED", "RECONCILIATION_REQUIRED">> \in ActionMoves
      BY DEF ActionMoves
    <2>3. ASSUME NEW s \in {"SUCCESS", "ROLLBACK_REQUIRED"}, NEW place \in {"resolve", "undo"},
                 UpdateAndGo(w, s, place)
          PROVE  CopiesKept(w)
      <3>1. /\ Others(w) /\ CopyCurrent(w)'
            /\ \A a \in Action : LegalAction(a)
            /\ worker'[w].at = place
        BY <2>1, <2>2, <2>3, <1>1, <1>3, <1>4, UpdateAndGoKeeps
      <3>2. CopyFits(w)'
        BY <3>1, <1>5, FreeFits
      <3> QED BY <3>1, <3>2 DEF CopiesKept
    <2>4. CASE UpdateAction(w, "RECONCILIATION_REQUIRED") /\ Return(w)
      BY <2>1, <2>2, <2>4, <1>1, <1>4, UpdateLegal, ReturnKeeps
    <2> QED BY <2>3, <2>4, <1>16 DEF Commit
  <1>17. CASE Resolve(w)
    BY <1>17, <1>1, <1>3, <1>5, UnchangedLegal, GoToKeeps, ReturnKeeps DEF Resolve
  <1>18. CASE RecordOutcome(w)
    BY <1>18, <1>1, <1>3, <1>5, UnchangedLegal, GoToKeeps DEF RecordOutcome
  <1>19. CASE Release(w)
    <2>1. CASE Return(w)
      BY <2>1, <1>19, UnchangedLegal, ReturnKeeps DEF Release
    <2>2. CASE UNCHANGED worker
      <3>1. Others(w) /\ CopyFits(w)'
        BY <2>2, <1>2 DEF Others, CopyFits, At
      <3> QED BY <3>1, <2>2, <1>1, <1>19, UnchangedLegal, KeptCopies DEF Release, CopiesKept
    <2> QED BY <2>1, <2>2, <1>19 DEF Release
  <1> QED
    BY <1>10, <1>11, <1>12, <1>13, <1>14, <1>15, <1>16, <1>17, <1>18, <1>19
       DEF VerifyKnown

\* A rollback step returns or moves on inside the rollback, copy in hand.
LEMMA RollbackMoves ==
    ASSUME TypeOK, CopiesCurrent, NEW w \in Worker, Rollback(w)
    PROVE  \/ Return(w)
           \/ /\ Others(w) /\ worker'[w].at \in UndoSteps
              /\ worker'[w].act = worker[w].act /\ worker'[w].seen = worker[w].seen
  <1>1. worker[w].at \in Busy
    BY DEF Rollback, ModeForbidsUndo, CannotUndo, Escalate, CreateUndo, ClaimUndo,
           RecordReleasing, ConfirmUndo, CallUndo, UndoResult, UndoAmbiguous,
           UndoPartial, UndoReadback, UndoRecover, UndoCommit, UndoOriginal,
           UndoComplete, UndoResolve, UndoOutcome, At, Busy, UndoSteps, UndoPreCall
  <1>2. Act(w) \in Action
    BY <1>1, BusyFacts
  <1>3. UndoSteps \subseteq Places
    BY DEF Places, Busy
  <1>4. {"escalate", "undoClaim", "undoRecord", "undoConfirm", "undoCall", "undoResult",
         "undoAmbiguous", "undoPartial", "undoReadback", "undoRecover", "undoCommit",
         "undoOriginal", "undoComplete", "undoResolve", "undoOutcome"} \subseteq UndoSteps
    BY DEF UndoSteps, UndoPreCall
  <1>5. ASSUME NEW place \in UndoSteps, GoTo(w, place)
        PROVE  /\ Others(w) /\ worker'[w].at \in UndoSteps
               /\ worker'[w].act = worker[w].act /\ worker'[w].seen = worker[w].seen
    BY <1>3, <1>5, GoToEffect DEF TypeOK
  <1>6. ASSUME NEW s \in ActionStates, NEW place \in UndoSteps, UpdateUndoAndGo(w, s, place)
        PROVE  /\ Others(w) /\ worker'[w].at \in UndoSteps
               /\ worker'[w].act = worker[w].act /\ worker'[w].seen = worker[w].seen
    BY <1>2, <1>3, <1>6, UpdateUndoAndGoEffect DEF TypeOK
  <1>7. ASSUME NEW answer, NEW place \in UndoSteps,
               \/ worker' = [worker EXCEPT ![w].got = answer, ![w].at = place]
               \/ worker' = [worker EXCEPT ![w].held = answer, ![w].at = place]
        PROVE  /\ Others(w) /\ worker'[w].at \in UndoSteps
               /\ worker'[w].act = worker[w].act /\ worker'[w].seen = worker[w].seen
    BY <1>7 DEF TypeOK, WorkerRecord, Others
  <1>8. {"SENT", "ACKNOWLEDGED", "OUTCOME_UNKNOWN", "RECONCILIATION_REQUIRED",
         "ROLLED_BACK"} \subseteq ActionStates
    BY DEF ActionStates
  <1>9. CASE CreateUndo(w)
    BY <1>4, <1>7, <1>9 DEF CreateUndo
  <1>10. CASE CallUndo(w)
    BY <1>4, <1>7, <1>10 DEF CallUndo
  <1>11. CASE UndoReadback(w)
    BY <1>4, <1>7, <1>11 DEF UndoReadback
  <1>12. CASE ClaimUndo(w) \/ UndoResult(w) \/ UndoCommit(w)
    BY <1>4, <1>6, <1>8, <1>12 DEF ClaimUndo, UndoResult, UndoCommit
  <1> QED
    BY <1>4, <1>5, <1>9, <1>10, <1>11, <1>12
       DEF Rollback, ModeForbidsUndo, CannotUndo, Escalate, RecordReleasing,
           ConfirmUndo, UndoAmbiguous, UndoPartial, UndoRecover, UndoOriginal,
           UndoComplete, UndoResolve, UndoOutcome

\* A rollback writes the action only at its end, and takes no copy of it.
LEMMA CopiesRollback ==
    ASSUME TypeOK, TypeOK', CopiesCurrent, CopiesFit, NEW w \in Worker, Rollback(w)
    PROVE  CopiesKept(w)
  <1>1. worker[w].at \in Busy
    BY DEF Rollback, ModeForbidsUndo, CannotUndo, Escalate, CreateUndo, ClaimUndo,
           RecordReleasing, ConfirmUndo, CallUndo, UndoResult, UndoAmbiguous,
           UndoPartial, UndoReadback, UndoRecover, UndoCommit, UndoOriginal,
           UndoComplete, UndoResolve, UndoOutcome, At, Busy, UndoSteps, UndoPreCall
  <1>2. Act(w) \in Action
    BY <1>1, BusyFacts
  <1>3. UndoSteps \subseteq Places \cap FreePlaces
    BY DEF Places, Busy, FreePlaces
  <1>4. {"escalate", "undoClaim", "undoRecord", "undoConfirm", "undoCall", "undoResult",
         "undoAmbiguous", "undoPartial", "undoReadback", "undoRecover", "undoCommit",
         "undoOriginal", "undoComplete", "undoResolve", "undoOutcome"} \subseteq UndoSteps
    BY DEF UndoSteps, UndoPreCall
  <1>5. \A a \in Action : LegalAction(a)
    <2>1. CASE UndoOriginal(w)
      <3>1. CASE action[Act(w)].state = "ROLLBACK_REQUIRED"
        <4>1. <<"ROLLBACK_REQUIRED", "ROLLED_BACK">> \in ActionMoves
          BY DEF ActionMoves
        <4>2. "ROLLED_BACK" \in ActionStates
          BY DEF ActionStates
        <4> QED BY <2>1, <3>1, <4>1, <4>2, <1>2, RewriteLegal DEF UndoOriginal
      <3>2. CASE action[Act(w)].state # "ROLLBACK_REQUIRED"
        BY <2>1, <3>2, UnchangedLegal DEF UndoOriginal
      <3> QED BY <3>1, <3>2
    <2>2. CASE ~UndoOriginal(w)
      <3>1. UNCHANGED action
        BY <2>2 DEF Rollback, ModeForbidsUndo, CannotUndo, Escalate, CreateUndo,
           ClaimUndo, RecordReleasing, ConfirmUndo, CallUndo, UndoResult, UndoAmbiguous,
           UndoPartial, UndoReadback, UndoRecover, UndoCommit,
           UndoComplete, UndoResolve, UndoOutcome, durable
      <3> QED BY <3>1, UnchangedLegal
    <2> QED BY <2>1, <2>2
  <1>6. \/ Return(w)
        \/ /\ Others(w) /\ worker'[w].at \in UndoSteps
           /\ worker'[w].act = worker[w].act /\ worker'[w].seen = worker[w].seen
    BY RollbackMoves
  <1>7. CASE Return(w)
    BY <1>5, <1>7, ReturnKeeps
  <1>8. CASE /\ Others(w) /\ worker'[w].at \in UndoSteps
             /\ worker'[w].act = worker[w].act /\ worker'[w].seen = worker[w].seen
    BY <1>1, <1>3, <1>5, <1>8, KeptCopies, FreeFits DEF CopiesKept
  <1> QED BY <1>6, <1>7, <1>8

\* A step of nobody, or one that only sends executors to rest, keeps the copies.
LEMMA RestingCopies ==
    ASSUME TypeOK, CopiesCurrent, CopiesFit, \A a \in Action : LegalAction(a),
           \A v \in Worker : worker'[v] = worker[v] \/ worker'[v].at = "idle"
    PROVE  CopiesCurrent' /\ CopiesFit'
  <1>1. ASSUME NEW v \in Worker  PROVE CopyCurrent(v)' /\ CopyFits(v)'
    <2>1. CASE worker'[v].at = "idle"
      BY <2>1, RestCopies
    <2>2. CASE worker'[v] = worker[v]
      <3>1. CopyFits(v)'
        BY <2>2 DEF CopiesFit, CopyFits, At
      <3>2. CopyCurrent(v)'
        <4>1. CASE worker[v].at \in Busy
          BY <2>2, <4>1, KeptCopies
        <4>2. CASE worker[v].at \notin Busy
          BY <2>2, <4>2 DEF CopyCurrent
        <4> QED BY <4>1, <4>2
      <3> QED BY <3>1, <3>2
    <2> QED BY <2>1, <2>2
  <1> QED BY <1>1 DEF CopiesCurrent, CopiesFit

\* Taking up an action copies the record; what Route found it to be is what the
\* chosen place asks for.
LEMMA CopiesDispatch ==
    ASSUME TypeOK, TypeOK', CopiesCurrent, CopiesFit, NEW w \in Worker, Dispatch(w)
    PROVE  CopiesKept(w)
  <1>1. /\ UNCHANGED <<durable, outside>> /\ Others(w)
        /\ \/ worker'[w].at = "next"
           \/ /\ worker'[w].act \in Action
              /\ worker'[w].seen = action[worker'[w].act]
              /\ \E operating \in BOOLEAN : worker'[w].at = Route(worker'[w].act, operating)
              /\ worker'[w].at \in {"reconcile", "verify", "undo", "own", "block"}
    BY DispatchEffect
  <1>2. UNCHANGED action /\ \A a \in Action : LegalAction(a)
    BY <1>1, UnchangedLegal DEF durable
  <1>3. CASE worker'[w].at = "next"
    BY <1>1, <1>2, <1>3, RestCopies DEF CopiesKept
  <1>4. CASE /\ worker'[w].act \in Action
             /\ worker'[w].seen = action[worker'[w].act]
             /\ \E operating \in BOOLEAN : worker'[w].at = Route(worker'[w].act, operating)
             /\ worker'[w].at \in {"reconcile", "verify", "undo", "own", "block"}
    <2>1. CopyCurrent(w)'
      BY <1>2, <1>4, FreshCopies
    <2>2. /\ worker'[w].at = "reconcile" =>
                worker'[w].seen.state \in {"OUTCOME_UNKNOWN", "RECONCILIATION_REQUIRED"}
          /\ worker'[w].at = "verify" => worker'[w].seen.state = "ACKNOWLEDGED"
      BY <1>4 DEF Route, TerminalActionStates
    <2>3. CopyFits(w)'
      BY <1>4, <2>2 DEF CopyFits, At, PreCall, ReconcileSteps
    <2> QED BY <1>1, <1>2, <2>1, <2>3 DEF CopiesKept
  <1> QED BY <1>1, <1>3, <1>4

\* Every step keeps the copies sound and moves every action legally.
LEMMA CopiesStep ==
    ASSUME TypeOK, TypeOK', CopiesCurrent, CopiesFit, [Next]_vars
    PROVE  /\ CopiesCurrent'
           /\ CopiesFit'
           /\ \A a \in Action : LegalAction(a)
  <1>1. CASE UNCHANGED vars
    BY <1>1, UnchangedLegal, RestingCopies DEF vars, durable
  <1>2. ASSUME NEW w \in Worker,
               CopiesKept(w)
        PROVE  /\ CopiesCurrent' /\ CopiesFit'
               /\ \A a \in Action : LegalAction(a)
    BY <1>2, OthersKeepCopies DEF CopiesKept
  <1>3. ASSUME NEW w \in Worker, NEW i \in Incident, Deliver(w, i)
        PROVE  CopiesKept(w)
    <2>1. /\ Others(w) /\ UNCHANGED action
          /\ worker'[w] = [IdleWorker EXCEPT !.at = "next", !.inc = i, !.todo = ActionsOf(i)]
      BY <1>3 DEF Deliver, Others, durable, TypeOK
    <2>2. worker'[w].at = "next"
      BY <2>1 DEF IdleWorker
    <2> QED BY <2>1, <2>2, UnchangedLegal, RestCopies DEF CopiesKept
  <1>4. ASSUME NEW w \in Worker, Raise(w)
        PROVE  CopiesKept(w)
    BY <1>4, RaiseEffect, UnchangedLegal, RestCopies DEF CopiesKept, durable
  <1>5. ASSUME NEW w \in Worker, Step(w)
        PROVE  CopiesKept(w)
    <2>1. CASE Acknowledge(w)
      <3>1. /\ Others(w) /\ UNCHANGED action /\ worker'[w].at = "idle"
        BY <2>1 DEF Acknowledge, Others, durable, TypeOK, IdleWorker
      <3> QED BY <3>1, UnchangedLegal, RestCopies DEF CopiesKept
    <2>2. CASE Conflict(w)
      BY <2>2, <1>4 DEF Conflict
    <2> QED
      BY <1>5, <2>1, <2>2, CopiesDispatch, CopiesExecute, CopiesVerify, CopiesRollback
         DEF Step
  <1>6. CASE Reconstruct \/ Overlap
    <2>1. \A a \in Action : LegalAction(a)
      BY <1>6, MarkRestartUnknownEffect DEF Reconstruct, Overlap, LegalAction, ActionMoves
    <2> QED BY <1>6, <2>1, RestingCopies DEF Reconstruct, Overlap
  <1>7. CASE Environment /\ ~Overlap
    <2>1. UNCHANGED action
      BY <1>7 DEF Environment, Withdraw, Expire, Lapse, Crash, durable
    <2>2. \A v \in Worker : worker'[v] = worker[v] \/ worker'[v].at = "idle"
      BY <1>7 DEF Environment, Withdraw, Expire, Lapse, Crash, IdleWorker
    <2> QED BY <2>1, <2>2, UnchangedLegal, RestingCopies
  <1> QED BY <1>1, <1>2, <1>3, <1>4, <1>5, <1>6, <1>7 DEF Next, Fault

(***************************************************************************)
(* Type correctness and the life of an action.                             *)
(***************************************************************************)
CopyInvariant == TypeOK /\ CopiesCurrent /\ CopiesFit

\* The invariant holds of the initial states.
LEMMA InitCopies == Init => CopyInvariant
  <1> SUFFICES ASSUME Init PROVE CopyInvariant
    OBVIOUS
  <1>1. TypeOK
    <2>1. /\ [state |-> "APPROVED", outcome |-> "NONE", evidence |-> "NONE"] \in IncidentRecord
          /\ [state |-> "ABSENT", version |-> 0] \in UndoRecord
          /\ [effect |-> "none", execs |-> 0, undos |-> 0] \in ProviderRecord
          /\ [state |-> "PENDING", owner |-> None] \in RowRecord
          /\ [owner |-> None, live |-> FALSE] \in LeaseRecord
          /\ "NONE" \in Verdicts
      BY DEF IncidentRecord, IncidentStates, UndoRecord, ProviderRecord, RowRecord,
             LeaseRecord, Verdicts
    <2> QED BY <2>1, IdleType DEF Init, TypeOK
  <1>2. \A w \in Worker : worker[w].at = "idle"
    BY DEF Init, IdleWorker
  <1>3. CopiesCurrent /\ CopiesFit
    BY <1>2 DEF CopiesCurrent, CopiesFit, CopyCurrent, CopyFits, At, Busy, ClaimSteps,
                PreCall, ResultSteps, VerifySteps, ReconcileSteps, UndoSteps, UndoPreCall
  <1> QED BY <1>1, <1>3 DEF CopyInvariant

\* The copy invariant holds in every reachable state.
THEOREM CopiesAlways == Spec => []CopyInvariant
  <1>1. CopyInvariant /\ [Next]_vars => CopyInvariant'
    BY TypeStep, CopiesStep DEF CopyInvariant
  <1> QED BY InitCopies, <1>1, PTL DEF Spec

\* An executor whose compare-and-swap would succeed holds the current record,
\* and what that record says is what its place in the code asks for.
THEOREM CopiesAreSound == Spec => [](CopiesCurrent /\ CopiesFit)
  <1>1. CopyInvariant => CopiesCurrent /\ CopiesFit
    BY DEF CopyInvariant
  <1> QED BY CopiesAlways, <1>1, PTL

\* Every reachable state is well typed.
THEOREM TypeCorrect == Spec => []TypeOK
  <1>1. CopyInvariant => TypeOK
    BY DEF CopyInvariant
  <1> QED BY CopiesAlways, <1>1, PTL

\* However executors race and restarts interfere, an action only makes the moves
\* _update_action is meant to make, each under the next version.
THEOREM ActionsMoveLegally == Spec => LegalActionSteps
  <1>1. CopyInvariant /\ CopyInvariant' /\ [Next]_vars
           => [\A a \in Action : LegalAction(a)]_vars
    BY CopiesStep DEF CopyInvariant
  <1> QED BY CopiesAlways, <1>1, PTL DEF Spec, LegalActionSteps

(***************************************************************************)
(* At most one mutation.                                                   *)
(***************************************************************************)
\* An executor's step leaves the other executors alone.
LEMMA StepOthers ==
    ASSUME TypeOK, TypeOK', CopiesCurrent, CopiesFit, NEW w \in Worker, Step(w)
    PROVE  Others(w)
  <1>1. CASE Acknowledge(w) \/ Conflict(w)
    BY <1>1 DEF Acknowledge, Conflict, Raise, Others, TypeOK
  <1> QED
    BY <1>1, CopiesDispatch, CopiesExecute, CopiesVerify, CopiesRollback
       DEF Step, CopiesKept

\* A step that neither claims nor calls leaves the licences as they are.
LEMMA LicenceKept ==
    ASSUME TypeOK, CopiesCurrent, MutationLicence, AtMostOneMutation,
           \A a \in Action : LegalAction(a),
           \A a \in Action : provider'[a].execs = provider[a].execs,
           \A v \in Worker : worker'[v].at \in PreCall =>
               worker[v].at \in PreCall /\ worker'[v].act = worker[v].act
    PROVE  MutationLicence' /\ \A a \in Action : provider'[a].execs <= 1
  <1>1. \A v \in Worker : worker[v].at \in PreCall => Act(v) \in Action
    BY DEF CopiesCurrent, CopyCurrent, Busy
  <1>2. \A a \in Action : action[a].state # "READY" => action'[a].state # "READY"
    BY LegalAdvance
  <1> QED BY <1>1, <1>2 DEF MutationLicence, AtMostOneMutation, Act

\* A claim succeeds on a READY action only, which nobody else has a licence for.
LEMMA LicenceClaimed ==
    ASSUME CopyInvariant, CopyInvariant', MutationLicence, AtMostOneMutation,
           NEW w \in Worker, Claim(w), \A a \in Action : LegalAction(a)
    PROVE  MutationLicence' /\ \A a \in Action : provider'[a].execs <= 1
  <1>1. worker[w].at \in Busy /\ worker[w].seen.state = "READY"
    BY DEF Claim, At, Busy, ClaimSteps, CopyInvariant, CopiesFit, CopyFits
  <1>2. Act(w) \in Action
    BY <1>1, BusyFacts DEF CopyInvariant
  <1>3. "SENT" \in ActionStates /\ "confirm" \in Places
    BY DEF ActionStates, Places, Busy, PreCall
  <1>4. /\ UpdateAction(w, "SENT") /\ Others(w) /\ worker'[w].at = "confirm"
        /\ worker'[w].act = worker[w].act
    BY <1>2, <1>3, UpdateAndGoEffect DEF Claim, CopyInvariant, TypeOK
  <1>5. action'[Act(w)] = Written(worker[w].seen, "SENT") /\ Current(w)
    BY <1>2, <1>3, <1>4, UpdateActionEffect DEF CopyInvariant, TypeOK
  <1>6. action'[Act(w)].state # "READY"
    BY <1>5 DEF Written
  <1>7. action[Act(w)].state = "READY"
    BY <1>1, <1>5 DEF CopyInvariant, CopiesCurrent, CopyCurrent
  <1>8. provider[Act(w)].execs = 0
    BY <1>2, <1>7 DEF MutationLicence
  <1>9. UNCHANGED provider
    BY DEF Claim, outside
  <1>10. \A v \in Worker : worker[v].at \in PreCall => Act(v) \in Action
    BY DEF CopyInvariant, CopiesCurrent, CopyCurrent, Busy
  <1>11. \A a \in Action : action[a].state # "READY" => action'[a].state # "READY"
    BY LegalAdvance
  <1>12. \A v \in Worker \ {w} : worker[v].at \in PreCall => Act(v) # Act(w)
    BY <1>7 DEF MutationLicence
  <1>13. \A v \in Worker \ {w} : worker'[v] = worker[v]
    BY <1>4 DEF Others
  <1>14. \A a \in Action : provider'[a].execs # 0 => action'[a].state # "READY"
    BY <1>9, <1>11 DEF MutationLicence
  <1>15. \A v \in Worker : worker'[v].at \in PreCall =>
            provider'[Act(v)'].execs = 0 /\ action'[Act(v)'].state # "READY"
    BY <1>4, <1>6, <1>8, <1>9, <1>10, <1>11, <1>13 DEF MutationLicence, Act
  <1>16. \A u, v \in Worker :
            u # v /\ worker'[u].at \in PreCall /\ worker'[v].at \in PreCall
               => Act(u)' # Act(v)'
    BY <1>4, <1>12, <1>13 DEF MutationLicence, Act
  <1> QED BY <1>9, <1>14, <1>15, <1>16 DEF MutationLicence, AtMostOneMutation

\* The call spends the licence.
LEMMA LicenceSpent ==
    ASSUME CopyInvariant, MutationLicence, AtMostOneMutation, NEW w \in Worker, CallProvider(w)
    PROVE  MutationLicence' /\ \A a \in Action : provider'[a].execs <= 1
  <1>1. worker[w].at \in PreCall /\ worker[w].at \in Busy
    BY DEF CallProvider, At, PreCall, Busy
  <1>2. Act(w) \in Action /\ provider[Act(w)].execs = 0 /\ action[Act(w)].state # "READY"
    BY <1>1, BusyFacts DEF CopyInvariant, MutationLicence
  <1>3. PICK answer, applied :
             /\ provider' = [provider EXCEPT ![Act(w)] = Mutated(@, applied)]
             /\ worker' = [worker EXCEPT ![w].got = answer, ![w].at = "result"]
    BY DEF CallProvider
  <1>4. /\ Others(w) /\ worker'[w].at = "result"
    BY <1>3 DEF CopyInvariant, TypeOK, WorkerRecord, Others
  <1>5. /\ \A a \in Action \ {Act(w)} : provider'[a] = provider[a]
        /\ provider'[Act(w)].execs = 1
    BY <1>2, <1>3 DEF CopyInvariant, TypeOK, Mutated
  <1>6. UNCHANGED action
    BY DEF CallProvider, durable
  <1>7. \A v \in Worker : worker'[v].at \in PreCall =>
           v # w /\ worker'[v] = worker[v] /\ worker[v].at \in PreCall
    BY <1>4 DEF Others, PreCall
  <1>8. \A v \in Worker : worker'[v].at \in PreCall => Act(v) # Act(w) /\ Act(v) \in Action
    BY <1>1, <1>7 DEF MutationLicence, CopyInvariant, CopiesCurrent, CopyCurrent, Busy
  <1>9. \A a \in Action : provider'[a].execs # 0 => action'[a].state # "READY"
    BY <1>2, <1>5, <1>6 DEF MutationLicence
  <1>10. \A v \in Worker : worker'[v].at \in PreCall =>
            provider'[Act(v)'].execs = 0 /\ action'[Act(v)'].state # "READY"
    BY <1>5, <1>6, <1>7, <1>8 DEF MutationLicence, Act
  <1>11. \A u, v \in Worker :
            u # v /\ worker'[u].at \in PreCall /\ worker'[v].at \in PreCall
               => Act(u)' # Act(v)'
    BY <1>7 DEF MutationLicence, Act
  <1>12. \A a \in Action : provider'[a].execs <= 1
    BY <1>5 DEF AtMostOneMutation
  <1> QED BY <1>9, <1>10, <1>11, <1>12 DEF MutationLicence

\* Only Claim leads to the places that hold the licence to mutate, and only a
\* rollback step to those that hold the licence to roll back.
LEMMA LicenceSources ==
    ASSUME CopyInvariant, NEW w \in Worker, Step(w)
    PROVE  /\ ~Claim(w) /\ worker'[w].at \in PreCall =>
                 worker[w].at \in PreCall /\ worker'[w].act = worker[w].act
           /\ ~Rollback(w) => worker'[w].at \notin UndoPreCall \cup {"undoClaim"}
  <1>0. CASE Claim(w)
    <2>1. "confirm" \in Places /\ "SENT" \in ActionStates /\ worker[w].at \in Busy
      BY <1>0 DEF Claim, At, Places, Busy, PreCall, ClaimSteps, ActionStates
    <2>2. worker'[w].at = "confirm"
      BY <1>0, <2>1, BusyFacts, UpdateAndGoEffect DEF Claim, CopyInvariant, TypeOK
    <2> QED BY <1>0, <2>2 DEF UndoPreCall
  <1>1. worker \in [Worker -> WorkerRecord]
    BY DEF CopyInvariant, TypeOK
  <1>2. ASSUME NEW place \in Places, GoTo(w, place)
        PROVE  worker'[w].at = place /\ worker'[w].act = worker[w].act
    BY <1>1, <1>2, GoToEffect
  <1>3. ASSUME Return(w)  PROVE worker'[w].at = "next"
    BY <1>1, <1>3, ReturnEffect
  <1>4. ASSUME NEW s \in ActionStates, NEW place \in Places, UpdateAndGo(w, s, place),
               Act(w) \in Action
        PROVE  worker'[w].at = place
    BY <1>1, <1>4, UpdateAndGoEffect DEF CopyInvariant, TypeOK
  <1>5. ASSUME NEW value, NEW place,
               worker' = [worker EXCEPT ![w].got = value, ![w].at = place]
        PROVE  worker'[w].at = place
    BY <1>1, <1>5 DEF WorkerRecord
  <1>6. CASE Acknowledge(w) \/ Conflict(w)
    BY <1>1, <1>6 DEF Acknowledge, Conflict, Raise, IdleWorker, PreCall, UndoPreCall
  <1>7. CASE Dispatch(w)
    BY <1>7, DispatchEffect DEF CopyInvariant, PreCall, UndoPreCall
  <1>8. CASE ExecuteReadyAction(w) /\ ~Dispatch(w) /\ ~Claim(w)
    <2>1. {"block", "blockIncident", "recheck", "reserve", "call", "recordFailure"}
             \subseteq Places /\ "FAILED" \in ActionStates
      BY DEF Places, Busy, ClaimSteps, PreCall, ResultSteps, ActionStates
    <2>2. CASE Recheck(w)
      <3>1. ASSUME worker' = [worker EXCEPT ![w].seen = action[Act(w)], ![w].at = "claim"]
            PROVE  worker'[w].at = "claim"
        BY <3>1, <1>1 DEF WorkerRecord
      <3> QED BY <2>1, <2>2, <3>1, <1>2, <1>3 DEF Recheck, PreCall, UndoPreCall
    <2>3. CASE Result(w)
      <3>1. ASSUME worker' = [worker EXCEPT ![w].seen = Accepted(w), ![w].at = "verify"]
            PROVE  worker'[w].at = "verify"
        BY <3>1, <1>1 DEF WorkerRecord
      <3>2. Act(w) \in Action
        BY <2>3, BusyFacts DEF Result, At, Busy, ResultSteps, CopyInvariant
      <3> QED BY <2>1, <2>3, <3>1, <3>2, <1>3, <1>4 DEF Result, PreCall, UndoPreCall
    <2>4. CASE CallProvider(w)
      BY <2>4, <1>5 DEF CallProvider, PreCall, UndoPreCall
    <2>5. CASE Confirm(w) \/ Reserve(w)
      BY <2>1, <2>5, <1>2, <1>3 DEF Confirm, Reserve, At, PreCall, UndoPreCall
    <2> QED
      BY <1>8, <2>1, <2>2, <2>3, <2>4, <2>5, <1>2, <1>3
         DEF ExecuteReadyAction, Block, BlockIncident, Own, RecordFailure, PreCall, UndoPreCall
  <1>9. CASE VerifyKnown(w)
    <2>1. {"verify", "readback", "publish", "commit", "resolve", "outcome", "release",
           "undo"} \subseteq Places
      BY DEF Places, Busy, VerifySteps, UndoSteps
    <2>2. {"ACKNOWLEDGED", "SUCCESS", "ROLLBACK_REQUIRED"} \subseteq ActionStates
      BY DEF ActionStates
    <2>3. CASE Reconcile(w) \/ Readback(w)
      <3>1. CASE Reconcile(w)
        <4>1. PICK answer : worker' = [worker EXCEPT ![w].got = answer, ![w].at = "reconciled"]
          BY <3>1 DEF Reconcile
        <4> QED BY <4>1, <1>5 DEF PreCall, UndoPreCall
      <3>2. CASE Readback(w)
        <4>1. PICK answer : worker' = [worker EXCEPT ![w].got = answer, ![w].at = "record"]
          BY <3>2 DEF Readback
        <4> QED BY <4>1, <1>5 DEF PreCall, UndoPreCall
      <3> QED BY <2>3, <3>1, <3>2
    <2>4. CASE Reconciled(w) \/ Commit(w)
      <3>1. Act(w) \in Action
        BY <2>4, BusyFacts DEF Reconciled, Commit, At, Busy, VerifySteps, ReconcileSteps,
                               CopyInvariant
      <3> QED BY <2>1, <2>2, <2>4, <3>1, <1>3, <1>4 DEF Reconciled, Commit, PreCall, UndoPreCall
    <2>5. CASE Release(w)
      BY <2>5, <1>3 DEF Release, At, PreCall, UndoPreCall
    <2> QED
      BY <1>9, <2>1, <2>3, <2>4, <2>5, <1>2, <1>3
         DEF VerifyKnown, Verify, Record, Publish, Resolve, RecordOutcome, PreCall, UndoPreCall
  <1>10. CASE Rollback(w)
    BY <1>10, RollbackMoves, <1>3 DEF CopyInvariant, PreCall, UndoSteps, UndoPreCall
  <1> QED BY <1>0, <1>6, <1>7, <1>8, <1>9, <1>10 DEF Step

\* Only the two calls are counted by the provider.
LEMMA CallsCounted ==
    ASSUME TypeOK, NEW w \in Worker, Step(w)
    PROVE  /\ ~CallProvider(w) => \A a \in Action : provider'[a].execs = provider[a].execs
           /\ ~CallUndo(w) => \A a \in Action : provider'[a].undos = provider[a].undos
  <1>1. CASE CallProvider(w)
    <2>1. PICK applied : provider' = [provider EXCEPT ![Act(w)] = Mutated(@, applied)]
      BY <1>1 DEF CallProvider
    <2>2. \A a \in Action : provider'[a].undos = provider[a].undos
      BY <2>1 DEF TypeOK, Mutated
    <2> QED BY <1>1, <2>2
  <1>2. CASE CallUndo(w)
    <2>1. PICK released : provider' = [provider EXCEPT ![Act(w)] = Released(@, released)]
      BY <1>2 DEF CallUndo
    <2>2. \A a \in Action : provider'[a].execs = provider[a].execs
      BY <2>1 DEF TypeOK, Released
    <2> QED BY <1>2, <2>2
  <1>3. CASE Acknowledge(w) \/ Conflict(w)
    BY <1>3 DEF Acknowledge, Conflict, Raise
  <1>4. CASE ExecuteReadyAction(w) /\ ~CallProvider(w)
    <2>1. UNCHANGED provider
      BY <1>4 DEF ExecuteReadyAction, Dispatch, Block, BlockIncident, Own, Recheck, Claim,
                  Confirm, Reserve, Result, RecordFailure, outside
    <2> QED BY <2>1
  <1>5. CASE VerifyKnown(w)
    <2>1. UNCHANGED provider
      BY <1>5 DEF VerifyKnown, Reconcile, Reconciled, Verify, Readback, Record, Publish,
                  Commit, Resolve, RecordOutcome, Release, outside
    <2> QED BY <2>1
  <1>6. CASE Rollback(w) /\ ~CallUndo(w)
    <2>1. UNCHANGED provider
      BY <1>6 DEF Rollback, ModeForbidsUndo, CannotUndo, Escalate, CreateUndo, ClaimUndo,
           RecordReleasing, ConfirmUndo, UndoResult, UndoAmbiguous, UndoPartial,
           UndoReadback, UndoRecover, UndoCommit, UndoOriginal, UndoComplete,
           UndoResolve, UndoOutcome, outside
    <2> QED BY <2>1
  <1> QED BY <1>1, <1>2, <1>3, <1>4, <1>5, <1>6 DEF Step

\* The licence to mutate survives every step.
LEMMA LicenceStep ==
    ASSUME CopyInvariant, CopyInvariant', MutationLicence, AtMostOneMutation, [Next]_vars
    PROVE  MutationLicence' /\ \A a \in Action : provider'[a].execs <= 1
  <1> USE DEF CopyInvariant
  <1>1. \A a \in Action : LegalAction(a)
    BY CopiesStep
  <1>2. CASE UNCHANGED vars
    BY <1>1, <1>2, LicenceKept DEF vars, outside
  <1>3. ASSUME NEW w \in Worker, Step(w)
        PROVE  MutationLicence' /\ \A a \in Action : provider'[a].execs <= 1
    <2>1. CASE Claim(w)
      BY <1>1, <2>1, LicenceClaimed
    <2>2. CASE CallProvider(w)
      BY <2>2, LicenceSpent
    <2>3. CASE ~Claim(w) /\ ~CallProvider(w)
      <3>1. Others(w)
        BY <1>3, StepOthers
      <3>2. \A v \in Worker : worker'[v].at \in PreCall =>
               worker[v].at \in PreCall /\ worker'[v].act = worker[v].act
        BY <1>3, <2>3, <3>1, LicenceSources DEF Others
      <3> QED BY <1>1, <1>3, <2>3, <3>2, CallsCounted, LicenceKept
    <2> QED BY <2>1, <2>2, <2>3
  <1>4. ASSUME NEW w \in Worker, Raise(w) \/ \E i \in Incident : Deliver(w, i)
        PROVE  MutationLicence' /\ \A a \in Action : provider'[a].execs <= 1
    <2>1. /\ UNCHANGED provider /\ Others(w)
          /\ worker'[w].at \in {"idle", "next"}
      <3>1. CASE Raise(w)
        BY <3>1, RaiseEffect DEF Raise
      <3>2. ASSUME NEW i \in Incident, Deliver(w, i)
            PROVE  UNCHANGED provider /\ Others(w) /\ worker'[w].at = "next"
        BY <3>2 DEF Deliver, TypeOK, Others, IdleWorker
      <3> QED BY <1>4, <3>1, <3>2
    <2>2. \A v \in Worker : worker'[v].at \in PreCall =>
             worker[v].at \in PreCall /\ worker'[v].act = worker[v].act
      BY <2>1 DEF Others, PreCall
    <2> QED BY <1>1, <2>1, <2>2, LicenceKept
  <1>5. CASE Reconstruct \/ Environment
    <2>1. \A a \in Action : provider'[a].execs = provider[a].execs
      <3>1. ASSUME NEW a \in Action, Lapse(a)
            PROVE  \A b \in Action : provider'[b].execs = provider[b].execs
        BY <3>1 DEF Lapse, TypeOK, ProviderRecord
      <3> QED BY <1>5, <3>1 DEF Reconstruct, Environment, Withdraw, Expire, Crash, Overlap
    <2>2. \A v \in Worker : worker'[v] = worker[v] \/ worker'[v].at = "idle"
      BY <1>5 DEF Reconstruct, Environment, Withdraw, Expire, Lapse, Crash, Overlap, IdleWorker
    <2>3. \A v \in Worker : worker'[v].at \in PreCall =>
             worker[v].at \in PreCall /\ worker'[v].act = worker[v].act
      BY <2>2 DEF PreCall
    <2> QED BY <1>1, <2>1, <2>3, LicenceKept
  <1> QED BY <1>2, <1>3, <1>4, <1>5 DEF Next, Fault

(***************************************************************************)
(* At most one rollback.                                                   *)
(***************************************************************************)
\* A rollback command is created once, and afterwards only moves forward.
UndoAdvance(a) ==
    \/ undo'[a] = undo[a]
    \/ undo[a].state = "ABSENT" /\ undo'[a] = [state |-> "READY", version |-> 0]
    \/ /\ undo'[a].version = undo[a].version + 1
       /\ undo'[a].state \notin {"ABSENT", "READY"}

\* An executor about to claim the command was so before, or has just read it.
ClaimPending(v) ==
    \/ /\ worker[v].at = "undoClaim" /\ worker'[v].act = worker[v].act
       /\ worker'[v].held = worker[v].held
    \/ /\ undo'[worker'[v].act].state = "READY"
       /\ undo'[worker'[v].act].version = worker'[v].held

\* A step that neither claims nor calls leaves these licences as they are too.
LEMMA UndoLicenceKept ==
    ASSUME TypeOK, TypeOK', CopiesCurrent, RollbackLicence, AtMostOneMutation,
           \A a \in Action : UndoAdvance(a),
           \A a \in Action : provider'[a].undos = provider[a].undos,
           \A v \in Worker : worker'[v].at \in UndoPreCall =>
               worker[v].at \in UndoPreCall /\ worker'[v].act = worker[v].act,
           \A v \in Worker : worker'[v].at = "undoClaim" => ClaimPending(v)
    PROVE  RollbackLicence' /\ \A a \in Action : provider'[a].undos <= 1
  <1>1. \A v \in Worker : worker[v].at \in UndoPreCall \cup {"undoClaim"} => Act(v) \in Action
    BY DEF CopiesCurrent, CopyCurrent, Busy, UndoSteps
  <1>2. \A a \in Action : undo[a].version \in Nat /\ undo'[a].version \in Nat
    BY DEF TypeOK, UndoRecord
  <1>3. \A v \in Worker : worker[v].held \in Nat /\ worker'[v].held \in Nat
    BY DEF TypeOK, WorkerRecord
  <1>4. ASSUME NEW a \in Action
        PROVE  /\ undo'[a].state = "ABSENT" => undo'[a].version = 0
               /\ provider'[a].undos # 0 => undo'[a].state \notin {"ABSENT", "READY"}
    BY DEF UndoAdvance, RollbackLicence
  <1>5. ASSUME NEW v \in Worker, worker'[v].at = "undoClaim"
        PROVE  /\ undo'[worker'[v].act].state # "ABSENT"
               /\ worker'[v].held <= undo'[worker'[v].act].version
               /\ worker'[v].held = undo'[worker'[v].act].version =>
                      undo'[worker'[v].act].state = "READY"
    <2>1. CASE /\ worker[v].at = "undoClaim" /\ worker'[v].act = worker[v].act
               /\ worker'[v].held = worker[v].held
      <3>1. /\ undo[Act(v)].state # "ABSENT" /\ worker[v].held <= undo[Act(v)].version
            /\ worker[v].held = undo[Act(v)].version => undo[Act(v)].state = "READY"
        BY <2>1 DEF RollbackLicence, At, UndoCurrent
      <3>2. Act(v) \in Action /\ UndoAdvance(Act(v))
        BY <1>1, <2>1
      <3>3. /\ undo'[Act(v)].state # "ABSENT" /\ worker[v].held <= undo'[Act(v)].version
            /\ worker[v].held = undo'[Act(v)].version => undo'[Act(v)].state = "READY"
        BY <3>1, <3>2, <1>2, <1>3 DEF UndoAdvance
      <3> QED BY <2>1, <3>3 DEF Act
    <2>2. CASE /\ undo'[worker'[v].act].state = "READY"
               /\ undo'[worker'[v].act].version = worker'[v].held
      BY <2>2, <1>3
    <2> QED BY <1>5, <2>1, <2>2 DEF ClaimPending
  <1>6. ASSUME NEW v \in Worker, worker'[v].at \in UndoPreCall
        PROVE  /\ provider'[worker'[v].act].undos = 0
               /\ undo'[worker'[v].act].state \notin {"ABSENT", "READY"}
    <2>1. /\ worker[v].at \in UndoPreCall /\ worker'[v].act = Act(v) /\ Act(v) \in Action
          /\ UndoAdvance(Act(v))
      BY <1>1, <1>6 DEF Act
    <2>2. provider[Act(v)].undos = 0 /\ undo[Act(v)].state \notin {"ABSENT", "READY"}
      BY <2>1 DEF RollbackLicence
    <2> QED BY <2>1, <2>2 DEF UndoAdvance
  <1>7. \A u, v \in Worker :
           u # v /\ worker'[u].at \in UndoPreCall /\ worker'[v].at \in UndoPreCall
              => worker'[u].act # worker'[v].act
    BY DEF RollbackLicence, Act
  <1>8. \A a \in Action : provider'[a].undos <= 1
    BY DEF AtMostOneMutation
  <1> QED BY <1>4, <1>5, <1>6, <1>7, <1>8 DEF RollbackLicence, At, UndoCurrent, Act

\* The claim succeeds on a READY command only.
LEMMA UndoLicenceClaimed ==
    ASSUME CopyInvariant, CopyInvariant', RollbackLicence, AtMostOneMutation,
           NEW w \in Worker, ClaimUndo(w), UndoCurrent(w)
    PROVE  RollbackLicence' /\ \A a \in Action : provider'[a].undos <= 1
  <1>1. worker[w].at = "undoClaim" /\ worker[w].at \in Busy
    BY DEF ClaimUndo, At, Busy, UndoSteps
  <1>2. Act(w) \in Action /\ undo[Act(w)] \in UndoRecord
    BY <1>1, BusyFacts DEF CopyInvariant
  <1>3. "SENT" \in ActionStates /\ "undoRecord" \in Places
    BY DEF ActionStates, Places, Busy, UndoSteps, UndoPreCall
  <1>4. UpdateUndoAndGo(w, "SENT", "undoRecord")
    BY DEF ClaimUndo
  <1>5. /\ Others(w) /\ worker'[w].at = "undoRecord" /\ worker'[w].act = worker[w].act
        /\ UpdateUndo(w, "SENT")
    BY <1>2, <1>3, <1>4, UpdateUndoAndGoEffect DEF CopyInvariant, TypeOK
  <1>6. /\ undo'[Act(w)].state = "SENT" /\ undo'[Act(w)].version = undo[Act(w)].version + 1
        /\ \A a \in Action \ {Act(w)} : undo'[a] = undo[a]
    BY <1>2, <1>3, <1>5, UpdateUndoEffect DEF CopyInvariant, TypeOK
  <1>7. undo[Act(w)].state = "READY" /\ provider[Act(w)].undos = 0
    BY <1>1, <1>2 DEF RollbackLicence, At
  <1>8. UNCHANGED provider
    BY DEF ClaimUndo, outside
  <1>9. \A v \in Worker \ {w} : worker'[v] = worker[v]
    BY <1>5 DEF Others
  <1>10. \A v \in Worker : worker[v].at \in UndoPreCall \cup {"undoClaim"} => Act(v) \in Action
    BY DEF CopyInvariant, CopiesCurrent, CopyCurrent, Busy, UndoSteps
  <1>11. \A v \in Worker \ {w} : worker[v].at \in UndoPreCall => Act(v) # Act(w)
    BY <1>7 DEF RollbackLicence
  <1>12. \A a \in Action :
            /\ undo'[a].state = "ABSENT" => undo'[a].version = 0
            /\ provider'[a].undos # 0 => undo'[a].state \notin {"ABSENT", "READY"}
    BY <1>6, <1>8 DEF RollbackLicence
  <1>13. ASSUME NEW v \in Worker, worker'[v].at = "undoClaim"
         PROVE  /\ undo'[worker'[v].act].state # "ABSENT"
                /\ worker'[v].held <= undo'[worker'[v].act].version
                /\ worker'[v].held = undo'[worker'[v].act].version =>
                       undo'[worker'[v].act].state = "READY"
    <2>1. v # w /\ worker'[v] = worker[v] /\ Act(v) \in Action
      BY <1>5, <1>9, <1>10, <1>13
    <2>2. /\ undo[Act(v)].state # "ABSENT" /\ worker[v].held <= undo[Act(v)].version
          /\ worker[v].held = undo[Act(v)].version => undo[Act(v)].state = "READY"
      BY <1>13, <2>1 DEF RollbackLicence, At, UndoCurrent
    <2>3. worker[v].held \in Nat /\ undo[Act(v)].version \in Nat
      BY <2>1 DEF CopyInvariant, TypeOK, WorkerRecord, UndoRecord
    <2> QED BY <1>6, <2>1, <2>2, <2>3 DEF Act
  <1>14. ASSUME NEW v \in Worker, worker'[v].at \in UndoPreCall
         PROVE  /\ provider'[worker'[v].act].undos = 0
                /\ undo'[worker'[v].act].state \notin {"ABSENT", "READY"}
    <2>1. CASE v = w
      BY <1>5, <1>6, <1>7, <1>8, <2>1 DEF Act
    <2>2. CASE v # w
      BY <1>6, <1>8, <1>9, <1>10, <1>11, <1>14, <2>2 DEF RollbackLicence, Act
    <2> QED BY <2>1, <2>2
  <1>15. \A u, v \in Worker :
            u # v /\ worker'[u].at \in UndoPreCall /\ worker'[v].at \in UndoPreCall
               => worker'[u].act # worker'[v].act
    BY <1>5, <1>9, <1>11 DEF RollbackLicence, Act
  <1>16. \A a \in Action : provider'[a].undos <= 1
    BY <1>8 DEF AtMostOneMutation
  <1> QED BY <1>12, <1>13, <1>14, <1>15, <1>16 DEF RollbackLicence, At, UndoCurrent, Act

\* The call spends the licence.
LEMMA UndoLicenceSpent ==
    ASSUME CopyInvariant, RollbackLicence, AtMostOneMutation, NEW w \in Worker, CallUndo(w)
    PROVE  RollbackLicence' /\ \A a \in Action : provider'[a].undos <= 1
  <1>1. worker[w].at \in UndoPreCall /\ worker[w].at \in Busy
    BY DEF CallUndo, At, UndoPreCall, Busy, UndoSteps
  <1>2. /\ Act(w) \in Action /\ provider[Act(w)].undos = 0
        /\ undo[Act(w)].state \notin {"ABSENT", "READY"}
    BY <1>1, BusyFacts DEF CopyInvariant, RollbackLicence
  <1>3. PICK answer, released :
             /\ provider' = [provider EXCEPT ![Act(w)] = Released(@, released)]
             /\ worker' = [worker EXCEPT ![w].got = answer, ![w].at = "undoResult"]
    BY DEF CallUndo
  <1>4. Others(w) /\ worker'[w].at = "undoResult"
    BY <1>3 DEF CopyInvariant, TypeOK, WorkerRecord, Others
  <1>5. /\ \A a \in Action \ {Act(w)} : provider'[a] = provider[a]
        /\ provider'[Act(w)].undos = 1
    BY <1>2, <1>3 DEF CopyInvariant, TypeOK, Released
  <1>6. UNCHANGED undo
    BY DEF CallUndo, durable
  <1>7. \A v \in Worker : worker'[v].at \in UndoPreCall \cup {"undoClaim"} =>
           v # w /\ worker'[v] = worker[v] /\ worker[v].at \in UndoPreCall \cup {"undoClaim"}
    BY <1>4 DEF Others, UndoPreCall
  <1>8. \A v \in Worker : worker'[v].at \in UndoPreCall => Act(v) # Act(w) /\ Act(v) \in Action
    BY <1>1, <1>7 DEF RollbackLicence, CopyInvariant, CopiesCurrent, CopyCurrent, Busy, UndoSteps
  <1>9. \A a \in Action :
            /\ undo'[a].state = "ABSENT" => undo'[a].version = 0
            /\ provider'[a].undos # 0 => undo'[a].state \notin {"ABSENT", "READY"}
    BY <1>2, <1>5, <1>6 DEF RollbackLicence
  <1>10. ASSUME NEW v \in Worker, worker'[v].at = "undoClaim"
         PROVE  /\ undo'[worker'[v].act].state # "ABSENT"
                /\ worker'[v].held <= undo'[worker'[v].act].version
                /\ worker'[v].held = undo'[worker'[v].act].version =>
                       undo'[worker'[v].act].state = "READY"
    BY <1>6, <1>7, <1>10 DEF RollbackLicence, At, UndoCurrent, Act
  <1>11. \A v \in Worker : worker'[v].at \in UndoPreCall =>
            /\ provider'[worker'[v].act].undos = 0
            /\ undo'[worker'[v].act].state \notin {"ABSENT", "READY"}
    BY <1>5, <1>6, <1>7, <1>8 DEF RollbackLicence, Act
  <1>12. \A u, v \in Worker :
            u # v /\ worker'[u].at \in UndoPreCall /\ worker'[v].at \in UndoPreCall
               => worker'[u].act # worker'[v].act
    BY <1>7 DEF RollbackLicence, Act
  <1>13. \A a \in Action : provider'[a].undos <= 1
    BY <1>5 DEF AtMostOneMutation
  <1> QED BY <1>9, <1>10, <1>11, <1>12, <1>13 DEF RollbackLicence, At, UndoCurrent, Act

\* What a rollback step does to the commands, and to where its executor stands.
LEMMA UndoAdvances ==
    ASSUME TypeOK, CopiesCurrent, NEW w \in Worker, Rollback(w)
    PROVE  \A a \in Action : UndoAdvance(a)
  <1>1. worker[w].at \in Busy
    BY DEF Rollback, ModeForbidsUndo, CannotUndo, Escalate, CreateUndo, ClaimUndo,
           RecordReleasing, ConfirmUndo, CallUndo, UndoResult, UndoAmbiguous,
           UndoPartial, UndoReadback, UndoRecover, UndoCommit, UndoOriginal,
           UndoComplete, UndoResolve, UndoOutcome, At, Busy, UndoSteps, UndoPreCall
  <1>2. Act(w) \in Action
    BY <1>1, BusyFacts
  <1>3. ASSUME NEW s \in ActionStates \ {"READY"}, UpdateUndo(w, s)
        PROVE  \A a \in Action : UndoAdvance(a)
    <2>1. /\ undo'[Act(w)].state = s /\ undo'[Act(w)].version = undo[Act(w)].version + 1
          /\ \A a \in Action \ {Act(w)} : undo'[a] = undo[a]
      BY <1>2, <1>3, UpdateUndoEffect DEF TypeOK
    <2>2. s # "ABSENT"
      BY DEF ActionStates
    <2> QED BY <2>1, <2>2 DEF UndoAdvance
  <1>4. {"SENT", "ACKNOWLEDGED", "OUTCOME_UNKNOWN", "RECONCILIATION_REQUIRED",
         "ROLLED_BACK", "FAILED"} \subseteq ActionStates \ {"READY"}
    BY DEF ActionStates
  <1>5. CASE UNCHANGED undo
    BY <1>5 DEF UndoAdvance
  <1>6. CASE CreateUndo(w)
    <2>1. CASE /\ undo[Act(w)].state = "ABSENT"
               /\ undo' = [undo EXCEPT ![Act(w)] = [state |-> "READY", version |-> 0]]
      BY <1>2, <2>1 DEF TypeOK, UndoAdvance
    <2>2. CASE undo' = [undo EXCEPT ![Act(w)] =
                   [state |-> "OUTCOME_UNKNOWN", version |-> undo[Act(w)].version + 1]]
      BY <1>2, <2>2 DEF TypeOK, UndoAdvance
    <2> QED BY <1>5, <1>6, <2>1, <2>2 DEF CreateUndo
  <1>7. CASE ClaimUndo(w) \/ ConfirmUndo(w)
    BY <1>3, <1>4, <1>5, <1>7 DEF ClaimUndo, ConfirmUndo, UpdateUndoAndGo
  <1>8. CASE UndoResult(w) \/ UndoCommit(w)
    BY <1>3, <1>4, <1>5, <1>8 DEF UndoResult, UndoCommit, UpdateUndoAndGo
  <1>9. CASE ~(CreateUndo(w) \/ ClaimUndo(w) \/ ConfirmUndo(w) \/ UndoResult(w) \/ UndoCommit(w))
    <2>1. UNCHANGED undo
      BY <1>9 DEF Rollback, ModeForbidsUndo, CannotUndo, Escalate, RecordReleasing,
                  CallUndo, UndoAmbiguous, UndoPartial, UndoReadback, UndoRecover,
                  UndoOriginal, UndoComplete, UndoResolve, UndoOutcome, durable
    <2> QED BY <1>5, <2>1
  <1> QED BY <1>6, <1>7, <1>8, <1>9

\* Where an executor that holds or asks for the licence to roll back came from.
LEMMA UndoSources ==
    ASSUME TypeOK, CopiesCurrent, NEW w \in Worker, Rollback(w),
           ~(ClaimUndo(w) /\ UndoCurrent(w))
    PROVE  /\ worker'[w].at \in UndoPreCall =>
                 worker[w].at \in UndoPreCall /\ worker'[w].act = worker[w].act
           /\ worker'[w].at = "undoClaim" => ClaimPending(w)
  <1>1. worker \in [Worker -> WorkerRecord]
    BY DEF TypeOK
  <1>2. {"escalate", "undoConfirm", "undoCall", "undoAmbiguous",
         "undoPartial", "undoReadback", "undoRecover", "undoCommit",
         "undoOriginal", "undoComplete", "undoResolve", "undoOutcome"} \subseteq Places
    BY DEF Places, Busy, UndoSteps, UndoPreCall
  <1>3. ASSUME NEW place \in Places, GoTo(w, place)
        PROVE  worker'[w].at = place /\ worker'[w].act = worker[w].act
    BY <1>1, <1>3, GoToEffect
  <1>4. ASSUME Return(w)  PROVE worker'[w].at = "next"
    BY <1>1, <1>4, ReturnEffect
  <1>5. ASSUME NEW s \in ActionStates, NEW place \in Places, UpdateUndoAndGo(w, s, place),
               Act(w) \in Action
        PROVE  worker'[w].at = place
    BY <1>1, <1>5, UpdateUndoAndGoEffect
  <1>6. CASE CreateUndo(w)
    <2>1. Act(w) \in Action
      BY <1>6, BusyFacts DEF CreateUndo, At, Busy, UndoSteps
    <2>2. CASE Return(w)
      BY <1>4, <2>2 DEF UndoPreCall
    <2>3. CASE /\ undo' = [undo EXCEPT ![Act(w)] = [state |-> "READY", version |-> 0]]
               /\ worker' = [worker EXCEPT ![w].held = 0, ![w].at = "undoClaim"]
      <3>1. /\ worker'[w].at = "undoClaim" /\ worker'[w].act = Act(w)
            /\ worker'[w].held = 0
        BY <1>1, <2>3 DEF WorkerRecord, Act
      <3>2. undo'[Act(w)] = [state |-> "READY", version |-> 0]
        BY <2>1, <2>3 DEF TypeOK
      <3> QED BY <3>1, <3>2 DEF ClaimPending, UndoPreCall
    <2>4. CASE /\ undo[Act(w)].state = "READY" /\ UNCHANGED undo
               /\ worker' = [worker EXCEPT ![w].held = undo[Act(w)].version,
                                            ![w].at = "undoClaim"]
      <3>1. /\ worker'[w].at = "undoClaim" /\ worker'[w].act = Act(w)
            /\ worker'[w].held = undo[Act(w)].version
        BY <1>1, <2>4 DEF WorkerRecord, Act
      <3> QED BY <2>4, <3>1 DEF ClaimPending, UndoPreCall
    <2> QED BY <1>6, <2>2, <2>3, <2>4 DEF CreateUndo
  <1>7. CASE ClaimUndo(w) \/ ConfirmUndo(w) \/ RecordReleasing(w)
    BY <1>2, <1>3, <1>4, <1>7
       DEF ClaimUndo, ConfirmUndo, RecordReleasing, At, UndoPreCall, UpdateUndoAndGo, UpdateUndo
  <1>8. CASE CallUndo(w) \/ UndoReadback(w)
    <2>1. ASSUME NEW value, NEW place,
                 worker' = [worker EXCEPT ![w].got = value, ![w].at = place]
          PROVE  worker'[w].at = place
      BY <1>1, <2>1 DEF WorkerRecord
    <2>2. worker'[w].at \in {"undoResult", "undoRecover"}
      BY <1>8, <2>1 DEF CallUndo, UndoReadback
    <2> QED BY <2>2 DEF UndoPreCall
  <1>9. CASE UndoResult(w) \/ UndoCommit(w)
    <2>1. Act(w) \in Action
      BY <1>9, BusyFacts DEF UndoResult, UndoCommit, At, Busy, UndoSteps
    <2>2. {"ACKNOWLEDGED", "OUTCOME_UNKNOWN", "RECONCILIATION_REQUIRED", "ROLLED_BACK"}
             \subseteq ActionStates
      BY DEF ActionStates
    <2>3. worker'[w].at \in {"next", "undoReadback", "undoAmbiguous", "undoOriginal", "undoPartial"}
      BY <1>2, <1>4, <1>5, <1>9, <2>1, <2>2 DEF UndoResult, UndoCommit
    <2> QED BY <2>3 DEF UndoPreCall
  <1>10. CASE \/ ModeForbidsUndo(w) \/ CannotUndo(w) \/ Escalate(w) \/ UndoAmbiguous(w)
              \/ UndoPartial(w) \/ UndoRecover(w) \/ UndoOriginal(w) \/ UndoComplete(w)
              \/ UndoResolve(w) \/ UndoOutcome(w)
    <2>1. worker'[w].at \in {"next", "escalate", "undoPartial", "undoCommit", "undoComplete",
                              "undoResolve", "undoOutcome"}
      BY <1>2, <1>3, <1>4, <1>10
         DEF ModeForbidsUndo, CannotUndo, Escalate, UndoAmbiguous, UndoPartial, UndoRecover,
             UndoOriginal, UndoComplete, UndoResolve, UndoOutcome
    <2> QED BY <2>1 DEF UndoPreCall
  <1> QED BY <1>6, <1>7, <1>8, <1>9, <1>10 DEF Rollback

\* The licence to roll back survives every step.
LEMMA UndoLicenceStep ==
    ASSUME CopyInvariant, CopyInvariant', RollbackLicence, AtMostOneMutation, [Next]_vars
    PROVE  RollbackLicence' /\ \A a \in Action : provider'[a].undos <= 1
  <1> USE DEF CopyInvariant
  <1>1. CASE UNCHANGED vars
    BY <1>1, UndoLicenceKept DEF vars, outside, durable, UndoAdvance, ClaimPending
  <1>2. ASSUME NEW w \in Worker, Step(w)
        PROVE  RollbackLicence' /\ \A a \in Action : provider'[a].undos <= 1
    <2>1. CASE ClaimUndo(w) /\ UndoCurrent(w)
      BY <2>1, UndoLicenceClaimed
    <2>2. CASE CallUndo(w)
      BY <2>2, UndoLicenceSpent
    <2>3. CASE ~(ClaimUndo(w) /\ UndoCurrent(w)) /\ ~CallUndo(w)
      <3>1. Others(w)
        BY <1>2, StepOthers
      <3>2. \A a \in Action : UndoAdvance(a)
        <4>1. CASE Rollback(w)
          BY <4>1, UndoAdvances
        <4>2. CASE ~Rollback(w)
          <5>1. UNCHANGED undo
            BY <1>2, <4>2
               DEF Step, Acknowledge, Conflict, Raise, ExecuteReadyAction, VerifyKnown,
                   Dispatch, Block, BlockIncident, Own, Recheck, Claim, Confirm, Reserve,
                   CallProvider, Result, RecordFailure, Reconcile, Reconciled, Verify,
                   Readback, Record, Publish, Commit, Resolve, RecordOutcome, Release,
                   durable
          <5> QED BY <5>1 DEF UndoAdvance
        <4> QED BY <4>1, <4>2
      <3>3. /\ worker'[w].at \in UndoPreCall =>
                  worker[w].at \in UndoPreCall /\ worker'[w].act = worker[w].act
            /\ worker'[w].at = "undoClaim" => ClaimPending(w)
        BY <1>2, <2>3, LicenceSources, UndoSources
      <3>4. ASSUME NEW v \in Worker \ {w}
            PROVE  /\ worker'[v].at \in UndoPreCall =>
                         worker[v].at \in UndoPreCall /\ worker'[v].act = worker[v].act
                   /\ worker'[v].at = "undoClaim" => ClaimPending(v)
        BY <3>1 DEF Others, ClaimPending
      <3> QED BY <1>2, <2>3, <3>2, <3>3, <3>4, CallsCounted, UndoLicenceKept
    <2> QED BY <2>1, <2>2, <2>3
  <1>3. ASSUME NEW w \in Worker, Raise(w) \/ \E i \in Incident : Deliver(w, i)
        PROVE  RollbackLicence' /\ \A a \in Action : provider'[a].undos <= 1
    <2>1. /\ UNCHANGED <<provider, undo>> /\ Others(w)
          /\ worker'[w].at \in {"idle", "next"}
      <3>1. CASE Raise(w)
        BY <3>1, RaiseEffect DEF Raise, durable
      <3>2. ASSUME NEW i \in Incident, Deliver(w, i)
            PROVE  UNCHANGED <<provider, undo>> /\ Others(w) /\ worker'[w].at = "next"
        BY <3>2 DEF Deliver, TypeOK, Others, IdleWorker, durable
      <3> QED BY <1>3, <3>1, <3>2
    <2>2. \A v \in Worker :
             /\ worker'[v].at \in UndoPreCall =>
                   worker[v].at \in UndoPreCall /\ worker'[v].act = worker[v].act
             /\ worker'[v].at = "undoClaim" => ClaimPending(v)
      BY <2>1 DEF Others, UndoPreCall, ClaimPending
    <2>3. \A a \in Action : UndoAdvance(a)
      BY <2>1 DEF UndoAdvance
    <2> QED BY <2>1, <2>2, <2>3, UndoLicenceKept
  <1>4. CASE Reconstruct \/ Environment
    <2>1. \A a \in Action : provider'[a].undos = provider[a].undos
      <3>1. ASSUME NEW a \in Action, Lapse(a)
            PROVE  \A b \in Action : provider'[b].undos = provider[b].undos
        BY <3>1 DEF Lapse, TypeOK, ProviderRecord
      <3> QED BY <1>4, <3>1 DEF Reconstruct, Environment, Withdraw, Expire, Crash, Overlap
    <2>2. \A v \in Worker : worker'[v] = worker[v] \/ worker'[v].at = "idle"
      BY <1>4 DEF Reconstruct, Environment, Withdraw, Expire, Lapse, Crash, Overlap, IdleWorker
    <2>3. \A v \in Worker :
             /\ worker'[v].at \in UndoPreCall =>
                   worker[v].at \in UndoPreCall /\ worker'[v].act = worker[v].act
             /\ worker'[v].at = "undoClaim" => ClaimPending(v)
      BY <2>2 DEF UndoPreCall, ClaimPending
    <2>4. \A a \in Action : UndoAdvance(a)
      <3>1. CASE MarkRestartUnknown
        BY <3>1 DEF MarkRestartUnknown, UndoAdvance
      <3>2. CASE UNCHANGED undo
        BY <3>2 DEF UndoAdvance
      <3> QED
        BY <1>4, <3>1, <3>2
           DEF Reconstruct, Environment, Withdraw, Expire, Lapse, Crash, Overlap, durable
    <2> QED BY <2>1, <2>3, <2>4, UndoLicenceKept
  <1> QED BY <1>1, <1>2, <1>3, <1>4 DEF Next, Fault

LicenceInvariant ==
    CopyInvariant /\ MutationLicence /\ RollbackLicence /\ AtMostOneMutation

\* Nobody holds a licence at first, and nothing has been called.
LEMMA InitLicence == Init => LicenceInvariant
  <1> SUFFICES ASSUME Init PROVE LicenceInvariant
    OBVIOUS
  <1>1. \A w \in Worker : worker[w].at = "idle"
    BY DEF Init, IdleWorker
  <1>2. \A a \in Action :
           /\ provider[a].execs = 0 /\ provider[a].undos = 0 /\ undo[a].version = 0
    BY DEF Init
  <1> QED
    BY <1>1, <1>2, InitCopies
       DEF LicenceInvariant, MutationLicence, RollbackLicence, AtMostOneMutation, At,
           PreCall, UndoPreCall

\* The licence invariant holds in every reachable state.
THEOREM LicencesAlways == Spec => []LicenceInvariant
  <1>1. LicenceInvariant /\ CopyInvariant' /\ [Next]_vars => LicenceInvariant'
    BY LicenceStep, UndoLicenceStep DEF LicenceInvariant, AtMostOneMutation
  <1> QED BY InitLicence, CopiesAlways, <1>1, PTL DEF Spec

\* The licence to mutate and the licence to roll back are each taken at most once,
\* held by one executor, and spent by the call.
THEOREM LicencesAreExclusive == Spec => [](MutationLicence /\ RollbackLicence)
  <1>1. LicenceInvariant => MutationLicence /\ RollbackLicence
    BY DEF LicenceInvariant
  <1> QED BY LicencesAlways, <1>1, PTL

\* The provider receives at most one mutation and at most one rollback per action,
\* for every set of actions, executors and incidents and any number of redeliveries,
\* faults, crashes and restarts.
THEOREM MutationsAtMostOnce == Spec => []AtMostOneMutation
  <1>1. LicenceInvariant => AtMostOneMutation
    BY DEF LicenceInvariant
  <1> QED BY LicencesAlways, <1>1, PTL
=============================================================================
