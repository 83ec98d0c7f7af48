------------------------- MODULE ExecutionOutcomes -------------------------
(***************************************************************************)
(* What the states an action and an incident end in say about the network, *)
(* for every value of the constants of Execution.                          *)
(*                                                                         *)
(* ExecutionProofs shows that copies are sound and licences exclusive.     *)
(* Here the executor's step is summed up first, once: where it may go      *)
(* (Flow), what it may write to an action (ActionWritten), to an incident  *)
(* (IncidentWritten) and to a lease, and what it does to the provider.     *)
(* The invariants are then inductive over those summaries.                 *)
(***************************************************************************)
EXTENDS ExecutionProofs

(***************************************************************************)
(* The step of an executor, summed up.                                     *)
(***************************************************************************)
\* The executor goes on with the answer it has ...
Onward ==
    {<<"block", "blockIncident">>, <<"own", "block">>, <<"own", "recheck">>,
     <<"recheck", "block">>, <<"recheck", "claim">>, <<"claim", "confirm">>,
     <<"confirm", "reserve">>, <<"reserve", "call">>, <<"result", "verify">>,
     <<"result", "recordFailure">>, <<"reconciled", "verify">>,
     <<"verify", "readback">>, <<"record", "publish">>, <<"publish", "commit">>,
     <<"commit", "resolve">>, <<"commit", "undo">>, <<"resolve", "outcome">>,
     <<"resolve", "release">>, <<"outcome", "release">>, <<"release", "release">>,
     <<"undo", "escalate">>, <<"undo", "undoClaim">>, <<"undoClaim", "undoRecord">>,
     <<"undoRecord", "undoConfirm">>, <<"undoConfirm", "undoCall">>,
     <<"undoResult", "undoReadback">>, <<"undoResult", "undoAmbiguous">>,
     <<"undoAmbiguous", "undoPartial">>, <<"undoRecover", "undoCommit">>,
     <<"undoCommit", "undoOriginal">>, <<"undoCommit", "undoPartial">>,
     <<"undoOriginal", "undoComplete">>, <<"undoComplete", "undoResolve">>,
     <<"undoResolve", "undoOutcome">>}

\* ... or takes a new one from the provider.
Asking ==
    {<<"call", "result">>, <<"reconcile", "reconciled">>, <<"readback", "record">>,
     <<"undoCall", "undoResult">>, <<"undoReadback", "undoRecover">>}

Edge(w) == <<worker[w].at, worker'[w].at>>

\* It rests, takes up an action, goes on, or asks the provider.
Rests(w) == worker'[w].at \in {"idle", "next"}

TakesUp(w) ==
    /\ worker'[w].act \in Action
    /\ worker'[w].seen = action[worker'[w].act]
    /\ \E operating \in BOOLEAN : worker'[w].at = Route(worker'[w].act, operating)
    /\ worker'[w].at \in {"reconcile", "verify", "undo", "own", "block"}
    /\ UNCHANGED <<durable, outside>>

GoesOn(w) ==
    /\ Edge(w) \in Onward
    /\ worker'[w].act = worker[w].act
    /\ worker'[w].got = worker[w].got
    /\ worker'[w].seen \in {worker[w].seen, action'[Act(w)]}

Asks(w) ==
    /\ Edge(w) \in Asking
    /\ worker'[w].act = worker[w].act
    /\ worker'[w].seen = worker[w].seen
    /\ UNCHANGED durable

Flow(w) == Rests(w) \/ TakesUp(w) \/ GoesOn(w) \/ Asks(w)

\* An executor inside a call is at the place its action asks for.
LEMMA EdgeBusy ==
    ASSUME NEW p, NEW q, <<p, q>> \in Onward \cup Asking
    PROVE  p \in Busy /\ q \in Busy
  BY DEF Onward, Asking, Busy, ClaimSteps, PreCall, ResultSteps, VerifySteps,
         ReconcileSteps, UndoSteps, UndoPreCall

\* Going on to another place, in one fact.
LEMMA GoToOnward ==
    ASSUME TypeOK, NEW w \in Worker, NEW place, GoTo(w, place),
           <<worker[w].at, place>> \in Onward
    PROVE  GoesOn(w)
  BY DEF GoTo, GoesOn, Edge, TypeOK, WorkerRecord

\* Going on after a compare-and-swap, with the record as the new copy.
LEMMA UpdateOnward ==
    ASSUME CopyInvariant, NEW w \in Worker, NEW s \in ActionStates, NEW place,
           UpdateAndGo(w, s, place), <<worker[w].at, place>> \in Onward
    PROVE  GoesOn(w)
  <1>1. place \in Places /\ worker[w].at \in Busy
    BY EdgeBusy DEF Places
  <1>2. Act(w) \in Action
    BY <1>1, BusyFacts DEF CopyInvariant
  <1>3. /\ worker'[w].at = place /\ worker'[w].act = worker[w].act
        /\ worker'[w].seen = action'[Act(w)]
    BY <1>1, <1>2, UpdateAndGoEffect, UpdateActionEffect DEF CopyInvariant, TypeOK
  <1>4. worker'[w].got = worker[w].got
    BY DEF UpdateAndGo, CopyInvariant, TypeOK, WorkerRecord
  <1> QED BY <1>3, <1>4 DEF GoesOn, Edge

\* Going on after a write to the rollback command.
LEMMA HoldOnward ==
    ASSUME TypeOK, NEW w \in Worker, NEW v, NEW place,
           worker' = [worker EXCEPT ![w].held = v, ![w].at = place],
           <<worker[w].at, place>> \in Onward
    PROVE  GoesOn(w)
  BY DEF GoesOn, Edge, TypeOK, WorkerRecord

\* Asking the provider.
LEMMA AnswerAsks ==
    ASSUME TypeOK, NEW w \in Worker, NEW answer, NEW place,
           worker' = [worker EXCEPT ![w].got = answer, ![w].at = place],
           <<worker[w].at, place>> \in Asking, UNCHANGED durable
    PROVE  Asks(w) /\ worker'[w].got = answer
  BY DEF Asks, Edge, TypeOK, WorkerRecord

\* Every step of an executor is one of the four.
LEMMA StepFlow ==
    ASSUME CopyInvariant, NEW w \in Worker, Step(w)
    PROVE  Flow(w)
  <1>1. TypeOK /\ worker \in [Worker -> WorkerRecord]
    BY DEF CopyInvariant, TypeOK
  <1>2. ASSUME Return(w)  PROVE Flow(w)
    BY <1>1, <1>2, ReturnEffect DEF Flow, Rests
  <1>3. ASSUME NEW place, GoTo(w, place), <<worker[w].at, place>> \in Onward
        PROVE  Flow(w)
    BY <1>1, <1>3, GoToOnward DEF Flow
  <1>4. ASSUME NEW s \in ActionStates, NEW place, UpdateAndGo(w, s, place),
               <<worker[w].at, place>> \in Onward
        PROVE  Flow(w)
    BY <1>4, UpdateOnward DEF Flow
  <1>5. ASSUME NEW v, NEW place, <<worker[w].at, place>> \in Onward,
               worker' = [worker EXCEPT ![w].held = v, ![w].at = place]
        PROVE  Flow(w)
    BY <1>1, <1>5, HoldOnward DEF Flow
  <1>7. {"SENT", "FAILED", "ACKNOWLEDGED", "SUCCESS", "ROLLBACK_REQUIRED"}
           \subseteq ActionStates
    BY DEF ActionStates
  <1>8. CASE Acknowledge(w) \/ Conflict(w)
    BY <1>1, <1>8 DEF Acknowledge, Conflict, Raise, IdleWorker, Flow, Rests
  <1>9. CASE Dispatch(w)
    BY <1>1, <1>9, DispatchEffect DEF Flow, Rests, TakesUp
  <1>10. CASE Block(w) \/ BlockIncident(w) \/ RecordFailure(w)
    BY <1>2, <1>3, <1>10 DEF Block, BlockIncident, RecordFailure, At, Onward
  <1>11. CASE Own(w)
    BY <1>3, <1>11 DEF Own, At, Onward
  <1>12. CASE Recheck(w)
    <2>1. ASSUME worker' = [worker EXCEPT ![w].seen = action[Act(w)], ![w].at = "claim"],
                 UNCHANGED action, At(w, "recheck")
          PROVE  Flow(w)
      BY <1>1, <2>1 DEF Flow, GoesOn, Edge, At, Onward, WorkerRecord
    <2> QED BY <1>2, <1>3, <1>12, <2>1 DEF Recheck, At, Onward
  <1>13. CASE Claim(w)
    BY <1>4, <1>7, <1>13 DEF Claim, At, Onward
  <1>14. CASE Confirm(w) \/ Reserve(w)
    BY <1>2, <1>3, <1>14 DEF Confirm, Reserve, At, Onward
  <1>15. CASE CallProvider(w)
    <2>1. PICK answer : worker' = [worker EXCEPT ![w].got = answer, ![w].at = "result"]
      BY <1>15 DEF CallProvider
    <2>2. <<worker[w].at, "result">> \in Asking /\ UNCHANGED durable
      BY <1>15 DEF CallProvider, At, Asking
    <2> QED BY <2>1, <2>2, <1>1, AnswerAsks DEF Flow
  <1>16. CASE Result(w)
    <2>1. CASE /\ action' = [action EXCEPT ![Act(w)] = Accepted(w)]
               /\ worker' = [worker EXCEPT ![w].seen = Accepted(w), ![w].at = "verify"]
      <3>1. Act(w) \in Action
        BY <1>1, <1>16, BusyFacts DEF Result, At, Busy, ResultSteps, CopyInvariant
      <3>2. action'[Act(w)] = Accepted(w)
        BY <1>1, <2>1, <3>1 DEF TypeOK
      <3> QED BY <1>1, <1>16, <2>1, <3>2
              DEF Result, At, Flow, GoesOn, Edge, Onward, WorkerRecord
    <2> QED BY <1>2, <1>4, <1>7, <1>16, <2>1 DEF Result, At, Onward
  <1>17. CASE Reconcile(w) \/ Readback(w)
    <2>1. CASE Reconcile(w)
      <3>1. PICK answer : worker' = [worker EXCEPT ![w].got = answer, ![w].at = "reconciled"]
        BY <2>1 DEF Reconcile
      <3>2. <<worker[w].at, "reconciled">> \in Asking /\ UNCHANGED durable
        BY <2>1 DEF Reconcile, At, Asking
      <3> QED BY <3>1, <3>2, <1>1, AnswerAsks DEF Flow
    <2>2. CASE Readback(w)
      <3>1. PICK answer : worker' = [worker EXCEPT ![w].got = answer, ![w].at = "record"]
        BY <2>2 DEF Readback
      <3>2. <<worker[w].at, "record">> \in Asking /\ UNCHANGED durable
        BY <2>2 DEF Readback, At, Asking
      <3> QED BY <3>1, <3>2, <1>1, AnswerAsks DEF Flow
    <2> QED BY <1>17, <2>1, <2>2
  <1>18. CASE Reconciled(w) \/ Commit(w)
    BY <1>2, <1>4, <1>7, <1>18 DEF Reconciled, Commit, At, Onward
  <1>19. CASE Verify(w) \/ Record(w) \/ Publish(w) \/ RecordOutcome(w)
    BY <1>3, <1>19 DEF Verify, Record, Publish, RecordOutcome, At, Onward
  <1>20. CASE Resolve(w)
    BY <1>2, <1>3, <1>20 DEF Resolve, At, Onward
  <1>21. CASE Release(w)
    BY <1>2, <1>21 DEF Release, At, Flow, GoesOn, Edge, Onward
  <1>22. CASE ModeForbidsUndo(w) \/ CannotUndo(w) \/ Escalate(w) \/ RecordReleasing(w)
              \/ UndoAmbiguous(w) \/ UndoPartial(w) \/ UndoRecover(w)
    BY <1>2, <1>3, <1>22 DEF ModeForbidsUndo, CannotUndo, Escalate, RecordReleasing,
                             UndoAmbiguous, UndoPartial, UndoRecover, At, Onward
  <1>23. CASE UndoOriginal(w) \/ UndoComplete(w) \/ UndoResolve(w) \/ UndoOutcome(w)
              \/ ConfirmUndo(w)
    BY <1>2, <1>3, <1>23 DEF UndoOriginal, UndoComplete, UndoResolve, UndoOutcome,
                             ConfirmUndo, At, Onward
  <1>24. CASE CreateUndo(w)
    BY <1>2, <1>5, <1>24 DEF CreateUndo, At, Onward
  <1>25. CASE ClaimUndo(w) \/ UndoResult(w) \/ UndoCommit(w)
    BY <1>2, <1>5, <1>25 DEF ClaimUndo, UndoResult, UndoCommit, UpdateUndoAndGo, At, Onward
  <1>26. CASE CallUndo(w) \/ UndoReadback(w)
    <2>1. CASE CallUndo(w)
      <3>1. PICK answer : worker' = [worker EXCEPT ![w].got = answer, ![w].at = "undoResult"]
        BY <2>1 DEF CallUndo
      <3>2. <<worker[w].at, "undoResult">> \in Asking /\ UNCHANGED durable
        BY <2>1 DEF CallUndo, At, Asking
      <3> QED BY <3>1, <3>2, <1>1, AnswerAsks DEF Flow
    <2>2. CASE UndoReadback(w)
      <3>1. PICK answer : worker' = [worker EXCEPT ![w].got = answer, ![w].at = "undoRecover"]
        BY <2>2 DEF UndoReadback
      <3>2. <<worker[w].at, "undoRecover">> \in Asking /\ UNCHANGED durable
        BY <2>2 DEF UndoReadback, At, Asking
      <3> QED BY <3>1, <3>2, <1>1, AnswerAsks DEF Flow
    <2> QED BY <1>26, <2>1, <2>2
  <1> QED
    BY <1>8, <1>9, <1>10, <1>11, <1>12, <1>13, <1>14, <1>15, <1>16, <1>17, <1>18, <1>19,
       <1>20, <1>21, <1>22, <1>23, <1>24, <1>25, <1>26
       DEF Step, ExecuteReadyAction, VerifyKnown, Rollback

\* Each action runs at one place.
LEMMA ActionPlaces ==
    ASSUME NEW w \in Worker
    PROVE  /\ Dispatch(w) => At(w, "next")
           /\ Block(w) => At(w, "block")
           /\ BlockIncident(w) => At(w, "blockIncident")
           /\ Own(w) => At(w, "own")
           /\ Recheck(w) => At(w, "recheck")
           /\ Claim(w) => At(w, "claim")
           /\ Confirm(w) => At(w, "confirm")
           /\ Reserve(w) => At(w, "reserve")
           /\ CallProvider(w) => At(w, "call")
           /\ Result(w) => At(w, "result")
           /\ RecordFailure(w) => At(w, "recordFailure")
           /\ Reconcile(w) => At(w, "reconcile")
           /\ Reconciled(w) => At(w, "reconciled")
           /\ Verify(w) => At(w, "verify")
           /\ Readback(w) => At(w, "readback")
           /\ Record(w) => At(w, "record")
           /\ Publish(w) => At(w, "publish")
           /\ Commit(w) => At(w, "commit")
           /\ Resolve(w) => At(w, "resolve")
           /\ RecordOutcome(w) => At(w, "outcome")
           /\ Release(w) => At(w, "release")
  BY DEF Dispatch, Block, BlockIncident, Own, Recheck, Claim, Confirm, Reserve,
         CallProvider, Result, RecordFailure, Reconcile, Reconciled, Verify, Readback,
         Record, Publish, Commit, Resolve, RecordOutcome, Release

\* The same for the rollback.
LEMMA UndoPlaces ==
    ASSUME NEW w \in Worker
    PROVE  /\ ModeForbidsUndo(w) \/ CannotUndo(w) \/ CreateUndo(w) => At(w, "undo")
           /\ Escalate(w) => At(w, "escalate")
           /\ ClaimUndo(w) => At(w, "undoClaim")
           /\ RecordReleasing(w) => At(w, "undoRecord")
           /\ ConfirmUndo(w) => At(w, "undoConfirm")
           /\ CallUndo(w) => At(w, "undoCall")
           /\ UndoResult(w) => At(w, "undoResult")
           /\ UndoAmbiguous(w) => At(w, "undoAmbiguous")
           /\ UndoPartial(w) => At(w, "undoPartial")
           /\ UndoReadback(w) => At(w, "undoReadback")
           /\ UndoRecover(w) => At(w, "undoRecover")
           /\ UndoCommit(w) => At(w, "undoCommit")
           /\ UndoOriginal(w) => At(w, "undoOriginal")
           /\ UndoComplete(w) => At(w, "undoComplete")
           /\ UndoResolve(w) => At(w, "undoResolve")
           /\ UndoOutcome(w) => At(w, "undoOutcome")
  BY DEF ModeForbidsUndo, CannotUndo, CreateUndo, Escalate, ClaimUndo, RecordReleasing,
         ConfirmUndo, CallUndo, UndoResult, UndoAmbiguous, UndoPartial, UndoReadback,
         UndoRecover, UndoCommit, UndoOriginal, UndoComplete, UndoResolve, UndoOutcome

\* So the place of an executor that goes on says which action it takes.
LEMMA StepAt ==
    ASSUME CopyInvariant, NEW w \in Worker, Step(w), ~Rests(w), ~At(w, "next")
    PROVE  /\ At(w, "block") => Block(w)
           /\ At(w, "own") => Own(w)
           /\ At(w, "recheck") => Recheck(w)
           /\ At(w, "claim") => Claim(w)
           /\ At(w, "confirm") => Confirm(w)
           /\ At(w, "reserve") => Reserve(w)
           /\ At(w, "call") => CallProvider(w)
           /\ At(w, "reconcile") => Reconcile(w)
           /\ At(w, "result") => Result(w)
           /\ At(w, "reconciled") => Reconciled(w)
           /\ At(w, "verify") => Verify(w)
           /\ At(w, "commit") => Commit(w)
           /\ At(w, "resolve") => Resolve(w)
           /\ At(w, "undoCall") => CallUndo(w)
           /\ At(w, "undoReadback") => UndoReadback(w)
           /\ At(w, "undoCommit") => UndoCommit(w)
           /\ At(w, "undoRecover") => UndoRecover(w)
  <1>1. ~Acknowledge(w) /\ ~Conflict(w)
    BY DEF Acknowledge, Conflict, Raise, IdleWorker, Rests, CopyInvariant, TypeOK
  <1> QED
    BY <1>1, ActionPlaces, UndoPlaces
       DEF Step, ExecuteReadyAction, VerifyKnown, Rollback, At

\* What an executor may write to an action: from which place, over which state.
ActionWrites ==
    ({"block"} \X {"READY"} \X {"FAILED"})
    \cup ({"claim"} \X {"READY"} \X {"SENT"})
    \cup ({"confirm"} \X {"SENT"} \X {"OUTCOME_UNKNOWN", "FAILED"})
    \cup ({"reserve"} \X {"SENT"} \X {"FAILED"})
    \cup ({"result"} \X {"SENT"} \X {"ACKNOWLEDGED", "FAILED", "OUTCOME_UNKNOWN"})
    \cup ({"reconciled"} \X {"OUTCOME_UNKNOWN", "RECONCILIATION_REQUIRED"}
             \X {"ACKNOWLEDGED", "FAILED", "RECONCILIATION_REQUIRED"})
    \cup ({"commit"} \X {"ACKNOWLEDGED"}
             \X {"SUCCESS", "ROLLBACK_REQUIRED", "RECONCILIATION_REQUIRED"})
    \cup ({"undoOriginal"} \X {"ROLLBACK_REQUIRED"} \X {"ROLLED_BACK"})

\* The write a result or a reconciliation makes is the answer's.
AnswerWrites ==
    {<<"ACCEPTED", "ACKNOWLEDGED">>, <<"FAILED", "FAILED">>,
     <<"AMBIGUOUS", "OUTCOME_UNKNOWN">>, <<"UNKNOWN", "RECONCILIATION_REQUIRED">>}

\* Only the accepted result learns a resource id.
WritesAction(w, a) ==
    /\ a = Act(w)
    /\ <<worker[w].at, action[a].state, action'[a].state>> \in ActionWrites
    /\ worker[w].at \in {"result", "reconciled"} =>
          <<worker[w].got, action'[a].state>> \in AnswerWrites
    /\ \/ action'[a].rid = action[a].rid
       \/ At(w, "result") /\ action'[a].state = "ACKNOWLEDGED"

\* A compare-and-swap that succeeds, seen from the record.
LEMMA SwapEffect ==
    ASSUME CopyInvariant, NEW w \in Worker, worker[w].at \in Busy, NEW s \in ActionStates,
           UpdateAction(w, s), NEW a \in Action, action'[a] # action[a]
    PROVE  /\ a = Act(w)
           /\ action[a] = worker[w].seen
           /\ action'[a].state = s
           /\ action'[a].rid = action[a].rid
  <1>1. Act(w) \in Action /\ worker[w].seen \in ActionRecord
    BY BusyFacts DEF CopyInvariant
  <1>2. /\ Current(w) /\ action'[Act(w)] = Written(worker[w].seen, s)
        /\ \A b \in Action \ {Act(w)} : action'[b] = action[b]
    BY <1>1, UpdateActionEffect DEF CopyInvariant, TypeOK
  <1>3. worker[w].seen = action[Act(w)]
    BY <1>2 DEF CopyInvariant, CopiesCurrent, CopyCurrent
  <1> QED BY <1>2, <1>3 DEF Written

\* A rewrite of the record itself.
LEMMA RewriteEffect ==
    ASSUME TypeOK, NEW b, NEW s, action' = [action EXCEPT ![b] = Written(@, s)],
           NEW a \in Action, action'[a] # action[a]
    PROVE  a = b /\ action'[a].state = s /\ action'[a].rid = action[a].rid
  BY DEF TypeOK, Written

\* Nothing else is written to an action by an executor.
LEMMA ActionWritten ==
    ASSUME CopyInvariant, NEW w \in Worker, Step(w),
           NEW a \in Action, action'[a] # action[a]
    PROVE  WritesAction(w, a)
  <1>1. TypeOK /\ CopiesFit
    BY DEF CopyInvariant
  <1>2. ASSUME NEW s \in ActionStates, UpdateAction(w, s), worker[w].at \in Busy
        PROVE  /\ a = Act(w) /\ action[a] = worker[w].seen
               /\ action'[a].state = s /\ action'[a].rid = action[a].rid
    BY <1>2, SwapEffect
  <1>3. ASSUME NEW b, NEW s, action' = [action EXCEPT ![b] = Written(@, s)]
        PROVE  a = b /\ action'[a].state = s /\ action'[a].rid = action[a].rid
    BY <1>1, <1>3, RewriteEffect
  <1>4. {"SENT", "FAILED", "ACKNOWLEDGED", "SUCCESS", "ROLLBACK_REQUIRED",
         "OUTCOME_UNKNOWN", "RECONCILIATION_REQUIRED"} \subseteq ActionStates
    BY DEF ActionStates
  <1>5. {"claim", "confirm", "reserve", "result", "reconciled", "commit"} \subseteq Busy
    BY DEF Busy, ClaimSteps, PreCall, ResultSteps, VerifySteps, ReconcileSteps
  <1>6. CASE Block(w)
    BY <1>3, <1>6 DEF Block, At, WritesAction, ActionWrites
  <1>7. CASE Claim(w)
    BY <1>1, <1>2, <1>4, <1>5, <1>7
       DEF Claim, At, UpdateAndGo, WritesAction, ActionWrites, CopiesFit, CopyFits
  <1>8. CASE Confirm(w)
    <2>1. CASE UpdateAction(w, "OUTCOME_UNKNOWN")
      BY <1>1, <1>2, <1>4, <1>5, <1>8, <2>1
         DEF Confirm, At, WritesAction, ActionWrites, CopiesFit, CopyFits, PreCall
    <2>2. CASE /\ action[Act(w)].state = "SENT"
               /\ action' = [action EXCEPT ![Act(w)] = Written(@, "FAILED")]
      <3>1. a = Act(w) /\ action'[a].state = "FAILED" /\ action'[a].rid = action[a].rid
        BY <1>3, <2>2
      <3> QED BY <1>8, <2>2, <3>1 DEF Confirm, At, WritesAction, ActionWrites
    <2> QED BY <1>8, <2>1, <2>2 DEF Confirm
  <1>9. CASE Reserve(w)
    BY <1>1, <1>2, <1>4, <1>5, <1>9
       DEF Reserve, At, WritesAction, ActionWrites, CopiesFit, CopyFits, PreCall
  <1>10. CASE Result(w)
    <2>1. worker[w].seen.state = "SENT" /\ worker[w].at = "result"
      BY <1>1, <1>10 DEF Result, At, CopiesFit, CopyFits
    <2>2. CASE /\ worker[w].got = "ACCEPTED"
               /\ Current(w)
               /\ action' = [action EXCEPT ![Act(w)] = Accepted(w)]
      <3>1. a = Act(w) /\ action'[a].state = "ACKNOWLEDGED"
        BY <1>1, <2>2 DEF TypeOK, Accepted
      <3>2. action[a] = worker[w].seen
        BY <1>5, <2>1, <2>2, <3>1 DEF CopyInvariant, CopiesCurrent, CopyCurrent
      <3> QED BY <2>1, <2>2, <3>1, <3>2 DEF WritesAction, ActionWrites, AnswerWrites, At
    <2>3. CASE worker[w].got = "FAILED" /\ UpdateAction(w, "FAILED")
      BY <1>2, <1>4, <1>5, <2>1, <2>3 DEF WritesAction, ActionWrites, AnswerWrites
    <2>4. CASE worker[w].got = "AMBIGUOUS" /\ UpdateAction(w, "OUTCOME_UNKNOWN")
      BY <1>2, <1>4, <1>5, <2>1, <2>4 DEF WritesAction, ActionWrites, AnswerWrites
    <2> QED BY <1>10, <2>2, <2>3, <2>4 DEF Result, UpdateAndGo
  <1>11. CASE Reconciled(w)
    <2>1. /\ worker[w].seen.state \in {"OUTCOME_UNKNOWN", "RECONCILIATION_REQUIRED"}
          /\ worker[w].at = "reconciled"
      BY <1>1, <1>11 DEF Reconciled, At, CopiesFit, CopyFits, ReconcileSteps
    <2>2. CASE worker[w].got = "ACCEPTED" /\ UpdateAction(w, "ACKNOWLEDGED")
      BY <1>2, <1>4, <1>5, <2>1, <2>2 DEF WritesAction, ActionWrites, AnswerWrites
    <2>3. CASE worker[w].got = "FAILED" /\ UpdateAction(w, "FAILED")
      BY <1>2, <1>4, <1>5, <2>1, <2>3 DEF WritesAction, ActionWrites, AnswerWrites
    <2>4. CASE worker[w].got = "UNKNOWN" /\ UpdateAction(w, "RECONCILIATION_REQUIRED")
      BY <1>2, <1>4, <1>5, <2>1, <2>4 DEF WritesAction, ActionWrites, AnswerWrites
    <2> QED BY <1>11, <2>2, <2>3, <2>4 DEF Reconciled, UpdateAndGo
  <1>12. CASE Commit(w)
    <2>1. worker[w].seen.state = "ACKNOWLEDGED" /\ worker[w].at = "commit"
      BY <1>1, <1>12 DEF Commit, At, CopiesFit, CopyFits
    <2> QED BY <1>2, <1>4, <1>5, <1>12, <2>1
            DEF Commit, UpdateAndGo, WritesAction, ActionWrites
  <1>13. CASE UndoOriginal(w)
    BY <1>3, <1>13 DEF UndoOriginal, At, WritesAction, ActionWrites
  <1>14. CASE Acknowledge(w) \/ Conflict(w)
    BY <1>14 DEF Acknowledge, Conflict, Raise, durable
  <1>15. CASE /\ ExecuteReadyAction(w)
              /\ ~(Block(w) \/ Claim(w) \/ Confirm(w) \/ Reserve(w) \/ Result(w))
    BY <1>15 DEF ExecuteReadyAction, Dispatch, BlockIncident, Own, Recheck, CallProvider,
                 RecordFailure, durable
  <1>16. CASE VerifyKnown(w) /\ ~(Reconciled(w) \/ Commit(w))
    BY <1>16 DEF VerifyKnown, Reconcile, Verify, Readback, Record, Publish, Resolve,
                 RecordOutcome, Release, durable
  <1>17. CASE Rollback(w) /\ ~UndoOriginal(w)
    BY <1>17 DEF Rollback, ModeForbidsUndo, CannotUndo, Escalate, CreateUndo,
           ClaimUndo, RecordReleasing, ConfirmUndo, CallUndo, UndoResult, UndoAmbiguous,
           UndoPartial, UndoReadback, UndoRecover, UndoCommit,
           UndoComplete, UndoResolve, UndoOutcome, durable
  <1> QED
    BY <1>6, <1>7, <1>8, <1>9, <1>10, <1>11, <1>12, <1>13, <1>14, <1>15, <1>16, <1>17
       DEF Step

\* The network changes under an executor's own two calls only.
LEMMA ProviderWritten ==
    ASSUME CopyInvariant, NEW w \in Worker, Step(w),
           NEW a \in Action, provider'[a] # provider[a]
    PROVE  /\ a = Act(w)
           /\ \/ /\ At(w, "call")
                 /\ provider'[a].execs = provider[a].execs + 1
                 /\ provider'[a].undos = provider[a].undos
                 /\ provider'[a].effect \in {provider[a].effect, "active"}
              \/ /\ At(w, "undoCall")
                 /\ provider'[a].execs = provider[a].execs
                 /\ provider'[a].undos = provider[a].undos + 1
                 /\ provider'[a].effect \in {provider[a].effect, "gone"}
  <1>1. provider \in [Action -> ProviderRecord]
    BY DEF CopyInvariant, TypeOK
  <1>2. CASE CallProvider(w)
    <2>1. PICK applied : provider' = [provider EXCEPT ![Act(w)] = Mutated(@, applied)]
      BY <1>2 DEF CallProvider
    <2> QED BY <1>1, <1>2, <2>1 DEF CallProvider, Mutated
  <1>3. CASE CallUndo(w)
    <2>1. PICK released : provider' = [provider EXCEPT ![Act(w)] = Released(@, released)]
      BY <1>3 DEF CallUndo
    <2> QED BY <1>1, <1>3, <2>1 DEF CallUndo, Released
  <1>4. CASE Acknowledge(w) \/ Conflict(w)
    BY <1>4 DEF Acknowledge, Conflict, Raise
  <1>5. CASE ExecuteReadyAction(w) /\ ~CallProvider(w)
    BY <1>5 DEF ExecuteReadyAction, Dispatch, Block, BlockIncident, Own, Recheck, Claim,
                Confirm, Reserve, Result, RecordFailure, outside
  <1>6. CASE VerifyKnown(w)
    BY <1>6 DEF VerifyKnown, Reconcile, Reconciled, Verify, Readback, Record, Publish,
                Commit, Resolve, RecordOutcome, Release, outside
  <1>7. CASE Rollback(w) /\ ~CallUndo(w)
    BY <1>7 DEF Rollback, ModeForbidsUndo, CannotUndo, Escalate, CreateUndo, ClaimUndo,
         RecordReleasing, ConfirmUndo, UndoResult, UndoAmbiguous, UndoPartial,
         UndoReadback, UndoRecover, UndoCommit, UndoOriginal, UndoComplete,
         UndoResolve, UndoOutcome, outside
  <1> QED BY <1>2, <1>3, <1>4, <1>5, <1>6, <1>7 DEF Step

\* The transitions of an incident, each with the place it is made from.
IncidentMoves ==
    {<<"blockIncident", "APPROVED", "BLOCKED">>, <<"recheck", "APPROVED", "MITIGATING">>,
     <<"verify", "MITIGATING", "VERIFYING">>, <<"resolve", "VERIFYING", "RESOLVED">>,
     <<"escalate", "VERIFYING", "ESCALATED">>, <<"undoAmbiguous", "VERIFYING", "RECOVERING">>,
     <<"undoRecover", "VERIFYING", "RECOVERING">>, <<"undoResolve", "RECOVERING", "RESOLVED">>}

WritesIncident(w, i) ==
    /\ i = Inc(w)
    /\ \/ /\ <<worker[w].at, incident[i].state, incident'[i].state>> \in IncidentMoves
          /\ incident'[i].outcome = incident[i].outcome
       \/ /\ incident'[i].state = incident[i].state
          /\ \/ incident'[i].outcome \in {incident[i].outcome, "ROLLED_BACK_SAFELY"}
             \/ At(w, "outcome")

\* A transition in one fact.
LEMMA MoveEffect ==
    ASSUME TypeOK, NEW j, NEW from, NEW to, MoveIncident(j, from, to),
           NEW i \in Incident, incident'[i] # incident[i]
    PROVE  /\ i = j /\ incident[i].state = from /\ incident'[i].state = to
           /\ incident'[i].outcome = incident[i].outcome
  BY DEF MoveIncident, TypeOK, IncidentRecord

\* Nothing else is written to an incident by an executor.
LEMMA IncidentWritten ==
    ASSUME CopyInvariant, NEW w \in Worker, Step(w),
           NEW i \in Incident, incident'[i] # incident[i]
    PROVE  WritesIncident(w, i)
  <1>1. TypeOK /\ incident \in [Incident -> IncidentRecord]
    BY DEF CopyInvariant, TypeOK
  <1>2. ASSUME NEW j, NEW from, NEW to, MoveIncident(j, from, to)
        PROVE  /\ i = j /\ incident[i].state = from /\ incident'[i].state = to
               /\ incident'[i].outcome = incident[i].outcome
    BY <1>1, <1>2, MoveEffect
  <1>3. CASE BlockIncident(w)
    BY <1>2, <1>3 DEF BlockIncident, At, WritesIncident, IncidentMoves
  <1>4. CASE Recheck(w)
    BY <1>2, <1>4 DEF Recheck, At, WritesIncident, IncidentMoves
  <1>5. CASE Verify(w)
    BY <1>2, <1>5 DEF Verify, At, WritesIncident, IncidentMoves
  <1>6. CASE Resolve(w)
    BY <1>2, <1>6 DEF Resolve, At, WritesIncident, IncidentMoves
  <1>7. CASE Escalate(w)
    BY <1>2, <1>7 DEF Escalate, At, WritesIncident, IncidentMoves
  <1>8. CASE UndoAmbiguous(w)
    BY <1>2, <1>8 DEF UndoAmbiguous, At, WritesIncident, IncidentMoves
  <1>9. CASE UndoRecover(w)
    BY <1>2, <1>9 DEF UndoRecover, At, WritesIncident, IncidentMoves
  <1>10. CASE UndoResolve(w)
    BY <1>2, <1>10 DEF UndoResolve, At, WritesIncident, IncidentMoves
  <1>11. CASE Publish(w)
    BY <1>1, <1>11 DEF Publish, WritesIncident, IncidentRecord
  <1>12. CASE RecordOutcome(w)
    BY <1>1, <1>12 DEF RecordOutcome, At, WritesIncident, IncidentRecord
  <1>13. CASE UndoOutcome(w)
    BY <1>1, <1>13 DEF UndoOutcome, WritesIncident, IncidentRecord
  <1>14. CASE Acknowledge(w) \/ Conflict(w)
    BY <1>14 DEF Acknowledge, Conflict, Raise, durable
  <1>15. CASE ExecuteReadyAction(w) /\ ~BlockIncident(w) /\ ~Recheck(w)
    BY <1>15 DEF ExecuteReadyAction, Dispatch, Block, Own, Claim, Confirm, Reserve,
                 CallProvider, Result, RecordFailure, durable
  <1>16. CASE VerifyKnown(w) /\ ~(Verify(w) \/ Resolve(w) \/ Publish(w) \/ RecordOutcome(w))
    BY <1>16 DEF VerifyKnown, Reconcile, Reconciled, Readback, Record, Commit, Release,
                 durable
  <1>17. CASE Rollback(w) /\ ~(Escalate(w) \/ UndoAmbiguous(w) \/ UndoRecover(w)
                               \/ UndoResolve(w) \/ UndoOutcome(w))
    BY <1>17 DEF Rollback, ModeForbidsUndo, CannotUndo, CreateUndo, ClaimUndo,
           RecordReleasing, ConfirmUndo, CallUndo, UndoResult, UndoPartial,
           UndoReadback, UndoCommit, UndoOriginal, UndoComplete, durable
  <1> QED
    BY <1>3, <1>4, <1>5, <1>6, <1>7, <1>8, <1>9, <1>10, <1>11, <1>12, <1>13, <1>14, <1>15,
       <1>16, <1>17 DEF Step

\* Ownership is taken where nobody else's lease is live, and given up at the end.
LEMMA LeaseWritten ==
    ASSUME CopyInvariant, NEW w \in Worker, Step(w),
           NEW r \in Resource, lease'[r] # lease[r]
    PROVE  \/ /\ lease[r].owner \in {None, Inc(w)} \/ ~lease[r].live
              /\ lease'[r] = [owner |-> Inc(w), live |-> TRUE]
           \/ At(w, "release") /\ lease[r].owner = Inc(w)
  <1>1. lease \in [Resource -> LeaseRecord]
    BY DEF CopyInvariant, TypeOK
  <1>2. CASE Own(w)
    BY <1>1, <1>2 DEF Own
  <1>3. CASE Release(w)
    BY <1>1, <1>3 DEF Release, OwnedBy
  <1>4. CASE Acknowledge(w) \/ Conflict(w)
    BY <1>4 DEF Acknowledge, Conflict, Raise, durable
  <1>5. CASE ExecuteReadyAction(w) /\ ~Own(w)
    BY <1>5 DEF ExecuteReadyAction, Dispatch, Block, BlockIncident, Recheck, Claim,
                Confirm, Reserve, CallProvider, Result, RecordFailure, durable
  <1>6. CASE VerifyKnown(w) /\ ~Release(w)
    BY <1>6 DEF VerifyKnown, Reconcile, Reconciled, Verify, Readback, Record, Publish,
                Commit, Resolve, RecordOutcome, durable
  <1>7. CASE Rollback(w)
    BY <1>7 DEF Rollback, ModeForbidsUndo, CannotUndo, Escalate, CreateUndo, ClaimUndo,
         RecordReleasing, ConfirmUndo, CallUndo, UndoResult, UndoAmbiguous, UndoPartial,
         UndoReadback, UndoRecover, UndoCommit, UndoOriginal, UndoComplete,
         UndoResolve, UndoOutcome, durable
  <1> QED BY <1>2, <1>3, <1>4, <1>5, <1>6, <1>7 DEF Step

\* No executor grants or withdraws an authority.
LEMMA AuthorityKept ==
    ASSUME NEW w \in Worker, Step(w)
    PROVE  UNCHANGED <<allowed, status>>
  <1>1. CASE Acknowledge(w) \/ Conflict(w)
    BY <1>1 DEF Acknowledge, Conflict, Raise, durable
  <1>2. CASE ExecuteReadyAction(w)
    BY <1>2 DEF ExecuteReadyAction, Dispatch, Block, BlockIncident, Own, Recheck, Claim,
                Confirm, Reserve, CallProvider, Result, RecordFailure, durable, outside
  <1>3. CASE VerifyKnown(w)
    BY <1>3 DEF VerifyKnown, Reconcile, Reconciled, Verify, Readback, Record, Publish,
                Commit, Resolve, RecordOutcome, Release, durable, outside
  <1>4. CASE Rollback(w)
    BY <1>4 DEF Rollback, ModeForbidsUndo, CannotUndo, Escalate, CreateUndo, ClaimUndo,
         RecordReleasing, ConfirmUndo, CallUndo, UndoResult, UndoAmbiguous, UndoPartial,
         UndoReadback, UndoRecover, UndoCommit, UndoOriginal, UndoComplete,
         UndoResolve, UndoOutcome, durable, outside
  <1> QED BY <1>1, <1>2, <1>3, <1>4 DEF Step

\* What an executor that goes on has found, or done, on the way to the provider ...
Approaches(w) ==
    /\ At(w, "recheck") /\ worker'[w].at = "claim" => incident'[Inc(w)].state # "APPROVED"
    /\ At(w, "claim") => worker'[w].at = "confirm" /\ action'[Act(w)].state = "SENT"
    /\ At(w, "confirm") => worker'[w].at = "reserve" /\ Owns(Act(w)) /\ UNCHANGED durable
    /\ At(w, "reserve") => worker'[w].at = "call" /\ UNCHANGED <<action, incident, lease>>
    /\ At(w, "call") =>
          /\ worker'[w].at = "result"
          /\ provider'[Act(w)].execs # 0
          /\ worker'[w].got = "FAILED" => provider'[Act(w)].effect = provider[Act(w)].effect

\* ... in its reading of what the provider did ...
Learns(w) ==
    /\ At(w, "reconcile") =>
          /\ worker'[w].at = "reconciled"
          /\ worker'[w].got = "ACCEPTED" => worker[w].seen.rid
          /\ worker'[w].got = "FAILED" => provider[Act(w)].effect = "gone"
    /\ At(w, "verify") =>
          /\ worker'[w].at = "readback"
          /\ incident[Inc(w)].state # "APPROVED" => incident'[Inc(w)].state # "MITIGATING"
    /\ At(w, "commit") /\ worker'[w].at = "undo" => action'[Act(w)].state = "ROLLBACK_REQUIRED"
    /\ At(w, "resolve") =>
          /\ PlanVerified(Inc(w))
          /\ UNCHANGED action
          /\ \/ worker'[w].at = "outcome" /\ incident'[Inc(w)].state = "RESOLVED"
             \/ worker'[w].at = "release" /\ incident[Inc(w)].state # "VERIFYING"

\* ... and in its rollback.
Undoes(w) ==
    /\ At(w, "undoReadback") =>
          /\ worker'[w].at = "undoRecover"
          /\ worker'[w].got = "VERIFIED" => provider[Act(w)].effect = "gone"
    /\ At(w, "undoCommit") /\ worker'[w].at = "undoOriginal" => worker[w].got = "VERIFIED"

Turns(w) == Approaches(w) /\ Learns(w) /\ Undoes(w)

\* What an executor presupposes when it goes on.
LEMMA StepTurns ==
    ASSUME CopyInvariant, NEW w \in Worker, Step(w), ~Rests(w), ~At(w, "next")
    PROVE  Turns(w)
  <1>1. TypeOK /\ worker \in [Worker -> WorkerRecord]
    BY DEF CopyInvariant, TypeOK
  <1>2. ~Return(w)
    BY <1>1, ReturnEffect DEF Rests
  <1>3. ASSUME NEW place, GoTo(w, place)  PROVE worker'[w].at = place
    BY <1>1, <1>3 DEF GoTo, WorkerRecord
  <1>4. ASSUME NEW answer, NEW place, worker' = [worker EXCEPT ![w].got = answer, ![w].at = place]
        PROVE  worker'[w].at = place /\ worker'[w].got = answer
    BY <1>1, <1>4 DEF WorkerRecord
  <1>5. worker[w].at \in Busy => Act(w) \in Action /\ Inc(w) \in Incident
    BY <1>1, BusyFacts DEF CopyInvariant
  <1>6. ASSUME NEW s \in ActionStates, NEW place \in Places, UpdateAndGo(w, s, place),
               worker[w].at \in Busy
        PROVE  worker'[w].at = place /\ action'[Act(w)].state = s
    <2>1. /\ worker'[w].at = place /\ action'[Act(w)] = Written(worker[w].seen, s)
      BY <1>5, <1>6, UpdateAndGoEffect, UpdateActionEffect DEF CopyInvariant, TypeOK
    <2> QED BY <2>1 DEF Written
  <1>7. ASSUME NEW s, NEW place, UpdateUndoAndGo(w, s, place)  PROVE worker'[w].at = place
    BY <1>1, <1>7 DEF UpdateUndoAndGo, WorkerRecord
  <1>8. Approaches(w)
    <2>1. At(w, "recheck") /\ worker'[w].at = "claim" => incident'[Inc(w)].state # "APPROVED"
      <3> SUFFICES ASSUME At(w, "recheck"), worker'[w].at = "claim"
                   PROVE  incident'[Inc(w)].state # "APPROVED"
        OBVIOUS
      <3>1. Recheck(w) /\ Inc(w) \in Incident
        BY <1>5, StepAt DEF At, Busy, ClaimSteps
      <3>2. MoveIncident(Inc(w), "APPROVED", "MITIGATING")
        BY <3>1, <1>2, <1>3 DEF Recheck
      <3>3. "MITIGATING" \in Transitions["APPROVED"]
        BY DEF Transitions
      <3> QED BY <1>1, <3>1, <3>2, <3>3 DEF MoveIncident, TypeOK, IncidentRecord
    <2>2. At(w, "claim") => worker'[w].at = "confirm" /\ action'[Act(w)].state = "SENT"
      <3>1. "claim" \in Busy /\ "confirm" \in Places /\ "SENT" \in ActionStates
        BY DEF Places, Busy, ClaimSteps, PreCall, ActionStates
      <3> QED BY <3>1, <1>6, StepAt DEF Claim, At
    <2>3. At(w, "confirm") => worker'[w].at = "reserve" /\ Owns(Act(w)) /\ UNCHANGED durable
      <3>1. At(w, "confirm") => Owns(Act(w)) /\ GoTo(w, "reserve") /\ UNCHANGED durable
        BY <1>2, StepAt DEF Confirm, durable
      <3> QED BY <3>1, <1>3
    <2>4. At(w, "reserve") => worker'[w].at = "call" /\ UNCHANGED <<action, incident, lease>>
      <3>1. At(w, "reserve") => GoTo(w, "call") /\ UNCHANGED <<action, incident, lease>>
        BY <1>2, StepAt DEF Reserve
      <3> QED BY <3>1, <1>3
    <2>5. ASSUME At(w, "call")
          PROVE  /\ worker'[w].at = "result"
                 /\ provider'[Act(w)].execs # 0
                 /\ worker'[w].got = "FAILED" => provider'[Act(w)].effect = provider[Act(w)].effect
      <3>1. Act(w) \in Action
        BY <1>5, <2>5 DEF At, Busy, PreCall
      <3>2. PICK answer \in {"ACCEPTED", "FAILED", "AMBIGUOUS"}, applied \in BOOLEAN :
               /\ answer = "FAILED" => ~applied
               /\ provider' = [provider EXCEPT ![Act(w)] = Mutated(@, applied)]
               /\ worker' = [worker EXCEPT ![w].got = answer, ![w].at = "result"]
        BY <2>5, StepAt DEF CallProvider
      <3>3. worker'[w].at = "result" /\ worker'[w].got = answer
        BY <3>2, <1>4
      <3>4. /\ provider'[Act(w)].execs = provider[Act(w)].execs + 1
            /\ answer = "FAILED" => provider'[Act(w)].effect = provider[Act(w)].effect
            /\ provider[Act(w)].execs \in Nat
        BY <1>1, <3>1, <3>2 DEF TypeOK, ProviderRecord, Mutated
      <3> QED BY <3>3, <3>4
    <2> QED BY <2>1, <2>2, <2>3, <2>4, <2>5 DEF Approaches
  <1>9. Learns(w)
    <2>1. ASSUME At(w, "reconcile")
          PROVE  /\ worker'[w].at = "reconciled"
                 /\ worker'[w].got = "ACCEPTED" => worker[w].seen.rid
                 /\ worker'[w].got = "FAILED" => provider[Act(w)].effect = "gone"
      <3>1. PICK answer \in {"ACCEPTED", "FAILED", "UNKNOWN"} :
               /\ ~worker[w].seen.rid => answer = "UNKNOWN"
               /\ answer = "FAILED" => provider[Act(w)].effect = "gone"
               /\ worker' = [worker EXCEPT ![w].got = answer, ![w].at = "reconciled"]
        BY <2>1, StepAt DEF Reconcile
      <3> QED BY <3>1, <1>4
    <2>2. At(w, "verify") =>
             /\ worker'[w].at = "readback"
             /\ incident[Inc(w)].state # "APPROVED" => incident'[Inc(w)].state # "MITIGATING"
      <3>1. At(w, "verify") =>
               /\ GoTo(w, "readback") /\ MoveIncident(Inc(w), "MITIGATING", "VERIFYING")
               /\ Inc(w) \in Incident
        BY <1>5, StepAt DEF Verify, At, Busy, VerifySteps
      <3>2. "VERIFYING" \in Transitions["MITIGATING"]
        BY DEF Transitions
      <3> QED BY <1>1, <1>3, <3>1, <3>2 DEF MoveIncident, TypeOK, IncidentRecord
    <2>3. At(w, "commit") /\ worker'[w].at = "undo" => action'[Act(w)].state = "ROLLBACK_REQUIRED"
      <3>1. /\ "commit" \in Busy /\ {"resolve", "undo"} \subseteq Places
            /\ {"SUCCESS", "ROLLBACK_REQUIRED"} \subseteq ActionStates
        BY DEF Places, Busy, VerifySteps, UndoSteps, ActionStates
      <3> QED BY <3>1, <1>2, <1>6, StepAt DEF Commit, At
    <2>4. ASSUME At(w, "resolve")
          PROVE  /\ PlanVerified(Inc(w))
                 /\ UNCHANGED action
                 /\ \/ worker'[w].at = "outcome" /\ incident'[Inc(w)].state = "RESOLVED"
                    \/ worker'[w].at = "release" /\ incident[Inc(w)].state # "VERIFYING"
      <3>1. Resolve(w) /\ Inc(w) \in Incident
        BY <1>5, <2>4, StepAt DEF At, Busy, VerifySteps
      <3>2. /\ PlanVerified(Inc(w)) /\ UNCHANGED action
            /\ MoveIncident(Inc(w), "VERIFYING", "RESOLVED")
            /\ \/ incident[Inc(w)].state = "VERIFYING" /\ GoTo(w, "outcome")
               \/ incident[Inc(w)].state # "VERIFYING" /\ GoTo(w, "release")
        BY <3>1, <1>2 DEF Resolve
      <3>3. "RESOLVED" \in Transitions["VERIFYING"]
        BY DEF Transitions
      <3> QED BY <1>1, <1>3, <3>1, <3>2, <3>3 DEF MoveIncident, TypeOK, IncidentRecord
    <2> QED BY <2>1, <2>2, <2>3, <2>4 DEF Learns
  <1>10. Undoes(w)
    <2>1. ASSUME At(w, "undoReadback")
          PROVE  /\ worker'[w].at = "undoRecover"
                 /\ worker'[w].got = "VERIFIED" => provider[Act(w)].effect = "gone"
      <3>1. PICK answer \in {"VERIFIED", "UNAVAILABLE"} :
               /\ answer = "VERIFIED" => provider[Act(w)].effect = "gone"
               /\ worker' = [worker EXCEPT ![w].got = answer, ![w].at = "undoRecover"]
        BY <2>1, StepAt DEF UndoReadback
      <3> QED BY <3>1, <1>4
    <2>2. At(w, "undoCommit") /\ worker'[w].at = "undoOriginal" => worker[w].got = "VERIFIED"
      BY <1>7, StepAt DEF UndoCommit
    <2> QED BY <2>1, <2>2 DEF Undoes
  <1> QED BY <1>8, <1>9, <1>10 DEF Turns

(***************************************************************************)
(* The effect behind a state.                                              *)
(***************************************************************************)
\* An action whose mutation was never sent has left no trace in the network, no
\* resource id, and has not been acknowledged.
Uncalled(a) ==
    /\ provider[a].effect = "none" /\ provider[a].undos = 0
    /\ ~action[a].rid
    /\ action[a].state \in {"READY", "SENT", "FAILED", "OUTCOME_UNKNOWN", "RECONCILIATION_REQUIRED"}

TracesNeedCalls == \A a \in Action : provider[a].execs = 0 => Uncalled(a)

\* What an executor's place says of the network and of the action itself.
CallBehind(w) ==
    /\ worker[w].at \in PreCall =>
          action[Act(w)].state \in {"SENT", "OUTCOME_UNKNOWN", "RECONCILIATION_REQUIRED"}
    /\ At(w, "result") =>
          /\ provider[Act(w)].execs # 0
          /\ worker[w].got = "FAILED" => provider[Act(w)].effect # "active"
    /\ worker[w].at \in Busy /\ worker[w].seen.rid => provider[Act(w)].execs # 0
    /\ At(w, "reconciled") =>
          /\ worker[w].got = "FAILED" => provider[Act(w)].effect = "gone"
          /\ worker[w].got = "ACCEPTED" => worker[w].seen.rid

UndoBehind(w) ==
    /\ worker[w].at \in UndoSteps =>
          action[Act(w)].state \in {"ROLLBACK_REQUIRED", "ROLLED_BACK"}
    /\ worker[w].at \in {"undoRecover", "undoCommit"} /\ worker[w].got = "VERIFIED" =>
          provider[Act(w)].effect = "gone"
    /\ At(w, "undoOriginal") => provider[Act(w)].effect = "gone"

EffectInvariant ==
    /\ LicenceInvariant
    /\ TracesNeedCalls
    /\ \A w \in Worker : CallBehind(w) /\ UndoBehind(w)
    /\ FailedMeansNoEffect
    /\ RolledBackMeansGone

\* Once the mutation has been sent, the effect only goes away.
Fades(a) ==
    provider[a].execs # 0 =>
        provider'[a].execs # 0 /\ provider'[a].effect \in {provider[a].effect, "gone"}

\* ROLLBACK_REQUIRED leads only to ROLLED_BACK, which is final.
LEMMA RollbackFinal ==
    ASSUME NEW a, LegalAction(a), action[a].state \in {"ROLLBACK_REQUIRED", "ROLLED_BACK"}
    PROVE  action'[a].state \in {"ROLLBACK_REQUIRED", "ROLLED_BACK"}
  BY DEF LegalAction, ActionMoves

\* An executor inside a call has an action.
LEMMA ActAt ==
    ASSUME CopyInvariant, NEW w \in Worker, worker[w].at \in Busy
    PROVE  Act(w) \in Action /\ Inc(w) \in Incident
  BY BusyFacts DEF CopyInvariant

\* The places the invariants speak of are inside a call.
LEMMA BusyPlaces ==
    /\ PreCall \subseteq Busy /\ UndoSteps \subseteq Busy /\ VerifySteps \subseteq Busy
    /\ {"result", "reconciled"} \subseteq Busy
    /\ Busy \cap {"idle", "next"} = {}
  BY DEF Busy, ClaimSteps, PreCall, ResultSteps, VerifySteps, ReconcileSteps, UndoSteps,
         UndoPreCall

\* A step of an executor lets effects fade only.
LEMMA StepFades ==
    ASSUME EffectInvariant, NEW w \in Worker, Step(w), NEW a \in Action
    PROVE  Fades(a)
  <1>1. CopyInvariant /\ MutationLicence
    BY DEF EffectInvariant, LicenceInvariant
  <1>2. At(w, "call") => provider[Act(w)].execs = 0
    BY <1>1 DEF MutationLicence, At, PreCall
  <1> QED BY <1>1, <1>2, ProviderWritten DEF Fades

\* Nothing that was gone comes back.
LEMMA GoneStays ==
    ASSUME EffectInvariant, NEW a \in Action, Fades(a), provider[a].effect = "gone"
    PROVE  provider'[a].effect = "gone" /\ provider'[a].execs # 0
  BY DEF EffectInvariant, TracesNeedCalls, Uncalled, Fades

\* An uncalled action stays untouched until the call.
LEMMA TracesStep ==
    ASSUME EffectInvariant, NEW w \in Worker, Step(w)
    PROVE  TracesNeedCalls'
  <1> SUFFICES ASSUME NEW a \in Action, provider'[a].execs = 0
               PROVE  Uncalled(a)'
    BY DEF TracesNeedCalls
  <1>1. CopyInvariant /\ CallBehind(w) /\ UndoBehind(w)
    BY DEF EffectInvariant, LicenceInvariant
  <1>2. provider[a].execs = 0 /\ Uncalled(a)
    BY StepFades DEF EffectInvariant, TracesNeedCalls, Fades
  <1>3. provider'[a] = provider[a]
    <2> SUFFICES ASSUME provider'[a] # provider[a]  PROVE FALSE
      OBVIOUS
    <2>1. a = Act(w) /\ At(w, "undoCall")
      BY <1>1, <1>2, ProviderWritten
    <2>2. worker[w].at \in UndoSteps
      BY <2>1 DEF At, UndoSteps, UndoPreCall
    <2> QED BY <1>1, <1>2, <2>1, <2>2 DEF UndoBehind, Uncalled
  <1>4. CASE action'[a] = action[a]
    BY <1>2, <1>3, <1>4 DEF Uncalled
  <1>5. CASE action'[a] # action[a]
    <2>1. WritesAction(w, a)
      BY <1>1, <1>5, ActionWritten
    <2>2. ~At(w, "result")
      BY <1>1, <1>2, <2>1 DEF CallBehind, WritesAction
    <2>3. ~(At(w, "reconciled") /\ action'[a].state = "ACKNOWLEDGED")
      <3> SUFFICES ASSUME At(w, "reconciled"), action'[a].state = "ACKNOWLEDGED"  PROVE FALSE
        OBVIOUS
      <3>1. worker[w].got = "ACCEPTED"
        BY <2>1 DEF WritesAction, AnswerWrites, At
      <3> QED BY <1>1, <1>2, <2>1, <3>1, BusyPlaces DEF CallBehind, WritesAction, At
    <2>4. <<worker[w].at, action[a].state, action'[a].state>> \in ActionWrites
      BY <2>1 DEF WritesAction
    <2>5. action'[a].state \in {"SENT", "FAILED", "OUTCOME_UNKNOWN", "RECONCILIATION_REQUIRED"}
      BY <1>2, <2>2, <2>3, <2>4 DEF Uncalled, ActionWrites, At
    <2> QED BY <1>2, <1>3, <2>1, <2>2, <2>5 DEF Uncalled, WritesAction
  <1> QED BY <1>4, <1>5

\* Another executor's step leaves an executor's grounds as they are.
LEMMA OthersBehind ==
    ASSUME EffectInvariant, NEW w \in Worker, Step(w), \A a \in Action : LegalAction(a),
           NEW v \in Worker, v # w, worker'[v] = worker[v]
    PROVE  CallBehind(v)' /\ UndoBehind(v)'
  <1>1. CopyInvariant /\ MutationLicence /\ CallBehind(v) /\ UndoBehind(v) /\ CallBehind(w)
    BY DEF EffectInvariant, LicenceInvariant
  <1>2. CASE worker[v].at \notin Busy
    BY <1>2, BusyPlaces DEF CallBehind, UndoBehind, At, Busy, PreCall, UndoSteps, UndoPreCall,
                            ResultSteps, ReconcileSteps
  <1>3. CASE worker[v].at \in Busy
    <2>1. Act(v) \in Action /\ Act(v)' = Act(v)
      BY <1>1, <1>3, ActAt DEF Act
    <2>2. Fades(Act(v)) /\ LegalAction(Act(v))
      BY <2>1, StepFades
    <2>3. provider[Act(v)].effect = "gone" => provider'[Act(v)].effect = "gone"
      BY <2>1, <2>2, GoneStays
    <2>4. UndoBehind(v)'
      BY <1>1, <2>1, <2>2, <2>3, RollbackFinal DEF UndoBehind, At
    <2>5. ASSUME worker[v].at \in PreCall, action'[Act(v)] # action[Act(v)]
          PROVE  action'[Act(v)].state
                    \in {"SENT", "OUTCOME_UNKNOWN", "RECONCILIATION_REQUIRED"}
      <3>1. /\ provider[Act(v)].execs = 0 /\ Uncalled(Act(v))
            /\ action[Act(v)].state \in {"SENT", "OUTCOME_UNKNOWN", "RECONCILIATION_REQUIRED"}
        BY <1>1, <2>1, <2>5 DEF MutationLicence, CallBehind, EffectInvariant, TracesNeedCalls
      <3>2. WritesAction(w, Act(v))
        BY <1>1, <2>1, <2>5, ActionWritten
      <3>3. ~At(w, "result") /\ worker[w].at \notin {"confirm", "reserve"}
        BY <1>1, <2>5, <3>1, <3>2 DEF MutationLicence, CallBehind, WritesAction, PreCall
      <3>4. At(w, "reconciled") => action'[Act(v)].state = "RECONCILIATION_REQUIRED"
        <4> SUFFICES ASSUME At(w, "reconciled"), worker[w].got \in {"ACCEPTED", "FAILED"}
                     PROVE  FALSE
          BY <3>2 DEF WritesAction, AnswerWrites, At, ActionWrites
        <4>1. worker[w].got # "FAILED"
          BY <1>1, <3>1, <3>2 DEF CallBehind, WritesAction, Uncalled
        <4> QED BY <1>1, <3>1, <3>2, <4>1, BusyPlaces DEF CallBehind, WritesAction, At
      <3> QED BY <3>1, <3>2, <3>3, <3>4 DEF WritesAction, ActionWrites, At
    <2>6. CallBehind(v)'
      BY <1>1, <2>1, <2>2, <2>3, <2>5 DEF CallBehind, At, Fades
    <2> QED BY <2>4, <2>6
  <1> QED BY <1>2, <1>3

\* What an executor finds when it takes up an action.
LEMMA TakenBehind ==
    ASSUME EffectInvariant, NEW w \in Worker, TakesUp(w)
    PROVE  CallBehind(w)' /\ UndoBehind(w)'
  <1>1. /\ action' = action /\ provider' = provider
        /\ worker'[w].act \in Action /\ worker'[w].seen = action[worker'[w].act]
        /\ \E operating \in BOOLEAN : worker'[w].at = Route(worker'[w].act, operating)
        /\ worker'[w].at \in {"reconcile", "verify", "undo", "own", "block"}
    BY DEF TakesUp, durable, outside
  <1>2. action[worker'[w].act].rid => provider[worker'[w].act].execs # 0
    BY <1>1 DEF EffectInvariant, TracesNeedCalls, Uncalled
  <1>3. worker'[w].at = "undo" => action[worker'[w].act].state = "ROLLBACK_REQUIRED"
    BY <1>1 DEF Route
  <1>4. CallBehind(w)'
    BY <1>1, <1>2 DEF CallBehind, Act, At, PreCall
  <1>5. UndoBehind(w)'
    BY <1>1, <1>3 DEF UndoBehind, Act, At, UndoSteps, UndoPreCall
  <1> QED BY <1>4, <1>5

\* The rollback is entered by a commit, and its grounds stay.
LEMMA UndoOnward ==
    ASSUME EffectInvariant, NEW w \in Worker, Step(w), Turns(w), GoesOn(w) \/ Asks(w),
           \A a \in Action : LegalAction(a)
    PROVE  UndoBehind(w)'
  <1>1. CopyInvariant /\ UndoBehind(w)
    BY DEF EffectInvariant, LicenceInvariant
  <1>2. /\ Edge(w) \in Onward \cup Asking /\ worker'[w].act = worker[w].act
        /\ Edge(w) \in Onward => worker'[w].got = worker[w].got
    BY DEF GoesOn, Asks, Onward, Asking, Edge
  <1>3. Act(w) \in Action /\ Act(w)' = Act(w)
    BY <1>1, <1>2, EdgeBusy, ActAt DEF Edge, Act
  <1>4. provider[Act(w)].effect = "gone" => provider'[Act(w)].effect = "gone"
    BY <1>3, StepFades, GoneStays
  <1>5. worker'[w].at \in UndoSteps =>
           action'[Act(w)].state \in {"ROLLBACK_REQUIRED", "ROLLED_BACK"}
    <2>1. CASE At(w, "commit")
      BY <2>1, <1>2 DEF At, Edge, Onward, Asking, Turns, Learns, UndoSteps, UndoPreCall
    <2>2. CASE worker[w].at \in UndoSteps
      BY <2>2, <1>1, <1>3, RollbackFinal DEF UndoBehind
    <2> QED BY <1>2, <2>1, <2>2 DEF At, Edge, Onward, Asking, UndoSteps, UndoPreCall
  <1>6. worker'[w].at \in {"undoRecover", "undoCommit"} /\ worker'[w].got = "VERIFIED" =>
           provider'[Act(w)].effect = "gone"
    BY <1>1, <1>2, <1>4 DEF Edge, Onward, Asking, At, Turns, Undoes, UndoBehind
  <1>7. worker'[w].at = "undoOriginal" => provider'[Act(w)].effect = "gone"
    BY <1>1, <1>2, <1>4 DEF Edge, Onward, Asking, At, Turns, Undoes, UndoBehind
  <1> QED BY <1>3, <1>5, <1>6, <1>7 DEF UndoBehind, At

\* So are the grounds of a call and of its result.
LEMMA CallOnward ==
    ASSUME EffectInvariant, NEW w \in Worker, Step(w), Turns(w), GoesOn(w) \/ Asks(w)
    PROVE  CallBehind(w)'
  <1>1. CopyInvariant /\ CallBehind(w)
    BY DEF EffectInvariant, LicenceInvariant
  <1>2. Edge(w) \in Onward \cup Asking /\ worker'[w].act = worker[w].act
    BY DEF GoesOn, Asks, Onward, Asking, Edge
  <1>3. /\ Act(w) \in Action /\ Act(w)' = Act(w)
        /\ worker[w].at \in Busy
    BY <1>1, <1>2, EdgeBusy, ActAt DEF Edge, Act
  <1>4. Fades(Act(w))
    BY <1>3, StepFades
  <1>5. worker'[w].at \in PreCall =>
           action'[Act(w)].state \in {"SENT", "OUTCOME_UNKNOWN", "RECONCILIATION_REQUIRED"}
    <2>1. CASE At(w, "claim")
      BY <2>1 DEF Turns, Approaches
    <2>2. CASE At(w, "confirm") \/ At(w, "reserve")
      BY <1>1, <2>2 DEF Turns, Approaches, CallBehind, At, PreCall, durable
    <2> QED BY <1>2, <2>1, <2>2 DEF At, Edge, Onward, Asking, PreCall
  <1>6. worker'[w].at = "result" =>
           /\ provider'[Act(w)].execs # 0
           /\ worker'[w].got = "FAILED" => provider'[Act(w)].effect # "active"
    <2> SUFFICES ASSUME worker'[w].at = "result"
                 PROVE  /\ provider'[Act(w)].execs # 0
                        /\ worker'[w].got = "FAILED" => provider'[Act(w)].effect # "active"
      OBVIOUS
    <2>1. At(w, "call")
      BY <1>2 DEF At, Edge, Onward, Asking
    <2>2. provider[Act(w)].execs = 0 /\ provider[Act(w)].effect # "active"
      BY <1>3, <2>1 DEF EffectInvariant, LicenceInvariant, MutationLicence, At, PreCall,
                        TracesNeedCalls, Uncalled
    <2> QED BY <2>1, <2>2 DEF Turns, Approaches
  <1>7. worker'[w].seen.rid => provider'[Act(w)].execs # 0
    <2>1. CASE worker'[w].seen = worker[w].seen
      BY <1>1, <1>3, <1>4, <2>1 DEF CallBehind, Fades
    <2>2. CASE worker'[w].seen = action'[Act(w)]
      BY <1>3, <2>2, TracesStep DEF TracesNeedCalls, Uncalled
    <2> QED BY <2>1, <2>2 DEF GoesOn, Asks
  <1>8. worker'[w].at = "reconciled" =>
           /\ worker'[w].got = "FAILED" => provider'[Act(w)].effect = "gone"
           /\ worker'[w].got = "ACCEPTED" => worker'[w].seen.rid
    <2> SUFFICES ASSUME worker'[w].at = "reconciled"
                 PROVE  /\ worker'[w].got = "FAILED" => provider'[Act(w)].effect = "gone"
                        /\ worker'[w].got = "ACCEPTED" => worker'[w].seen.rid
      OBVIOUS
    <2>1. At(w, "reconcile") /\ Edge(w) \notin Onward
      BY <1>2 DEF At, Edge, Onward, Asking
    <2>2. worker'[w].seen = worker[w].seen
      BY <2>1 DEF GoesOn, Asks
    <2> QED BY <1>3, <1>4, <2>1, <2>2, GoneStays DEF Turns, Learns
  <1> QED BY <1>3, <1>5, <1>6, <1>7, <1>8 DEF CallBehind, At

\* An executor's own grounds hold wherever it goes.
LEMMA OwnBehind ==
    ASSUME EffectInvariant, NEW w \in Worker, Step(w), \A a \in Action : LegalAction(a)
    PROVE  CallBehind(w)' /\ UndoBehind(w)'
  <1>1. CopyInvariant
    BY DEF EffectInvariant, LicenceInvariant
  <1>2. CASE Rests(w)
    BY <1>2, BusyPlaces DEF Rests, CallBehind, UndoBehind, At
  <1>3. CASE TakesUp(w)
    BY <1>3, TakenBehind
  <1>4. CASE ~Rests(w) /\ (GoesOn(w) \/ Asks(w))
    <2>1. ~At(w, "next")
      BY <1>4 DEF GoesOn, Asks, Edge, Onward, Asking, At
    <2> QED BY <1>1, <1>4, <2>1, StepTurns, UndoOnward, CallOnward
  <1> QED BY <1>1, <1>2, <1>3, <1>4, StepFlow DEF Flow

\* A FAILED action has no effect after the step either.
LEMMA FailedStep ==
    ASSUME EffectInvariant, NEW w \in Worker, Step(w)
    PROVE  FailedMeansNoEffect'
  <1> SUFFICES ASSUME NEW a \in Action, action'[a].state = "FAILED"
               PROVE  provider'[a].effect # "active"
    BY DEF FailedMeansNoEffect
  <1>1. CopyInvariant /\ MutationLicence /\ CallBehind(w)
    BY DEF EffectInvariant, LicenceInvariant
  <1>2. CASE action'[a] = action[a]
    <2>1. provider[a].effect # "active"
      BY <1>2 DEF EffectInvariant, FailedMeansNoEffect
    <2>2. ~(a = Act(w) /\ At(w, "call"))
      BY <1>1, <1>2 DEF CallBehind, At, PreCall
    <2> QED BY <1>1, <2>1, <2>2, ProviderWritten
  <1>3. CASE action'[a] # action[a]
    <2>1. WritesAction(w, a)
      BY <1>1, <1>3, ActionWritten
    <2>2. provider'[a] = provider[a]
      BY <1>1, <2>1, ProviderWritten DEF WritesAction, ActionWrites, At
    <2>3. CASE worker[w].at \in {"block", "confirm", "reserve"}
      <3>1. provider[a].execs = 0
        BY <1>1, <2>1, <2>3 DEF WritesAction, ActionWrites, MutationLicence, PreCall
      <3> QED BY <2>2, <3>1 DEF EffectInvariant, TracesNeedCalls, Uncalled
    <2>4. CASE worker[w].at \in {"result", "reconciled"}
      BY <1>1, <2>1, <2>2, <2>4 DEF WritesAction, AnswerWrites, CallBehind, At
    <2> QED BY <2>1, <2>3, <2>4 DEF WritesAction, ActionWrites
  <1> QED BY <1>2, <1>3

\* Nor does a ROLLED_BACK one, and only a failed verification is rolled back.
LEMMA RolledBackStep ==
    ASSUME EffectInvariant, NEW w \in Worker, Step(w), \A a \in Action : LegalAction(a),
           TypeOK'
    PROVE  RolledBackMeansGone'
  <1>1. CopyInvariant /\ UndoBehind(w) /\ RolledBackMeansGone
    BY DEF EffectInvariant, LicenceInvariant
  <1>2. ASSUME NEW a \in Action, action'[a].state = "ROLLED_BACK"
        PROVE  provider'[a].effect = "gone"
    <2>1. provider[a].effect = "gone"
      <3>1. CASE action'[a] = action[a]
        BY <1>1, <1>2, <3>1 DEF RolledBackMeansGone
      <3>2. CASE action'[a] # action[a]
        <4>1. a = Act(w) /\ At(w, "undoOriginal")
          BY <1>1, <1>2, <3>2, ActionWritten DEF WritesAction, ActionWrites, At
        <4> QED BY <1>1, <4>1 DEF UndoBehind
      <3> QED BY <3>1, <3>2
    <2> QED BY <2>1, StepFades, GoneStays
  <1>3. ASSUME NEW a \in Action, provider'[a].undos > 0
        PROVE  action'[a].state \in {"ROLLBACK_REQUIRED", "ROLLED_BACK"}
    <2>1. action[a].state \in {"ROLLBACK_REQUIRED", "ROLLED_BACK"}
      <3>1. CASE provider[a].undos > 0
        BY <1>1, <3>1 DEF RolledBackMeansGone
      <3>2. CASE ~(provider[a].undos > 0)
        <4>1. provider'[a] # provider[a] /\ provider'[a].undos # provider[a].undos
          BY <1>3, <3>2
        <4>2. a = Act(w) /\ At(w, "undoCall")
          BY <1>1, <4>1, ProviderWritten
        <4>3. worker[w].at \in UndoSteps
          BY <4>2 DEF At, UndoSteps, UndoPreCall
        <4> QED BY <1>1, <4>2, <4>3 DEF UndoBehind
      <3> QED BY <3>1, <3>2
    <2> QED BY <2>1, RollbackFinal
  <1> QED BY <1>2, <1>3 DEF RolledBackMeansGone

\* What happens around the executors: deliveries, exceptions, crashes, restarts
\* and the environment's own steps.
Quiet ==
    /\ \A v \in Worker : worker'[v] = worker[v] \/ Rests(v)
    /\ \A a \in Action :
          \/ action'[a] = action[a]
          \/ /\ action[a].state = "SENT"
             /\ action'[a].state = "OUTCOME_UNKNOWN"
             /\ action'[a].rid = action[a].rid
    /\ \A a \in Action :
          \/ provider'[a] = provider[a]
          \/ /\ provider[a].effect = "active"
             /\ provider'[a] = [provider[a] EXCEPT !.effect = "gone"]
    /\ UNCHANGED incident
    /\ \A i \in Incident : allowed'[i] => allowed[i]
    /\ \A r \in Resource : lease'[r] = lease[r] \/ ~allowed[lease[r].owner]

\* Every step is an executor's or a quiet one.
LEMMA StepOrQuiet ==
    ASSUME CopyInvariant, [Next]_vars
    PROVE  Quiet \/ \E w \in Worker : Step(w)
  <1>1. TypeOK
    BY DEF CopyInvariant
  <1>2. CASE UNCHANGED vars
    BY <1>2 DEF vars, durable, outside, Quiet
  <1>3. ASSUME NEW w \in Worker, Raise(w)  PROVE Quiet
    BY <1>1, <1>3, RaiseEffect DEF Quiet, Others, Rests, durable
  <1>4. ASSUME NEW w \in Worker, NEW i \in Incident, Deliver(w, i)  PROVE Quiet
    <2>1. Others(w) /\ worker'[w].at = "next"
      BY <1>1, <1>4 DEF Deliver, TypeOK, Others, IdleWorker
    <2> QED BY <2>1, <1>4 DEF Quiet, Others, Rests, Deliver, durable
  <1>5. CASE Reconstruct \/ Overlap
    <2>1. \A a \in Action :
             \/ action'[a] = action[a]
             \/ /\ action[a].state = "SENT"
                /\ action'[a].state = "OUTCOME_UNKNOWN"
                /\ action'[a].rid = action[a].rid
      BY <1>5 DEF Reconstruct, Overlap, MarkRestartUnknown, Written
    <2> QED BY <1>5, <2>1 DEF Quiet, Reconstruct, Overlap
  <1>6. CASE Crash
    <2>1. \A v \in Worker : worker'[v].at = "idle"
      BY <1>6 DEF Crash, IdleWorker
    <2> QED BY <1>6, <2>1 DEF Quiet, Rests, Crash, durable
  <1>7. ASSUME NEW i \in Incident, Withdraw(i)  PROVE Quiet
    BY <1>1, <1>7 DEF Quiet, Withdraw, TypeOK
  <1>8. ASSUME NEW r \in Resource, Expire(r)  PROVE Quiet
    BY <1>1, <1>8 DEF Quiet, Expire, TypeOK
  <1>9. ASSUME NEW a \in Action, Lapse(a)  PROVE Quiet
    <2>1. \A b \in Action :
             \/ provider'[b] = provider[b]
             \/ /\ provider[b].effect = "active"
                /\ provider'[b] = [provider[b] EXCEPT !.effect = "gone"]
      BY <1>1, <1>9 DEF Lapse, TypeOK, ProviderRecord
    <2> QED BY <1>9, <2>1 DEF Quiet, Lapse, durable
  <1> QED BY <1>2, <1>3, <1>4, <1>5, <1>6, <1>7, <1>8, <1>9 DEF Next, Fault, Environment

\* A quiet step keeps the effects behind the states.
LEMMA QuietEffects ==
    ASSUME EffectInvariant, Quiet, \A a \in Action : LegalAction(a)
    PROVE  /\ TracesNeedCalls'
           /\ \A w \in Worker : CallBehind(w)' /\ UndoBehind(w)'
           /\ FailedMeansNoEffect'
           /\ RolledBackMeansGone'
  <1>1. \A a \in Action :
           /\ provider'[a].execs = provider[a].execs /\ provider'[a].undos = provider[a].undos
           /\ provider'[a].effect \in {provider[a].effect, "gone"}
           /\ provider'[a].effect # provider[a].effect => provider[a].effect = "active"
    <2>1. \A a \in Action : provider[a] \in ProviderRecord
      BY DEF EffectInvariant, LicenceInvariant, CopyInvariant, TypeOK
    <2> QED BY <2>1 DEF Quiet, ProviderRecord
  <1>2. TracesNeedCalls'
    BY <1>1 DEF EffectInvariant, TracesNeedCalls, Uncalled, Quiet
  <1>3. ASSUME NEW w \in Worker  PROVE CallBehind(w)' /\ UndoBehind(w)'
    <2>1. CASE Rests(w)
      BY <2>1, BusyPlaces DEF Rests, CallBehind, UndoBehind, At
    <2>2. CASE worker'[w] = worker[w] /\ worker[w].at \notin Busy
      BY <2>2, BusyPlaces DEF CallBehind, UndoBehind, At, Busy, PreCall, UndoSteps, UndoPreCall,
                              ResultSteps, ReconcileSteps
    <2>3. CASE worker'[w] = worker[w] /\ worker[w].at \in Busy
      <3>1. /\ Act(w) \in Action /\ Act(w)' = Act(w)
            /\ CallBehind(w) /\ UndoBehind(w)
        BY <2>3, ActAt DEF EffectInvariant, LicenceInvariant, Act
      <3>2. CallBehind(w)'
        BY <1>1, <2>3, <3>1 DEF CallBehind, At, Quiet
      <3>3. UndoBehind(w)'
        BY <1>1, <2>3, <3>1, RollbackFinal DEF UndoBehind, At
      <3> QED BY <3>2, <3>3
    <2> QED BY <2>1, <2>2, <2>3 DEF Quiet
  <1>4. FailedMeansNoEffect'
    BY <1>1 DEF EffectInvariant, FailedMeansNoEffect, Quiet
  <1>5. RolledBackMeansGone'
    BY <1>1, RollbackFinal DEF EffectInvariant, RolledBackMeansGone, Quiet
  <1> QED BY <1>2, <1>3, <1>4, <1>5

\* At first nothing was called and nobody works.
LEMMA InitEffects == Init => EffectInvariant
  <1> SUFFICES ASSUME Init PROVE EffectInvariant
    OBVIOUS
  <1>1. /\ \A w \in Worker : worker[w].at = "idle"
        /\ \A a \in Action :
              /\ provider[a] = [effect |-> "none", execs |-> 0, undos |-> 0]
              /\ action[a].state = "READY" /\ ~action[a].rid
    BY DEF Init, IdleWorker, Fresh
  <1>2. \A w \in Worker : CallBehind(w) /\ UndoBehind(w)
    BY <1>1, BusyPlaces DEF CallBehind, UndoBehind, At
  <1> QED BY <1>1, <1>2, InitLicence
          DEF EffectInvariant, TracesNeedCalls, Uncalled, FailedMeansNoEffect, RolledBackMeansGone

\* The effects behind the states, in every reachable state.
THEOREM EffectsAlways == Spec => []EffectInvariant
  <1>1. EffectInvariant /\ LicenceInvariant' /\ [Next]_vars => EffectInvariant'
    <2> SUFFICES ASSUME EffectInvariant, LicenceInvariant', [Next]_vars
                 PROVE  EffectInvariant'
      OBVIOUS
    <2>1. CopyInvariant /\ CopyInvariant' /\ TypeOK'
      BY DEF EffectInvariant, LicenceInvariant, CopyInvariant
    <2>2. \A a \in Action : LegalAction(a)
      BY <2>1, CopiesStep DEF CopyInvariant
    <2>3. CASE Quiet
      BY <2>2, <2>3, QuietEffects DEF EffectInvariant
    <2>4. ASSUME NEW w \in Worker, Step(w)  PROVE EffectInvariant'
      <3>1. Others(w)
        BY <2>1, <2>4, StepOthers DEF CopyInvariant
      <3>2. \A v \in Worker : CallBehind(v)' /\ UndoBehind(v)'
        BY <2>2, <2>4, <3>1, OthersBehind, OwnBehind DEF Others
      <3> QED BY <2>1, <2>2, <2>4, <3>2, TracesStep, FailedStep, RolledBackStep DEF EffectInvariant
    <2> QED BY <2>1, <2>3, <2>4, StepOrQuiet
  <1> QED BY InitEffects, LicencesAlways, <1>1, PTL DEF Spec

\* A mutation the network still carries is never recorded as FAILED, the state that
\* nothing reconciles or rolls back, however executors race and restarts interfere.
THEOREM FailedHasNoEffect == Spec => []FailedMeansNoEffect
  <1>1. EffectInvariant => FailedMeansNoEffect
    BY DEF EffectInvariant
  <1> QED BY EffectsAlways, <1>1, PTL

\* ROLLED_BACK is recorded of an effect that is gone for good, and a rollback is
\* asked of the provider only for an action whose verification failed.
THEOREM RollbackIsReal == Spec => []RolledBackMeansGone
  <1>1. EffectInvariant => RolledBackMeansGone
    BY DEF EffectInvariant
  <1> QED BY EffectsAlways, <1>1, PTL

(***************************************************************************)
(* The plan behind an incident.                                            *)
(***************************************************************************)
ReachedIncidentStates ==
    {"APPROVED", "MITIGATING", "VERIFYING", "RECOVERING", "RESOLVED", "BLOCKED", "ESCALATED"}

PlanBehind(i) ==
    /\ incident[i].state \in ReachedIncidentStates
    /\ incident[i].state = "APPROVED" =>
          \A a \in ActionsOf(i) : action[a].state \in {"READY", "FAILED"}
    /\ incident[i].state \in {"RECOVERING", "ESCALATED"} =>
          \E a \in ActionsOf(i) : action[a].state \in {"ROLLBACK_REQUIRED", "ROLLED_BACK"}

\* Before the claim the incident may still be APPROVED.
Unclaimed == {"block", "blockIncident", "own", "recheck"}

PlanInView(w) ==
    /\ worker[w].at \in Busy \ Unclaimed => incident[Inc(w)].state # "APPROVED"
    /\ worker[w].at \in VerifySteps \ {"verify"} => incident[Inc(w)].state # "MITIGATING"
    /\ At(w, "outcome") =>
          /\ incident[Inc(w)].state = "RESOLVED"
          /\ \A a \in ActionsOf(Inc(w)) : action[a].state = "SUCCESS"
    /\ At(w, "release") => incident[Inc(w)].state \in ClosedIncidentStates

\* A mutation that was sent, or is about to be, has its incident's lease as long
\* as the incident is authorized and active.
Held(a) ==
    Owns(a) \/ ~allowed[IncidentOf[a]] \/ incident[IncidentOf[a]].state \in ClosedIncidentStates

LeaseHeld ==
    /\ \A a \in Action : provider[a].execs # 0 => Held(a)
    /\ \A w \in Worker : worker[w].at \in {"reserve", "call"} => Held(Act(w))

PlanInvariant ==
    /\ EffectInvariant
    /\ \A i \in Incident : PlanBehind(i)
    /\ \A w \in Worker : PlanInView(w)
    /\ VerifiedOutcome
    /\ LeaseHeld

\* APPROVED is never entered, MITIGATING only from APPROVED, RECOVERING and
\* ESCALATED only by a rollback, and a closed incident stays closed.
LEMMA IncidentSteps ==
    ASSUME PlanInvariant, NEW w \in Worker, Step(w), NEW i \in Incident
    PROVE  /\ incident'[i].state \in ReachedIncidentStates
           /\ incident'[i].state = "APPROVED" => incident[i].state = "APPROVED"
           /\ incident'[i].state = "MITIGATING" => incident[i].state \in {"APPROVED", "MITIGATING"}
           /\ incident'[i].state \in {"RECOVERING", "ESCALATED"} =>
                 \/ incident[i].state \in {"RECOVERING", "ESCALATED"}
                 \/ i = Inc(w) /\ worker[w].at \in UndoSteps
           /\ incident[i].state \in ClosedIncidentStates => incident'[i].state = incident[i].state
  <1>1. CopyInvariant /\ incident[i].state \in ReachedIncidentStates
    BY DEF PlanInvariant, EffectInvariant, LicenceInvariant, PlanBehind
  <1>2. CASE incident'[i].state = incident[i].state
    BY <1>1, <1>2
  <1>3. CASE incident'[i].state # incident[i].state
    <2>1. /\ i = Inc(w)
          /\ <<worker[w].at, incident[i].state, incident'[i].state>> \in IncidentMoves
      BY <1>1, <1>3, IncidentWritten DEF WritesIncident
    <2> QED BY <2>1 DEF IncidentMoves, ReachedIncidentStates, ClosedIncidentStates,
                        UndoSteps
  <1> QED BY <1>2, <1>3

\* The plan stays behind its incident.
LEMMA PlanBehindStep ==
    ASSUME PlanInvariant, NEW w \in Worker, Step(w), \A a \in Action : LegalAction(a),
           NEW i \in Incident
    PROVE  PlanBehind(i)'
  <1>1. /\ CopyInvariant /\ PlanBehind(i) /\ UndoBehind(w) /\ PlanInView(w)
        /\ ActionsOf(i) \subseteq Action
    BY DEF PlanInvariant, EffectInvariant, LicenceInvariant, ActionsOf
  <1>2. ASSUME incident'[i].state = "APPROVED", NEW a \in ActionsOf(i)
        PROVE  action'[a].state \in {"READY", "FAILED"}
    <2>1. incident[i].state = "APPROVED" /\ action[a].state \in {"READY", "FAILED"}
      BY <1>1, <1>2, IncidentSteps DEF PlanBehind
    <2>2. CASE action'[a] = action[a]
      BY <2>1, <2>2
    <2>3. CASE action'[a] # action[a]
      <3>1. WritesAction(w, a) /\ IncidentOf[a] = i
        BY <1>1, <2>3, ActionWritten DEF ActionsOf
      <3>2. Inc(w) = i
        BY <3>1 DEF WritesAction, Act, Inc
      <3>3. worker[w].at # "claim"
        BY <1>1, <2>1, <3>2 DEF PlanInView, Busy, ClaimSteps, Unclaimed
      <3> QED BY <2>1, <3>1, <3>3 DEF WritesAction, ActionWrites
    <2> QED BY <2>2, <2>3
  <1>3. ASSUME incident'[i].state \in {"RECOVERING", "ESCALATED"}
        PROVE  \E a \in ActionsOf(i) : action'[a].state \in {"ROLLBACK_REQUIRED", "ROLLED_BACK"}
    <2>1. CASE incident[i].state \in {"RECOVERING", "ESCALATED"}
      BY <1>1, <2>1, RollbackFinal DEF PlanBehind
    <2>2. CASE i = Inc(w) /\ worker[w].at \in UndoSteps
      <3>1. Act(w) \in ActionsOf(i)
        BY <1>1, <2>2, ActAt, BusyPlaces DEF ActionsOf, Inc, Act
      <3> QED BY <1>1, <2>2, <3>1, RollbackFinal DEF UndoBehind
    <2> QED BY <1>3, <2>1, <2>2, IncidentSteps
  <1>4. ActionsOf(i)' = ActionsOf(i)
    BY DEF ActionsOf
  <1> QED BY <1>2, <1>3, <1>4, IncidentSteps DEF PlanBehind

\* SUCCESS is final.
LEMMA SuccessFinal ==
    ASSUME NEW a, LegalAction(a), action[a].state = "SUCCESS"
    PROVE  action'[a].state = "SUCCESS"
  BY DEF LegalAction, ActionMoves

\* Another executor sees the plan as it saw it before.
LEMMA OthersInView ==
    ASSUME PlanInvariant, NEW w \in Worker, Step(w), \A a \in Action : LegalAction(a),
           NEW v \in Worker, worker'[v] = worker[v]
    PROVE  PlanInView(v)'
  <1>1. CopyInvariant /\ PlanInView(v)
    BY DEF PlanInvariant, EffectInvariant, LicenceInvariant
  <1>2. CASE worker[v].at \notin Busy
    BY <1>2, BusyPlaces DEF PlanInView, At, VerifySteps
  <1>3. CASE worker[v].at \in Busy
    <2>1. Act(v) \in Action /\ Inc(v) \in Incident /\ Inc(v)' = Inc(v)
      BY <1>1, <1>3, ActAt DEF Inc
    <2>2. ActionsOf(Inc(v))' = ActionsOf(Inc(v)) /\ ActionsOf(Inc(v)) \subseteq Action
      BY <2>1 DEF ActionsOf
    <2>3. VerifySteps \cap Unclaimed = {}
      BY DEF VerifySteps, Unclaimed
    <2>4. At(v, "outcome") => \A a \in ActionsOf(Inc(v)) : action'[a].state = "SUCCESS"
      BY <1>1, <2>2, SuccessFinal DEF PlanInView
    <2>5. "RESOLVED" \in ClosedIncidentStates
      BY DEF ClosedIncidentStates
    <2> QED BY <1>1, <1>3, <2>1, <2>2, <2>3, <2>4, <2>5, IncidentSteps, BusyPlaces
            DEF PlanInView, At
  <1> QED BY <1>2, <1>3

\* An executor that resolves finds the plan's incident closed or closes it.
LEMMA ResolveCloses ==
    ASSUME PlanInvariant, NEW w \in Worker, Step(w), At(w, "resolve"), Turns(w),
           worker'[w].at = "release"
    PROVE  incident'[Inc(w)].state \in ClosedIncidentStates
  <1>1. /\ CopyInvariant /\ PlanInView(w) /\ worker[w].at = "resolve"
        /\ worker[w].at \in VerifySteps \ {"verify"} /\ worker[w].at \in Busy \ Unclaimed
    BY DEF PlanInvariant, EffectInvariant, LicenceInvariant, At, VerifySteps, Unclaimed, Busy
  <1>2. Inc(w) \in Incident /\ ActionsOf(Inc(w)) \subseteq Action
    BY <1>1, ActAt DEF ActionsOf
  <1>3. PlanBehind(Inc(w)) /\ PlanVerified(Inc(w)) /\ incident[Inc(w)].state # "VERIFYING"
    BY <1>2 DEF PlanInvariant, Turns, Learns
  <1>4. incident[Inc(w)].state \notin {"RECOVERING", "ESCALATED"}
    BY <1>3 DEF PlanBehind, PlanVerified
  <1>5. incident[Inc(w)].state \in ClosedIncidentStates
    BY <1>1, <1>3, <1>4 DEF PlanBehind, PlanInView, ReachedIncidentStates, ClosedIncidentStates
  <1> QED BY <1>2, <1>5, IncidentSteps

\* The executor's own view of the plan.
LEMMA OwnInView ==
    ASSUME PlanInvariant, NEW w \in Worker, Step(w), \A a \in Action : LegalAction(a)
    PROVE  PlanInView(w)'
  <1>1. CopyInvariant /\ PlanInView(w)
    BY DEF PlanInvariant, EffectInvariant, LicenceInvariant
  <1>2. CASE Rests(w)
    BY <1>2, BusyPlaces DEF Rests, PlanInView, At, VerifySteps
  <1>3. CASE TakesUp(w)
    <2>1. /\ incident' = incident /\ worker'[w].act \in Action
          /\ \E operating \in BOOLEAN : worker'[w].at = Route(worker'[w].act, operating)
          /\ worker'[w].at \in {"reconcile", "verify", "undo", "own", "block"}
      BY <1>3 DEF TakesUp, durable
    <2>2. Inc(w)' = IncidentOf[worker'[w].act] /\ Inc(w)' \in Incident
      BY <2>1, ConstantsAssumption DEF Inc
    <2>3. worker'[w].at \notin Unclaimed =>
             action[worker'[w].act].state \notin {"READY", "FAILED"}
      BY <2>1 DEF Route, Unclaimed, TerminalActionStates
    <2>4. worker'[w].at \notin Unclaimed => incident[Inc(w)'].state # "APPROVED"
      BY <2>1, <2>2, <2>3 DEF PlanInvariant, PlanBehind, ActionsOf
    <2> QED BY <2>1, <2>4 DEF PlanInView, At, VerifySteps
  <1>4. CASE ~Rests(w) /\ (GoesOn(w) \/ Asks(w))
    <2>1. Edge(w) \in Onward \cup Asking /\ worker'[w].act = worker[w].act
      BY <1>4 DEF GoesOn, Asks
    <2>2. /\ worker[w].at \in Busy /\ Inc(w) \in Incident /\ Inc(w)' = Inc(w)
          /\ ActionsOf(Inc(w)) \subseteq Action
      BY <1>1, <2>1, EdgeBusy, ActAt DEF Edge, Inc, ActionsOf
    <2>3. Turns(w)
      BY <1>1, <1>4, <2>2, StepTurns, BusyPlaces DEF At
    <2>4. worker'[w].at \in Busy \ Unclaimed => incident'[Inc(w)].state # "APPROVED"
      <3>1. CASE worker[w].at \notin Unclaimed
        BY <1>1, <2>2, <3>1, IncidentSteps DEF PlanInView
      <3>2. CASE worker[w].at \in Unclaimed
        BY <2>1, <2>3, <3>2 DEF Edge, Onward, Asking, Unclaimed, Turns, Approaches, At
      <3> QED BY <3>1, <3>2
    <2>5. worker'[w].at \in VerifySteps \ {"verify"} => incident'[Inc(w)].state # "MITIGATING"
      <3>1. CASE worker[w].at = "verify"
        BY <1>1, <2>2, <2>3, <3>1 DEF PlanInView, Turns, Learns, At, Unclaimed
      <3>2. CASE worker[w].at \in VerifySteps \ {"verify"}
        BY <1>1, <2>2, <3>2, IncidentSteps DEF PlanInView, VerifySteps, Unclaimed
      <3> QED BY <2>1, <3>1, <3>2 DEF Edge, Onward, Asking, VerifySteps
    <2>6. worker'[w].at = "outcome" =>
             /\ incident'[Inc(w)].state = "RESOLVED"
             /\ \A a \in ActionsOf(Inc(w)) : action'[a].state = "SUCCESS"
      <3>1. worker'[w].at = "outcome" => At(w, "resolve")
        BY <2>1 DEF Edge, Onward, Asking, At
      <3> QED BY <2>3, <3>1 DEF Turns, Learns, PlanVerified
    <2>7. worker'[w].at = "release" => incident'[Inc(w)].state \in ClosedIncidentStates
      <3>1. CASE At(w, "resolve")
        BY <2>3, <3>1, ResolveCloses
      <3>2. CASE At(w, "outcome") \/ At(w, "release")
        <4>1. incident[Inc(w)].state \in ClosedIncidentStates
          BY <1>1, <3>2 DEF PlanInView, ClosedIncidentStates
        <4> QED BY <2>2, <4>1, IncidentSteps
      <3> QED BY <2>1, <3>1, <3>2 DEF Edge, Onward, Asking, At
    <2>8. ActionsOf(Inc(w))' = ActionsOf(Inc(w))
      BY <2>2 DEF ActionsOf
    <2> QED BY <2>2, <2>4, <2>5, <2>6, <2>7, <2>8 DEF PlanInView, At
  <1> QED BY <1>1, <1>2, <1>3, <1>4, StepFlow DEF Flow

\* A verified outcome is recorded of a plan that succeeded, and stays true.
LEMMA OutcomeStep ==
    ASSUME PlanInvariant, LicenceInvariant', NEW w \in Worker, Step(w),
           \A a \in Action : LegalAction(a)
    PROVE  VerifiedOutcome'
  <1> SUFFICES ASSUME NEW i \in Incident, incident'[i].outcome = "VERIFIED_IMPROVED"
               PROVE  /\ incident'[i].state = "RESOLVED"
                      /\ \A a \in ActionsOf(i) :
                            action'[a].state = "SUCCESS" /\ provider'[a].execs = 1
    BY DEF VerifiedOutcome, ActionsOf
  <1>1. /\ CopyInvariant /\ EffectInvariant /\ PlanInView(w) /\ VerifiedOutcome
        /\ ActionsOf(i) \subseteq Action
    BY DEF PlanInvariant, EffectInvariant, LicenceInvariant, ActionsOf
  <1>2. incident[i].state = "RESOLVED" /\ \A a \in ActionsOf(i) : action[a].state = "SUCCESS"
    <2>1. CASE incident[i].outcome = "VERIFIED_IMPROVED"
      BY <1>1, <2>1 DEF VerifiedOutcome
    <2>2. CASE incident[i].outcome # "VERIFIED_IMPROVED"
      <3>1. i = Inc(w) /\ At(w, "outcome")
        BY <1>1, <2>2, IncidentWritten DEF WritesIncident
      <3> QED BY <1>1, <3>1 DEF PlanInView
    <2> QED BY <2>1, <2>2
  <1>3. incident'[i].state = "RESOLVED"
    BY <1>2, IncidentSteps DEF ClosedIncidentStates
  <1>4. ASSUME NEW a \in ActionsOf(i)
        PROVE  action'[a].state = "SUCCESS" /\ provider'[a].execs = 1
    <2>1. a \in Action /\ action[a].state = "SUCCESS"
      BY <1>1, <1>2
    <2>2. action'[a].state = "SUCCESS"
      BY <2>1, SuccessFinal
    <2>3. provider[a].execs # 0
      BY <1>1, <2>1 DEF EffectInvariant, TracesNeedCalls, Uncalled
    <2>4. provider'[a].execs # 0
      BY <1>1, <2>1, <2>3, StepFades DEF Fades
    <2>5. provider'[a].execs \in Nat /\ provider'[a].execs <= 1
      BY <2>1 DEF LicenceInvariant, CopyInvariant, TypeOK, ProviderRecord, AtMostOneMutation
    <2> QED BY <2>2, <2>4, <2>5
  <1> QED BY <1>3, <1>4

\* An incident does not lose a lease its mutation rests on.
LEMMA HeldStays ==
    ASSUME PlanInvariant, NEW w \in Worker, Step(w), NEW a \in Action, Held(a)
    PROVE  Held(a)'
  <1>1. /\ CopyInvariant /\ PlanInView(w)
        /\ IncidentOf[a] \in Incident /\ ResourceOf[a] \in Resource
    BY ConstantsAssumption DEF PlanInvariant, EffectInvariant, LicenceInvariant
  <1>2. CASE ~allowed[IncidentOf[a]]
    BY <1>2, AuthorityKept DEF Held
  <1>3. CASE incident[IncidentOf[a]].state \in ClosedIncidentStates
    BY <1>1, <1>3, IncidentSteps DEF Held
  <1>4. CASE Owns(a)
    <2>1. CASE lease'[ResourceOf[a]] = lease[ResourceOf[a]]
      BY <1>4, <2>1 DEF Owns, Held
    <2>2. CASE lease'[ResourceOf[a]] # lease[ResourceOf[a]]
      <3>1. CASE /\ lease[ResourceOf[a]].owner \in {None, Inc(w)} \/ ~lease[ResourceOf[a]].live
                 /\ lease'[ResourceOf[a]] = [owner |-> Inc(w), live |-> TRUE]
        <4>1. IncidentOf[a] # None
          BY <1>1, ConstantsAssumption
        <4>2. Inc(w) = IncidentOf[a]
          BY <1>4, <3>1, <4>1 DEF Owns
        <4> QED BY <3>1, <4>2 DEF Owns, Held
      <3>2. CASE At(w, "release") /\ lease[ResourceOf[a]].owner = Inc(w)
        <4>1. Inc(w) = IncidentOf[a]
          BY <1>4, <3>2 DEF Owns
        <4>2. incident[IncidentOf[a]].state \in ClosedIncidentStates
          BY <1>1, <3>2, <4>1 DEF PlanInView
        <4> QED BY <1>3, <4>2
      <3> QED BY <1>1, <2>2, <3>1, <3>2, LeaseWritten
    <2> QED BY <2>1, <2>2
  <1> QED BY <1>2, <1>3, <1>4 DEF Held

\* Who goes to reserve owns the resource; who goes on to call held it before.
LEMMA LeaseStep ==
    ASSUME PlanInvariant, NEW w \in Worker, Step(w), Others(w)
    PROVE  LeaseHeld'
  <1>1. CopyInvariant /\ LeaseHeld
    BY DEF PlanInvariant, EffectInvariant, LicenceInvariant
  <1>2. ASSUME NEW a \in Action, provider'[a].execs # 0  PROVE Held(a)'
    <2>1. Held(a)
      <3>1. CASE provider[a].execs # 0
        BY <1>1, <3>1 DEF LeaseHeld
      <3>2. CASE provider[a].execs = 0
        BY <1>1, <1>2, <3>2, ProviderWritten DEF LeaseHeld, At
      <3> QED BY <3>1, <3>2
    <2> QED BY <2>1, HeldStays
  <1>3. ASSUME NEW v \in Worker, worker'[v].at \in {"reserve", "call"}
        PROVE  Held(Act(v))'
    <2>1. CASE v # w
      <3>1. worker'[v] = worker[v] /\ Act(v) \in Action
        BY <1>1, <1>3, <2>1, ActAt DEF Others, Busy, PreCall
      <3> QED BY <1>1, <1>3, <3>1, HeldStays DEF LeaseHeld, Act
    <2>2. CASE v = w
      <3>1. ~Rests(w) /\ ~TakesUp(w)
        BY <1>3, <2>2 DEF Rests, TakesUp
      <3>2. Edge(w) \in Onward \cup Asking /\ worker'[w].act = worker[w].act
        BY <1>1, <3>1, StepFlow DEF Flow, GoesOn, Asks
      <3>3. At(w, "confirm") \/ At(w, "reserve")
        BY <1>3, <2>2, <3>2 DEF Edge, Onward, Asking, At
      <3>4. Approaches(w) /\ Act(w) \in Action
        BY <1>1, <3>1, <3>3, StepTurns, ActAt DEF Turns, At, Busy, PreCall
      <3>5. Held(Act(w))
        BY <1>1, <3>3, <3>4 DEF Approaches, LeaseHeld, At, Held
      <3> QED BY <2>2, <3>2, <3>4, <3>5, HeldStays DEF Act
    <2> QED BY <2>1, <2>2
  <1> QED BY <1>2, <1>3 DEF LeaseHeld, Act

\* A quiet step neither closes nor opens an incident; it may withdraw an authority,
\* and only then may a lease lapse.
LEMMA QuietPlan ==
    ASSUME PlanInvariant, EffectInvariant', Quiet, \A a \in Action : LegalAction(a)
    PROVE  PlanInvariant'
  <1>1. CopyInvariant /\ TypeOK
    BY DEF PlanInvariant, EffectInvariant, LicenceInvariant, CopyInvariant
  <1>2. \A a \in Action : provider'[a].execs = provider[a].execs
    <2>1. \A a \in Action : provider[a] \in ProviderRecord
      BY <1>1 DEF TypeOK
    <2> QED BY <2>1 DEF Quiet, ProviderRecord
  <1>3. ASSUME NEW i \in Incident  PROVE PlanBehind(i)'
    <2>1. PlanBehind(i) /\ ActionsOf(i) \subseteq Action /\ ActionsOf(i)' = ActionsOf(i)
      BY DEF PlanInvariant, ActionsOf
    <2>2. incident[i].state = "APPROVED" =>
             \A a \in ActionsOf(i) : action'[a].state \in {"READY", "FAILED"}
      BY <2>1 DEF PlanBehind, Quiet
    <2>3. \A a \in ActionsOf(i) : action[a].state \in {"ROLLBACK_REQUIRED", "ROLLED_BACK"} =>
             action'[a].state \in {"ROLLBACK_REQUIRED", "ROLLED_BACK"}
      BY <2>1, RollbackFinal
    <2> QED BY <2>1, <2>2, <2>3 DEF PlanBehind, Quiet
  <1>4. ASSUME NEW v \in Worker  PROVE PlanInView(v)'
    <2>1. CASE Rests(v)
      BY <2>1, BusyPlaces DEF Rests, PlanInView, At, VerifySteps
    <2>2. CASE worker'[v] = worker[v]
      <3>1. PlanInView(v) /\ \A a \in ActionsOf(Inc(v)) : LegalAction(a)
        BY DEF PlanInvariant, ActionsOf
      <3> QED BY <2>2, <3>1, SuccessFinal DEF PlanInView, Quiet, Inc, At, ActionsOf
    <2> QED BY <2>1, <2>2 DEF Quiet
  <1>5. VerifiedOutcome'
    BY <1>2, SuccessFinal DEF PlanInvariant, VerifiedOutcome, Quiet, ActionsOf
  <1>6. ASSUME NEW a \in Action, Held(a)  PROVE Held(a)'
    <2>1. IncidentOf[a] \in Incident /\ ResourceOf[a] \in Resource
      BY ConstantsAssumption
    <2>2. CASE Owns(a)
      BY <2>1, <2>2 DEF Owns, Held, Quiet
    <2>3. CASE ~Owns(a)
      BY <1>6, <2>1, <2>3 DEF Held, Quiet
    <2> QED BY <2>2, <2>3
  <1>7. LeaseHeld'
    <2>1. \A a \in Action : provider'[a].execs # 0 => Held(a)'
      BY <1>2, <1>6 DEF PlanInvariant, LeaseHeld
    <2>2. ASSUME NEW v \in Worker, worker'[v].at \in {"reserve", "call"}
          PROVE  Held(Act(v))'
      <3>1. worker'[v] = worker[v]
        BY <2>2 DEF Quiet, Rests
      <3>2. Act(v) \in Action /\ Held(Act(v))
        BY <1>1, <2>2, <3>1, ActAt DEF PlanInvariant, LeaseHeld, Busy, PreCall
      <3> QED BY <1>6, <3>1, <3>2 DEF Act
    <2> QED BY <2>1, <2>2 DEF LeaseHeld, Act
  <1> QED BY <1>3, <1>4, <1>5, <1>7 DEF PlanInvariant

\* At first every incident is APPROVED and none of its actions has started.
LEMMA InitPlan == Init => PlanInvariant
  <1> SUFFICES ASSUME Init PROVE PlanInvariant
    OBVIOUS
  <1>1. /\ \A w \in Worker : worker[w].at = "idle"
        /\ \A a \in Action : provider[a].execs = 0 /\ action[a].state = "READY"
        /\ \A i \in Incident :
              incident[i].state = "APPROVED" /\ incident[i].outcome = "NONE"
    BY DEF Init, IdleWorker, Fresh
  <1>2. \A i \in Incident : PlanBehind(i)
    BY <1>1 DEF PlanBehind, ReachedIncidentStates, ActionsOf
  <1>3. \A w \in Worker : PlanInView(w)
    BY <1>1, BusyPlaces DEF PlanInView, At, VerifySteps
  <1> QED BY <1>1, <1>2, <1>3, InitEffects DEF PlanInvariant, VerifiedOutcome, LeaseHeld

\* The plans behind the incidents, in every reachable state.
THEOREM PlansAlways == Spec => []PlanInvariant
  <1>1. PlanInvariant /\ EffectInvariant' /\ [Next]_vars => PlanInvariant'
    <2> SUFFICES ASSUME PlanInvariant, EffectInvariant', [Next]_vars
                 PROVE  PlanInvariant'
      OBVIOUS
    <2>1. CopyInvariant /\ CopyInvariant' /\ LicenceInvariant'
      BY DEF PlanInvariant, EffectInvariant, LicenceInvariant
    <2>2. \A a \in Action : LegalAction(a)
      BY <2>1, CopiesStep DEF CopyInvariant
    <2>3. ASSUME NEW w \in Worker, Step(w)  PROVE PlanInvariant'
      <3>1. Others(w)
        BY <2>1, <2>3, StepOthers DEF CopyInvariant
      <3>2. \A v \in Worker : PlanInView(v)'
        BY <2>2, <2>3, <3>1, OthersInView, OwnInView DEF Others
      <3> QED BY <2>1, <2>2, <2>3, <3>1, <3>2, PlanBehindStep, OutcomeStep, LeaseStep
              DEF PlanInvariant
    <2> QED BY <2>1, <2>2, <2>3, StepOrQuiet, QuietPlan
  <1> QED BY InitPlan, EffectsAlways, <1>1, PTL DEF Spec

\* An incident is reported VERIFIED_IMPROVED only when it is RESOLVED, every action of
\* its plan succeeded, and each of them reached the provider exactly once.
THEOREM OutcomeIsVerified == Spec => []VerifiedOutcome
  <1>1. PlanInvariant => VerifiedOutcome
    BY DEF PlanInvariant
  <1> QED BY PlansAlways, <1>1, PTL

\* Two authorized active incidents never both have a mutation on one resource.
THEOREM MutationsAreExclusive == Spec => []Exclusive
  <1>1. PlanInvariant => Exclusive
    <2> SUFFICES ASSUME PlanInvariant, NEW a \in Action, NEW b \in Action,
                        provider[a].execs = 1, provider[b].execs = 1,
                        ResourceOf[a] = ResourceOf[b], IncidentOf[a] # IncidentOf[b]
                 PROVE  \E c \in {a, b} :
                           \/ ~allowed[IncidentOf[c]]
                           \/ incident[IncidentOf[c]].state \notin ActiveIncidentStates
      BY DEF Exclusive
    <2>1. Held(a) /\ Held(b)
      BY DEF PlanInvariant, LeaseHeld
    <2>2. ~(Owns(a) /\ Owns(b))
      BY DEF Owns
    <2> QED BY <2>1, <2>2 DEF Held, ActiveIncidentStates
  <1> QED BY PlansAlways, <1>1, PTL

(***************************************************************************)
(* The claim of an executor, when no restart overlaps it.                  *)
(***************************************************************************)
\* A process that is down or has refused to start has no executors.
DownIsIdle == status # "READY" => \A w \in Worker : At(w, "idle")

ClaimInvariant ==
    /\ EffectInvariant
    /\ DownIsIdle
    /\ \A v, w \in Worker : v # w /\ At(v, "result") /\ At(w, "result") => Act(v) # Act(w)
    /\ ClaimSurvives

\* Without an overlapping restart, what is not an executor's step either finds
\* everybody idle or leaves the actions and their executors alone.
LEMMA StepOrStill ==
    ASSUME CopyInvariant, ~Rolling, DownIsIdle, [Next]_vars
    PROVE  \/ \E w \in Worker : Step(w)
           \/ \A v \in Worker : worker'[v].at = "idle"
           \/ /\ UNCHANGED <<action, status>>
              /\ \A v \in Worker : worker'[v] = worker[v] \/ Rests(v)
              /\ status # "READY" => \A v \in Worker : worker'[v] = worker[v]
  <1>1. TypeOK
    BY DEF CopyInvariant
  <1>2. CASE UNCHANGED vars
    BY <1>2 DEF vars, durable, outside
  <1>3. ASSUME NEW w \in Worker, Fault(w) \/ \E i \in Incident : Deliver(w, i)
        PROVE  /\ UNCHANGED <<action, status>>
               /\ \A v \in Worker : worker'[v] = worker[v] \/ Rests(v)
               /\ status = "READY"
    <2>1. CASE Fault(w)
      <3>1. Raise(w) /\ ~At(w, "idle")
        BY <2>1 DEF Fault
      <3> QED BY <1>1, <3>1, RaiseEffect DEF DownIsIdle, Others, Rests, durable
    <2>2. ASSUME NEW i \in Incident, Deliver(w, i)
          PROVE  /\ UNCHANGED <<action, status>>
                 /\ \A v \in Worker : worker'[v] = worker[v] \/ Rests(v)
                 /\ status = "READY"
      <3>1. Others(w) /\ worker'[w].at = "next"
        BY <1>1, <2>2 DEF Deliver, TypeOK, Others, IdleWorker
      <3> QED BY <3>1, <2>2 DEF Others, Rests, Deliver, durable
    <2> QED BY <1>3, <2>1, <2>2
  <1>4. CASE Reconstruct
    BY <1>4 DEF Reconstruct, DownIsIdle, At
  <1>5. CASE Crash
    BY <1>5 DEF Crash, IdleWorker
  <1>6. CASE Environment /\ ~Crash
    BY <1>6 DEF Environment, Withdraw, Expire, Lapse, Overlap, durable
  <1> QED BY <1>2, <1>3, <1>4, <1>5, <1>6 DEF Next

\* An idle executor takes no step.
LEMMA StepIsAwake ==
    ASSUME NEW w \in Worker, Step(w)
    PROVE  ~At(w, "idle")
  <1>1. CASE Acknowledge(w)
    BY <1>1 DEF Acknowledge, At
  <1>2. CASE Conflict(w)
    BY <1>2 DEF Conflict, At, RecoveryWrites
  <1> QED BY <1>1, <1>2, ActionPlaces, UndoPlaces
          DEF Step, ExecuteReadyAction, VerifyKnown, Rollback, At

\* Only an executor that has just called arrives at the result, and only one that
\* holds the claim is between the claim and the result.
LEMMA ClaimSources ==
    ASSUME CopyInvariant, NEW w \in Worker, Step(w), worker'[w].at \in PreCall \cup {"result"}
    PROVE  /\ worker'[w].act = worker[w].act
           /\ worker'[w].at = "result" => At(w, "call") /\ UNCHANGED action
           /\ worker'[w].at \in PreCall =>
                 \/ At(w, "claim") /\ action'[Act(w)].state = "SENT"
                 \/ worker[w].at \in PreCall /\ UNCHANGED action
  <1>1. ~Rests(w) /\ ~TakesUp(w)
    BY DEF Rests, TakesUp, PreCall
  <1>2. /\ Edge(w) \in Onward \cup Asking /\ worker'[w].act = worker[w].act
        /\ Edge(w) \in Asking => UNCHANGED action
    BY <1>1, StepFlow DEF Flow, GoesOn, Asks, Onward, Asking, Edge, durable
  <1>3. ~At(w, "next")
    BY <1>2 DEF Edge, Onward, Asking, At
  <1>4. Approaches(w)
    BY <1>1, <1>3, StepTurns DEF Turns
  <1>5. worker'[w].at = "result" => At(w, "call") /\ UNCHANGED action
    BY <1>2 DEF Edge, Onward, Asking, At
  <1>6. worker'[w].at \in PreCall => At(w, "claim") \/ At(w, "confirm") \/ At(w, "reserve")
    BY <1>2 DEF Edge, Onward, Asking, At, PreCall
  <1> QED BY <1>2, <1>4, <1>5, <1>6 DEF Approaches, At, PreCall, durable

\* The claim survives every step of an executor.
LEMMA ClaimStep ==
    ASSUME ClaimInvariant, EffectInvariant', NEW w \in Worker, Step(w)
    PROVE  ClaimInvariant'
  <1>1. CopyInvariant /\ CopyInvariant' /\ EffectInvariant /\ MutationLicence
    BY DEF ClaimInvariant, EffectInvariant, LicenceInvariant
  <1>2. Others(w)
    BY <1>1, StepOthers DEF CopyInvariant
  <1>3. DownIsIdle'
    BY StepIsAwake, AuthorityKept DEF ClaimInvariant, DownIsIdle
  <1>4. ASSUME NEW v \in Worker, v # w, At(v, "result"), worker'[w].at = "result"
        PROVE  worker[v].act # worker'[w].act
    <2>1. At(w, "call") /\ worker'[w].act = worker[w].act
      BY <1>1, <1>4, ClaimSources DEF PreCall
    <2>2. provider[Act(w)].execs = 0
      BY <1>1, <2>1 DEF MutationLicence, At, PreCall
    <2>3. provider[Act(v)].execs # 0
      BY <1>1, <1>4 DEF EffectInvariant, CallBehind
    <2> QED BY <2>1, <2>2, <2>3 DEF Act
  <1>5. ASSUME NEW u \in Worker, NEW v \in Worker, u # v,
               worker'[u].at = "result", worker'[v].at = "result"
        PROVE  worker'[u].act # worker'[v].act
    <2>1. CASE u # w /\ v # w
      BY <1>2, <1>5, <2>1 DEF ClaimInvariant, Others, Act, At
    <2>2. CASE u = w
      BY <1>2, <1>4, <1>5, <2>2 DEF Others, At
    <2>3. CASE v = w
      BY <1>2, <1>4, <1>5, <2>3 DEF Others, At
    <2> QED BY <2>1, <2>2, <2>3
  <1>6. ASSUME NEW v \in Worker, worker'[v].at \in PreCall \cup {"result"}
        PROVE  action'[worker'[v].act].state = "SENT"
    <2>1. CASE v = w
      <3>1. /\ worker'[w].act = worker[w].act
            /\ \/ At(w, "claim") /\ action'[Act(w)].state = "SENT"
               \/ worker[w].at \in PreCall /\ UNCHANGED action
        BY <1>1, <1>6, <2>1, ClaimSources DEF At, PreCall
      <3>2. worker[w].at \in PreCall => action[Act(w)].state = "SENT"
        <4>1. worker[w].at \in PreCall => Act(w) \in Action
          BY <1>1, ActAt, BusyPlaces
        <4>2. worker[w].at \in PreCall => Act(w) # None
          BY <4>1, ConstantsAssumption
        <4> QED BY <4>2 DEF ClaimInvariant, ClaimSurvives, Act
      <3> QED BY <2>1, <3>1, <3>2 DEF Act
    <2>2. CASE v # w
      <3>1. /\ worker'[v] = worker[v] /\ Act(v) \in Action /\ Act(v) # None
            /\ worker[v].at \in PreCall \cup {"result"}
        BY <1>1, <1>2, <1>6, <2>2, ActAt, BusyPlaces, ConstantsAssumption DEF Others
      <3>2. action[Act(v)].state = "SENT"
        BY <3>1 DEF ClaimInvariant, ClaimSurvives, Act
      <3>3. action'[Act(v)] = action[Act(v)]
        <4> SUFFICES ASSUME action'[Act(v)] # action[Act(v)]  PROVE FALSE
          OBVIOUS
        <4>1. /\ Act(w) = Act(v) /\ worker[w].at \in {"confirm", "reserve", "result"}
          BY <1>1, <3>1, <3>2, ActionWritten DEF WritesAction, ActionWrites
        <4>2. CASE worker[v].at \in PreCall /\ worker[w].at \in PreCall
          BY <1>1, <2>2, <4>1, <4>2 DEF MutationLicence
        <4>3. CASE worker[v].at \in PreCall /\ worker[w].at = "result"
          BY <1>1, <4>1, <4>3 DEF MutationLicence, EffectInvariant, CallBehind, At
        <4>4. CASE worker[v].at = "result" /\ worker[w].at \in PreCall
          BY <1>1, <4>1, <4>4 DEF MutationLicence, EffectInvariant, CallBehind, At
        <4>5. CASE worker[v].at = "result" /\ worker[w].at = "result"
          BY <2>2, <4>1, <4>5 DEF ClaimInvariant, At
        <4> QED BY <3>1, <4>1, <4>2, <4>3, <4>4, <4>5 DEF PreCall
      <3> QED BY <3>1, <3>2, <3>3 DEF Act
    <2> QED BY <2>1, <2>2
  <1> QED BY <1>3, <1>5, <1>6 DEF ClaimInvariant, ClaimSurvives, Act, At

\* Everything else leaves the claims alone or finds nobody to hold one.
LEMMA ClaimStill ==
    ASSUME ~Rolling, ClaimInvariant, EffectInvariant', [Next]_vars,
           ~\E w \in Worker : Step(w)
    PROVE  ClaimInvariant'
  <1>1. CopyInvariant /\ DownIsIdle
    BY DEF ClaimInvariant, EffectInvariant, LicenceInvariant
  <1>2. CASE \A v \in Worker : worker'[v].at = "idle"
    BY <1>2 DEF ClaimInvariant, ClaimSurvives, DownIsIdle, At, PreCall
  <1>3. CASE /\ UNCHANGED <<action, status>>
             /\ \A v \in Worker : worker'[v] = worker[v] \/ Rests(v)
             /\ status # "READY" => \A v \in Worker : worker'[v] = worker[v]
    <2>1. \A v \in Worker : worker'[v].at \in PreCall \cup {"result"} => worker'[v] = worker[v]
      BY <1>3 DEF Rests, PreCall
    <2>2. DownIsIdle'
      BY <1>1, <1>3 DEF DownIsIdle, At
    <2>3. (\A v, w \in Worker : v # w /\ At(v, "result") /\ At(w, "result") => Act(v) # Act(w))'
      BY <2>1 DEF ClaimInvariant, At, Act
    <2>4. ClaimSurvives'
      BY <1>3, <2>1 DEF ClaimInvariant, ClaimSurvives, Act
    <2> QED BY <2>2, <2>3, <2>4 DEF ClaimInvariant
  <1> QED BY <1>1, <1>2, <1>3, StepOrStill

\* Where no new process overlaps a running one, an executor that has committed its
\* claim finds the action still SENT when the provider's result comes in.
THEOREM ClaimIsKept ==
    ASSUME ~Rolling
    PROVE  Spec => []ClaimSurvives
  <1>1. Init => ClaimInvariant
    <2>1. Init => \A w \in Worker : worker[w].at = "idle"
      BY DEF Init, IdleWorker
    <2> QED BY <2>1, InitEffects DEF ClaimInvariant, ClaimSurvives, DownIsIdle, At, PreCall
  <1>2. ClaimInvariant /\ EffectInvariant' /\ [Next]_vars => ClaimInvariant'
    BY ClaimStep, ClaimStill
  <1>3. ClaimInvariant => ClaimSurvives
    BY DEF ClaimInvariant
  <1> QED BY <1>1, <1>2, <1>3, EffectsAlways, PTL DEF Spec
=============================================================================
