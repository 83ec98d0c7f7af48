------------------------ MODULE ReconciliationProofs ------------------------
(***************************************************************************)
(* Theorems about Reconciliation, for every set of consumers, every number *)
(* of attempts, deadline and backoff, and every bound.                     *)
(***************************************************************************)
EXTENDS Reconciliation, TLAPS, WellFoundedInduction

Recorded(n) == attempt[n].result # "NONE"
\* n is the number of the last attempt.
IsLast(n) == \A k \in Number : Recorded(k) <=> k <= n

\* The places at which a handler still has to do with the action's state.
Deciding == {"resume", "renumber", "read", "save", "accept", "fail", "defer",
             "verify", "record", "settle"}

\* The number a handler works under is within the bound at each of its places, and
\* the attempts before it are recorded.
NumbersFit ==
    \A h \in Handler :
        LET n == handler[h].n IN
        /\ At(h, "terminal") => n \in 0..MaxAttempts
        /\ handler[h].at \in {"read", "save"} =>
              n \in 1..MaxAttempts /\ \A k \in 1..(n - 1) : Recorded(k)
        /\ handler[h].at \in {"resume", "renumber"} =>
              n \in 1..(MaxAttempts - 1) /\ \A k \in 1..n : Recorded(k)

\* The answer a handler carries is of the kind its place records, and NOT_FOUND was
\* true when it was given, which nothing makes untrue.
AnswersFit ==
    \A h \in Handler :
        LET got == handler[h].got IN
        /\ At(h, "save") =>
              got \in Classes /\ (got = "PROVIDER_NOT_FOUND" => provider = "absent")
        /\ At(h, "fail") => provider = "absent"
        /\ handler[h].at \in {"record", "settle"} => got \in Verdicts

\* Without overlap one handler works at most,
Alone == ~overlapped => \A g, h \in Handler : At(g, "idle") \/ At(h, "idle") \/ g = h

\* and nobody else moves the action while it decides,
StillOpen ==
    ~overlapped => \A h \in Handler : handler[h].at \in Deciding => action.state \in Eligible

\* nor records an attempt: the handler's number is the last, or the next.
NumbersCurrent ==
    ~overlapped =>
       \A h \in Handler :
          LET n == handler[h].n IN
          /\ handler[h].at \in {"read", "save"} => IsLast(n - 1)
          /\ handler[h].at \in {"resume", "renumber", "accept", "verify", "record", "settle"} =>
                n # 0 /\ IsLast(n)
          /\ At(h, "settle") => reverify[n].result = handler[h].got

\* What the reconciler settled was settled by the verification of the last attempt.
Evidence ==
    ~overlapped /\ action.by = "reconciler" =>
       /\ action.state = "SUCCESS" =>
             \E n \in Number : IsLast(n) /\ reverify[n].result = "IMPROVED"
       /\ action.state = "ROLLBACK_REQUIRED" =>
             \E n \in Number : IsLast(n) /\ reverify[n].result = "UNCHANGED"

\* No time is ahead of the clock; a verification is recorded for an attempt that found
\* the resource available, after it.
TimesFit ==
    ~overlapped =>
       \A n \in Number :
          /\ attempt[n].time <= now /\ reverify[n].time <= now
          /\ reverify[n].result # "NONE" =>
                /\ attempt[n].result = "PROVIDER_AVAILABLE"
                /\ attempt[n].time <= reverify[n].time

\* The time since attempt n, and since its verification, is at least its backoff.
Waited(n) ==
    /\ now >= attempt[n].time + Backoff(n)
    /\ reverify[n].result = "INSUFFICIENT" => now >= reverify[n].time + Backoff(n)

\* A handler that is about to record an attempt has waited since the one before, and
\* one that verifies does so on an attempt that found the resource available.
WaitsFit ==
    ~overlapped =>
       \A h \in Handler :
          LET n == handler[h].n IN
          /\ handler[h].at \in {"read", "save"} /\ n > 1 => Waited(n - 1)
          /\ handler[h].at \in {"resume", "renumber"} /\ reverify[n].result = "INSUFFICIENT" =>
                Waited(n)
          /\ handler[h].at \in {"resume", "renumber", "accept", "verify", "record"} =>
                attempt[n].result = "PROVIDER_AVAILABLE"

IInv ==
    /\ TypeOK /\ AttemptBudget /\ FailedMeansGone
    /\ NumbersFit /\ AnswersFit
    /\ Alone /\ StillOpen /\ NumbersCurrent /\ Evidence
    /\ TimesFit /\ WaitsFit /\ BackoffKept

HandlerRecord ==
    [at : Places, row : Number \cup {0}, n : Number \cup {0},
     seen : ActionStates, got : Classes \cup Verdicts \cup {"NONE"}]

(***************************************************************************)
(* The count of attempts.                                                  *)
(***************************************************************************)
\* A set of numbers has a least one.
LEMMA LeastNumber ==
    ASSUME NEW S \in SUBSET Number, S # {}
    PROVE  \E m \in S : \A k \in S : m <= k
<1>1. S \subseteq Nat BY ReconciliationAssumption DEF Number
<1>2. PICK m \in S : \A k \in S : ~(<<k, m>> \in OpToRel(<, Nat))
  BY <1>1, NatLessThanWellFounded, WFMin
<1>3. \A k \in S : ~(k < m) BY <1>1, <1>2 DEF OpToRel
<1> QED BY <1>1, <1>3

\* Numbered without gaps and within the bound, the attempts are as many as the
\* number of the last one says.
LEMMA CountIsLast ==
    ASSUME TypeOK, AttemptBudget
    PROVE  Count \in 0..MaxAttempts /\ IsLast(Count)
<1> USE ReconciliationAssumption
<1> DEFINE Open == {n \in Number : ~Recorded(n)}
<1>1. MaxAttempts + 1 \in Open
  BY DEF AttemptBudget, Number, Recorded
<1>2. PICK m \in Open : \A k \in Open : m <= k
  BY <1>1, LeastNumber
<1>3. m \in Number /\ m - 1 \in 0..MaxAttempts BY DEF Number
<1>4. \A k \in Number : k < m => Recorded(k) BY <1>2 DEF Number
<1>5. \A k \in Number : k >= m => ~Recorded(k)
  BY <1>3 DEF AttemptBudget, Number, Recorded
<1>6. IsLast(m - 1) BY <1>3, <1>4, <1>5 DEF IsLast, Number
<1>7. Count = m - 1
  <2>1. CASE m = 1
    <3>1. \A n \in Number : attempt[n].result = "NONE"
      BY <2>1, <1>5 DEF Number, Recorded
    <3> QED BY <2>1, <3>1 DEF Count
  <2>2. CASE m > 1
    <3> DEFINE Top(n) == /\ attempt[n].result # "NONE"
                         /\ \A k \in Number : k > n => attempt[k].result = "NONE"
    <3>1. m - 1 \in Number /\ Top(m - 1)
      BY <2>2, <1>3, <1>4, <1>5 DEF Number, Recorded
    <3>2. \A n \in Number : Top(n) => n = m - 1
      BY <3>1, <1>6 DEF IsLast, Recorded, Number
    <3>3. Count = CHOOSE n \in Number : Top(n)
      BY <3>1 DEF Count
    <3>4. (CHOOSE n \in Number : Top(n)) = m - 1
      BY <3>1, <3>2
    <3> QED BY <3>3, <3>4
  <2> QED BY <2>1, <2>2, <1>3 DEF Number
<1> QED BY <1>3, <1>6, <1>7

\* There is one last number.
LEMMA LastIsUnique ==
    ASSUME NEW m \in 0..MaxAttempts + 1, NEW n \in 0..MaxAttempts + 1, IsLast(m), IsLast(n)
    PROVE  m = n
<1>1. \A k \in Number : k <= m <=> k <= n BY DEF IsLast
<1> QED BY <1>1, ReconciliationAssumption DEF Number

(***************************************************************************)
(* Types.                                                                  *)
(***************************************************************************)
\* The types of all but the handlers.
StoreTyped ==
    /\ action \in [state : ActionStates, known : BOOLEAN, by : {"executor", "reconciler"}]
    /\ attempt \in [Number -> [result : Classes \cup {"NONE"}, time : Nat]]
    /\ terminal \in [number : -1..MaxAttempts, time : Nat]
    /\ reverify \in [Number -> [result : Verdicts \cup {"NONE"}, time : Nat]]
    /\ incident \in [state : IncidentStates,
                     outcome : {"NONE", "MANUAL_RECONCILIATION_REQUIRED",
                                "RECOVERY_REQUIRED", "VERIFIED_IMPROVED", "ROLLED_BACK_SAFELY"}]
    /\ row \in [Number -> [state : {"ABSENT", "PENDING", "CLAIMED", "SENT"},
                           owner : Handler \cup {None}]]
    /\ rollback \in {"ABSENT", "PENDING", "SENT"}
    /\ foreign \in BOOLEAN
    /\ provider \in ProviderStates
    /\ now \in 0..Deadline
    /\ faults \in 0..MaxFaults
    /\ overlapped \in BOOLEAN

\* The type invariant is the types of the store and of the handlers.
LEMMA TypeParts == TypeOK <=> StoreTyped /\ handler \in [Handler -> HandlerRecord]
BY DEF TypeOK, StoreTyped, HandlerRecord

\* An idle handler is well typed.
LEMMA IdleTyped == IdleHandler \in HandlerRecord
BY DEF IdleHandler, HandlerRecord, Places, ActionStates

\* A handler's record stays one when it moves, takes an answer or a number.
LEMMA MovesTyped ==
    ASSUME NEW k \in HandlerRecord
    PROVE  /\ \A p \in Places : [k EXCEPT !.at = p] \in HandlerRecord
           /\ \A p \in Places, g \in Classes \cup Verdicts :
                 [k EXCEPT !.at = p, !.got = g] \in HandlerRecord
           /\ \A p \in Places : [k EXCEPT !.at = p, !.seen = IdleHandler.seen] \in HandlerRecord
           /\ \A p \in Places, n \in Number :
                 [k EXCEPT !.at = p, !.n = n] \in HandlerRecord
           /\ \A p \in Places, s \in ActionStates, n \in Number \cup {0} :
                 [k EXCEPT !.at = p, !.seen = s, !.n = n] \in HandlerRecord
<1>1. IdleHandler.seen \in ActionStates BY IdleTyped DEF HandlerRecord
<1> QED BY <1>1 DEF HandlerRecord

\* So does that of one about to return, or of one just given a row.
LEMMA ReturnTyped ==
    ASSUME NEW p \in Places, NEW r \in Number \cup {0}
    PROVE  [IdleHandler EXCEPT !.at = p, !.row = r] \in HandlerRecord
BY IdleTyped DEF HandlerRecord

\* The handlers stay well typed when one of them is replaced by a typed record.
LEMMA HandlersTyped ==
    ASSUME TypeOK, AttemptBudget, NumbersFit, AnswersFit, [Next]_vars
    PROVE  handler' \in [Handler -> HandlerRecord]
<1> USE ReconciliationAssumption
<1> DEFINE Typed == handler' \in [Handler -> HandlerRecord]
<1>1. /\ handler \in [Handler -> HandlerRecord]
      /\ \A h \in Handler :
            /\ handler[h] \in HandlerRecord
            /\ handler[h].row \in Number \cup {0} /\ handler[h].n \in Number \cup {0}
            /\ handler[h].seen \in ActionStates
  BY TypeParts DEF HandlerRecord
<1>2. \A h \in Handler, k \in HandlerRecord :
         handler' = [handler EXCEPT ![h] = k] => Typed
  BY <1>1
<1>3. \A h \in Handler, p \in Places : GoTo(h, p) => Typed
  <2> TAKE h \in Handler, p \in Places
  <2>1. [handler[h] EXCEPT !.at = p] \in HandlerRecord BY <1>1, MovesTyped
  <2> QED BY <2>1, <1>2 DEF GoTo
<1>4. \A h \in Handler : Return(h) => Typed
  <2> TAKE h \in Handler
  <2>1. [IdleHandler EXCEPT !.at = "ack", !.row = handler[h].row] \in HandlerRecord
    BY <1>1, ReturnTyped DEF Places
  <2> QED BY <2>1, <1>2 DEF Return
<1>5. \A h \in Handler, p \in Places, g \in Classes \cup Verdicts :
         handler' = [handler EXCEPT ![h].at = p, ![h].got = g] => Typed
  <2> TAKE h \in Handler, p \in Places, g \in Classes \cup Verdicts
  <2>1. [handler[h] EXCEPT !.at = p, !.got = g] \in HandlerRecord BY <1>1, MovesTyped
  <2>2. [handler EXCEPT ![h].at = p, ![h].got = g]
           = [handler EXCEPT ![h] = [handler[h] EXCEPT !.at = p, !.got = g]]
    BY <1>1 DEF HandlerRecord
  <2> QED BY <2>1, <2>2, <1>2
<1>6. handler' = handler => Typed BY <1>1
<1>7. ASSUME NEW h \in Handler, NEW n \in Number, Deliver(h, n) PROVE Typed
  <2>1. [IdleHandler EXCEPT !.at = "status", !.row = n] \in HandlerRecord
    BY ReturnTyped DEF Places
  <2> QED BY <2>1, <1>2, <1>7 DEF Deliver
<1>8. ASSUME NEW h \in Handler, Start(h) PROVE Typed
  <2>1. CASE Branch = "ack" BY <2>1, <1>4, <1>8 DEF Start
  <2>2. CASE Branch # "ack"
    <3>1. Branch \in Places BY DEF Branch, Places
    <3>2. Count \in 0..MaxAttempts BY CountIsLast
    <3>3. action.state \in ActionStates BY TypeParts DEF StoreTyped
    <3> DEFINE s == IF Branch = "resume" THEN action.state ELSE handler[h].seen
               n == IF Branch = "read" THEN Count + 1 ELSE Count
    <3>4. s \in ActionStates /\ n \in Number \cup {0} BY <3>2, <3>3, <1>1 DEF Number
    <3>5. handler' = [handler EXCEPT ![h] =
                         [handler[h] EXCEPT !.at = Branch, !.seen = s, !.n = n]]
      BY <2>2, <1>1, <1>8 DEF Start
    <3> HIDE DEF s, n
    <3>6. [handler[h] EXCEPT !.at = Branch, !.seen = s, !.n = n] \in HandlerRecord
      BY <3>1, <3>4, <1>1, MovesTyped
    <3> QED BY <3>5, <3>6, <1>2
  <2> QED BY <2>1, <2>2
<1>9. ASSUME NEW h \in Handler, Resume(h) PROVE Typed
  <2>1. [handler[h] EXCEPT !.at = "renumber", !.seen = IdleHandler.seen] \in HandlerRecord
    BY <1>1, MovesTyped DEF Places
  <2> QED BY <2>1, <1>2, <1>9 DEF Resume
<1>10. ASSUME NEW h \in Handler, Renumber(h) PROVE Typed
  <2>1. handler[h].n + 1 \in Number BY <1>10 DEF Renumber, NumbersFit, At, Number
  <2>2. [handler[h] EXCEPT !.at = "verify", !.n = handler[h].n + 1] \in HandlerRecord
    BY <2>1, <1>1, MovesTyped DEF Places
  <2>3. \/ handler' = [handler EXCEPT ![h] =
                          [handler[h] EXCEPT !.at = "verify", !.n = handler[h].n + 1]]
        \/ GoTo(h, "verify")
    BY <1>10 DEF Renumber
  <2> QED BY <2>2, <2>3, <1>2, <1>3 DEF Places
<1>11. ASSUME NEW h \in Handler, SaveTerminal(h) \/ Read(h) \/ Verify(h) PROVE Typed
  <2>1. CASE Return(h) BY <2>1, <1>4
  <2>2. CASE ~Return(h)
    <3>1. \E p \in Places, g \in Classes \cup Verdicts :
             handler' = [handler EXCEPT ![h].at = p, ![h].got = g]
      BY <2>2, <1>11 DEF SaveTerminal, Read, Verify, Places, Classes
    <3> QED BY <3>1, <1>5
  <2> QED BY <2>1, <2>2
<1>12. ASSUME NEW h \in Handler, Acknowledge(h) \/ Fault(h) PROVE Typed
  BY <1>2, <1>12, IdleTyped DEF Acknowledge, Fault
<1>13. ASSUME NEW h \in Handler, Escalate(h) \/ SaveAttempt(h) \/ Accept(h) \/ FailAction(h)
                                \/ RecordVerdict(h) \/ Settle(h)
       PROVE Typed
  <2>1. (\E p \in Places : GoTo(h, p)) \/ Return(h) \/ handler' = handler
    BY <1>13 DEF Escalate, SaveAttempt, Accept, FailAction, RecordVerdict, Settle, Places
  <2> QED BY <2>1, <1>3, <1>4, <1>6
<1>14. ASSUME NEW h \in Handler, RecordOutcome(h) \/ Defer(h) \/ Resolve(h) \/ EnqueueRollback(h)
       PROVE Typed
  BY <1>14, <1>4 DEF RecordOutcome, Defer, Resolve, EnqueueRollback
<1>15. ASSUME EnqueueDue \/ (\E h \in Handler : Execute(h)) \/ Provider \/ Contend \/ Tick
              \/ UNCHANGED vars
       PROVE Typed
  BY <1>15, <1>6 DEF EnqueueDue, Execute, Provider, Contend, Tick, vars
<1> QED BY <1>7, <1>8, <1>9, <1>10, <1>11, <1>12, <1>13, <1>14, <1>15 DEF Next, Reconcile

\* Every step keeps the other types: the numbers and answers that are written are
\* those of the handlers' places.
LEMMA StoreStep ==
    ASSUME TypeOK, AttemptBudget, NumbersFit, AnswersFit, [Next]_vars
    PROVE  StoreTyped'
<1> USE ReconciliationAssumption
<1>1. StoreTyped BY TypeParts
<1>2. /\ \A s \in ActionStates :
            Write(s) => action' \in [state : ActionStates, known : BOOLEAN,
                                     by : {"executor", "reconciler"}]
      /\ UNCHANGED action => action' \in [state : ActionStates, known : BOOLEAN,
                                          by : {"executor", "reconciler"}]
  BY <1>1 DEF StoreTyped, Write
<1>3. now \in Nat BY <1>1 DEF StoreTyped
<1>4. /\ {"ACKNOWLEDGED", "FAILED", "RECONCILIATION_REQUIRED", "SUCCESS",
          "ROLLBACK_REQUIRED", "ROLLED_BACK"} \subseteq ActionStates
      /\ {"MITIGATING", "VERIFYING", "RECOVERING", "ESCALATED", "RESOLVED"} \subseteq IncidentStates
  BY DEF ActionStates, IncidentStates
<1>5. ASSUME EnqueueDue PROVE StoreTyped'
  BY <1>1, <1>5 DEF EnqueueDue, StoreTyped, durable, outside
<1>6. ASSUME NEW h \in Handler, NEW n \in Number, Deliver(h, n) PROVE StoreTyped'
  BY <1>1, <1>6 DEF Deliver, StoreTyped, durable, NoteOverlap, OthersIdle, At
<1>7. ASSUME NEW h \in Handler, Acknowledge(h) PROVE StoreTyped'
  BY <1>1, <1>7 DEF Acknowledge, StoreTyped, durable, outside
<1>8. ASSUME NEW h \in Handler, Fault(h) PROVE StoreTyped'
  <2>1. faults' \in 0..MaxFaults BY <1>1, <1>8 DEF Fault, StoreTyped
  <2>2. \/ row' = row
        \/ row' = [row EXCEPT ![handler[h].row] = [state |-> "PENDING", owner |-> None]]
    BY <1>8 DEF Fault
  <2> QED BY <1>1, <1>8, <2>1, <2>2 DEF Fault, StoreTyped, durable
<1>9. ASSUME NEW h \in Handler, Start(h) \/ Read(h) \/ Verify(h) PROVE StoreTyped'
  BY <1>1, <1>9 DEF Start, Read, Verify, StoreTyped, durable, outside
<1>10. ASSUME NEW h \in Handler, SaveTerminal(h) PROVE StoreTyped'
  <2>1. handler[h].n \in -1..MaxAttempts BY <1>10 DEF SaveTerminal, NumbersFit
  <2>2. \/ UNCHANGED terminal
        \/ terminal' = [number |-> handler[h].n, time |-> now]
    BY <1>10 DEF SaveTerminal
  <2>3. terminal' \in [number : -1..MaxAttempts, time : Nat]
    BY <1>1, <1>3, <2>1, <2>2 DEF StoreTyped
  <2> QED BY <1>1, <1>10, <2>3 DEF SaveTerminal, StoreTyped, outside
<1>11. ASSUME NEW h \in Handler, Escalate(h) PROVE StoreTyped'
  <2>1. \/ UNCHANGED incident
        \/ \E s \in {"MITIGATING", "VERIFYING", "ESCALATED"} :
              incident' = [incident EXCEPT !.state = s]
    BY <1>11 DEF Escalate
  <2> QED BY <1>1, <1>4, <1>11, <2>1 DEF Escalate, StoreTyped, outside
<1>12. ASSUME NEW h \in Handler, RecordOutcome(h) PROVE StoreTyped'
  BY <1>1, <1>12 DEF RecordOutcome, StoreTyped, outside
<1>13. ASSUME NEW h \in Handler, Resume(h) \/ Accept(h) \/ FailAction(h) \/ Defer(h) \/ Settle(h)
       PROVE StoreTyped'
  <2>1. (\E s \in ActionStates : Write(s)) \/ UNCHANGED action
    BY <1>4, <1>13 DEF Resume, Accept, FailAction, Defer, Settle
  <2> QED BY <1>1, <1>2, <1>13, <2>1 DEF Resume, Accept, FailAction, Defer, Settle,
          StoreTyped, outside
<1>14. ASSUME NEW h \in Handler, Renumber(h) PROVE StoreTyped'
  <2>1. \/ UNCHANGED attempt
        \/ attempt' = [attempt EXCEPT ![handler[h].n + 1] =
                          [result |-> "PROVIDER_AVAILABLE", time |-> now]]
    BY <1>14 DEF Renumber
  <2>2. [result |-> "PROVIDER_AVAILABLE", time |-> now]
           \in [result : Classes \cup {"NONE"}, time : Nat]
    BY <1>3 DEF Classes
  <2>3. attempt' \in [Number -> [result : Classes \cup {"NONE"}, time : Nat]]
    BY <1>1, <2>1, <2>2 DEF StoreTyped
  <2> QED BY <1>1, <1>14, <2>3 DEF Renumber, StoreTyped, outside
<1>15. ASSUME NEW h \in Handler, SaveAttempt(h) PROVE StoreTyped'
  <2>1. handler[h].got \in Classes BY <1>15 DEF SaveAttempt, AnswersFit
  <2> QED BY <1>1, <1>3, <1>15, <2>1 DEF SaveAttempt, StoreTyped, outside
<1>16. ASSUME NEW h \in Handler, RecordVerdict(h) PROVE StoreTyped'
  <2>1. handler[h].got \in Verdicts BY <1>16 DEF RecordVerdict, AnswersFit, At
  <2> QED BY <1>1, <1>3, <1>16, <2>1 DEF RecordVerdict, StoreTyped, outside
<1>17. ASSUME NEW h \in Handler, Resolve(h) PROVE StoreTyped'
  <2>1. incident' \in {incident, [state |-> "RESOLVED", outcome |-> "VERIFIED_IMPROVED"]}
    BY <1>17 DEF Resolve
  <2> QED BY <1>1, <1>4, <1>17, <2>1 DEF Resolve, StoreTyped, outside
<1>18. ASSUME NEW h \in Handler, EnqueueRollback(h) PROVE StoreTyped'
  BY <1>1, <1>18 DEF EnqueueRollback, StoreTyped, outside
<1>19. ASSUME NEW h \in Handler, Execute(h) PROVE StoreTyped'
  <2>1. \/ action' = action
        \/ \E s \in ActionStates : action' = [action EXCEPT !.state = s, !.by = "executor"]
    BY <1>4, <1>19 DEF Execute, ExecutorReconciles, ExecutorVerifies, ExecutorRollsBack,
       RollbackVerified, RollbackOpen
  <2>2. \/ incident' = incident
        \/ \E s \in {"VERIFYING", "RECOVERING", "ESCALATED"} :
              incident' = [incident EXCEPT !.state = s]
        \/ incident' = [state |-> "RESOLVED", outcome |-> "ROLLED_BACK_SAFELY"]
    BY <1>1, <1>19 DEF Execute, ExecutorReconciles, ExecutorVerifies, ExecutorRollsBack,
       RollbackVerified, RollbackOpen, StoreTyped
  <2>3. rollback' \in {rollback, "SENT"} /\ provider' \in {provider, "absent"}
    BY <1>19 DEF Execute, ExecutorReconciles, ExecutorVerifies, ExecutorRollsBack,
       RollbackVerified, RollbackOpen
  <2>4. overlapped' \in BOOLEAN BY <1>19 DEF Execute, NoteOverlap
  <2>5. action' \in [state : ActionStates, known : BOOLEAN, by : {"executor", "reconciler"}]
    BY <1>1, <2>1 DEF StoreTyped
  <2>6. incident' \in [state : IncidentStates,
                      outcome : {"NONE", "MANUAL_RECONCILIATION_REQUIRED",
                                 "RECOVERY_REQUIRED", "VERIFIED_IMPROVED", "ROLLED_BACK_SAFELY"}]
    BY <1>1, <1>4, <2>2 DEF StoreTyped
  <2> QED BY <1>1, <1>19, <2>3, <2>4, <2>5, <2>6 DEF Execute, StoreTyped, ProviderStates
<1>20. ASSUME Provider \/ Contend \/ Tick PROVE StoreTyped'
  <2>1. CASE Provider
    <3>1. provider' \in ProviderStates BY <2>1 DEF Provider, ProviderStates
    <3> QED BY <1>1, <2>1, <3>1 DEF Provider, StoreTyped, durable
  <2>2. CASE Contend BY <1>1, <2>2 DEF Contend, StoreTyped, durable
  <2>3. CASE Tick
    <3>1. now' \in 0..Deadline BY <1>1, <2>3 DEF Tick, StoreTyped
    <3> QED BY <1>1, <2>3, <3>1 DEF Tick, StoreTyped, durable
  <2> QED BY <1>20, <2>1, <2>2, <2>3
<1>21. ASSUME UNCHANGED vars PROVE StoreTyped'
  BY <1>1, <1>21 DEF vars, durable, outside, StoreTyped
<1> QED BY <1>5, <1>6, <1>7, <1>8, <1>9, <1>10, <1>11, <1>12, <1>13, <1>14, <1>15, <1>16,
        <1>17, <1>18, <1>19, <1>20, <1>21 DEF Next, Reconcile

\* So every step keeps the type invariant.
LEMMA TypeStep ==
    ASSUME TypeOK, AttemptBudget, NumbersFit, AnswersFit, [Next]_vars
    PROVE  TypeOK'
<1>1. StoreTyped' /\ handler' \in [Handler -> HandlerRecord] BY StoreStep, HandlersTyped
<1> QED BY <1>1 DEF TypeOK, StoreTyped, HandlerRecord

(***************************************************************************)
(* How a step moves a handler, and what it writes.                         *)
(***************************************************************************)
\* A handler that is where no branch leads (idle, about to start or through), or
\* where nothing is decided any more.
Free == {"idle", "status", "ack"}
Decided == {"escalate", "outcome", "resolve", "rollback"}

\* A handler comes to a place by the action that leads there.
Came(h) ==
    \/ handler'[h] = handler[h]
    \/ handler'[h].at \in Free \cup Decided
    \/ /\ Start(h) /\ Branch # "ack"
       /\ handler'[h].at = Branch
       /\ handler'[h].n = IF Branch = "read" THEN Count + 1 ELSE Count
    \/ Resume(h) /\ handler'[h].at = "renumber" /\ handler'[h].n = handler[h].n
    \/ /\ Renumber(h) /\ handler'[h].at = "verify"
       /\ handler'[h].n = IF reverify[handler[h].n].result = "INSUFFICIENT"
                          THEN handler[h].n + 1 ELSE handler[h].n
    \/ /\ Read(h) /\ handler'[h].at = "save" /\ handler'[h].n = handler[h].n
       /\ handler'[h].got \in Classes
       /\ handler'[h].got = "PROVIDER_NOT_FOUND" => provider = "absent"
    \/ /\ SaveAttempt(h) /\ handler'[h].at \in {"accept", "fail", "defer"}
       /\ handler'[h].n = handler[h].n
       /\ handler'[h].at = "fail" => handler[h].got = "PROVIDER_NOT_FOUND"
       /\ handler'[h].at = "accept" => handler[h].got = "PROVIDER_AVAILABLE"
    \/ Accept(h) /\ handler'[h].at = "verify" /\ handler'[h].n = handler[h].n
    \/ /\ Verify(h) /\ handler'[h].at = "record" /\ handler'[h].n = handler[h].n
       /\ handler'[h].got \in Verdicts
    \/ /\ RecordVerdict(h) /\ handler'[h].at = "settle" /\ handler'[h].n = handler[h].n
       /\ handler'[h].got = handler[h].got

\* Only the handler that acts moves.
LEMMA OthersStay ==
    ASSUME TypeOK, NEW h \in Handler,
           (\E n \in Number : Deliver(h, n)) \/ Reconcile(h) \/ Fault(h)
    PROVE  \A g \in Handler \ {h} : handler'[g] = handler[g]
<1>1. handler \in [Handler -> HandlerRecord] BY TypeParts
<1>2. handler' = handler \/ \E k : handler' = [handler EXCEPT ![h] = k]
  <2>1. CASE \E n \in Number : Deliver(h, n) BY <2>1 DEF Deliver
  <2>2. CASE Fault(h) BY <2>2 DEF Fault
  <2>3. ASSUME Reconcile(h), NEW p, GoTo(h, p) PROVE \E k : handler' = [handler EXCEPT ![h] = k]
    BY <2>3 DEF GoTo
  <2>4. CASE Return(h) BY <2>4 DEF Return
  <2>5. CASE Start(h) \/ SaveTerminal(h) \/ Resume(h) \/ Renumber(h) \/ Read(h) \/ Verify(h)
    <3>1. CASE \A p : ~GoTo(h, p)
      <4>1. \/ Return(h)
            \/ \E p, q, r : handler' = [handler EXCEPT ![h].at = p, ![h].seen = q, ![h].n = r]
            \/ \E p, q : handler' = [handler EXCEPT ![h].at = p, ![h].got = q]
            \/ \E p, q : handler' = [handler EXCEPT ![h].at = p, ![h].seen = q]
            \/ \E p, q : handler' = [handler EXCEPT ![h].at = p, ![h].n = q]
        BY <2>5, <3>1 DEF Start, SaveTerminal, Resume, Renumber, Read, Verify
      <4> QED BY <1>1, <4>1, <2>4
    <3> QED BY <2>3, <2>5, <3>1 DEF Reconcile
  <2>6. CASE Escalate(h) \/ SaveAttempt(h) \/ Accept(h) \/ FailAction(h) \/ RecordVerdict(h)
             \/ Settle(h)
    <3>1. (\E p : GoTo(h, p)) \/ Return(h) \/ handler' = handler
      BY <2>6 DEF Escalate, SaveAttempt, Accept, FailAction, RecordVerdict, Settle
    <3> QED BY <2>3, <2>4, <2>6, <3>1 DEF Reconcile
  <2>7. CASE RecordOutcome(h) \/ Defer(h) \/ Resolve(h) \/ EnqueueRollback(h)
    BY <2>4, <2>7 DEF RecordOutcome, Defer, Resolve, EnqueueRollback
  <2>8. CASE Acknowledge(h) BY <2>8 DEF Acknowledge
  <2> QED BY <2>1, <2>2, <2>5, <2>6, <2>7, <2>8 DEF Reconcile
<1> QED BY <1>1, <1>2

\* Every step moves a handler in one of these ways.
LEMMA EveryMove ==
    ASSUME TypeOK, [Next]_vars, NEW h \in Handler
    PROVE  Came(h)
<1>1. handler \in [Handler -> HandlerRecord] BY TypeParts
<1>2. ASSUME NEW g \in Handler \ {h},
             (\E n \in Number : Deliver(g, n)) \/ Reconcile(g) \/ Fault(g)
      PROVE  Came(h)
  BY <1>2, OthersStay DEF Came
<1>3. ASSUME Return(h) PROVE Came(h)
  BY <1>1, <1>3 DEF Return, Came, Free, HandlerRecord
<1>4. ASSUME NEW p \in Decided, GoTo(h, p) PROVE Came(h)
  BY <1>1, <1>4 DEF GoTo, Came, HandlerRecord
<1>5. ASSUME NEW n \in Number, Deliver(h, n) PROVE Came(h)
  BY <1>1, <1>5 DEF Deliver, Came, Free
<1>6. ASSUME Acknowledge(h) \/ Fault(h) PROVE Came(h)
  BY <1>1, <1>6 DEF Acknowledge, Fault, Came, Free, IdleHandler
<1>7. ASSUME Start(h) PROVE Came(h)
  <2>1. CASE Branch = "ack" BY <2>1, <1>3, <1>7 DEF Start
  <2>2. CASE Branch # "ack"
    <3> DEFINE s == IF Branch = "resume" THEN action.state ELSE handler[h].seen
               n == IF Branch = "read" THEN Count + 1 ELSE Count
    <3>1. handler' = [handler EXCEPT ![h] =
                         [handler[h] EXCEPT !.at = Branch, !.seen = s, !.n = n]]
      BY <2>2, <1>1, <1>7 DEF Start, HandlerRecord
    <3> HIDE DEF s, n
    <3>2. handler'[h].at = Branch /\ handler'[h].n = n
      BY <3>1, <1>1 DEF HandlerRecord
    <3> QED BY <2>2, <3>2, <1>7 DEF Came, n
  <2> QED BY <2>1, <2>2
<1>8. ASSUME SaveTerminal(h) PROVE Came(h)
  <2>1. CASE Return(h) BY <2>1, <1>3
  <2>2. CASE ~Return(h)
    BY <1>1, <1>8, <2>2 DEF SaveTerminal, Came, Decided, HandlerRecord
  <2> QED BY <2>1, <2>2
<1>9. ASSUME Escalate(h) PROVE Came(h)
  BY <1>1, <1>4, <1>9 DEF Escalate, Came, Decided
<1>10. ASSUME RecordOutcome(h) \/ Defer(h) \/ Resolve(h) \/ EnqueueRollback(h) PROVE Came(h)
  BY <1>3, <1>10 DEF RecordOutcome, Defer, Resolve, EnqueueRollback
<1>11. ASSUME Resume(h) PROVE Came(h)
  BY <1>1, <1>11 DEF Resume, Came, HandlerRecord
<1>12. ASSUME Renumber(h) PROVE Came(h)
  BY <1>1, <1>12 DEF Renumber, GoTo, Came, HandlerRecord
<1>13. ASSUME Read(h) PROVE Came(h)
  BY <1>1, <1>13 DEF Read, Came, HandlerRecord
<1>14. ASSUME SaveAttempt(h) PROVE Came(h)
  <2> DEFINE p == CASE handler[h].got = "PROVIDER_AVAILABLE" -> "accept"
                    [] handler[h].got = "PROVIDER_NOT_FOUND" -> "fail"
                    [] OTHER -> "defer"
  <2>1. /\ p \in {"accept", "fail", "defer"}
        /\ p = "fail" => handler[h].got = "PROVIDER_NOT_FOUND"
        /\ p = "accept" => handler[h].got = "PROVIDER_AVAILABLE"
    OBVIOUS
  <2>2. GoTo(h, p) BY <1>14 DEF SaveAttempt
  <2> HIDE DEF p
  <2>3. handler'[h].at = p /\ handler'[h].n = handler[h].n
    BY <1>1, <2>2 DEF GoTo, HandlerRecord
  <2> QED BY <1>14, <2>1, <2>3 DEF Came
<1>15. ASSUME Accept(h) PROVE Came(h)
  BY <1>1, <1>15 DEF Accept, GoTo, Came, HandlerRecord
<1>16. ASSUME FailAction(h) PROVE Came(h)
  BY <1>4, <1>16 DEF FailAction, Decided
<1>17. ASSUME Verify(h) PROVE Came(h)
  <2>1. PICK v \in Verdicts : handler' = [handler EXCEPT ![h].at = "record", ![h].got = v]
    BY <1>17 DEF Verify
  <2>2. handler'[h].at = "record" /\ handler'[h].n = handler[h].n /\ handler'[h].got = v
    BY <1>1, <2>1 DEF HandlerRecord
  <2> QED BY <1>17, <2>2 DEF Came
<1>18. ASSUME RecordVerdict(h) PROVE Came(h)
  BY <1>1, <1>18 DEF RecordVerdict, GoTo, Came, HandlerRecord
<1>19. ASSUME Settle(h) PROVE Came(h)
  BY <1>3, <1>4, <1>19 DEF Settle, Decided
<1>20. ASSUME EnqueueDue \/ (\E g \in Handler : Execute(g)) \/ Provider \/ Contend \/ Tick
              \/ UNCHANGED vars
       PROVE Came(h)
  BY <1>20 DEF EnqueueDue, Execute, Provider, Contend, Tick, vars, Came
<1>21. ASSUME Reconcile(h) PROVE Came(h)
  BY <1>6, <1>7, <1>8, <1>9, <1>10, <1>11, <1>12, <1>13, <1>14, <1>15, <1>16, <1>17, <1>18,
     <1>19, <1>21 DEF Reconcile
<1> QED BY <1>2, <1>5, <1>6, <1>20, <1>21 DEF Next

\* A branch is taken on what the status says of the numbers and of the action.
LEMMA BranchFits ==
    ASSUME TypeOK, AttemptBudget
    PROVE  /\ Branch \in {"ack", "terminal", "resume", "read"}
           /\ Branch = "terminal" => Count \in 0..MaxAttempts
           /\ Branch = "resume" => Count \in 1..(MaxAttempts - 1) /\ action.state \in Eligible
           /\ Branch = "read" => Count \in 0..(MaxAttempts - 1) /\ action.state \in Eligible
<1> USE ReconciliationAssumption
<1>1. Count \in 0..MaxAttempts BY CountIsLast
<1>2. Branch \in {"ack", "terminal", "resume", "read"} BY DEF Branch
<1>3. Branch = "resume" => WorkStatus = "READY_FOR_REVERIFICATION" BY DEF Branch
<1>4. Branch = "read" => WorkStatus = "DUE" BY DEF Branch
<1>5. WorkStatus = "READY_FOR_REVERIFICATION" =>
         Count > 0 /\ ~(Count >= MaxAttempts) /\ action.state \in Eligible
  BY DEF WorkStatus, LastIsAvailable
<1>6. WorkStatus = "DUE" => ~(Count >= MaxAttempts) /\ action.state \in Eligible
  BY DEF WorkStatus
<1> QED BY <1>1, <1>2, <1>3, <1>4, <1>5, <1>6

\* An attempt is recorded by the handler whose turn it is, under its number.
LEMMA AttemptMoves ==
    ASSUME [Next]_vars
    PROVE  \/ attempt' = attempt
           \/ \E h \in Handler :
                 /\ SaveAttempt(h)
                 /\ attempt' = [attempt EXCEPT ![handler[h].n] =
                                   [result |-> handler[h].got, time |-> now]]
           \/ \E h \in Handler :
                 /\ Renumber(h) /\ reverify[handler[h].n].result = "INSUFFICIENT"
                 /\ attempt' = [attempt EXCEPT ![handler[h].n + 1] =
                                   [result |-> "PROVIDER_AVAILABLE", time |-> now]]
<1>1. ASSUME NEW h \in Handler, Reconcile(h), ~SaveAttempt(h), ~Renumber(h)
      PROVE  attempt' = attempt
  BY <1>1 DEF Reconcile, Acknowledge, Start, SaveTerminal, Escalate, RecordOutcome, Resume,
     Read, Accept, FailAction, Defer, Verify, RecordVerdict, Settle, Resolve, EnqueueRollback,
     durable
<1>2. ASSUME NEW h \in Handler, (\E n \in Number : Deliver(h, n)) \/ Fault(h) \/ Execute(h)
      PROVE  attempt' = attempt
  BY <1>2 DEF Deliver, Fault, Execute, durable
<1>3. ASSUME EnqueueDue \/ Provider \/ Contend \/ Tick \/ UNCHANGED vars
      PROVE  attempt' = attempt
  BY <1>3 DEF EnqueueDue, Provider, Contend, Tick, vars, durable
<1>4. ASSUME NEW h \in Handler, SaveAttempt(h)
      PROVE  attempt' = [attempt EXCEPT ![handler[h].n] = [result |-> handler[h].got, time |-> now]]
  BY <1>4 DEF SaveAttempt
<1>5. ASSUME NEW h \in Handler, Renumber(h), attempt' # attempt
      PROVE  /\ reverify[handler[h].n].result = "INSUFFICIENT"
             /\ attempt' = [attempt EXCEPT ![handler[h].n + 1] =
                               [result |-> "PROVIDER_AVAILABLE", time |-> now]]
  BY <1>5 DEF Renumber
<1> QED BY <1>1, <1>2, <1>3, <1>4, <1>5 DEF Next

\* So is a verification,
LEMMA ReverifyMoves ==
    ASSUME [Next]_vars
    PROVE  \/ reverify' = reverify
           \/ \E h \in Handler :
                 /\ RecordVerdict(h)
                 /\ reverify' = [reverify EXCEPT ![handler[h].n] =
                                    [result |-> handler[h].got, time |-> now]]
<1>1. ASSUME NEW h \in Handler, Reconcile(h), ~RecordVerdict(h)
      PROVE  reverify' = reverify
  BY <1>1 DEF Reconcile, Acknowledge, Start, SaveTerminal, Escalate, RecordOutcome, Resume,
     Renumber, Read, SaveAttempt, Accept, FailAction, Defer, Verify, Settle, Resolve,
     EnqueueRollback, durable
<1>2. ASSUME NEW h \in Handler, (\E n \in Number : Deliver(h, n)) \/ Fault(h) \/ Execute(h)
      PROVE  reverify' = reverify
  BY <1>2 DEF Deliver, Fault, Execute, durable
<1>3. ASSUME EnqueueDue \/ Provider \/ Contend \/ Tick \/ UNCHANGED vars
      PROVE  reverify' = reverify
  BY <1>3 DEF EnqueueDue, Provider, Contend, Tick, vars, durable
<1> QED BY <1>1, <1>2, <1>3 DEF Next, RecordVerdict

\* and the action is written by a handler that decides, or by the executor.
Writes(h) ==
    \/ Resume(h) /\ (UNCHANGED action \/ Write("ACKNOWLEDGED"))
    \/ Accept(h) /\ (UNCHANGED action \/ Write("ACKNOWLEDGED"))
    \/ FailAction(h) /\ Write("FAILED")
    \/ Defer(h) /\ (UNCHANGED action \/ Write("RECONCILIATION_REQUIRED"))
    \/ Settle(h) /\ handler[h].got = "IMPROVED" /\ Write("SUCCESS")
    \/ Settle(h) /\ handler[h].got = "UNCHANGED" /\ Write("ROLLBACK_REQUIRED")
    \/ /\ Settle(h) /\ handler[h].got = "INSUFFICIENT"
       /\ UNCHANGED action \/ Write("RECONCILIATION_REQUIRED")

\* Nothing else writes it.
LEMMA ActionMoves ==
    ASSUME [Next]_vars
    PROVE  action' = action \/ \E h \in Handler : Writes(h) \/ Execute(h)
<1>1. ASSUME NEW h \in Handler, Reconcile(h), action' # action
      PROVE  Writes(h)
  <2>1. Resume(h) \/ Accept(h) \/ FailAction(h) \/ Defer(h) \/ Settle(h)
    BY <1>1 DEF Reconcile, Acknowledge, Start, SaveTerminal, Escalate, RecordOutcome,
       Renumber, Read, SaveAttempt, Verify, RecordVerdict, Resolve, EnqueueRollback, durable
  <2>2. CASE Resume(h) BY <2>2 DEF Resume, Writes
  <2>3. CASE Accept(h) BY <2>3 DEF Accept, Writes
  <2>4. CASE FailAction(h) BY <2>4 DEF FailAction, Writes
  <2>5. CASE Defer(h) BY <2>5 DEF Defer, Writes
  <2>6. CASE Settle(h)
    <3>1. \/ handler[h].got = "IMPROVED" /\ Write("SUCCESS")
          \/ handler[h].got = "UNCHANGED" /\ Write("ROLLBACK_REQUIRED")
          \/ /\ handler[h].got = "INSUFFICIENT"
             /\ UNCHANGED action \/ Write("RECONCILIATION_REQUIRED")
      BY <2>6 DEF Settle
    <3> QED BY <2>6, <3>1 DEF Writes
  <2> QED BY <2>1, <2>2, <2>3, <2>4, <2>5, <2>6
<1>2. ASSUME NEW h \in Handler, (\E n \in Number : Deliver(h, n)) \/ Fault(h)
      PROVE  action' = action
  BY <1>2 DEF Deliver, Fault, durable
<1>3. ASSUME EnqueueDue \/ Provider \/ Contend \/ Tick \/ UNCHANGED vars
      PROVE  action' = action
  BY <1>3 DEF EnqueueDue, Provider, Contend, Tick, vars, durable
<1> QED BY <1>1, <1>2, <1>3 DEF Next

\* What the provider lost stays lost.
LEMMA AbsentStays ==
    ASSUME [Next]_vars, provider = "absent"
    PROVE  provider' = "absent"
<1>1. ASSUME NEW h \in Handler, Reconcile(h) PROVE provider' = provider
  BY <1>1 DEF Reconcile, Acknowledge, Start, SaveTerminal, Escalate, RecordOutcome, Resume,
     Renumber, Read, SaveAttempt, Accept, FailAction, Defer, Verify, RecordVerdict, Settle,
     Resolve, EnqueueRollback, outside
<1>2. ASSUME NEW h \in Handler, Execute(h) PROVE provider' \in {provider, "absent"}
  BY <1>2 DEF Execute, ExecutorReconciles, ExecutorVerifies, ExecutorRollsBack,
     RollbackVerified, RollbackOpen
<1>3. ASSUME NEW h \in Handler, (\E n \in Number : Deliver(h, n)) \/ Fault(h)
      PROVE  provider' = provider
  BY <1>3 DEF Deliver, Fault
<1>4. ASSUME EnqueueDue \/ Contend \/ Tick \/ UNCHANGED vars PROVE provider' = provider
  BY <1>4 DEF EnqueueDue, Contend, Tick, vars, outside
<1>5. ~Provider BY DEF Provider
<1> QED BY <1>1, <1>2, <1>3, <1>4, <1>5 DEF Next

(***************************************************************************)
(* The bound on attempts, and what a failed action means.                  *)
(***************************************************************************)
\* An attempt that is recorded is the next one of its handler, and stays recorded.
LEMMA AttemptStep ==
    ASSUME TypeOK, AttemptBudget, NumbersFit, AnswersFit, [Next]_vars
    PROVE  AttemptBudget' /\ \A k \in Number : Recorded(k) => Recorded(k)'
<1> USE ReconciliationAssumption
<1>1. attempt \in [Number -> [result : Classes \cup {"NONE"}, time : Nat]] BY DEF TypeOK
<1>2. CASE attempt' = attempt BY <1>2 DEF AttemptBudget, Recorded
<1>3. ASSUME NEW n \in 1..MaxAttempts, NEW c \in Classes, \A k \in 1..(n - 1) : Recorded(k),
             attempt' = [attempt EXCEPT ![n] = [result |-> c, time |-> now]]
      PROVE  AttemptBudget' /\ \A k \in Number : Recorded(k) => Recorded(k)'
  <2>1. n \in Number /\ c # "NONE" BY DEF Number, Classes
  <2>2. attempt'[n].result # "NONE" /\ \A k \in Number \ {n} : attempt'[k] = attempt[k]
    BY <1>1, <1>3, <2>1
  <2>3. \A k \in Number : Recorded(k) => Recorded(k)' BY <2>2 DEF Recorded
  <2>4. ASSUME NEW m \in Number, attempt'[m].result # "NONE"
        PROVE  m <= MaxAttempts /\ \A k \in 1..m : attempt'[k].result # "NONE"
    <3>1. CASE m = n BY <1>3, <2>2, <3>1 DEF Recorded, Number
    <3>2. CASE m # n BY <2>2, <2>4, <3>2 DEF AttemptBudget, Number
    <3> QED BY <3>1, <3>2
  <2> QED BY <2>3, <2>4 DEF AttemptBudget
<1>4. ASSUME NEW h \in Handler, SaveAttempt(h),
             attempt' = [attempt EXCEPT ![handler[h].n] =
                            [result |-> handler[h].got, time |-> now]]
      PROVE  AttemptBudget' /\ \A k \in Number : Recorded(k) => Recorded(k)'
  <2>1. /\ handler[h].n \in 1..MaxAttempts /\ handler[h].got \in Classes
        /\ \A k \in 1..(handler[h].n - 1) : Recorded(k)
    BY <1>4 DEF SaveAttempt, NumbersFit, AnswersFit, At
  <2> QED BY <1>3, <1>4, <2>1
<1>5. ASSUME NEW h \in Handler, Renumber(h),
             attempt' = [attempt EXCEPT ![handler[h].n + 1] =
                            [result |-> "PROVIDER_AVAILABLE", time |-> now]]
      PROVE  AttemptBudget' /\ \A k \in Number : Recorded(k) => Recorded(k)'
  <2>1. /\ handler[h].n \in 1..(MaxAttempts - 1)
        /\ \A k \in 1..handler[h].n : Recorded(k)
    BY <1>5 DEF Renumber, NumbersFit, At
  <2>2. handler[h].n + 1 \in 1..MaxAttempts /\ (handler[h].n + 1) - 1 = handler[h].n
    BY <2>1
  <2>3. "PROVIDER_AVAILABLE" \in Classes BY DEF Classes
  <2> DEFINE m == handler[h].n + 1
  <2>4. /\ m \in 1..MaxAttempts /\ \A k \in 1..(m - 1) : Recorded(k)
        /\ attempt' = [attempt EXCEPT ![m] = [result |-> "PROVIDER_AVAILABLE", time |-> now]]
    <3>1. m \in 1..MaxAttempts /\ m - 1 = handler[h].n BY <2>2
    <3> QED BY <1>5, <2>1, <3>1
  <2> HIDE DEF m
  <2> QED BY <1>3, <2>3, <2>4
<1> QED BY <1>2, <1>4, <1>5, AttemptMoves

\* The handlers' numbers fit their places after every step.
LEMMA NumbersStep ==
    ASSUME TypeOK, AttemptBudget, NumbersFit, AnswersFit, [Next]_vars
    PROVE  NumbersFit'
<1> USE ReconciliationAssumption
<1>1. \A k \in Number : Recorded(k) => Recorded(k)' BY AttemptStep
<1> SUFFICES ASSUME NEW h \in Handler
             PROVE  /\ At(h, "terminal")' => handler'[h].n \in 0..MaxAttempts
                    /\ handler'[h].at \in {"read", "save"} =>
                          /\ handler'[h].n \in 1..MaxAttempts
                          /\ \A k \in 1..(handler'[h].n - 1) : Recorded(k)'
                    /\ handler'[h].at \in {"resume", "renumber"} =>
                          /\ handler'[h].n \in 1..(MaxAttempts - 1)
                          /\ \A k \in 1..handler'[h].n : Recorded(k)'
  BY DEF NumbersFit
<1>2. Came(h) BY EveryMove
<1>3. CASE handler'[h] = handler[h]
  BY <1>1, <1>3 DEF NumbersFit, At, Number
<1>4. CASE Start(h) /\ Branch # "ack" /\ handler'[h].at = Branch
           /\ handler'[h].n = IF Branch = "read" THEN Count + 1 ELSE Count
  <2>1. Count \in 0..MaxAttempts /\ \A k \in 1..Count : Recorded(k)
    BY CountIsLast DEF IsLast, Number
  <2>2. \A k \in 1..Count : Recorded(k)' BY <1>1, <2>1 DEF Number
  <2> QED BY <1>4, <2>1, <2>2, BranchFits DEF At
<1>5. CASE Read(h) /\ handler'[h].at = "save" /\ handler'[h].n = handler[h].n
  <2>1. At(h, "read") BY <1>5 DEF Read
  <2>2. /\ handler[h].n \in 1..MaxAttempts
        /\ \A k \in 1..(handler[h].n - 1) : Recorded(k)
    BY <2>1 DEF NumbersFit, At
  <2>3. \A k \in 1..(handler[h].n - 1) : Recorded(k)'
    BY <1>1, <2>2 DEF Number
  <2> QED BY <1>5, <2>2, <2>3 DEF At
<1>6. CASE Resume(h) /\ handler'[h].at = "renumber" /\ handler'[h].n = handler[h].n
  <2>1. At(h, "resume") BY <1>6 DEF Resume
  <2>2. /\ handler[h].n \in 1..(MaxAttempts - 1)
        /\ \A k \in 1..handler[h].n : Recorded(k)
    BY <2>1 DEF NumbersFit, At
  <2>3. \A k \in 1..handler[h].n : Recorded(k)'
    BY <1>1, <2>2 DEF Number
  <2> QED BY <1>6, <2>2, <2>3 DEF At
<1>7. CASE handler'[h].at \notin {"terminal", "read", "save", "resume", "renumber"}
  BY <1>7 DEF At
<1> QED BY <1>2, <1>3, <1>4, <1>5, <1>6, <1>7 DEF Came, Free, Decided

\* The answers fit them, for what the provider lost stays lost.
LEMMA AnswersStep ==
    ASSUME TypeOK, AnswersFit, [Next]_vars
    PROVE  AnswersFit'
<1>1. provider = "absent" => provider' = "absent" BY AbsentStays
<1> SUFFICES ASSUME NEW h \in Handler
             PROVE  /\ At(h, "save")' =>
                          /\ handler'[h].got \in Classes
                          /\ handler'[h].got = "PROVIDER_NOT_FOUND" => provider' = "absent"
                    /\ At(h, "fail")' => provider' = "absent"
                    /\ handler'[h].at \in {"record", "settle"} => handler'[h].got \in Verdicts
  BY DEF AnswersFit
<1>2. Came(h) BY EveryMove
<1>3. CASE handler'[h] = handler[h] BY <1>1, <1>3 DEF AnswersFit, At
<1>4. CASE Read(h) /\ handler'[h].at = "save" /\ handler'[h].got \in Classes
           /\ (handler'[h].got = "PROVIDER_NOT_FOUND" => provider = "absent")
  BY <1>1, <1>4 DEF At
<1>5. CASE SaveAttempt(h) /\ handler'[h].at \in {"accept", "fail", "defer"}
           /\ (handler'[h].at = "fail" => handler[h].got = "PROVIDER_NOT_FOUND")
  BY <1>1, <1>5 DEF SaveAttempt, AnswersFit, At
<1>6. CASE Verify(h) /\ handler'[h].at = "record" /\ handler'[h].got \in Verdicts
  BY <1>6 DEF At
<1>7. CASE RecordVerdict(h) /\ handler'[h].at = "settle" /\ handler'[h].got = handler[h].got
  BY <1>7 DEF RecordVerdict, AnswersFit, At
<1>8. CASE handler'[h].at \notin {"save", "fail", "record", "settle"}
  BY <1>8 DEF At
<1>9. Branch \in {"ack", "terminal", "resume", "read"} BY DEF Branch
<1> QED BY <1>2, <1>3, <1>4, <1>5, <1>6, <1>7, <1>8, <1>9 DEF Came, Free, Decided

\* An action fails only on an answer, or an executor's read, that is still true.
LEMMA FailedStep ==
    ASSUME TypeOK, AnswersFit, FailedMeansGone, [Next]_vars
    PROVE  FailedMeansGone'
<1>1. provider = "absent" => provider' = "absent" BY AbsentStays
<1>2. CASE action' = action BY <1>1, <1>2 DEF FailedMeansGone
<1>3. ASSUME NEW h \in Handler, Writes(h) PROVE FailedMeansGone'
  <2>1. CASE FailAction(h)
    BY <1>1, <2>1 DEF FailAction, AnswersFit, FailedMeansGone
  <2>2. CASE ~FailAction(h)
    <3>1. \/ UNCHANGED action
          \/ \E s : Write(s) /\ s # "FAILED"
      BY <1>3, <2>2 DEF Writes
    <3>2. ASSUME NEW s, Write(s), s # "FAILED" PROVE action'.state # "FAILED"
      <4>1. action \in [state : ActionStates, known : BOOLEAN, by : {"executor", "reconciler"}]
        BY DEF TypeOK
      <4> QED BY <3>2, <4>1 DEF Write
    <3> QED BY <1>2, <3>1, <3>2 DEF FailedMeansGone
  <2> QED BY <2>1, <2>2
<1>4. ASSUME NEW h \in Handler, Execute(h) PROVE FailedMeansGone'
  <2>1. action \in [state : ActionStates, known : BOOLEAN, by : {"executor", "reconciler"}]
    BY DEF TypeOK
  <2>2. CASE ExecutorReconciles
    <3>1. PICK s \in {"ACKNOWLEDGED", "FAILED", "RECONCILIATION_REQUIRED"} :
             /\ s = "FAILED" => provider = "absent"
             /\ action' = [action EXCEPT !.state = s, !.by = "executor"]
      BY <2>2 DEF ExecutorReconciles
    <3> QED BY <1>1, <2>1, <3>1 DEF FailedMeansGone
  <2>3. CASE ExecutorVerifies \/ ExecutorRollsBack
    <3>1. \/ action' = action
          \/ \E s \in {"SUCCESS", "ROLLBACK_REQUIRED", "RECONCILIATION_REQUIRED",
                      "ROLLED_BACK"} :
                action' = [action EXCEPT !.state = s, !.by = "executor"]
      BY <2>3 DEF ExecutorVerifies, ExecutorRollsBack, RollbackVerified, RollbackOpen
    <3> QED BY <1>2, <2>1, <3>1 DEF FailedMeansGone
  <2> QED BY <1>4, <2>2, <2>3 DEF Execute
<1> QED BY <1>2, <1>3, <1>4, ActionMoves

(***************************************************************************)
(* Without overlap.                                                        *)
(***************************************************************************)
\* A handler that does something for its row is not idle.
LEMMA BusyHandler ==
    ASSUME NEW h \in Handler, Reconcile(h) \/ Fault(h)
    PROVE  ~At(h, "idle")
BY DEF Reconcile, Acknowledge, Start, SaveTerminal, Escalate, RecordOutcome, Resume,
   Renumber, Read, SaveAttempt, Accept, FailAction, Defer, Verify, RecordVerdict, Settle,
   Resolve, EnqueueRollback, Fault, At

\* An overlap is remembered, and a handler or the executor that starts notes it.
LEMMA OverlapNoted ==
    ASSUME [Next]_vars, ~overlapped'
    PROVE  /\ ~overlapped
           /\ \A h \in Handler :
                 Execute(h) \/ (\E n \in Number : Deliver(h, n)) =>
                    At(h, "idle") /\ OthersIdle(h)
<1>1. ASSUME NEW h \in Handler, Execute(h) PROVE ~overlapped /\ At(h, "idle") /\ OthersIdle(h)
  BY <1>1 DEF Execute, NoteOverlap
<1>2. ASSUME NEW h \in Handler, NEW n \in Number, Deliver(h, n)
      PROVE  ~overlapped /\ At(h, "idle") /\ OthersIdle(h)
  BY <1>2 DEF Deliver, NoteOverlap
<1>3. ASSUME NEW h \in Handler, Reconcile(h) PROVE overlapped' = overlapped
  BY <1>3 DEF Reconcile, Acknowledge, Start, SaveTerminal, Escalate, RecordOutcome, Resume,
     Renumber, Read, SaveAttempt, Accept, FailAction, Defer, Verify, RecordVerdict, Settle,
     Resolve, EnqueueRollback, outside
<1>4. ASSUME NEW h \in Handler, Fault(h) PROVE overlapped' = overlapped
  BY <1>4 DEF Fault
<1>5. ASSUME EnqueueDue \/ Provider \/ Contend \/ Tick \/ UNCHANGED vars
      PROVE  overlapped' = overlapped
  BY <1>5 DEF EnqueueDue, Provider, Contend, Tick, vars, outside
<1>6. ~overlapped BY <1>1, <1>2, <1>3, <1>4, <1>5 DEF Next
<1> QED BY <1>1, <1>2, <1>6

\* While nothing overlaps, no second handler starts.
LEMMA AloneStep ==
    ASSUME TypeOK, Alone, [Next]_vars
    PROVE  Alone'
<1> SUFFICES ASSUME ~overlapped', NEW g \in Handler, NEW h \in Handler,
                    handler'[g].at # "idle", handler'[h].at # "idle"
             PROVE  g = h
  BY DEF Alone, At
<1>1. ~overlapped BY OverlapNoted
<1>2. CASE \A f \in Handler : handler'[f] = handler[f]
  BY <1>1, <1>2 DEF Alone, At
<1>3. ASSUME NEW f \in Handler, NEW n \in Number, Deliver(f, n) PROVE g = h
  <2>1. \A e \in Handler \ {f} : handler[e].at = "idle"
    BY <1>3, OverlapNoted DEF OthersIdle, At
  <2>2. \A e \in Handler \ {f} : handler'[e].at = "idle"
    BY <1>3, <2>1, OthersStay
  <2> QED BY <2>2
<1>4. ASSUME NEW f \in Handler, Reconcile(f) \/ Fault(f) PROVE g = h
  <2>1. \A e \in Handler : handler'[e].at # "idle" => handler[e].at # "idle"
    BY <1>4, OthersStay, BusyHandler DEF At
  <2> QED BY <1>1, <2>1 DEF Alone, At
<1>5. CASE EnqueueDue \/ (\E f \in Handler : Execute(f)) \/ Provider \/ Contend \/ Tick
           \/ UNCHANGED vars
  <2>1. handler' = handler BY <1>5 DEF EnqueueDue, Execute, Provider, Contend, Tick, vars
  <2> QED BY <1>2, <2>1
<1> QED BY <1>3, <1>4, <1>5 DEF Next

\* While a handler works nobody else writes the records it decides on.
LEMMA OwnMoves ==
    ASSUME TypeOK, Alone, [Next]_vars, ~overlapped', NEW h \in Handler, ~At(h, "idle")
    PROVE  \A g \in Handler :
              ~Execute(g) /\ (Writes(g) \/ SaveAttempt(g) \/ Renumber(g) \/ RecordVerdict(g)
                                 => g = h)
<1>1. ~overlapped BY OverlapNoted
<1> SUFFICES ASSUME NEW g \in Handler
             PROVE  ~Execute(g) /\ (Reconcile(g) => g = h)
  BY DEF Writes, Reconcile
<1>2. ~Execute(g) BY OverlapNoted DEF OthersIdle
<1>3. Reconcile(g) => g = h BY <1>1, BusyHandler DEF Alone
<1> QED BY <1>2, <1>3

\* What a handler writes keeps the action open, or is the last it decides.
LEMMA WritesClose ==
    ASSUME TypeOK, NEW h \in Handler, Writes(h)
    PROVE  \/ Resume(h) \/ Accept(h)
           \/ handler'[h].at \notin Deciding
<1>1. handler \in [Handler -> HandlerRecord] BY TypeParts
<1>2. ASSUME NEW p \in {"escalate", "resolve", "rollback"}, GoTo(h, p)
      PROVE  handler'[h].at \notin Deciding
  BY <1>1, <1>2 DEF GoTo, Deciding, HandlerRecord
<1>3. ASSUME Return(h) PROVE handler'[h].at \notin Deciding
  BY <1>1, <1>3 DEF Return, Deciding, IdleHandler
<1>4. CASE FailAction(h) BY <1>2, <1>4 DEF FailAction
<1>5. CASE Defer(h) BY <1>3, <1>5 DEF Defer
<1>6. CASE Settle(h) BY <1>2, <1>3, <1>6 DEF Settle
<1> QED BY <1>4, <1>5, <1>6 DEF Writes

\* While a handler decides, the action stays open.
LEMMA StillOpenStep ==
    ASSUME TypeOK, AttemptBudget, Alone, StillOpen, [Next]_vars
    PROVE  StillOpen'
<1> SUFFICES ASSUME ~overlapped', NEW h \in Handler, handler'[h].at \in Deciding
             PROVE  action'.state \in Eligible
  BY DEF StillOpen
<1>1. ~overlapped BY OverlapNoted
<1>2. Came(h) BY EveryMove
<1>3. \/ handler[h].at \in Deciding
      \/ Start(h) /\ Branch # "ack" /\ handler'[h].at = Branch
  BY <1>2 DEF Came, Free, Decided, Deciding, Resume, Renumber, Read, SaveAttempt, Accept,
     Verify, RecordVerdict, At
<1>4. action.state \in Eligible
  <2>1. CASE handler[h].at \in Deciding BY <1>1, <2>1 DEF StillOpen
  <2>2. CASE Start(h) /\ Branch # "ack" /\ handler'[h].at = Branch
    BY <2>2, BranchFits DEF Deciding
  <2> QED BY <1>3, <2>1, <2>2
<1>5. ~At(h, "idle")
  BY <1>3 DEF Start, At, Deciding
<1>6. action' = action \/ Writes(h) BY <1>5, OwnMoves, ActionMoves
<1>7. CASE action' = action BY <1>4, <1>7
<1>8. CASE action' # action /\ Writes(h)
  <2>1. Resume(h) \/ Accept(h) BY <1>8, WritesClose
  <2>2. Write("ACKNOWLEDGED") BY <1>8, <2>1 DEF Resume, Accept
  <2>3. action \in [state : ActionStates, known : BOOLEAN, by : {"executor", "reconciler"}]
    BY DEF TypeOK
  <2> QED BY <2>2, <2>3 DEF Write, Eligible
<1> QED BY <1>6, <1>7, <1>8

\* A settled action is not written while nothing overlaps: only what is open is.
LEMMA SettledStep ==
    ASSUME TypeOK, Alone, StillOpen, [Next]_vars, ~overlapped',
           action.state \in TerminalActionStates
    PROVE  action' = action
<1>1. ~overlapped BY OverlapNoted
<1>2. ASSUME NEW h \in Handler, Writes(h) PROVE FALSE
  <2>1. handler[h].at \in Deciding
    BY <1>2 DEF Writes, Resume, Accept, FailAction, Defer, Settle, At, Deciding
  <2>2. action.state \in Eligible BY <1>1, <2>1 DEF StillOpen
  <2> QED BY <2>2 DEF Eligible, TerminalActionStates
<1>3. ASSUME NEW h \in Handler, Execute(h) PROVE FALSE
  BY <1>3 DEF Execute, ExecutorReconciles, ExecutorVerifies, ExecutorRollsBack,
     RollbackVerified, RollbackOpen, InDoubt, TerminalActionStates
<1> QED BY <1>2, <1>3, ActionMoves

\* What records an attempt or a verification moves on.
LEMMA RecordsMove ==
    ASSUME TypeOK, NEW h \in Handler
    PROVE  /\ SaveAttempt(h) => handler'[h].at \in {"accept", "fail", "defer"}
           /\ Renumber(h) => handler'[h].at = "verify"
           /\ RecordVerdict(h) => handler'[h].at = "settle"
<1>1. handler \in [Handler -> HandlerRecord] BY TypeParts
<1>2. ASSUME SaveAttempt(h) PROVE handler'[h].at \in {"accept", "fail", "defer"}
  <2>1. \E p \in {"accept", "fail", "defer"} : GoTo(h, p) BY <1>2 DEF SaveAttempt
  <2> QED BY <1>1, <2>1 DEF GoTo, HandlerRecord
<1>3. ASSUME Renumber(h) PROVE handler'[h].at = "verify"
  BY <1>1, <1>3 DEF Renumber, GoTo, HandlerRecord
<1>4. ASSUME RecordVerdict(h) PROVE handler'[h].at = "settle"
  BY <1>1, <1>4 DEF RecordVerdict, GoTo, HandlerRecord
<1> QED BY <1>2, <1>3, <1>4

LastNow(n) == \A k \in Number : attempt'[k].result # "NONE" <=> k <= n

\* The attempt that is recorded next is the last one then.
LEMMA NextIsLast ==
    ASSUME TypeOK, NEW n \in 1..MaxAttempts, IsLast(n - 1), NEW c \in Classes,
           attempt' = [attempt EXCEPT ![n] = [result |-> c, time |-> now]]
    PROVE  LastNow(n)
<1> USE ReconciliationAssumption
<1>1. attempt \in [Number -> [result : Classes \cup {"NONE"}, time : Nat]] /\ n \in Number
  BY DEF TypeOK, Number
<1>2. attempt'[n].result # "NONE" /\ \A k \in Number \ {n} : attempt'[k] = attempt[k]
  BY <1>1 DEF Classes
<1>3. \A k \in Number \ {n} : k <= n - 1 <=> k <= n BY DEF Number
<1> QED BY <1>1, <1>2, <1>3 DEF LastNow, IsLast, Recorded, Number

\* The numbers stay current: while a handler works nobody else records anything.
LEMMA CurrentStep ==
    ASSUME TypeOK, AttemptBudget, NumbersFit, AnswersFit, Alone, NumbersCurrent, [Next]_vars
    PROVE  NumbersCurrent'
<1> USE ReconciliationAssumption
<1> DEFINE Next1 == {"read", "save"}
           Last1 == {"resume", "renumber", "accept", "verify", "record", "settle"}
<1> SUFFICES ASSUME ~overlapped', NEW h \in Handler
             PROVE  /\ handler'[h].at \in Next1 => LastNow(handler'[h].n - 1)
                    /\ handler'[h].at \in Last1 => handler'[h].n # 0 /\ LastNow(handler'[h].n)
                    /\ handler'[h].at = "settle" =>
                          reverify'[handler'[h].n].result = handler'[h].got
  BY DEF NumbersCurrent, IsLast, LastNow, Recorded, At
<1>1. ~overlapped BY OverlapNoted
<1>2. handler[h].n \in Number \cup {0} BY TypeParts DEF HandlerRecord
<1>3. /\ handler[h].at \in Next1 => IsLast(handler[h].n - 1)
      /\ handler[h].at \in Last1 => handler[h].n # 0 /\ IsLast(handler[h].n)
      /\ handler[h].at = "settle" => reverify[handler[h].n].result = handler[h].got
  BY <1>1 DEF NumbersCurrent, At
<1>4. attempt' = attempt => \A n : IsLast(n) => LastNow(n)
  BY DEF IsLast, LastNow, Recorded
<1>5. Came(h) BY EveryMove
<1>6. CASE handler'[h] = handler[h] /\ handler[h].at \in Next1 \cup Last1
  <2>1. ~At(h, "idle") BY <1>6 DEF At
  <2>2. ~SaveAttempt(h) /\ ~Renumber(h) /\ ~RecordVerdict(h)
    BY <1>6, RecordsMove DEF SaveAttempt, Renumber, RecordVerdict, At
  <2>3. attempt' = attempt /\ reverify' = reverify
    BY <2>1, <2>2, AttemptMoves, ReverifyMoves, OwnMoves
  <2> QED BY <1>3, <1>4, <1>6, <2>3
<1>7. CASE Start(h) /\ Branch # "ack" /\ handler'[h].at = Branch
           /\ handler'[h].n = IF Branch = "read" THEN Count + 1 ELSE Count
  <2>1. Count \in 0..MaxAttempts /\ IsLast(Count) BY CountIsLast
  <2>2. attempt' = attempt BY <1>7 DEF Start, durable
  <2>3. LastNow(Count) BY <1>4, <2>1, <2>2
  <2>4. (Count + 1) - 1 = Count BY <2>1
  <2> QED BY <1>7, <2>1, <2>3, <2>4, BranchFits
<1>8. CASE Resume(h) /\ handler'[h].at = "renumber" /\ handler'[h].n = handler[h].n
  <2>1. handler[h].at = "resume" /\ attempt' = attempt BY <1>8 DEF Resume, At
  <2> QED BY <1>3, <1>4, <1>8, <2>1
<1>9. CASE Read(h) /\ handler'[h].at = "save" /\ handler'[h].n = handler[h].n
  <2>1. handler[h].at = "read" /\ attempt' = attempt BY <1>9 DEF Read, At, durable
  <2> QED BY <1>3, <1>4, <1>9, <2>1
<1>10. CASE Renumber(h) /\ handler'[h].at = "verify"
            /\ handler'[h].n = IF reverify[handler[h].n].result = "INSUFFICIENT"
                               THEN handler[h].n + 1 ELSE handler[h].n
  <2> DEFINE n == handler[h].n
  <2>1. /\ handler[h].at = "renumber" /\ n # 0 /\ IsLast(n)
        /\ n \in 1..(MaxAttempts - 1)
    BY <1>3, <1>10 DEF Renumber, NumbersFit, At
  <2>2. CASE reverify[n].result = "INSUFFICIENT"
    <3> DEFINE m == n + 1
    <3>1. attempt' = [attempt EXCEPT ![m] = [result |-> "PROVIDER_AVAILABLE", time |-> now]]
      BY <1>10, <2>2 DEF Renumber
    <3>2. m \in 1..MaxAttempts /\ m - 1 = n BY <2>1
    <3>3. "PROVIDER_AVAILABLE" \in Classes BY DEF Classes
    <3>4. handler'[h].n = m BY <1>10, <2>2
    <3> HIDE DEF m
    <3>5. LastNow(m) BY <2>1, <3>1, <3>2, <3>3, NextIsLast
    <3> QED BY <1>10, <3>2, <3>4, <3>5
  <2>3. CASE reverify[n].result # "INSUFFICIENT"
    <3>1. attempt' = attempt BY <1>10, <2>3 DEF Renumber
    <3> QED BY <1>4, <1>10, <2>1, <2>3, <3>1
  <2> QED BY <2>2, <2>3
<1>11. CASE SaveAttempt(h) /\ handler'[h].at \in {"accept", "fail", "defer"}
            /\ handler'[h].n = handler[h].n
  <2> DEFINE n == handler[h].n
             got == handler[h].got
  <2>1. /\ handler[h].at = "save" /\ IsLast(n - 1)
        /\ n \in 1..MaxAttempts /\ got \in Classes
    BY <1>3, <1>11 DEF SaveAttempt, NumbersFit, AnswersFit, At
  <2>2. attempt' = [attempt EXCEPT ![n] = [result |-> got, time |-> now]]
    BY <1>11 DEF SaveAttempt
  <2> HIDE DEF n, got
  <2>3. LastNow(n) BY <2>1, <2>2, NextIsLast
  <2> QED BY <1>11, <2>1, <2>3 DEF n
<1>12. CASE Accept(h) /\ handler'[h].at = "verify" /\ handler'[h].n = handler[h].n
  <2>1. handler[h].at = "accept" /\ attempt' = attempt BY <1>12 DEF Accept, At
  <2> QED BY <1>3, <1>4, <1>12, <2>1
<1>13. CASE Verify(h) /\ handler'[h].at = "record" /\ handler'[h].n = handler[h].n
  <2>1. handler[h].at = "verify" /\ attempt' = attempt BY <1>13 DEF Verify, At, durable
  <2> QED BY <1>3, <1>4, <1>13, <2>1
<1>14. CASE RecordVerdict(h) /\ handler'[h].at = "settle" /\ handler'[h].n = handler[h].n
            /\ handler'[h].got = handler[h].got
  <2>1. /\ handler[h].at = "record" /\ attempt' = attempt
        /\ reverify' = [reverify EXCEPT ![handler[h].n] =
                           [result |-> handler[h].got, time |-> now]]
    BY <1>14 DEF RecordVerdict, At
  <2>2. handler[h].n \in Number BY <1>2, <1>3, <2>1
  <2>3. reverify \in [Number -> [result : Verdicts \cup {"NONE"}, time : Nat]] BY DEF TypeOK
  <2>4. reverify'[handler[h].n].result = handler[h].got BY <2>1, <2>2, <2>3
  <2> QED BY <1>3, <1>4, <1>14, <2>1, <2>4
<1>15. CASE handler'[h].at \notin Next1 \cup Last1
  BY <1>15
<1> QED BY <1>5, <1>6, <1>7, <1>8, <1>9, <1>10, <1>11, <1>12, <1>13, <1>14, <1>15
        DEF Came, Free, Decided

\* The evidence stays, for it is recorded under the last number before the action is
\* settled, and nothing is recorded after.
LEMMA EvidenceStep ==
    ASSUME TypeOK, Alone, StillOpen, NumbersCurrent, Evidence, [Next]_vars
    PROVE  Evidence'
<1> DEFINE Shown(s, v) ==
              action'.state = s =>
                 \E n \in Number : LastNow(n) /\ reverify'[n].result = v
<1> SUFFICES ASSUME ~overlapped', action'.by = "reconciler"
             PROVE  Shown("SUCCESS", "IMPROVED") /\ Shown("ROLLBACK_REQUIRED", "UNCHANGED")
  BY DEF Evidence, IsLast, LastNow, Recorded
<1>1. ~overlapped BY OverlapNoted
<1>2. action \in [state : ActionStates, known : BOOLEAN, by : {"executor", "reconciler"}]
  BY DEF TypeOK
<1>3. CASE action' = action /\ action.state \in {"SUCCESS", "ROLLBACK_REQUIRED"}
  <2>1. \A h \in Handler : handler[h].at \notin Deciding
    BY <1>1, <1>3 DEF StillOpen, Eligible
  <2>2. attempt' = attempt
    BY <2>1, AttemptMoves DEF SaveAttempt, Renumber, At, Deciding
  <2>3. reverify' = reverify
    BY <2>1, ReverifyMoves DEF RecordVerdict, At, Deciding
  <2> QED BY <1>1, <1>3, <2>2, <2>3 DEF Evidence, IsLast, LastNow, Recorded
<1>4. CASE action'.state \notin {"SUCCESS", "ROLLBACK_REQUIRED"}
  BY <1>4
<1>5. ASSUME NEW h \in Handler, Writes(h), action' # action,
             action'.state \in {"SUCCESS", "ROLLBACK_REQUIRED"}
      PROVE  Shown("SUCCESS", "IMPROVED") /\ Shown("ROLLBACK_REQUIRED", "UNCHANGED")
  <2>1. \A s : Write(s) => action'.state = s BY <1>2 DEF Write
  <2>2. /\ Settle(h)
        /\ \/ handler[h].got = "IMPROVED" /\ action'.state = "SUCCESS"
           \/ handler[h].got = "UNCHANGED" /\ action'.state = "ROLLBACK_REQUIRED"
    BY <1>5, <2>1 DEF Writes
  <2>3. /\ IsLast(handler[h].n) /\ handler[h].n \in Number
        /\ reverify[handler[h].n].result = handler[h].got
    BY <1>1, <2>2, TypeParts DEF NumbersCurrent, Settle, At, HandlerRecord
  <2>4. attempt' = attempt /\ reverify' = reverify BY <2>2 DEF Settle
  <2>5. LastNow(handler[h].n) BY <2>3, <2>4 DEF LastNow, IsLast, Recorded
  <2> QED BY <2>2, <2>3, <2>4, <2>5
<1>6. ASSUME NEW h \in Handler, Execute(h), action' # action PROVE FALSE
  <2>1. \E s : action' = [action EXCEPT !.state = s, !.by = "executor"]
    BY <1>6 DEF Execute, ExecutorReconciles, ExecutorVerifies, ExecutorRollsBack,
       RollbackVerified, RollbackOpen
  <2> QED BY <1>2, <2>1
<1> QED BY <1>3, <1>4, <1>5, <1>6, ActionMoves

(***************************************************************************)
(* The backoff between attempts.                                           *)
(***************************************************************************)
\* The times and the backoff are numbers.
LEMMA TimeTypes ==
    ASSUME TypeOK
    PROVE  /\ now \in Nat
           /\ \A n \in Number : /\ attempt[n].time \in Nat /\ reverify[n].time \in Nat
                                /\ Backoff(n) \in Int
<1>1. \A n \in Number : attempt[n].time \in Nat /\ reverify[n].time \in Nat
  BY DEF TypeOK
<1>2. now \in Nat BY DEF TypeOK
<1>3. ASSUME NEW n \in Number PROVE Backoff(n) \in Int
  <2>1. n \in Nat \ {0} /\ n - 1 \in Nat BY ReconciliationAssumption DEF Number
  <2>2. 2 ^ (n - 1) \in Int BY <2>1
  <2>3. BaseBackoff * 2 ^ (n - 1) \in Int /\ MaxBackoff \in Int
    BY <2>2, ReconciliationAssumption
  <2> QED BY <2>1, <2>3 DEF Backoff
<1> QED BY <1>1, <1>2, <1>3

\* The clock only advances, and never in a step that records something.
LEMMA ClockAdvances ==
    ASSUME TypeOK, [Next]_vars
    PROVE  /\ now' \in Nat /\ now' >= now
           /\ attempt' # attempt \/ reverify' # reverify => now' = now
<1>1. ASSUME NEW h \in Handler, Reconcile(h) PROVE now' = now
  BY <1>1 DEF Reconcile, Acknowledge, Start, SaveTerminal, Escalate, RecordOutcome, Resume,
     Renumber, Read, SaveAttempt, Accept, FailAction, Defer, Verify, RecordVerdict, Settle,
     Resolve, EnqueueRollback, outside
<1>2. ASSUME NEW h \in Handler, (\E n \in Number : Deliver(h, n)) \/ Fault(h) \/ Execute(h)
      PROVE  now' = now
  BY <1>2 DEF Deliver, Fault, Execute
<1>3. ASSUME EnqueueDue \/ Provider \/ Contend \/ UNCHANGED vars PROVE now' = now
  BY <1>3 DEF EnqueueDue, Provider, Contend, vars, outside
<1>4. ASSUME Tick PROVE now' = now + 1 /\ attempt' = attempt /\ reverify' = reverify
  BY <1>4 DEF Tick, durable
<1>5. now \in Nat BY TimeTypes
<1> QED BY <1>1, <1>2, <1>3, <1>4, <1>5 DEF Next

\* What a step records without overlap: the next attempt, after the wait, or the
\* verification of the last attempt, which found the resource available.
RecordsAttempt(n, c) ==
    /\ n \in 1..MaxAttempts /\ c \in Classes /\ IsLast(n - 1)
    /\ n > 1 => Waited(n - 1)
    /\ attempt' = [attempt EXCEPT ![n] = [result |-> c, time |-> now]]
    /\ reverify' = reverify
RecordsVerdict(n, v) ==
    /\ n \in 1..MaxAttempts /\ v \in Verdicts /\ IsLast(n)
    /\ attempt[n].result = "PROVIDER_AVAILABLE"
    /\ reverify' = [reverify EXCEPT ![n] = [result |-> v, time |-> now]]
    /\ attempt' = attempt

\* Nothing else is recorded.
LEMMA RecordMoves ==
    ASSUME TypeOK, AttemptBudget, NumbersFit, AnswersFit, NumbersCurrent, WaitsFit,
           [Next]_vars, ~overlapped'
    PROVE  \/ attempt' = attempt /\ reverify' = reverify
           \/ \E n, c : RecordsAttempt(n, c)
           \/ \E n, v : RecordsVerdict(n, v)
<1> USE ReconciliationAssumption
<1>1. ~overlapped BY OverlapNoted
<1>2. ASSUME NEW h \in Handler, SaveAttempt(h)
      PROVE  RecordsAttempt(handler[h].n, handler[h].got)
  <2>1. handler[h].at = "save" BY <1>2 DEF SaveAttempt, At
  <2>2. handler[h].n \in 1..MaxAttempts BY <2>1 DEF NumbersFit
  <2>3. handler[h].got \in Classes BY <2>1 DEF AnswersFit, At
  <2>4. IsLast(handler[h].n - 1) BY <1>1, <2>1 DEF NumbersCurrent
  <2>5. handler[h].n > 1 => Waited(handler[h].n - 1) BY <1>1, <2>1 DEF WaitsFit
  <2>6. /\ attempt' = [attempt EXCEPT ![handler[h].n] =
                          [result |-> handler[h].got, time |-> now]]
        /\ reverify' = reverify
    BY <1>2 DEF SaveAttempt
  <2> QED BY <2>2, <2>3, <2>4, <2>5, <2>6 DEF RecordsAttempt
<1>3. ASSUME NEW h \in Handler, Renumber(h), reverify[handler[h].n].result = "INSUFFICIENT"
      PROVE  \E n, c : RecordsAttempt(n, c)
  <2> DEFINE n == handler[h].n
             m == n + 1
  <2>1. handler[h].at = "renumber" BY <1>3 DEF Renumber, At
  <2>2. n \in 1..(MaxAttempts - 1) BY <2>1 DEF NumbersFit
  <2>3. IsLast(n) BY <1>1, <2>1 DEF NumbersCurrent
  <2>4. Waited(n) BY <1>1, <1>3, <2>1 DEF WaitsFit
  <2>5. /\ attempt' = [attempt EXCEPT ![m] = [result |-> "PROVIDER_AVAILABLE", time |-> now]]
        /\ reverify' = reverify
    BY <1>3 DEF Renumber
  <2>6. m \in 1..MaxAttempts /\ m - 1 = n BY <2>2
  <2>7. "PROVIDER_AVAILABLE" \in Classes BY DEF Classes
  <2> HIDE DEF n, m
  <2> QED BY <2>3, <2>4, <2>5, <2>6, <2>7 DEF RecordsAttempt
<1>4. ASSUME NEW h \in Handler, RecordVerdict(h)
      PROVE  RecordsVerdict(handler[h].n, handler[h].got)
  <2>1. handler[h].at = "record" BY <1>4 DEF RecordVerdict, At
  <2>2. /\ handler[h].n # 0 /\ IsLast(handler[h].n)
        /\ attempt[handler[h].n].result = "PROVIDER_AVAILABLE"
    BY <1>1, <2>1 DEF NumbersCurrent, WaitsFit
  <2>3. handler[h].n \in Number BY <2>2, TypeParts DEF HandlerRecord
  <2>4. handler[h].n \in 1..MaxAttempts
    <3>1. Recorded(handler[h].n) BY <2>2, <2>3 DEF Recorded
    <3> QED BY <2>3, <3>1 DEF AttemptBudget, Recorded, Number
  <2>5. handler[h].got \in Verdicts BY <2>1 DEF AnswersFit
  <2>6. /\ reverify' = [reverify EXCEPT ![handler[h].n] =
                           [result |-> handler[h].got, time |-> now]]
        /\ attempt' = attempt
    BY <1>4 DEF RecordVerdict
  <2> QED BY <2>2, <2>4, <2>5, <2>6 DEF RecordsVerdict
<1> QED BY <1>2, <1>3, <1>4, AttemptMoves, ReverifyMoves

\* The times of one number, before and after a step that records nothing under it.
LEMMA Unrecorded ==
    ASSUME NEW n \in Number, NEW k \in 0..MaxAttempts, IsLast(k), n > k, TimesFit, ~overlapped
    PROVE  attempt[n].result = "NONE" /\ reverify[n].result = "NONE"
<1>1. attempt[n].result = "NONE"
  BY ReconciliationAssumption DEF IsLast, Recorded, Number
<1> QED BY <1>1 DEF TimesFit

\* Every step keeps the order of the times,
LEMMA TimesStep ==
    ASSUME TypeOK, AttemptBudget, NumbersFit, AnswersFit, NumbersCurrent, WaitsFit, TimesFit,
           [Next]_vars
    PROVE  TimesFit'
<1> USE ReconciliationAssumption
<1> SUFFICES ASSUME ~overlapped', NEW n \in Number
             PROVE  /\ attempt'[n].time <= now' /\ reverify'[n].time <= now'
                    /\ reverify'[n].result # "NONE" =>
                          /\ attempt'[n].result = "PROVIDER_AVAILABLE"
                          /\ attempt'[n].time <= reverify'[n].time
  BY DEF TimesFit
<1>1. ~overlapped BY OverlapNoted
<1>2. /\ now \in Nat /\ now' \in Nat /\ now' >= now
      /\ attempt[n].time \in Nat /\ reverify[n].time \in Nat
  BY TimeTypes, ClockAdvances
<1>3. /\ attempt[n].time <= now /\ reverify[n].time <= now
      /\ reverify[n].result # "NONE" =>
            /\ attempt[n].result = "PROVIDER_AVAILABLE"
            /\ attempt[n].time <= reverify[n].time
  BY <1>1 DEF TimesFit
<1>4. /\ attempt \in [Number -> [result : Classes \cup {"NONE"}, time : Nat]]
      /\ reverify \in [Number -> [result : Verdicts \cup {"NONE"}, time : Nat]]
  BY DEF TypeOK
<1>5. CASE attempt'[n] = attempt[n] /\ reverify'[n] = reverify[n]
  BY <1>2, <1>3, <1>5
<1>6. ASSUME NEW m, NEW c, RecordsAttempt(m, c)
      PROVE  \/ attempt'[n] = attempt[n] /\ reverify'[n] = reverify[n]
             \/ attempt'[n].time = now /\ reverify'[n] = reverify[n]
                   /\ reverify[n].result = "NONE"
  <2>1. CASE m = n
    <3>1. attempt'[n].time = now /\ reverify'[n] = reverify[n]
      BY <1>4, <1>6, <2>1 DEF RecordsAttempt
    <3>2. n - 1 \in 0..MaxAttempts /\ IsLast(n - 1) /\ n > n - 1
      BY <1>6, <2>1 DEF RecordsAttempt
    <3>3. reverify[n].result = "NONE" BY <1>1, <3>2, Unrecorded
    <3> QED BY <3>1, <3>3
  <2>2. CASE m # n BY <1>4, <1>6, <2>2 DEF RecordsAttempt
  <2> QED BY <2>1, <2>2
<1>7. ASSUME NEW m, NEW v, RecordsVerdict(m, v)
      PROVE  \/ attempt'[n] = attempt[n] /\ reverify'[n] = reverify[n]
             \/ /\ attempt'[n] = attempt[n] /\ reverify'[n].time = now
                /\ attempt[n].result = "PROVIDER_AVAILABLE"
  BY <1>4, <1>7 DEF RecordsVerdict
<1>8. now' = now \/ (attempt' = attempt /\ reverify' = reverify)
  BY ClockAdvances
<1> QED BY <1>2, <1>3, <1>5, <1>6, <1>7, <1>8, RecordMoves

\* and the backoff between the attempts that are recorded.
LEMMA BackoffStep ==
    ASSUME TypeOK, AttemptBudget, NumbersFit, AnswersFit, NumbersCurrent, WaitsFit, TimesFit,
           BackoffKept, [Next]_vars
    PROVE  BackoffKept'
<1> USE ReconciliationAssumption
<1> SUFFICES ASSUME ~overlapped', NEW n \in 1..(MaxAttempts - 1),
                    attempt'[n + 1].result # "NONE"
             PROVE  /\ attempt'[n + 1].time >= attempt'[n].time + Backoff(n)
                    /\ reverify'[n].result = "INSUFFICIENT" =>
                          attempt'[n + 1].time >= reverify'[n].time + Backoff(n)
  BY DEF BackoffKept
<1>1. ~overlapped BY OverlapNoted
<1>2. n \in Number /\ n + 1 \in Number /\ n \in Nat /\ n + 1 # n BY DEF Number
<1>3. /\ attempt \in [Number -> [result : Classes \cup {"NONE"}, time : Nat]]
      /\ reverify \in [Number -> [result : Verdicts \cup {"NONE"}, time : Nat]]
  BY DEF TypeOK
<1>4. CASE attempt'[n + 1] = attempt[n + 1] /\ attempt'[n] = attempt[n]
           /\ reverify'[n] = reverify[n]
  BY <1>1, <1>4 DEF BackoffKept
<1>5. ASSUME NEW m, NEW c, RecordsAttempt(m, c), m = n + 1
      PROVE  /\ attempt'[n + 1].time = now /\ attempt'[n] = attempt[n]
             /\ reverify'[n] = reverify[n] /\ Waited(n)
  <2>1. attempt'[n + 1].time = now /\ attempt'[n] = attempt[n] /\ reverify'[n] = reverify[n]
    BY <1>2, <1>3, <1>5 DEF RecordsAttempt
  <2>2. m > 1 /\ m - 1 = n BY <1>2, <1>5
  <2>3. Waited(n) BY <1>5, <2>2 DEF RecordsAttempt
  <2> QED BY <2>1, <2>3
<1>6. ASSUME NEW m, NEW c, RecordsAttempt(m, c), m # n + 1
      PROVE  attempt'[n + 1] = attempt[n + 1] /\ attempt'[n] = attempt[n]
             /\ reverify'[n] = reverify[n]
  <2>1. m # n
    <3> SUFFICES ASSUME m = n PROVE FALSE OBVIOUS
    <3>1. n - 1 \in 0..MaxAttempts /\ IsLast(n - 1) /\ n + 1 > n - 1
      BY <1>2, <1>6 DEF RecordsAttempt
    <3>2. attempt[n + 1].result = "NONE" BY <1>1, <1>2, <3>1, Unrecorded
    <3>3. attempt'[n + 1] = attempt[n + 1] BY <1>2, <1>3, <1>6 DEF RecordsAttempt
    <3> QED BY <3>2, <3>3
  <2> QED BY <1>2, <1>3, <1>6, <2>1 DEF RecordsAttempt
<1>7. ASSUME NEW m, NEW v, RecordsVerdict(m, v)
      PROVE  attempt'[n + 1] = attempt[n + 1] /\ attempt'[n] = attempt[n]
             /\ reverify'[n] = reverify[n]
  <2>1. m # n
    <3> SUFFICES ASSUME m = n PROVE FALSE OBVIOUS
    <3>1. n \in 0..MaxAttempts /\ IsLast(n) /\ n + 1 > n
      BY <1>2, <1>7 DEF RecordsVerdict
    <3>2. attempt[n + 1].result = "NONE" BY <1>1, <1>2, <3>1, Unrecorded
    <3>3. attempt' = attempt BY <1>7 DEF RecordsVerdict
    <3> QED BY <3>2, <3>3
  <2> QED BY <1>2, <1>3, <1>7, <2>1 DEF RecordsVerdict
<1>8. ASSUME NEW m, NEW c, RecordsAttempt(m, c), m = n + 1
      PROVE  /\ attempt'[n + 1].time >= attempt'[n].time + Backoff(n)
             /\ reverify'[n].result = "INSUFFICIENT" =>
                   attempt'[n + 1].time >= reverify'[n].time + Backoff(n)
  BY <1>5, <1>8 DEF Waited
<1> QED BY <1>4, <1>6, <1>7, <1>8, RecordMoves

\* A wait that is over stays over while the records it is counted from stay.
WaitedNow(n) ==
    /\ now' >= attempt'[n].time + Backoff(n)
    /\ reverify'[n].result = "INSUFFICIENT" => now' >= reverify'[n].time + Backoff(n)

\* The wait is not undone by the clock.
LEMMA WaitedStays ==
    ASSUME TypeOK, [Next]_vars, NEW n \in Number, Waited(n),
           attempt' = attempt, reverify' = reverify
    PROVE  WaitedNow(n)
<1>1. /\ now \in Nat /\ now' \in Nat /\ now' >= now
      /\ attempt[n].time \in Nat /\ reverify[n].time \in Nat /\ Backoff(n) \in Int
  BY TimeTypes, ClockAdvances
<1> DEFINE s == attempt[n].time + Backoff(n)
           t == reverify[n].time + Backoff(n)
<1>2. s \in Int /\ t \in Int BY <1>1
<1>3. now >= s /\ (reverify[n].result = "INSUFFICIENT" => now >= t) BY DEF Waited
<1> HIDE DEF s, t
<1>4. now' >= s /\ (reverify[n].result = "INSUFFICIENT" => now' >= t) BY <1>1, <1>2, <1>3
<1> QED BY <1>4 DEF WaitedNow, s, t

\* A handler starts to read, or to verify again, when the wait is over.
LEMMA StartWaited ==
    ASSUME TypeOK, AttemptBudget, TimesFit, ~overlapped
    PROVE  /\ Branch = "read" /\ Count > 0 => Waited(Count)
           /\ Branch = "resume" => attempt[Count].result = "PROVIDER_AVAILABLE"
           /\ Branch = "resume" /\ reverify[Count].result = "INSUFFICIENT" => Waited(Count)
<1> USE ReconciliationAssumption
<1>1. Count \in 0..MaxAttempts BY CountIsLast
<1>2. CASE Branch = "read" /\ Count > 0
  <2>1. WorkStatus = "DUE" BY <1>2 DEF Branch
  <2>2. ~(now < NextAt) /\ ~LastIsAvailable BY <2>1 DEF WorkStatus
  <2>3. NextAt = attempt[Count].time + Backoff(Count) BY <1>1, <1>2, <2>2 DEF NextAt
  <2>4. Count \in Number BY <1>1, <1>2 DEF Number
  <2>5. reverify[Count].result = "NONE"
    BY <1>2, <2>2, <2>4 DEF TimesFit, LastIsAvailable
  <2>6. /\ now \in Nat /\ attempt[Count].time \in Nat /\ Backoff(Count) \in Int
    BY <2>4, TimeTypes
  <2>7. now >= attempt[Count].time + Backoff(Count) BY <2>2, <2>3, <2>6
  <2> QED BY <1>2, <2>5, <2>7 DEF Waited
<1>3. CASE Branch = "resume"
  <2>1. WorkStatus = "READY_FOR_REVERIFICATION" BY <1>3 DEF Branch
  <2>2. ~(now < NextAt) /\ LastIsAvailable BY <2>1 DEF WorkStatus
  <2>3. Count \in Number /\ Count # 0 BY <1>1, <2>2 DEF Number, LastIsAvailable
  <2>4. CASE reverify[Count].result = "INSUFFICIENT"
    <3>1. NextAt = reverify[Count].time + Backoff(Count) BY <2>2, <2>3, <2>4 DEF NextAt
    <3>2. /\ now \in Nat /\ Backoff(Count) \in Int
          /\ attempt[Count].time \in Nat /\ reverify[Count].time \in Nat
      BY <2>3, TimeTypes
    <3>3. attempt[Count].time <= reverify[Count].time BY <2>3, <2>4 DEF TimesFit
    <3>4. now >= reverify[Count].time + Backoff(Count) BY <2>2, <3>1, <3>2
    <3>5. now >= attempt[Count].time + Backoff(Count) BY <3>2, <3>3, <3>4
    <3> QED BY <1>3, <2>2, <3>4, <3>5 DEF Waited, LastIsAvailable
  <2> QED BY <1>3, <2>2, <2>4 DEF LastIsAvailable
<1> QED BY <1>2, <1>3

\* A handler that has waited goes on having waited until it records.
LEMMA WaitsStep ==
    ASSUME TypeOK, AttemptBudget, NumbersFit, AnswersFit, Alone, NumbersCurrent, TimesFit,
           WaitsFit, [Next]_vars
    PROVE  WaitsFit'
<1> USE ReconciliationAssumption
<1> DEFINE Fit(at, n) ==
              /\ at \in {"read", "save"} /\ n > 1 => WaitedNow(n - 1)
              /\ at \in {"resume", "renumber"} /\ reverify'[n].result = "INSUFFICIENT" =>
                    WaitedNow(n)
              /\ at \in {"resume", "renumber", "accept", "verify", "record"} =>
                    attempt'[n].result = "PROVIDER_AVAILABLE"
           Waiting == {"read", "save", "resume", "renumber", "accept", "verify", "record"}
<1> SUFFICES ASSUME ~overlapped', NEW h \in Handler
             PROVE  Fit(handler'[h].at, handler'[h].n)
  BY DEF WaitsFit, Waited, WaitedNow
<1>1. ~overlapped BY OverlapNoted
<1> DEFINE n == handler[h].n
<1>2. /\ handler[h].at \in {"read", "save"} /\ n > 1 => Waited(n - 1)
      /\ handler[h].at \in {"resume", "renumber"} /\ reverify[n].result = "INSUFFICIENT" =>
            Waited(n)
      /\ handler[h].at \in {"resume", "renumber", "accept", "verify", "record"} =>
            attempt[n].result = "PROVIDER_AVAILABLE"
  BY <1>1 DEF WaitsFit
<1>3. Came(h) BY EveryMove
<1>4. \A k \in Number : Waited(k) /\ attempt' = attempt /\ reverify' = reverify => WaitedNow(k)
  BY WaitedStays
<1>5. /\ handler[h].at \in {"read", "save"} /\ n > 1 => n - 1 \in Number
      /\ handler[h].at \in {"resume", "renumber"} => n \in Number
  BY DEF NumbersFit, Number
<1>6. CASE handler'[h] = handler[h] /\ handler[h].at \in Waiting
  <2>1. ~At(h, "idle") BY <1>6 DEF At
  <2>2. ~SaveAttempt(h) /\ ~Renumber(h) /\ ~RecordVerdict(h)
    BY <1>6, RecordsMove DEF SaveAttempt, Renumber, RecordVerdict, At
  <2>3. attempt' = attempt /\ reverify' = reverify
    BY <2>1, <2>2, AttemptMoves, ReverifyMoves, OwnMoves
  <2> QED BY <1>2, <1>4, <1>5, <1>6, <2>3
<1>7. CASE Start(h) /\ Branch # "ack" /\ handler'[h].at = Branch
           /\ handler'[h].n = IF Branch = "read" THEN Count + 1 ELSE Count
  <2>1. attempt' = attempt /\ reverify' = reverify BY <1>7 DEF Start, durable
  <2>2. Count \in 0..MaxAttempts /\ (Count + 1) - 1 = Count BY CountIsLast
  <2>3. Count > 0 => Count \in Number BY <2>2 DEF Number
  <2>4. CASE Branch = "read"
    <3>1. Count > 0 => WaitedNow(Count) BY <1>1, <1>4, <2>1, <2>3, <2>4, StartWaited
    <3> QED BY <1>7, <2>2, <2>4, <3>1
  <2>5. CASE Branch = "resume"
    <3>1. Count > 0 BY <2>5, BranchFits
    <3>2. reverify'[Count].result = "INSUFFICIENT" => WaitedNow(Count)
      BY <1>1, <1>4, <2>1, <2>3, <2>5, <3>1, StartWaited
    <3>3. attempt'[Count].result = "PROVIDER_AVAILABLE" BY <1>1, <2>1, <2>5, StartWaited
    <3> QED BY <1>7, <2>5, <3>2, <3>3
  <2> QED BY <1>7, <2>4, <2>5, BranchFits
<1>8. CASE Resume(h) /\ handler'[h].at = "renumber" /\ handler'[h].n = n
  <2>1. handler[h].at = "resume" /\ attempt' = attempt /\ reverify' = reverify
    BY <1>8 DEF Resume, At
  <2> QED BY <1>2, <1>4, <1>5, <1>8, <2>1
<1>9. CASE Read(h) /\ handler'[h].at = "save" /\ handler'[h].n = n
  <2>1. handler[h].at = "read" /\ attempt' = attempt /\ reverify' = reverify
    BY <1>9 DEF Read, At, durable
  <2> QED BY <1>2, <1>4, <1>5, <1>9, <2>1
<1>10. attempt \in [Number -> [result : Classes \cup {"NONE"}, time : Nat]] BY DEF TypeOK
<1>11. CASE Renumber(h) /\ handler'[h].at = "verify"
            /\ handler'[h].n = IF reverify[n].result = "INSUFFICIENT" THEN n + 1 ELSE n
  <2>1. handler[h].at = "renumber" /\ n \in 1..(MaxAttempts - 1)
    BY <1>11 DEF Renumber, NumbersFit, At
  <2>2. CASE reverify[n].result = "INSUFFICIENT"
    <3>1. attempt' = [attempt EXCEPT ![n + 1] =
                         [result |-> "PROVIDER_AVAILABLE", time |-> now]]
      BY <1>11, <2>2 DEF Renumber
    <3>2. n + 1 \in Number BY <2>1 DEF Number
    <3>3. attempt'[n + 1].result = "PROVIDER_AVAILABLE" BY <1>10, <3>1, <3>2
    <3> QED BY <1>11, <2>2, <3>3
  <2>3. CASE reverify[n].result # "INSUFFICIENT"
    <3>1. attempt' = attempt BY <1>11, <2>3 DEF Renumber
    <3> QED BY <1>2, <1>11, <2>1, <2>3, <3>1
  <2> QED BY <2>2, <2>3
<1>12. CASE SaveAttempt(h) /\ handler'[h].at \in {"accept", "fail", "defer"}
            /\ handler'[h].n = n
            /\ (handler'[h].at = "accept" => handler[h].got = "PROVIDER_AVAILABLE")
  <2>1. n \in Number BY <1>12 DEF SaveAttempt, NumbersFit, At, Number
  <2>2. attempt' = [attempt EXCEPT ![n] = [result |-> handler[h].got, time |-> now]]
    BY <1>12 DEF SaveAttempt
  <2>3. attempt'[n].result = handler[h].got BY <1>10, <2>1, <2>2
  <2> QED BY <1>12, <2>3
<1>13. CASE /\ \/ Accept(h) /\ handler'[h].at = "verify"
               \/ Verify(h) /\ handler'[h].at = "record"
            /\ handler'[h].n = n
  <2>1. handler[h].at \in {"accept", "verify"} /\ attempt' = attempt
    BY <1>13 DEF Accept, Verify, At, durable
  <2> QED BY <1>2, <1>13, <2>1
<1>14. CASE handler'[h].at \notin Waiting
  BY <1>14
<1> QED BY <1>3, <1>6, <1>7, <1>8, <1>9, <1>11, <1>12, <1>13, <1>14
        DEF Came, Free, Decided

(***************************************************************************)
(* The theorems.                                                           *)
(***************************************************************************)
\* The invariant holds initially,
LEMMA InitHolds == Init => IInv
<1> SUFFICES ASSUME Init PROVE IInv OBVIOUS
<1> USE ReconciliationAssumption
<1>1. /\ handler = [h \in Handler |-> IdleHandler]
      /\ \A h \in Handler : handler[h].at = "idle" /\ handler[h].n = 0
  BY DEF Init, IdleHandler
<1>2. TypeOK
  <2>1. handler \in [Handler -> HandlerRecord] BY <1>1, IdleTyped
  <2>2. Eligible \subseteq ActionStates BY DEF Eligible, ActionStates
  <2>3. {"MITIGATING", "VERIFYING"} \subseteq IncidentStates BY DEF IncidentStates
  <2>4. action \in [state : ActionStates, known : BOOLEAN, by : {"executor", "reconciler"}]
    BY <2>2 DEF Init
  <2>5. incident \in [state : IncidentStates,
                     outcome : {"NONE", "MANUAL_RECONCILIATION_REQUIRED",
                                "RECOVERY_REQUIRED", "VERIFIED_IMPROVED", "ROLLED_BACK_SAFELY"}]
    BY <2>3 DEF Init
  <2>6. /\ attempt \in [Number -> [result : Classes \cup {"NONE"}, time : Nat]]
        /\ reverify \in [Number -> [result : Verdicts \cup {"NONE"}, time : Nat]]
        /\ terminal \in [number : -1..MaxAttempts, time : Nat]
    BY DEF Init, NotYet
  <2>7. row \in [Number -> [state : {"ABSENT", "PENDING", "CLAIMED", "SENT"},
                           owner : Handler \cup {None}]]
    BY DEF Init
  <2>8. /\ rollback = "ABSENT" /\ foreign = FALSE /\ overlapped = FALSE
        /\ provider \in ProviderStates /\ now \in 0..Deadline /\ faults \in 0..MaxFaults
    BY DEF Init, ProviderStates
  <2>9. StoreTyped BY <2>4, <2>5, <2>6, <2>7, <2>8 DEF StoreTyped
  <2> QED BY <2>1, <2>9, TypeParts
<1>3. AttemptBudget BY DEF Init, AttemptBudget, NotYet
<1>4. action.by = "executor" /\ action.state \in Eligible BY DEF Init
<1>5. FailedMeansGone BY <1>4 DEF FailedMeansGone, Eligible
<1>6. NumbersFit /\ AnswersFit BY <1>1 DEF NumbersFit, AnswersFit, At
<1>7. Alone /\ StillOpen /\ NumbersCurrent
  BY <1>1 DEF Alone, StillOpen, NumbersCurrent, At, Deciding
<1>8. Evidence BY <1>4 DEF Evidence
<1>9. WaitsFit BY <1>1 DEF WaitsFit
<1>10. TimesFit BY DEF Init, TimesFit, NotYet
<1>11. BackoffKept BY DEF Init, BackoffKept, NotYet, Number
<1> QED BY <1>2, <1>3, <1>5, <1>6, <1>7, <1>8, <1>9, <1>10, <1>11 DEF IInv

\* is kept by every step,
LEMMA StepHolds == IInv /\ [Next]_vars => IInv'
BY TypeStep, AttemptStep, NumbersStep, AnswersStep, FailedStep, AloneStep, StillOpenStep,
   CurrentStep, EvidenceStep, TimesStep, WaitsStep, BackoffStep DEF IInv

\* and so always holds.
LEMMA AlwaysHolds == Spec => []IInv
BY InitHolds, StepHolds, PTL DEF Spec

\* Every reachable state is well typed: no wake-up, attempt or verification has a
\* number out of range.
THEOREM TypeCorrect == Spec => []TypeOK
<1>1. IInv => TypeOK BY DEF IInv
<1> QED BY AlwaysHolds, <1>1, PTL

\* However many consumers overlap and however often a row is redelivered, attempts
\* are numbered without gaps and stay within max_attempts.
THEOREM AttemptsAreBounded == Spec => []AttemptBudget
<1>1. IInv => AttemptBudget BY DEF IInv
<1> QED BY AlwaysHolds, <1>1, PTL

\* An action is FAILED only when the provider's resource is gone.
THEOREM DoubtNeverFails == Spec => []FailedMeansGone
<1>1. IInv => FailedMeansGone BY DEF IInv
<1> QED BY AlwaysHolds, <1>1, PTL

\* Without overlap a settled action is never written again.
THEOREM SettledIsFinal == Spec => SettledStays
<1>1. IInv /\ [Next]_vars =>
         [~overlapped' /\ action.state \in TerminalActionStates => action' = action]_vars
  BY SettledStep DEF IInv
<1> QED BY AlwaysHolds, <1>1, PTL DEF Spec, SettledStays

\* Without overlap what the reconciler settled rests on the verification that was
\* recorded under the last attempt.
THEOREM SettlementsAreProven == Spec => []SettledOnEvidence
<1>1. IInv => SettledOnEvidence
  <2> SUFFICES ASSUME IInv, ~overlapped, action.by = "reconciler"
               PROVE  /\ action.state = "SUCCESS" => reverify[Count].result = "IMPROVED"
                      /\ action.state = "ROLLBACK_REQUIRED" =>
                            reverify[Count].result = "UNCHANGED"
    BY DEF SettledOnEvidence
  <2>1. IsLast(Count) /\ Count \in 0..MaxAttempts BY CountIsLast DEF IInv
  <2>2. ASSUME NEW n \in Number, IsLast(n) PROVE n = Count
    <3>1. n \in 0..MaxAttempts + 1 /\ Count \in 0..MaxAttempts + 1
      BY <2>1, ReconciliationAssumption DEF Number
    <3> QED BY <2>1, <2>2, <3>1, LastIsUnique
  <2> QED BY <2>2 DEF IInv, Evidence
<1> QED BY AlwaysHolds, <1>1, PTL

\* Without overlap two recorded attempts are at least the backoff apart, counted from
\* the verification where the earlier one had one.
THEOREM BackoffIsKept == Spec => []BackoffKept
<1>1. IInv => BackoffKept BY DEF IInv
<1> QED BY AlwaysHolds, <1>1, PTL
=============================================================================
