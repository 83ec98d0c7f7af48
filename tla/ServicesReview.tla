--------------------------- MODULE ServicesReview ---------------------------
(***************************************************************************)
(* Proofs about the reasoning service, for every deployment of it: any     *)
(* number of processes, rows, candidate actions, plan versions and faults. *)
(*                                                                         *)
(*   ReviewTypes     every reachable state is well typed;                  *)
(*   IncidentFacts   what the fields of the incident say of its state: an  *)
(*                   incident that has a decision has left review, and an  *)
(*                   approved one was allowed;                             *)
(*   HandlerFacts    what a process may conclude from its place in the     *)
(*                   code, whatever the others have done meanwhile.  The   *)
(*                   one that matters: a process that has an answer for a  *)
(*                   plan version beyond the first has seen a decided      *)
(*                   incident, so it can never take the incident to        *)
(*                   APPROVED, nor announce actions;                       *)
(*   RowFacts        hence what was acknowledged and announced.            *)
(***************************************************************************)
EXTENDS ServicesProofs

(***************************************************************************)
(* The invariant.                                                          *)
(***************************************************************************)
\* The local state of a process.
LocalOf(d) ==
    [at : Reason(d)!Places, row : 0..RowsOf[d], version : Nat,
     state : Reason(d)!IncidentStates, plan : 0..PlansOf[d],
     verdict : Reason(d)!Verdict \cup {Reason(d)!NoVerdict}]

\* Decided, or over: what an acknowledgement needs.
Decided(d) == incident.decision # "NONE" \/ incident.state \in Reason(d)!ClosedIncidentStates

\* A state that the way to APPROVED cannot be taken up from.
Beyond(d, state) == state \notin Reason(d)!UnderReview /\ state # "APPROVED"

IncidentFacts(d) ==
    /\ incident.plan = 0 <=> incident.decision = "NONE"
    /\ incident.decision # "NONE" => incident.state \notin Reason(d)!UnderReview
    /\ incident.decision # "NONE" /\ incident.state = "APPROVED" => incident.decision = "ALLOW"

Asking == {"check", "create", "join", "advance", "fields", "announce"}
Answered == Asking \ {"check"}
Made == Answered \ {"create"}

HandlerFacts(d, h) ==
    LET local == handler[h]
        verdict == handler[h].verdict
    IN  /\ local.at \in Asking => local.plan \in 1..PlansOf[d]
        /\ local.at \in Answered =>
              /\ verdict \in Reason(d)!Verdict
              /\ verdict.decision = "ALLOW" <=> verdict.picks # {}
        /\ local.at \in Asking /\ local.plan # 1 => incident.plan # 0
        /\ local.at \in Answered /\ local.plan # 1 => Beyond(d, incident.state)
        /\ local.at = "advance" => local.plan = 1
        /\ local.at \in {"fields", "announce"} /\ verdict.decision = "ALLOW" => local.plan = 1
        /\ local.at \in Made => \A c \in verdict.picks : action[<<c, local.plan>>] # "ABSENT"
        /\ local.at = "fields" =>
              /\ local.version <= incident.version
              /\ local.version = incident.version =>
                    incident.state = Reason(d)!Target[verdict.decision]
        /\ local.at = "announce" => incident.plan # 0
        /\ local.at = "ack" => Decided(d)

RowFacts(d) ==
    /\ Reason(d)!AckedIsDecided
    /\ \A p \in 1..PlansOf[d] : announced[p].picks # {} =>
          /\ p = 1 /\ incident.plan # 0
          /\ \A c \in announced[p].picks : action[<<c, p>>] # "ABSENT"

ReviewInvariant(d) ==
    /\ Reason(d)!TypeOK
    /\ IncidentFacts(d)
    /\ \A h \in HandlersOf[d] : HandlerFacts(d, h)
    /\ RowFacts(d)

(***************************************************************************)
(* Constants, states and the building blocks.                              *)
(***************************************************************************)
LEMMA Sizes ==
    ASSUME NEW d \in Deployment
    PROVE  /\ RowsOf[d] \in Nat /\ RowsOf[d] >= 1
           /\ PlansOf[d] \in Nat /\ PlansOf[d] >= 1
           /\ FaultsOf[d] \in Nat
           /\ None \notin HandlersOf[d]
  BY ServicesAssumption DEF Reason!ReasoningAssumption

\* The states a decision passes through.
LEMMA ReviewStates ==
    ASSUME NEW d \in Deployment
    PROVE  Reason(d)!UnderReview = {"DETECTED", "EVALUATING", "PLANNED", "WARDEN_REVIEW"}
  <1>1. 1..4 = {1, 2, 3, 4}
    OBVIOUS
  <1> QED BY <1>1 DEF Reason!UnderReview, Reason!Path

\* Once out of review there is no way back, no way to APPROVED but from review, and no
\* way out of a closed state.
LEMMA Edges ==
    ASSUME NEW d \in Deployment, NEW s \in Reason(d)!IncidentStates,
           NEW t \in Reason(d)!Transitions[s]
    PROVE  /\ t \in Reason(d)!IncidentStates
           /\ s \notin Reason(d)!ClosedIncidentStates
           /\ s \notin Reason(d)!UnderReview => Beyond(d, t)
  BY ReviewStates
     DEF Reason!IncidentStates, Reason!Transitions, Reason!ClosedIncidentStates, Beyond

\* Everybody but h stays where it is.
Rest(d, h) == \A g \in HandlersOf[d] \ {h} : handler'[g] = handler[g]

LEMMA GoToLocal ==
    ASSUME NEW d \in Deployment, handler \in [HandlersOf[d] -> LocalOf(d)],
           NEW h \in HandlersOf[d], NEW place \in Reason(d)!Places, Reason(d)!GoTo(h, place)
    PROVE  /\ handler' \in [HandlersOf[d] -> LocalOf(d)] /\ Rest(d, h)
           /\ handler'[h].at = place /\ handler'[h].row = handler[h].row
           /\ handler'[h].version = handler[h].version /\ handler'[h].state = handler[h].state
           /\ handler'[h].plan = handler[h].plan /\ handler'[h].verdict = handler[h].verdict
  BY DEF Reason!GoTo, LocalOf, Rest

LEMMA IdleLocal ==
    ASSUME NEW d \in Deployment
    PROVE  Reason(d)!IdleHandler \in LocalOf(d)
  BY Sizes DEF Reason!IdleHandler, LocalOf, Reason!Places, Reason!IncidentStates, Reason!NoVerdict

LEMMA LeaveLocal ==
    ASSUME NEW d \in Deployment, handler \in [HandlersOf[d] -> LocalOf(d)],
           NEW h \in HandlersOf[d], NEW place \in Reason(d)!Places, Reason(d)!Leave(h, place)
    PROVE  /\ handler' \in [HandlersOf[d] -> LocalOf(d)] /\ Rest(d, h)
           /\ handler'[h].at = place /\ handler'[h].row = handler[h].row
  <1>1. [Reason(d)!IdleHandler EXCEPT !.at = place, !.row = handler[h].row] \in LocalOf(d)
    BY IdleLocal DEF LocalOf
  <1> QED BY <1>1, IdleLocal DEF Reason!Leave, Rest, LocalOf

\* A process that is free again.
LEMMA FreeLocal ==
    ASSUME NEW d \in Deployment, handler \in [HandlersOf[d] -> LocalOf(d)],
           NEW h \in HandlersOf[d],
           handler' = [handler EXCEPT ![h] = Reason(d)!IdleHandler]
    PROVE  /\ handler' \in [HandlersOf[d] -> LocalOf(d)] /\ Rest(d, h)
           /\ handler'[h].at = "idle"
  BY IdleLocal DEF Rest, Reason!IdleHandler

\* Step: the record has reached the target, or is on its way, or it is over.
LEMMA StepLocal ==
    ASSUME NEW d \in Deployment, handler \in [HandlersOf[d] -> LocalOf(d)],
           NEW h \in HandlersOf[d], NEW entry, entry.version \in Nat,
           entry.state \in Reason(d)!IncidentStates, Reason(d)!Step(h, entry)
    PROVE  /\ handler' \in [HandlersOf[d] -> LocalOf(d)] /\ Rest(d, h)
           /\ \/ /\ \/ /\ handler'[h].at = "fields"
                       /\ entry.state = Reason(d)!Target[handler[h].verdict.decision]
                    \/ /\ handler'[h].at = "advance"
                       /\ entry.state \in Reason(d)!UnderReview
                 /\ handler'[h].plan = handler[h].plan
                 /\ handler'[h].verdict = handler[h].verdict
                 /\ handler'[h].version = entry.version
              \/ handler'[h].at = "retry"
  <1> DEFINE reached == entry.state = Reason(d)!Target[handler[h].verdict.decision]
  <1>1. CASE reached \/ entry.state \in Reason(d)!UnderReview
    <2> DEFINE place == IF reached THEN "fields" ELSE "advance"
    <2>1. handler' = [handler EXCEPT ![h].at = place, ![h].state = entry.state,
                                     ![h].version = entry.version]
      BY <1>1 DEF Reason!Step
    <2>2. place \in Reason(d)!Places
      BY DEF Reason!Places
    <2> HIDE DEF place
    <2>3. /\ handler' \in [HandlersOf[d] -> LocalOf(d)] /\ Rest(d, h)
          /\ handler'[h].at = place /\ handler'[h].plan = handler[h].plan
          /\ handler'[h].verdict = handler[h].verdict /\ handler'[h].version = entry.version
      BY <2>1, <2>2 DEF LocalOf, Rest
    <2> QED BY <1>1, <2>3 DEF place
  <1>2. CASE ~(reached \/ entry.state \in Reason(d)!UnderReview)
    <2>1. Reason(d)!Leave(h, "retry") /\ "retry" \in Reason(d)!Places
      BY <1>2 DEF Reason!Step, Reason!Places
    <2> QED BY <2>1, LeaveLocal
  <1> QED BY <1>1, <1>2

(***************************************************************************)
(* What the others may do to the records a process relies on.              *)
(***************************************************************************)
RecordOf(d) ==
    [state : Reason(d)!IncidentStates, version : Nat, plan : 0..PlansOf[d],
     decision : Reason(d)!Decisions \cup {"NONE"}]

RowOf(d) ==
    [state : {"ABSENT", "PENDING", "CLAIMED", "SENT"}, owner : HandlersOf[d] \cup {None}]

SharedTypes(d) ==
    /\ incident \in RecordOf(d)
    /\ action \in [CandidatesOf[d] \X (1..PlansOf[d]) -> {"ABSENT", "READY", "DONE"}]
    /\ announced \in [1..PlansOf[d] -> Reason(d)!Verdict \cup {Reason(d)!NoVerdict}]
    /\ row \in [1..RowsOf[d] -> RowOf(d)]
    /\ faults \in 0..FaultsOf[d]

LEMMA Typed ==
    ASSUME NEW d \in Deployment
    PROVE  Reason(d)!TypeOK <=>
               SharedTypes(d) /\ handler \in [HandlersOf[d] -> LocalOf(d)]
  BY DEF Reason!TypeOK, SharedTypes, RecordOf, RowOf, LocalOf, Reason!Plan

\* Records only go on: a decision stays made, a review stays over, an action stays.
Onward(d) ==
    /\ \/ incident' = incident
       \/ incident'.version = incident.version + 1
    /\ incident.plan # 0 => incident'.plan # 0
    /\ incident.decision # "NONE" => incident'.decision # "NONE"
    /\ Beyond(d, incident.state) => Beyond(d, incident'.state)
    /\ Decided(d) => Decided(d)'
    /\ \A a \in CandidatesOf[d] \X (1..PlansOf[d]) :
          action[a] # "ABSENT" => action'[a] # "ABSENT"

\* The plan of a process is made of candidate actions.
LEMMA PicksAreCandidates ==
    ASSUME NEW d \in Deployment, handler \in [HandlersOf[d] -> LocalOf(d)],
           NEW h \in HandlersOf[d], HandlerFacts(d, h), handler[h].at \in Answered
    PROVE  \A c \in handler[h].verdict.picks :
              <<c, handler[h].plan>> \in CandidatesOf[d] \X (1..PlansOf[d])
  BY DEF HandlerFacts, Asking, Answered, Reason!Verdict

LEMMA FactsKept ==
    ASSUME NEW d \in Deployment, SharedTypes(d), SharedTypes(d)',
           handler \in [HandlersOf[d] -> LocalOf(d)],
           NEW h \in HandlersOf[d], HandlerFacts(d, h), Onward(d), handler'[h] = handler[h]
    PROVE  HandlerFacts(d, h)'
  <1>1. /\ incident.version \in Nat /\ incident'.version \in Nat
        /\ handler[h].version \in Nat
    BY DEF SharedTypes, RecordOf, LocalOf
  <1>2. ASSUME handler[h].at \in Made
        PROVE  \A c \in handler[h].verdict.picks : action'[<<c, handler[h].plan>>] # "ABSENT"
    BY <1>2, PicksAreCandidates DEF HandlerFacts, Onward, Made
  <1>3. /\ handler[h].at \in Asking /\ handler[h].plan # 1 => incident'.plan # 0
        /\ handler[h].at \in Answered /\ handler[h].plan # 1 => Beyond(d, incident'.state)
    BY DEF HandlerFacts, Onward
  <1>4. ASSUME handler[h].at = "fields"
        PROVE  /\ handler[h].version <= incident'.version
               /\ handler[h].version = incident'.version =>
                     incident'.state = Reason(d)!Target[handler[h].verdict.decision]
    BY <1>1, <1>4 DEF HandlerFacts, Onward
  <1>5. /\ handler[h].at = "announce" => incident'.plan # 0
        /\ handler[h].at = "ack" => Decided(d)'
    BY DEF HandlerFacts, Onward
  <1>6. /\ handler[h].at \in Asking => handler[h].plan \in 1..PlansOf[d]
        /\ handler[h].at \in Answered =>
              /\ handler[h].verdict \in Reason(d)!Verdict
              /\ handler[h].verdict.decision = "ALLOW" <=> handler[h].verdict.picks # {}
        /\ handler[h].at = "advance" => handler[h].plan = 1
        /\ handler[h].at \in {"fields", "announce"} /\ handler[h].verdict.decision = "ALLOW" =>
              handler[h].plan = 1
    BY DEF HandlerFacts
  <1> HIDE DEF Asking, Answered, Made
  <1> QED BY <1>2, <1>3, <1>4, <1>5, <1>6
          DEF HandlerFacts, Reason!Verdict, Reason!Target

\* Rows and announcements stay true as records go on; a row is acknowledged once its
\* incident is decided.
LEMMA RowsKept ==
    ASSUME NEW d \in Deployment, SharedTypes(d), SharedTypes(d)', RowFacts(d), Onward(d),
           announced' = announced,
           \A r \in 1..RowsOf[d] : row'[r].state = "SENT" => row[r].state = "SENT" \/ Decided(d)
    PROVE  RowFacts(d)'
  <1>1. Decided(d) => Decided(d)'
    BY DEF Onward
  <1>2. Reason(d)!AckedIsDecided'
    BY <1>1 DEF RowFacts, Reason!AckedIsDecided, Decided
  <1>3. ASSUME NEW p \in 1..PlansOf[d], announced[p].picks # {}
        PROVE  /\ p = 1 /\ incident'.plan # 0
               /\ \A c \in announced[p].picks : action'[<<c, p>>] # "ABSENT"
    <2>1. /\ p = 1 /\ incident.plan # 0
          /\ \A c \in announced[p].picks : action[<<c, p>>] # "ABSENT"
      BY <1>3 DEF RowFacts
    <2>2. \A c \in announced[p].picks : <<c, p>> \in CandidatesOf[d] \X (1..PlansOf[d])
      BY DEF SharedTypes, Reason!Verdict, Reason!NoVerdict
    <2> QED BY <2>1, <2>2 DEF Onward
  <1> QED BY <1>2, <1>3 DEF RowFacts

\* A step of one process keeps the invariant if it leaves its own facts true and the
\* records only go on.
LEMMA OwnStep ==
    ASSUME NEW d \in Deployment, ReviewInvariant(d), NEW h \in HandlersOf[d],
           SharedTypes(d)', handler' \in [HandlersOf[d] -> LocalOf(d)], Rest(d, h),
           Onward(d), IncidentFacts(d)', HandlerFacts(d, h)', RowFacts(d)'
    PROVE  ReviewInvariant(d)'
  <1>1. SharedTypes(d) /\ handler \in [HandlersOf[d] -> LocalOf(d)]
    BY Typed DEF ReviewInvariant
  <1>2. Reason(d)!TypeOK'
    BY Typed DEF SharedTypes, RecordOf, RowOf, LocalOf, Reason!TypeOK, Reason!Plan
  <1>3. ASSUME NEW g \in HandlersOf[d]  PROVE HandlerFacts(d, g)'
    <2>1. CASE g = h
      BY <2>1
    <2>2. CASE g # h
      BY <1>1, <2>2, FactsKept DEF ReviewInvariant, Rest
    <2> QED BY <2>1, <2>2
  <1> QED BY <1>2, <1>3 DEF ReviewInvariant

\* What a step that only reads, or only creates actions, does to the records.
LEMMA NothingWritten ==
    ASSUME NEW d \in Deployment, SharedTypes(d), IncidentFacts(d), incident' = incident,
           \A a \in CandidatesOf[d] \X (1..PlansOf[d]) :
              action[a] # "ABSENT" => action'[a] # "ABSENT"
    PROVE  Onward(d) /\ IncidentFacts(d)'
  BY DEF Onward, IncidentFacts, Decided

(***************************************************************************)
(* The steps.                                                              *)
(***************************************************************************)
LEMMA ReviewStarts ==
    ASSUME NEW d \in Deployment, Reason(d)!Init
    PROVE  ReviewInvariant(d)
  <1>1. SharedTypes(d)
    BY Sizes DEF Reason!Init, SharedTypes, RecordOf, RowOf, Reason!IncidentStates, Reason!NoVerdict,
                 Reason!Plan
  <1>2. handler \in [HandlersOf[d] -> LocalOf(d)]
    BY IdleLocal DEF Reason!Init
  <1>3. IncidentFacts(d)
    BY DEF Reason!Init, IncidentFacts
  <1>4. ASSUME NEW h \in HandlersOf[d]  PROVE HandlerFacts(d, h)
    BY DEF Reason!Init, Reason!IdleHandler, HandlerFacts, Asking, Answered, Made
  <1>5. RowFacts(d)
    BY DEF Reason!Init, RowFacts, Reason!AckedIsDecided, Reason!NoVerdict, Reason!Plan
  <1> QED BY <1>1, <1>2, <1>3, <1>4, <1>5, Typed DEF ReviewInvariant

\* Steps that change rows, or nothing but the process itself, and end outside the
\* places where it relies on anything.
Loose == {"idle", "open", "context", "retry"}

LEMMA LooseFacts ==
    ASSUME NEW d \in Deployment, NEW h \in HandlersOf[d], handler'[h].at \in Loose
    PROVE  HandlerFacts(d, h)'
  BY DEF HandlerFacts, Loose, Asking, Answered, Made

LEMMA SignalStep ==
    ASSUME NEW d \in Deployment, ReviewInvariant(d), NEW r \in 2..RowsOf[d],
           Reason(d)!Signal(r)
    PROVE  ReviewInvariant(d)'
  <1>1. SharedTypes(d) /\ handler \in [HandlersOf[d] -> LocalOf(d)]
    BY Typed DEF ReviewInvariant
  <1>2. /\ row' = [row EXCEPT ![r].state = "PENDING"]
        /\ UNCHANGED <<incident, action, announced, handler, faults>>
    BY DEF Reason!Signal
  <1>3. SharedTypes(d)'
    <2>1. r \in 1..RowsOf[d]
      BY Sizes
    <2>2. [row[r] EXCEPT !.state = "PENDING"] \in RowOf(d)
      BY <1>1, <2>1 DEF SharedTypes, RowOf
    <2>3. row' \in [1..RowsOf[d] -> RowOf(d)]
      BY <1>1, <1>2, <2>1, <2>2 DEF SharedTypes
    <2> QED BY <1>1, <1>2, <2>3 DEF SharedTypes, RecordOf, RowOf
  <1>4. Onward(d) /\ IncidentFacts(d)'
    BY <1>1, <1>2, NothingWritten DEF ReviewInvariant
  <1>5. RowFacts(d)'
    <2>1. \A q \in 1..RowsOf[d] : row'[q].state = "SENT" => row[q].state = "SENT"
      BY <1>1, <1>2 DEF SharedTypes, RowOf
    <2> QED BY <1>1, <1>2, <1>3, <1>4, <2>1, RowsKept DEF ReviewInvariant
  <1>6. ASSUME NEW g \in HandlersOf[d]  PROVE HandlerFacts(d, g)'
    BY <1>1, <1>2, <1>3, <1>4, FactsKept DEF ReviewInvariant
  <1>7. Reason(d)!TypeOK'
    BY <1>1, <1>2, <1>3 DEF SharedTypes, RecordOf, RowOf, LocalOf, Reason!TypeOK, Reason!Plan
  <1> QED BY <1>4, <1>5, <1>6, <1>7 DEF ReviewInvariant

\* What a step leaves well typed that writes no record but the row.
LEMMA SharedTypesKept ==
    ASSUME NEW d \in Deployment, SharedTypes(d),
           UNCHANGED <<incident, action, announced, faults>>,
           row' \in [1..RowsOf[d] -> RowOf(d)]
    PROVE  SharedTypes(d)'
  BY DEF SharedTypes, RecordOf, RowOf

LEMMA DeliverStep ==
    ASSUME NEW d \in Deployment, ReviewInvariant(d), NEW h \in HandlersOf[d],
           NEW r \in 1..RowsOf[d], Reason(d)!Deliver(h, r)
    PROVE  ReviewInvariant(d)'
  <1>1. SharedTypes(d) /\ handler \in [HandlersOf[d] -> LocalOf(d)]
    BY Typed DEF ReviewInvariant
  <1> DEFINE claimed == [state |-> "CLAIMED", owner |-> h]
             opened == [Reason(d)!IdleHandler EXCEPT !.at = "open", !.row = r]
  <1>2. /\ row' = [row EXCEPT ![r] = claimed]
        /\ handler' = [handler EXCEPT ![h] = opened]
        /\ UNCHANGED <<incident, action, announced, faults>>
    BY DEF Reason!Deliver
  <1>3. /\ claimed \in RowOf(d) /\ claimed.state = "CLAIMED"
        /\ opened \in LocalOf(d) /\ opened.at = "open"
    <2>1. r \in 0..RowsOf[d] /\ "open" \in Reason(d)!Places
      BY Sizes DEF Reason!Places
    <2> QED BY <2>1, IdleLocal DEF RowOf, LocalOf
  <1> HIDE DEF claimed, opened
  <1>4. /\ row' \in [1..RowsOf[d] -> RowOf(d)]
        /\ \A q \in 1..RowsOf[d] : row'[q].state = "SENT" => row[q].state = "SENT"
    BY <1>1, <1>2, <1>3 DEF SharedTypes
  <1>5. /\ handler' \in [HandlersOf[d] -> LocalOf(d)] /\ Rest(d, h)
        /\ handler'[h].at = "open"
    BY <1>1, <1>2, <1>3 DEF Rest
  <1>6. SharedTypes(d)'
    BY <1>1, <1>2, <1>4, SharedTypesKept
  <1>7. Onward(d) /\ IncidentFacts(d)'
    BY <1>1, <1>2, NothingWritten DEF ReviewInvariant
  <1>8. RowFacts(d)'
    BY <1>1, <1>2, <1>4, <1>6, <1>7, RowsKept DEF ReviewInvariant
  <1>9. HandlerFacts(d, h)'
    BY <1>5, LooseFacts DEF Loose
  <1> QED BY <1>5, <1>6, <1>7, <1>8, <1>9, OwnStep

LEMMA FinishStep ==
    ASSUME NEW d \in Deployment, ReviewInvariant(d), NEW h \in HandlersOf[d],
           Reason(d)!Acknowledge(h) \/ Reason(d)!Retry(h)
    PROVE  ReviewInvariant(d)'
  <1>1. SharedTypes(d) /\ handler \in [HandlersOf[d] -> LocalOf(d)]
    BY Typed DEF ReviewInvariant
  <1>2. PICK state \in {"SENT", "PENDING"} :
           /\ Reason(d)!Finish(h, state)
           /\ state = "SENT" => handler[h].at = "ack"
    BY DEF Reason!Acknowledge, Reason!Retry, Reason!At
  <1>3. UNCHANGED <<incident, action, announced, faults>>
    BY <1>2 DEF Reason!Finish
  <1> DEFINE ended == [state |-> state, owner |-> None]
  <1>4. row' = row \/ row' = [row EXCEPT ![handler[h].row] = ended]
    BY <1>2 DEF Reason!Finish
  <1>5. ended \in RowOf(d) /\ ended.state = state
    BY DEF RowOf
  <1>6. state = "SENT" => Decided(d)
    BY <1>2 DEF ReviewInvariant, HandlerFacts
  <1> HIDE DEF ended
  <1>7. /\ row' \in [1..RowsOf[d] -> RowOf(d)]
        /\ \A q \in 1..RowsOf[d] :
              row'[q].state = "SENT" => row[q].state = "SENT" \/ Decided(d)
    BY <1>1, <1>4, <1>5, <1>6 DEF SharedTypes
  <1>8. /\ handler' \in [HandlersOf[d] -> LocalOf(d)] /\ Rest(d, h)
        /\ handler'[h].at = "idle"
    BY <1>1, <1>2, FreeLocal DEF Reason!Finish
  <1>9. SharedTypes(d)'
    BY <1>1, <1>3, <1>7, SharedTypesKept
  <1>10. Onward(d) /\ IncidentFacts(d)'
    BY <1>1, <1>3, NothingWritten DEF ReviewInvariant
  <1>11. RowFacts(d)'
    BY <1>1, <1>3, <1>7, <1>9, <1>10, RowsKept DEF ReviewInvariant
  <1>12. HandlerFacts(d, h)'
    BY <1>8, LooseFacts DEF Loose
  <1> QED BY <1>8, <1>9, <1>10, <1>11, <1>12, OwnStep

LEMMA FaultStep ==
    ASSUME NEW d \in Deployment, ReviewInvariant(d), NEW h \in HandlersOf[d],
           Reason(d)!Fault(h)
    PROVE  ReviewInvariant(d)'
  <1>1. SharedTypes(d) /\ handler \in [HandlersOf[d] -> LocalOf(d)]
    BY Typed DEF ReviewInvariant
  <1>2. /\ UNCHANGED <<incident, action, announced, row>>
        /\ faults < FaultsOf[d] /\ faults' = faults + 1
    BY DEF Reason!Fault
  <1>3. /\ handler' \in [HandlersOf[d] -> LocalOf(d)] /\ Rest(d, h)
        /\ handler'[h].at \in Loose
    <2>1. CASE Reason(d)!Leave(h, "retry")
      BY <1>1, <2>1, LeaveLocal DEF Reason!Places, Loose
    <2>2. CASE handler' = [handler EXCEPT ![h] = Reason(d)!IdleHandler]
      BY <1>1, <2>2, FreeLocal DEF Loose
    <2> QED BY <2>1, <2>2 DEF Reason!Fault
  <1>4. faults' \in 0..FaultsOf[d]
    BY <1>1, <1>2, Sizes DEF SharedTypes
  <1>5. SharedTypes(d)'
    BY <1>1, <1>2, <1>4 DEF SharedTypes, RecordOf, RowOf
  <1>6. Onward(d) /\ IncidentFacts(d)'
    BY <1>1, <1>2, NothingWritten DEF ReviewInvariant
  <1>7. RowFacts(d)'
    BY <1>1, <1>2, <1>5, <1>6, RowsKept DEF ReviewInvariant
  <1> QED BY <1>3, <1>5, <1>6, <1>7, LooseFacts, OwnStep

LEMMA OpenStep ==
    ASSUME NEW d \in Deployment, ReviewInvariant(d), NEW h \in HandlersOf[d],
           Reason(d)!Open(h)
    PROVE  ReviewInvariant(d)'
  <1>1. SharedTypes(d) /\ handler \in [HandlersOf[d] -> LocalOf(d)]
    BY Typed DEF ReviewInvariant
  <1>2. UNCHANGED <<incident, action, announced, row, faults>>
    BY DEF Reason!Open
  <1>3. SharedTypes(d)'
    BY <1>1, <1>2, SharedTypesKept DEF SharedTypes
  <1>4. Onward(d) /\ IncidentFacts(d)'
    BY <1>1, <1>2, NothingWritten DEF ReviewInvariant
  <1>5. RowFacts(d)'
    BY <1>1, <1>2, <1>3, <1>4, RowsKept DEF ReviewInvariant
  <1>6. CASE Reason(d)!Completed \/ incident.state \in Reason(d)!ClosedIncidentStates
    <2>1. Reason(d)!Leave(h, "ack") /\ "ack" \in Reason(d)!Places
      BY <1>6 DEF Reason!Open, Reason!Places
    <2>2. /\ handler' \in [HandlersOf[d] -> LocalOf(d)] /\ Rest(d, h)
          /\ handler'[h].at = "ack"
      BY <1>1, <2>1, LeaveLocal
    <2>3. Decided(d)'
      BY <1>2, <1>6 DEF Decided, Reason!Completed
    <2>4. HandlerFacts(d, h)'
      BY <2>2, <2>3 DEF HandlerFacts, Asking, Answered, Made
    <2> QED BY <1>3, <1>4, <1>5, <2>2, <2>4, OwnStep
  <1>7. CASE Reason(d)!GoTo(h, "context")
    <2>1. /\ handler' \in [HandlersOf[d] -> LocalOf(d)] /\ Rest(d, h)
          /\ handler'[h].at \in Loose
      BY <1>1, <1>7, GoToLocal DEF Reason!Places, Loose
    <2> QED BY <1>3, <1>4, <1>5, <2>1, LooseFacts, OwnStep
  <1> QED BY <1>6, <1>7 DEF Reason!Open

\* Whatever the incident has become since it was opened, it is the one that was asked about.
LEMMA BuildContextStep ==
    ASSUME NEW d \in Deployment, ReviewInvariant(d), NEW h \in HandlersOf[d],
           Reason(d)!BuildContext(h)
    PROVE  ReviewInvariant(d)'
  <1>1. SharedTypes(d) /\ handler \in [HandlersOf[d] -> LocalOf(d)]
    BY Typed DEF ReviewInvariant
  <1>2. /\ UNCHANGED <<incident, action, announced, row, faults>>
        /\ incident.plan < PlansOf[d]
        /\ handler' = [handler EXCEPT ![h].at = "check", ![h].version = incident.version,
                          ![h].state = incident.state, ![h].plan = incident.plan + 1]
    BY DEF Reason!BuildContext
  <1>3. SharedTypes(d)'
    BY <1>1, <1>2, SharedTypesKept DEF SharedTypes
  <1>4. Onward(d) /\ IncidentFacts(d)'
    BY <1>1, <1>2, NothingWritten DEF ReviewInvariant
  <1>5. RowFacts(d)'
    BY <1>1, <1>2, <1>3, <1>4, RowsKept DEF ReviewInvariant
  <1>6. /\ incident.version \in Nat /\ incident.state \in Reason(d)!IncidentStates
        /\ incident.plan + 1 \in 1..PlansOf[d] /\ "check" \in Reason(d)!Places
        /\ incident.plan + 1 # 1 => incident.plan # 0
    BY <1>1, <1>2, Sizes DEF SharedTypes, RecordOf, Reason!Places
  <1>7. incident.plan + 1 \in 0..PlansOf[d]
    BY <1>6, Sizes
  <1>8. /\ handler' \in [HandlersOf[d] -> LocalOf(d)] /\ Rest(d, h)
        /\ handler'[h].at = "check" /\ handler'[h].plan = incident.plan + 1
    BY <1>1, <1>2, <1>6, <1>7 DEF LocalOf, Rest
  <1>9. HandlerFacts(d, h)'
    BY <1>2, <1>6, <1>8 DEF HandlerFacts, Asking, Answered, Made
  <1> QED BY <1>3, <1>4, <1>5, <1>8, <1>9, OwnStep

\* An answer is used only for an incident whose decision is not complete: one that has a
\* decision all the same has left review, and not to APPROVED.
LEMMA CheckStep ==
    ASSUME NEW d \in Deployment, ReviewInvariant(d), NEW h \in HandlersOf[d],
           Reason(d)!Check(h)
    PROVE  ReviewInvariant(d)'
  <1>1. SharedTypes(d) /\ handler \in [HandlersOf[d] -> LocalOf(d)]
    BY Typed DEF ReviewInvariant
  <1>2. UNCHANGED <<incident, action, announced, row, faults>> /\ handler[h].at = "check"
    BY DEF Reason!Check, Reason!At
  <1>3. SharedTypes(d)'
    BY <1>1, <1>2, SharedTypesKept DEF SharedTypes
  <1>4. Onward(d) /\ IncidentFacts(d)'
    BY <1>1, <1>2, NothingWritten DEF ReviewInvariant
  <1>5. RowFacts(d)'
    BY <1>1, <1>2, <1>3, <1>4, RowsKept DEF ReviewInvariant
  <1>6. CASE Reason(d)!Completed /\ Reason(d)!Leave(h, "ack")
    <2>1. /\ handler' \in [HandlersOf[d] -> LocalOf(d)] /\ Rest(d, h)
          /\ handler'[h].at = "ack"
      BY <1>1, <1>6, LeaveLocal DEF Reason!Places
    <2>2. Decided(d)'
      BY <1>2, <1>6 DEF Decided, Reason!Completed
    <2>3. HandlerFacts(d, h)'
      BY <2>1, <2>2 DEF HandlerFacts, Asking, Answered, Made
    <2> QED BY <1>3, <1>4, <1>5, <2>1, <2>3, OwnStep
  <1>7. CASE Reason(d)!Leave(h, "retry")
    <2>1. /\ handler' \in [HandlersOf[d] -> LocalOf(d)] /\ Rest(d, h)
          /\ handler'[h].at \in Loose
      BY <1>1, <1>7, LeaveLocal DEF Reason!Places, Loose
    <2> QED BY <1>3, <1>4, <1>5, <2>1, LooseFacts, OwnStep
  <1>8. ASSUME ~Reason(d)!Completed, NEW verdict \in Reason(d)!Verdict,
               verdict.decision = "ALLOW" <=> verdict.picks # {},
               handler' = [handler EXCEPT ![h].verdict = verdict, ![h].at =
                              IF verdict.decision = "ALLOW" THEN "create" ELSE "join"]
        PROVE  ReviewInvariant(d)'
    <2> DEFINE place == IF verdict.decision = "ALLOW" THEN "create" ELSE "join"
    <2>1. place \in Reason(d)!Places /\ place \in {"create", "join"}
      BY DEF Reason!Places
    <2>2. place = "join" => verdict.picks = {}
      BY <1>8
    <2>3. handler' = [handler EXCEPT ![h].verdict = verdict, ![h].at = place]
      BY <1>8
    <2> HIDE DEF place
    <2>4. /\ handler' \in [HandlersOf[d] -> LocalOf(d)] /\ Rest(d, h)
          /\ handler'[h].at = place /\ handler'[h].verdict = verdict
          /\ handler'[h].plan = handler[h].plan
      BY <1>1, <2>1, <2>3 DEF LocalOf, Rest
    <2>5. handler[h].plan \in 1..PlansOf[d] /\ (handler[h].plan # 1 => incident.plan # 0)
      BY <1>2 DEF ReviewInvariant, HandlerFacts, Asking
    <2>6. ASSUME incident.plan # 0  PROVE Beyond(d, incident.state)
      <3>1. incident.decision # "NONE" /\ incident.state \notin Reason(d)!UnderReview
        BY <2>6 DEF ReviewInvariant, IncidentFacts
      <3>2. incident.state # "APPROVED"
        BY <1>8, <3>1 DEF ReviewInvariant, IncidentFacts, Reason!Completed, Reason!Target
      <3> QED BY <3>1, <3>2 DEF Beyond
    <2>7. HandlerFacts(d, h)'
      BY <1>2, <1>8, <2>1, <2>2, <2>4, <2>5, <2>6 DEF HandlerFacts, Asking, Answered, Made
    <2> QED BY <1>3, <1>4, <1>5, <2>4, <2>7, OwnStep
  <1> QED BY <1>6, <1>7, <1>8 DEF Reason!Check

\* The actions of a plan exist once the process goes on; an action that was created stays.
LEMMA CreateStep ==
    ASSUME NEW d \in Deployment, ReviewInvariant(d), NEW h \in HandlersOf[d],
           Reason(d)!Create(h)
    PROVE  ReviewInvariant(d)'
  <1>1. SharedTypes(d) /\ handler \in [HandlersOf[d] -> LocalOf(d)] /\ HandlerFacts(d, h)
    BY Typed DEF ReviewInvariant
  <1>2. UNCHANGED <<incident, announced, row, faults>> /\ handler[h].at = "create"
    BY DEF Reason!Create, Reason!At
  <1>3. \A c \in handler[h].verdict.picks : <<c, handler[h].plan>> \in Reason(d)!Mine(h)
    BY DEF Reason!Mine
  <1>4. CASE /\ \E a \in Reason(d)!Mine(h) : action' = [action EXCEPT ![a] = "READY"]
             /\ handler' = handler
    <2>1. PICK a \in Reason(d)!Mine(h) : action' = [action EXCEPT ![a] = "READY"]
      BY <1>4
    <2>2. /\ action' \in [CandidatesOf[d] \X (1..PlansOf[d]) -> {"ABSENT", "READY", "DONE"}]
          /\ \A b \in CandidatesOf[d] \X (1..PlansOf[d]) :
                action[b] # "ABSENT" => action'[b] # "ABSENT"
      BY <1>1, <2>1 DEF SharedTypes
    <2>3. SharedTypes(d)'
      BY <1>1, <1>2, <2>2 DEF SharedTypes, RecordOf, RowOf
    <2>4. Onward(d) /\ IncidentFacts(d)'
      BY <1>1, <1>2, <2>2, NothingWritten DEF ReviewInvariant
    <2>5. RowFacts(d)'
      BY <1>1, <1>2, <2>3, <2>4, RowsKept DEF ReviewInvariant
    <2>6. handler' \in [HandlersOf[d] -> LocalOf(d)] /\ Rest(d, h) /\ HandlerFacts(d, h)'
      BY <1>1, <1>4, <2>3, <2>4, FactsKept DEF Rest
    <2> QED BY <2>3, <2>4, <2>5, <2>6, OwnStep
  <1>5. CASE /\ \A a \in Reason(d)!Mine(h) : action[a] # "ABSENT"
             /\ Reason(d)!GoTo(h, "join")
             /\ action' = action
    <2>1. SharedTypes(d)'
      BY <1>1, <1>2, <1>5, SharedTypesKept DEF SharedTypes
    <2>2. Onward(d) /\ IncidentFacts(d)'
      BY <1>1, <1>2, <1>5, NothingWritten DEF ReviewInvariant
    <2>3. RowFacts(d)'
      BY <1>1, <1>2, <1>5, <2>1, <2>2, RowsKept DEF ReviewInvariant
    <2>4. /\ handler' \in [HandlersOf[d] -> LocalOf(d)] /\ Rest(d, h)
          /\ handler'[h].at = "join" /\ handler'[h].verdict = handler[h].verdict
          /\ handler'[h].plan = handler[h].plan
      BY <1>1, <1>5, GoToLocal DEF Reason!Places
    <2>5. \A c \in handler[h].verdict.picks : action[<<c, handler[h].plan>>] # "ABSENT"
      BY <1>3, <1>5
    <2>6. HandlerFacts(d, h)'
      BY <1>1, <1>2, <1>5, <2>4, <2>5 DEF HandlerFacts, Asking, Answered, Made
    <2> QED BY <2>1, <2>2, <2>3, <2>4, <2>6, OwnStep
  <1> QED BY <1>2, <1>4, <1>5 DEF Reason!Create

\* A process beyond the first plan version finds no review to take up.
LEMMA JoinStep ==
    ASSUME NEW d \in Deployment, ReviewInvariant(d), NEW h \in HandlersOf[d],
           Reason(d)!Join(h)
    PROVE  ReviewInvariant(d)'
  <1>1. SharedTypes(d) /\ handler \in [HandlersOf[d] -> LocalOf(d)] /\ HandlerFacts(d, h)
    BY Typed DEF ReviewInvariant
  <1>2. /\ UNCHANGED <<incident, action, announced, row, faults>> /\ handler[h].at = "join"
        /\ Reason(d)!Step(h, incident)
    BY DEF Reason!Join, Reason!At
  <1>3. SharedTypes(d)'
    BY <1>1, <1>2, SharedTypesKept DEF SharedTypes
  <1>4. Onward(d) /\ IncidentFacts(d)'
    BY <1>1, <1>2, NothingWritten DEF ReviewInvariant
  <1>5. RowFacts(d)'
    BY <1>1, <1>2, <1>3, <1>4, RowsKept DEF ReviewInvariant
  <1>6. incident.version \in Nat /\ incident.state \in Reason(d)!IncidentStates
    BY <1>1 DEF SharedTypes, RecordOf
  <1>7. /\ handler' \in [HandlersOf[d] -> LocalOf(d)] /\ Rest(d, h)
        /\ \/ /\ \/ /\ handler'[h].at = "fields"
                    /\ incident.state = Reason(d)!Target[handler[h].verdict.decision]
                 \/ /\ handler'[h].at = "advance"
                    /\ incident.state \in Reason(d)!UnderReview
              /\ handler'[h].plan = handler[h].plan
              /\ handler'[h].verdict = handler[h].verdict
              /\ handler'[h].version = incident.version
           \/ handler'[h].at = "retry"
    BY <1>1, <1>2, <1>6, StepLocal
  <1>8. handler[h].plan # 1 => incident.plan # 0 /\ Beyond(d, incident.state)
    BY <1>1, <1>2 DEF HandlerFacts, Asking, Answered
  <1>9. CASE handler'[h].at = "retry"
    <2>1. HandlerFacts(d, h)'
      BY <1>9, LooseFacts DEF Loose
    <2> QED BY <1>3, <1>4, <1>5, <1>7, <2>1, OwnStep
  <1>10. CASE handler'[h].at = "advance"
    <2>1. handler[h].plan = 1
      BY <1>7, <1>8, <1>10 DEF Beyond
    <2>2. HandlerFacts(d, h)'
      BY <1>1, <1>2, <1>7, <1>10, <2>1 DEF HandlerFacts, Asking, Answered, Made
    <2> QED BY <1>3, <1>4, <1>5, <1>7, <2>2, OwnStep
  <1>11. CASE handler'[h].at = "fields"
    <2>1. handler[h].verdict.decision = "ALLOW" => handler[h].plan = 1
      BY <1>7, <1>8, <1>11 DEF Beyond, Reason!Target
    <2>2. HandlerFacts(d, h)'
      BY <1>1, <1>2, <1>6, <1>7, <1>8, <1>11, <2>1 DEF HandlerFacts, Asking, Answered, Made
    <2> QED BY <1>3, <1>4, <1>5, <1>7, <2>2, OwnStep
  <1> QED BY <1>7, <1>9, <1>10, <1>11

\* An accepted transition of the incident, by whoever makes it.
LEMMA TransitionMade ==
    ASSUME NEW d \in Deployment, SharedTypes(d), IncidentFacts(d),
           NEW to \in Reason(d)!Transitions[incident.state],
           incident' = [incident EXCEPT !.state = to, !.version = @ + 1],
           \A a \in CandidatesOf[d] \X (1..PlansOf[d]) :
              action[a] # "ABSENT" => action'[a] # "ABSENT"
    PROVE  /\ incident' \in RecordOf(d) /\ incident'.version = incident.version + 1
           /\ incident'.state = to /\ incident'.plan = incident.plan
           /\ Onward(d) /\ IncidentFacts(d)'
  <1>1. /\ to \in Reason(d)!IncidentStates
        /\ incident.state \notin Reason(d)!ClosedIncidentStates
        /\ incident.state \notin Reason(d)!UnderReview => Beyond(d, to)
    BY Edges DEF SharedTypes, RecordOf
  <1>2. /\ incident' \in RecordOf(d) /\ incident'.version = incident.version + 1
        /\ incident'.state = to /\ incident'.plan = incident.plan
        /\ incident'.decision = incident.decision
    <2>1. /\ incident \in RecordOf(d) /\ incident.plan \in 0..PlansOf[d]
          /\ incident.decision \in Reason(d)!Decisions \cup {"NONE"}
      BY DEF SharedTypes, RecordOf
    <2> DEFINE version == incident.version + 1
    <2>2. version \in Nat /\ incident' = [incident EXCEPT !.state = to, !.version = version]
      BY <2>1 DEF RecordOf
    <2> HIDE DEF version
    <2>3. /\ incident' \in RecordOf(d) /\ incident'.version = version
          /\ incident'.state = to /\ incident'.plan = incident.plan
          /\ incident'.decision = incident.decision
      BY <1>1, <2>1, <2>2 DEF RecordOf
    <2> QED BY <2>3 DEF version
  <1>3. Onward(d)
    BY <1>1, <1>2 DEF Onward, Decided, Beyond
  <1>4. incident.decision # "NONE" => Beyond(d, to)
    BY <1>1 DEF IncidentFacts
  <1>5. IncidentFacts(d)'
    BY <1>2, <1>4 DEF IncidentFacts, Beyond
  <1> QED BY <1>2, <1>3, <1>5

LEMMA AdvanceStep ==
    ASSUME NEW d \in Deployment, ReviewInvariant(d), NEW h \in HandlersOf[d],
           Reason(d)!Advance(h)
    PROVE  ReviewInvariant(d)'
  <1>1. SharedTypes(d) /\ handler \in [HandlersOf[d] -> LocalOf(d)] /\ HandlerFacts(d, h)
    BY Typed DEF ReviewInvariant
  <1> DEFINE to == Reason(d)!NextOnPath(handler[h].state,
                                        Reason(d)!Target[handler[h].verdict.decision])
  <1>2. UNCHANGED <<action, announced, row, faults>> /\ handler[h].at = "advance"
    BY DEF Reason!Advance, Reason!At
  <1>3. CASE /\ to \in Reason(d)!Transitions[incident.state]
             /\ incident' = [incident EXCEPT !.state = to, !.version = @ + 1]
             /\ Reason(d)!Step(h, incident')
    <2> HIDE DEF to
    <2>1. /\ incident' \in RecordOf(d) /\ Onward(d) /\ IncidentFacts(d)'
      BY <1>1, <1>2, <1>3, TransitionMade DEF ReviewInvariant
    <2>2. SharedTypes(d)'
      BY <1>1, <1>2, <2>1 DEF SharedTypes, RecordOf, RowOf
    <2>3. RowFacts(d)'
      BY <1>1, <1>2, <2>1, <2>2, RowsKept DEF ReviewInvariant
    <2>4. incident'.version \in Nat /\ incident'.state \in Reason(d)!IncidentStates
      BY <2>1 DEF RecordOf
    <2>5. /\ handler' \in [HandlersOf[d] -> LocalOf(d)] /\ Rest(d, h)
          /\ \/ /\ \/ /\ handler'[h].at = "fields"
                      /\ incident'.state = Reason(d)!Target[handler[h].verdict.decision]
                   \/ /\ handler'[h].at = "advance"
                      /\ incident'.state \in Reason(d)!UnderReview
                /\ handler'[h].plan = handler[h].plan
                /\ handler'[h].verdict = handler[h].verdict
                /\ handler'[h].version = incident'.version
             \/ handler'[h].at = "retry"
      <3> DEFINE entry == incident'
      <3>1. entry.version \in Nat /\ entry.state \in Reason(d)!IncidentStates
            /\ Reason(d)!Step(h, entry)
        BY <1>3, <2>4
      <3> HIDE DEF entry
      <3>2. /\ handler' \in [HandlersOf[d] -> LocalOf(d)] /\ Rest(d, h)
            /\ \/ /\ \/ /\ handler'[h].at = "fields"
                        /\ entry.state = Reason(d)!Target[handler[h].verdict.decision]
                     \/ /\ handler'[h].at = "advance"
                        /\ entry.state \in Reason(d)!UnderReview
                  /\ handler'[h].plan = handler[h].plan
                  /\ handler'[h].verdict = handler[h].verdict
                  /\ handler'[h].version = entry.version
               \/ handler'[h].at = "retry"
        BY <1>1, <3>1, StepLocal
      <3> QED BY <3>2 DEF entry
    <2>6. \A c \in handler[h].verdict.picks : action'[<<c, handler[h].plan>>] # "ABSENT"
      BY <1>1, <1>2 DEF HandlerFacts, Made, Answered, Asking
    <2>7. /\ handler[h].plan = 1 /\ handler[h].plan \in 1..PlansOf[d]
          /\ handler[h].verdict \in Reason(d)!Verdict
          /\ handler[h].verdict.decision = "ALLOW" <=> handler[h].verdict.picks # {}
      BY <1>1, <1>2 DEF HandlerFacts, Answered, Asking
    <2>8. CASE handler'[h].at = "retry"
      BY <2>1, <2>2, <2>3, <2>5, <2>8, LooseFacts, OwnStep DEF Loose
    <2>9. CASE handler'[h].at \in {"fields", "advance"}
      <3>1. HandlerFacts(d, h)'
        BY <2>4, <2>5, <2>6, <2>7, <2>9 DEF HandlerFacts, Asking, Answered, Made
      <3> QED BY <2>1, <2>2, <2>3, <2>5, <3>1, OwnStep
    <2> QED BY <2>5, <2>8, <2>9
  <1>4. CASE Reason(d)!Leave(h, "retry") /\ incident' = incident
    <2>1. SharedTypes(d)'
      BY <1>1, <1>2, <1>4, SharedTypesKept DEF SharedTypes
    <2>2. Onward(d) /\ IncidentFacts(d)'
      BY <1>1, <1>2, <1>4, NothingWritten DEF ReviewInvariant
    <2>3. RowFacts(d)'
      BY <1>1, <1>2, <2>1, <2>2, RowsKept DEF ReviewInvariant
    <2>4. /\ handler' \in [HandlersOf[d] -> LocalOf(d)] /\ Rest(d, h)
          /\ handler'[h].at \in Loose
      BY <1>1, <1>4, LeaveLocal DEF Reason!Places, Loose
    <2> QED BY <2>1, <2>2, <2>3, <2>4, LooseFacts, OwnStep
  <1> QED BY <1>3, <1>4 DEF Reason!Advance

\* The decision is written over the record the process has seen reach its target.
LEMMA WriteFieldsStep ==
    ASSUME NEW d \in Deployment, ReviewInvariant(d), NEW h \in HandlersOf[d],
           Reason(d)!WriteFields(h)
    PROVE  ReviewInvariant(d)'
  <1>1. SharedTypes(d) /\ handler \in [HandlersOf[d] -> LocalOf(d)] /\ HandlerFacts(d, h)
    BY Typed DEF ReviewInvariant
  <1>2. UNCHANGED <<action, announced, row, faults>> /\ handler[h].at = "fields"
    BY DEF Reason!WriteFields, Reason!At
  <1>3. CASE incident.version = handler[h].version
    <2> DEFINE verdict == handler[h].verdict
    <2>1. /\ incident' = [incident EXCEPT !.version = @ + 1, !.plan = handler[h].plan,
                                         !.decision = verdict.decision]
          /\ Reason(d)!GoTo(h, "announce")
      BY <1>3 DEF Reason!WriteFields
    <2>2. /\ handler[h].plan \in 1..PlansOf[d] /\ verdict \in Reason(d)!Verdict
          /\ verdict.decision = "ALLOW" <=> verdict.picks # {}
          /\ verdict.decision = "ALLOW" => handler[h].plan = 1
          /\ incident.state = Reason(d)!Target[verdict.decision]
          /\ handler[h].plan # 1 => incident.plan # 0 /\ Beyond(d, incident.state)
      BY <1>1, <1>2, <1>3 DEF HandlerFacts, Answered, Asking
    <2>3. \A c \in verdict.picks : action[<<c, handler[h].plan>>] # "ABSENT"
      BY <1>1, <1>2 DEF HandlerFacts, Made, Answered, Asking
    <2>4. handler[h].plan \in 0..PlansOf[d] /\ handler[h].plan # 0
      BY <2>2, Sizes
    <2>5. verdict.decision \in Reason(d)!Decisions
      BY <2>2 DEF Reason!Verdict
    <2> HIDE DEF verdict
    <2>6. /\ incident' \in RecordOf(d) /\ incident'.version = incident.version + 1
          /\ incident'.state = incident.state /\ incident'.plan = handler[h].plan
          /\ incident'.decision = verdict.decision
      <3>1. /\ incident \in RecordOf(d) /\ incident.state \in Reason(d)!IncidentStates
            /\ verdict.decision \in Reason(d)!Decisions \cup {"NONE"}
        BY <1>1, <2>5 DEF SharedTypes, RecordOf
      <3> DEFINE version == incident.version + 1
      <3>2. /\ version \in Nat
            /\ incident' = [incident EXCEPT !.version = version, !.plan = handler[h].plan,
                                           !.decision = verdict.decision]
        BY <2>1, <3>1 DEF RecordOf
      <3> HIDE DEF version
      <3>3. /\ incident' \in RecordOf(d) /\ incident'.version = version
            /\ incident'.state = incident.state /\ incident'.plan = handler[h].plan
            /\ incident'.decision = verdict.decision
        BY <2>4, <3>1, <3>2 DEF RecordOf
      <3> QED BY <3>3 DEF version
    <2>7. SharedTypes(d)'
      BY <1>1, <1>2, <2>6 DEF SharedTypes, RecordOf, RowOf
    <2>8. verdict.decision # "NONE"
      BY <2>5 DEF Reason!Decisions
    <2>9. Onward(d)
      BY <1>2, <2>4, <2>6, <2>8 DEF Onward, Decided, Beyond
    <2>10. incident.state \notin Reason(d)!UnderReview
           /\ (incident.state = "APPROVED" => verdict.decision = "ALLOW")
      BY <2>2, <2>5, ReviewStates DEF Reason!Target, Reason!Decisions
    <2>11. IncidentFacts(d)'
      BY <2>4, <2>6, <2>8, <2>10 DEF IncidentFacts
    <2>12. RowFacts(d)'
      BY <1>1, <1>2, <2>7, <2>9, RowsKept DEF ReviewInvariant
    <2>13. /\ handler' \in [HandlersOf[d] -> LocalOf(d)] /\ Rest(d, h)
           /\ handler'[h].at = "announce" /\ handler'[h].verdict = verdict
           /\ handler'[h].plan = handler[h].plan
      BY <1>1, <2>1, GoToLocal DEF Reason!Places, verdict
    <2>14. handler[h].plan # 1 => Beyond(d, incident'.state)
      BY <2>2, <2>6
    <2>15. HandlerFacts(d, h)'
      BY <1>2, <2>2, <2>3, <2>4, <2>6, <2>13, <2>14
         DEF HandlerFacts, Asking, Answered, Made, verdict
    <2> QED BY <2>7, <2>9, <2>11, <2>12, <2>13, <2>15, OwnStep
  <1>4. CASE Reason(d)!Leave(h, "retry") /\ incident' = incident
    <2>1. SharedTypes(d)'
      BY <1>1, <1>2, <1>4, SharedTypesKept DEF SharedTypes
    <2>2. Onward(d) /\ IncidentFacts(d)'
      BY <1>1, <1>2, <1>4, NothingWritten DEF ReviewInvariant
    <2>3. RowFacts(d)'
      BY <1>1, <1>2, <2>1, <2>2, RowsKept DEF ReviewInvariant
    <2>4. /\ handler' \in [HandlersOf[d] -> LocalOf(d)] /\ Rest(d, h)
          /\ handler'[h].at \in Loose
      BY <1>1, <1>4, LeaveLocal DEF Reason!Places, Loose
    <2> QED BY <2>1, <2>2, <2>3, <2>4, LooseFacts, OwnStep
  <1> QED BY <1>3, <1>4 DEF Reason!WriteFields

\* What is announced for the first time is the process's own verdict: if it names
\* actions, they are those of the first plan version, and exist.
LEMMA AnnounceStep ==
    ASSUME NEW d \in Deployment, ReviewInvariant(d), NEW h \in HandlersOf[d],
           Reason(d)!Announce(h)
    PROVE  ReviewInvariant(d)'
  <1>1. SharedTypes(d) /\ handler \in [HandlersOf[d] -> LocalOf(d)] /\ HandlerFacts(d, h)
    BY Typed DEF ReviewInvariant
  <1> DEFINE verdict == handler[h].verdict
             plan == handler[h].plan
  <1>2. /\ UNCHANGED <<incident, action, row, faults>> /\ handler[h].at = "announce"
        /\ announced' = [announced EXCEPT ![plan] =
                            IF @ = Reason(d)!NoVerdict THEN verdict ELSE @]
        /\ Reason(d)!Leave(h, "ack")
    BY DEF Reason!Announce, Reason!At
  <1>3. /\ plan \in 1..PlansOf[d] /\ verdict \in Reason(d)!Verdict
        /\ verdict.picks # {} => plan = 1
        /\ \A c \in verdict.picks : action[<<c, plan>>] # "ABSENT"
        /\ incident.plan # 0
    BY <1>1, <1>2 DEF HandlerFacts, Made, Answered, Asking
  <1>4. handler' \in [HandlersOf[d] -> LocalOf(d)] /\ Rest(d, h) /\ handler'[h].at = "ack"
    BY <1>1, <1>2, LeaveLocal DEF Reason!Places
  <1> HIDE DEF verdict, plan
  <1>5. /\ announced' \in [1..PlansOf[d] -> Reason(d)!Verdict \cup {Reason(d)!NoVerdict}]
        /\ \A p \in 1..PlansOf[d] :
              announced'[p] = announced[p] \/ (p = plan /\ announced'[p] = verdict)
    BY <1>1, <1>2, <1>3 DEF SharedTypes
  <1>6. SharedTypes(d)'
    BY <1>1, <1>2, <1>5 DEF SharedTypes, RecordOf, RowOf
  <1>7. Onward(d) /\ IncidentFacts(d)'
    BY <1>1, <1>2, NothingWritten DEF ReviewInvariant
  <1>8. RowFacts(d)'
    <2>1. Reason(d)!AckedIsDecided'
      BY <1>2 DEF ReviewInvariant, RowFacts, Reason!AckedIsDecided
    <2>2. ASSUME NEW p \in 1..PlansOf[d], announced'[p].picks # {}
          PROVE  /\ p = 1 /\ incident'.plan # 0
                 /\ \A c \in announced'[p].picks : action'[<<c, p>>] # "ABSENT"
      <3>1. CASE announced'[p] = announced[p]
        BY <1>2, <2>2, <3>1 DEF ReviewInvariant, RowFacts
      <3>2. CASE p = plan /\ announced'[p] = verdict
        BY <1>2, <1>3, <2>2, <3>2
      <3> QED BY <1>5, <3>1, <3>2
    <2> QED BY <2>1, <2>2 DEF RowFacts
  <1>9. Decided(d)'
    BY <1>2, <1>3 DEF Decided, ReviewInvariant, IncidentFacts
  <1>10. HandlerFacts(d, h)'
    BY <1>4, <1>9 DEF HandlerFacts, Asking, Answered, Made
  <1> QED BY <1>4, <1>6, <1>7, <1>8, <1>10, OwnStep

\* The executor takes the incident on, and never loses an action.
LEMMA ExecuteStep ==
    ASSUME NEW d \in Deployment, ReviewInvariant(d), NEW to \in Reason(d)!IncidentStates,
           Reason(d)!Execute(to)
    PROVE  ReviewInvariant(d)'
  <1>1. SharedTypes(d) /\ handler \in [HandlersOf[d] -> LocalOf(d)]
    BY Typed DEF ReviewInvariant
  <1>2. /\ to \in Reason(d)!Transitions[incident.state]
        /\ incident' = [incident EXCEPT !.state = to, !.version = @ + 1]
        /\ UNCHANGED <<announced, row, handler, faults>>
    BY DEF Reason!Execute
  <1>3. /\ action' \in [CandidatesOf[d] \X (1..PlansOf[d]) -> {"ABSENT", "READY", "DONE"}]
        /\ \A a \in CandidatesOf[d] \X (1..PlansOf[d]) :
              action[a] # "ABSENT" => action'[a] # "ABSENT"
    BY <1>1 DEF Reason!Execute, Reason!Plan, SharedTypes
  <1>4. incident' \in RecordOf(d) /\ Onward(d) /\ IncidentFacts(d)'
    BY <1>1, <1>2, <1>3, TransitionMade DEF ReviewInvariant
  <1>5. SharedTypes(d)'
    BY <1>1, <1>2, <1>3, <1>4 DEF SharedTypes, RowOf
  <1>6. RowFacts(d)'
    BY <1>1, <1>2, <1>4, <1>5, RowsKept DEF ReviewInvariant
  <1>7. ASSUME NEW g \in HandlersOf[d]  PROVE HandlerFacts(d, g)'
    BY <1>1, <1>2, <1>4, <1>5, FactsKept DEF ReviewInvariant
  <1>8. Reason(d)!TypeOK'
    BY <1>1, <1>2, <1>5
       DEF SharedTypes, RecordOf, RowOf, LocalOf, Reason!TypeOK, Reason!Plan
  <1> QED BY <1>4, <1>6, <1>7, <1>8 DEF ReviewInvariant

LEMMA ReviewStep ==
    ASSUME NEW d \in Deployment, ReviewInvariant(d), Reason(d)!Next
    PROVE  ReviewInvariant(d)'
  <1>1. CASE \E r \in 2..RowsOf[d] : Reason(d)!Signal(r)
    BY <1>1, SignalStep
  <1>2. CASE \E h \in HandlersOf[d], r \in 1..RowsOf[d] : Reason(d)!Deliver(h, r)
    BY <1>2, DeliverStep
  <1>3. CASE \E h \in HandlersOf[d] : Reason(d)!Handle(h) \/ Reason(d)!Fault(h)
    <2>1. PICK h \in HandlersOf[d] : Reason(d)!Handle(h) \/ Reason(d)!Fault(h)
      BY <1>3
    <2> QED BY <2>1, OpenStep, BuildContextStep, CheckStep, CreateStep, JoinStep, AdvanceStep,
               WriteFieldsStep, AnnounceStep, FinishStep, FaultStep
            DEF Reason!Handle
  <1>4. CASE \E to \in Reason(d)!IncidentStates : Reason(d)!Execute(to)
    BY <1>4, ExecuteStep
  <1> QED BY <1>1, <1>2, <1>3, <1>4 DEF Reason!Next

LEMMA ReviewStutters ==
    ASSUME NEW d \in Deployment, ReviewInvariant(d),
           UNCHANGED <<incident, row, faults, action, announced, handler>>
    PROVE  ReviewInvariant(d)'
  <1>1. SharedTypes(d) /\ handler \in [HandlersOf[d] -> LocalOf(d)]
    BY Typed DEF ReviewInvariant
  <1>2. SharedTypes(d)'
    BY <1>1, SharedTypesKept DEF SharedTypes
  <1>3. Onward(d) /\ IncidentFacts(d)'
    BY <1>1, NothingWritten DEF ReviewInvariant
  <1>4. RowFacts(d)'
    BY <1>1, <1>2, <1>3, RowsKept DEF ReviewInvariant
  <1>5. ASSUME NEW g \in HandlersOf[d]  PROVE HandlerFacts(d, g)'
    BY <1>1, <1>2, <1>3, FactsKept DEF ReviewInvariant
  <1>6. Reason(d)!TypeOK'
    BY <1>1, <1>2 DEF SharedTypes, RecordOf, RowOf, LocalOf, Reason!TypeOK, Reason!Plan
  <1> QED BY <1>3, <1>4, <1>5, <1>6 DEF ReviewInvariant

(***************************************************************************)
(* The theorems.                                                           *)
(***************************************************************************)
ReviewKept ==
    /\ part \in Deployment \cup Service
    /\ \A d \in Deployment : part = d => ReviewInvariant(d)

LEMMA ReviewAlways == Spec => []ReviewKept
  <1>1. Init => ReviewKept
    BY Starts, ReviewStarts DEF ReviewKept
  <1>2. ReviewKept /\ [Next]_vars => ReviewKept'
    <2> SUFFICES ASSUME ReviewKept, [Next]_vars  PROVE ReviewKept'
      OBVIOUS
    <2>1. part' = part /\ \A d \in Deployment : part = d => [Reason(d)!Next]_review
      BY Parted DEF ReviewKept
    <2>2. ASSUME NEW d \in Deployment, part = d  PROVE ReviewInvariant(d)'
      <3>1. CASE Reason(d)!Next
        BY <2>2, <3>1, ReviewStep DEF ReviewKept
      <3>2. CASE UNCHANGED review
        <4>1. UNCHANGED <<incident, row, faults, action, announced, handler>>
          BY <3>2 DEF review, reasoning
        <4> QED BY <2>2, <4>1, ReviewStutters DEF ReviewKept
      <3> QED BY <2>1, <2>2, <3>1, <3>2
    <2> QED BY <2>1, <2>2 DEF ReviewKept
  <1> QED BY <1>1, <1>2, PTL DEF Spec

\* A row is acknowledged only when its incident has been decided or is over: whatever
\* the graph answers, however many processes race, fail or lose their claims.
THEOREM AcknowledgedWasDecided == Spec => []AckedIsDecided
  <1>1. ReviewKept => AckedIsDecided
    BY DEF ReviewKept, ReviewInvariant, RowFacts, AckedIsDecided
  <1> QED BY ReviewAlways, <1>1, PTL

\* What the executor is told to do exists, and it is told one plan: no interleaving of
\* processes, plan versions and retries announces actions of a second plan version, or
\* an action that was not created.
THEOREM AnnouncementsAreBacked == Spec => []AnnouncedIsBacked
  <1>1. ASSUME NEW d \in Deployment, ReviewInvariant(d)
        PROVE  Reason(d)!AnnouncedIsBacked
    <2>1. SharedTypes(d) /\ RowFacts(d)
      BY <1>1, Typed DEF ReviewInvariant
    <2>2. ASSUME NEW p \in 1..PlansOf[d], announced[p].picks # {}
          PROVE  /\ incident.plan >= p
                 /\ \A c \in announced[p].picks : action[<<c, p>>] # "ABSENT"
                 /\ \A q \in 1..PlansOf[d] : announced[q].picks # {} => q = p
      <3>1. p = 1 /\ incident.plan # 0
        BY <2>1, <2>2 DEF RowFacts
      <3>2. incident.plan \in Nat
        BY <2>1, Sizes DEF SharedTypes, RecordOf
      <3> QED BY <2>1, <2>2, <3>1, <3>2 DEF RowFacts
    <2> QED BY <2>2 DEF Reason!AnnouncedIsBacked, Reason!Plan
  <1>2. ReviewKept => AnnouncedIsBacked
    BY <1>1 DEF ReviewKept, AnnouncedIsBacked
  <1> QED BY ReviewAlways, <1>2, PTL
=============================================================================
