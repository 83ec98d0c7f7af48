----------------------------- MODULE Reasoning -----------------------------
(***************************************************************************)
(* The durable decision service of durable_reasoning.py: it handles the    *)
(* rows DURABLE_INCIDENT_READY of one incident and takes it from DETECTED  *)
(* to APPROVED, BLOCKED or ESCALATED, creates the READY actions of the     *)
(* plan and announces the decision to the executor.                        *)
(*                                                                         *)
(* What the graph of agents.py answers is an oracle: it reads live and     *)
(* durable evidence and a language model, so two runs for one incident may *)
(* answer differently.  A consumer (Handler) is one process.  A step is    *)
(* one durable write with the reads that decide it.                        *)
(***************************************************************************)
EXTENDS DurableCore, Integers

CONSTANTS
    Handler,
    Candidate,      \* the mutations a plan can pick
    Rows,           \* bound: High events of the incident
    MaxPlans,       \* bound: plan versions
    MaxFaults,      \* bound: exceptions and crashes
    None

ReasoningAssumption ==
    /\ Rows \in Nat \ {0} /\ MaxPlans \in Nat \ {0} /\ MaxFaults \in Nat
    /\ None \notin Handler

VARIABLES
    incident,   \* state, version, plan_version and warden_decision
    action,     \* the action of a candidate in a plan version
    announced,  \* the outbox row out-decision-<incident, plan version>
    row,        \* the DURABLE_INCIDENT_READY rows of the incident
    handler,    \* the consumers' local variables, lost in a crash
    faults

vars == <<incident, action, announced, row, handler, faults>>

Plan == 1..MaxPlans
Decisions == {"ALLOW", "BLOCK", "ESCALATE"}
Target == [ALLOW |-> "APPROVED", BLOCK |-> "BLOCKED", ESCALATE |-> "ESCALATED"]
Verdict == [decision : Decisions, picks : SUBSET Candidate]
NoVerdict == [decision |-> "NONE", picks |-> {}]
Places == {"idle", "open", "context", "check", "create", "join", "advance", "fields",
           "announce", "ack", "retry"}
IdleHandler == [at |-> "idle", row |-> 0, version |-> 0, state |-> "DETECTED", plan |-> 0,
                verdict |-> NoVerdict]

\* The states a decision passes through, in order, before its target.
Path == <<"DETECTED", "EVALUATING", "PLANNED", "WARDEN_REVIEW">>
UnderReview == {Path[i] : i \in 1..4}
NextOnPath(state, target) ==
    LET i == CHOOSE i \in 1..4 : Path[i] = state
    IN  IF i = 4 THEN target ELSE Path[i + 1]

TypeOK ==
    /\ incident \in [state : IncidentStates, version : Nat, plan : 0..MaxPlans,
                     decision : Decisions \cup {"NONE"}]
    /\ action \in [Candidate \X Plan -> {"ABSENT", "READY", "DONE"}]
    /\ announced \in [Plan -> Verdict \cup {NoVerdict}]
    /\ row \in [1..Rows -> [state : {"ABSENT", "PENDING", "CLAIMED", "SENT"},
                            owner : Handler \cup {None}]]
    /\ handler \in [Handler -> [at : Places, row : 0..Rows, version : Nat,
                                state : IncidentStates, plan : 0..MaxPlans,
                                verdict : Verdict \cup {NoVerdict}]]
    /\ faults \in 0..MaxFaults

\* Ingestion commits the incident and its first row together.
Init ==
    /\ incident = [state |-> "DETECTED", version |-> 0, plan |-> 0, decision |-> "NONE"]
    /\ action = [a \in Candidate \X Plan |-> "ABSENT"]
    /\ announced = [p \in Plan |-> NoVerdict]
    /\ row = [r \in 1..Rows |-> [state |-> IF r = 1 THEN "PENDING" ELSE "ABSENT",
                                 owner |-> None]]
    /\ handler = [h \in Handler |-> IdleHandler]
    /\ faults = 0

At(h, place) == handler[h].at = place
GoTo(h, place) == handler' = [handler EXCEPT ![h].at = place]
\* The handler returns or raises: only its row still matters.
Leave(h, place) ==
    handler' = [handler EXCEPT ![h] = [IdleHandler EXCEPT !.at = place, !.row = handler[h].row]]

(***************************************************************************)
(* The rows.                                                               *)
(***************************************************************************)
\* One more High event of an incident that is still active.
Signal(r) ==
    /\ row[r].state = "ABSENT" /\ row[r - 1].state # "ABSENT"
    /\ incident.state \in ActiveIncidentStates
    /\ row' = [row EXCEPT ![r].state = "PENDING"]
    /\ UNCHANGED <<incident, action, announced, handler, faults>>

\* A pending row, or one whose claim has lapsed.
Deliver(h, r) ==
    /\ At(h, "idle")
    /\ row[r].state \in {"PENDING", "CLAIMED"}
    /\ row' = [row EXCEPT ![r] = [state |-> "CLAIMED", owner |-> h]]
    /\ handler' = [handler EXCEPT ![h] = [IdleHandler EXCEPT !.at = "open", !.row = r]]
    /\ UNCHANGED <<incident, action, announced, faults>>

Owns(h) == row[handler[h].row] = [state |-> "CLAIMED", owner |-> h]
Finish(h, state) ==
    /\ row' = IF Owns(h) THEN [row EXCEPT ![handler[h].row] = [state |-> state, owner |-> None]]
              ELSE row
    /\ handler' = [handler EXCEPT ![h] = IdleHandler]
    /\ UNCHANGED <<incident, action, announced, faults>>

Acknowledge(h) == At(h, "ack") /\ Finish(h, "SENT")

\* Wrong: a decision that could not be made is taken for made.
RetryAcknowledges(h) == At(h, "retry") /\ Finish(h, "SENT")

\* DurableDecisionRetry, VersionConflict and InvalidTransition: delivered again.
Retry(h) == At(h, "retry") /\ Finish(h, "PENDING")

\* Any other exception, or the death of the process (the claim lapses).
Fault(h) ==
    /\ faults < MaxFaults
    /\ handler[h].at \notin {"idle", "retry"}
    /\ faults' = faults + 1
    /\ \/ Leave(h, "retry")
       \/ handler' = [handler EXCEPT ![h] = IdleHandler]
    /\ UNCHANGED <<incident, action, announced, row>>

(***************************************************************************)
(* handle_durable_incident_ready.                                          *)
(***************************************************************************)
\* _existing_completion: the fields say what the state says.
Completed == incident.decision # "NONE" /\ incident.state = Target[incident.decision]

\* A decided or closed incident is acknowledged.
Open(h) ==
    /\ At(h, "open")
    /\ IF Completed \/ incident.state \in ClosedIncidentStates
       THEN Leave(h, "ack")
       ELSE GoTo(h, "context")
    /\ UNCHANGED <<incident, action, announced, row, faults>>

\* The context is built from a second read of the incident, whatever it is by then, and
\* the graph is asked.
BuildContext(h) ==
    /\ At(h, "context")
    /\ incident.plan < MaxPlans
    /\ handler' = [handler EXCEPT ![h].at = "check", ![h].version = incident.version,
                      ![h].state = incident.state, ![h].plan = incident.plan + 1]
    /\ UNCHANGED <<incident, action, announced, row, faults>>

\* The answer is used only for the incident it was asked about.  ALLOW needs at
\* least one action; evidence that is missing escalates.
Check(h) ==
    /\ At(h, "check")
    /\ \/ Completed /\ Leave(h, "ack")
       \/ /\ ~Completed
          /\ <<incident.version, incident.state>> # <<handler[h].version, handler[h].state>>
          /\ Leave(h, "retry")
       \/ /\ ~Completed
          /\ <<incident.version, incident.state>> = <<handler[h].version, handler[h].state>>
          /\ \E verdict \in Verdict :
                /\ verdict.decision = "ALLOW" <=> verdict.picks # {}
                /\ handler' = [handler EXCEPT ![h].verdict = verdict, ![h].at =
                                  IF verdict.decision = "ALLOW" THEN "create" ELSE "join"]
    /\ UNCHANGED <<incident, action, announced, row, faults>>

Mine(h) == handler[h].verdict.picks \X {handler[h].plan}

\* Wrong: one action is taken for the whole plan.
CreateFirst(h) ==
    /\ At(h, "create")
    /\ \E a \in Mine(h) :
          action' = [action EXCEPT ![a] = IF @ = "ABSENT" THEN "READY" ELSE @]
    /\ GoTo(h, "join")
    /\ UNCHANGED <<incident, announced, row, faults>>

\* create_or_get, one candidate after the other.
Create(h) ==
    /\ At(h, "create")
    /\ \/ \E a \in Mine(h) :
             /\ action[a] = "ABSENT"
             /\ action' = [action EXCEPT ![a] = "READY"]
             /\ UNCHANGED handler
       \/ /\ \A a \in Mine(h) : action[a] # "ABSENT"
          /\ GoTo(h, "join")
          /\ UNCHANGED action
    /\ UNCHANGED <<incident, announced, row, faults>>

\* The transition just made, or the record just read, decides the next one.
Step(h, record) ==
    LET reached == record.state = Target[handler[h].verdict.decision]
    IN  IF reached \/ record.state \in UnderReview
        THEN handler' = [handler EXCEPT ![h].at = IF reached THEN "fields" ELSE "advance",
                            ![h].state = record.state, ![h].version = record.version]
        ELSE Leave(h, "retry")

\* _advance reads the incident again, whatever it has become since the check.
Join(h) ==
    /\ At(h, "join")
    /\ Step(h, incident)
    /\ UNCHANGED <<incident, action, announced, row, faults>>

\* transition(): the next state is chosen from the copy, and allowed from the record.
Advance(h) ==
    /\ At(h, "advance")
    /\ LET to == NextOnPath(handler[h].state, Target[handler[h].verdict.decision])
       IN  IF to \in Transitions[incident.state]
           THEN /\ incident' = [incident EXCEPT !.state = to, !.version = @ + 1]
                /\ Step(h, incident')
           ELSE Leave(h, "retry") /\ UNCHANGED incident
    /\ UNCHANGED <<action, announced, row, faults>>

\* The decision and its plan version, under the version of the copy.
WriteFields(h) ==
    /\ At(h, "fields")
    /\ IF incident.version = handler[h].version
       THEN /\ incident' = [incident EXCEPT !.version = @ + 1, !.plan = handler[h].plan,
                                            !.decision = handler[h].verdict.decision]
            /\ GoTo(h, "announce")
       ELSE Leave(h, "retry") /\ UNCHANGED incident
    /\ UNCHANGED <<action, announced, row, faults>>

\* _decision_outbox: one row for each plan version; a second append changes nothing.
Announce(h) ==
    /\ At(h, "announce")
    /\ announced' = [announced EXCEPT ![handler[h].plan] =
                        IF @ = NoVerdict THEN handler[h].verdict ELSE @]
    /\ Leave(h, "ack")
    /\ UNCHANGED <<incident, action, row, faults>>

(***************************************************************************)
(* The executor, by what it does to the incident: it runs the announced    *)
(* actions of an approved plan and then moves the incident on.             *)
(***************************************************************************)
Announced == {a \in Candidate \X Plan : a[1] \in announced[a[2]].picks}

Execute(to) ==
    /\ \/ incident.state = "APPROVED" /\ \E a \in Announced : action[a] = "READY"
       \/ incident.state \in {"MITIGATING", "VERIFYING", "RECOVERING"}
    /\ to \in Transitions[incident.state]
    /\ incident' = [incident EXCEPT !.state = to, !.version = @ + 1]
    /\ action' = [a \in Candidate \X Plan |->
                     IF a \in Announced /\ action[a] = "READY" THEN "DONE" ELSE action[a]]
    /\ UNCHANGED <<announced, row, handler, faults>>

Handle(h) ==
    Open(h) \/ BuildContext(h) \/ Check(h) \/ Create(h) \/ Join(h) \/ Advance(h)
    \/ WriteFields(h) \/ Announce(h) \/ Acknowledge(h) \/ Retry(h)

Next ==
    \/ \E r \in 2..Rows : Signal(r)
    \/ \E h \in Handler, r \in 1..Rows : Deliver(h, r)
    \/ \E h \in Handler : Handle(h) \/ Fault(h)
    \/ \E to \in IncidentStates : Execute(to)

Spec == Init /\ [][Next]_vars

\* A process that handles a row goes on with it, and a row that waits is delivered to
\* some process that is free; an executor takes up what was announced.
Fairness ==
    /\ \A h \in Handler : WF_vars(Handle(h))
    /\ \A r \in 1..Rows : WF_vars(\E h \in Handler : Deliver(h, r))
    /\ WF_vars(incident.state = "APPROVED" /\ \E to \in IncidentStates : Execute(to))

FairSpec == Spec /\ Fairness

(***************************************************************************)
(* Properties.                                                             *)
(***************************************************************************)
\* A row is acknowledged only when its incident has been decided or is over; a
\* process that lost a race, or gave up, leaves the row to be delivered again.
AckedIsDecided ==
    \A r \in 1..Rows : row[r].state = "SENT" =>
        incident.decision # "NONE" \/ incident.state \in ClosedIncidentStates

\* What the executor is told to do is backed: the incident has reached the plan, every
\* action it names exists, and it is the only plan the executor is ever told to do,
\* however many rows, processes and plan versions there were.  (A plan version that was
\* blocked or escalated may be written over by the lower one of a slower process.)
AnnouncedIsBacked ==
    \A p \in Plan : announced[p].picks # {} =>
        /\ incident.plan >= p
        /\ \A c \in announced[p].picks : action[<<c, p>>] # "ABSENT"
        /\ \A q \in Plan : announced[q].picks # {} => q = p

\* Review comes to an end: whatever the oracle answers, however processes race and
\* though one of them fails, an incident does not stay undecided on the way.
ReviewEnds == incident.state \in UnderReview ~> incident.state \notin UnderReview

\* What "one retry-safe consumer" promises: an approved plan reaches the executor.
\* Not so when the process fails after the decision is written and before it is
\* announced: the row comes again, finds the decision and is acknowledged.
ApprovedIsAnnounced ==
    incident.state = "APPROVED" ~> (incident.state # "APPROVED" \/ Announced # {})
=============================================================================
