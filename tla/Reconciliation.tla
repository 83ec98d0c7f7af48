--------------------------- MODULE Reconciliation ---------------------------
(***************************************************************************)
(* The reconciliation service and scheduler of durable_reconciliation.py.  *)
(*                                                                         *)
(* An action whose outcome is in doubt is settled by reading the provider, *)
(* never by calling it again.  A scheduler scans durable state and appends *)
(* a wake-up row whose identity is the action and the number of the next   *)
(* attempt; a consumer claims the row and runs reconcile_action, which     *)
(* records each attempt and each verification before it moves the action.  *)
(*                                                                         *)
(* One action is modelled: actions share nothing here but their incident.  *)
(* Each consumer (Handler) is one process, and handles one row at a time.  *)
(* A step is one durable write with the synchronous reads that decide it,  *)
(* or one provider read; every write re-reads the record it replaces.      *)
(***************************************************************************)
EXTENDS DurableCore, Integers

CONSTANTS
    Handler,
    MaxAttempts,    \* durable_reconciliation_max_attempts
    Deadline,       \* durable_reconciliation_deadline_seconds, from the last attempt
    BaseBackoff, MaxBackoff,
    Sole,           \* is it the only action of its plan?
    Contended,      \* do other incidents wait for the resource?
    MaxFaults,      \* bound: exceptions and crashes
    None

ASSUME ReconciliationAssumption ==
    /\ MaxAttempts \in Nat \ {0} /\ Deadline \in Nat \ {0}
    /\ BaseBackoff \in Nat \ {0} /\ MaxBackoff \in Nat \ {0}
    /\ Sole \in BOOLEAN /\ Contended \in BOOLEAN
    /\ MaxFaults \in Nat
    /\ None \notin Handler

VARIABLES
    action,     \* state; known: has it a provider_resource_id; by: the last writer
    attempt,    \* the PROVIDER_RECONCILIATION rows reconcile-<action>-<n>
    terminal,   \* the row reconcile-<action>-terminal: its number and time
    reverify,   \* the NETWORK_ACTION rows reverify-<action>-<n>
    incident,   \* state and outcome
    row,        \* the outbox rows out-reconcile-<action, n>
    rollback,   \* the outbox row that asks the executor for a rollback
    foreign,    \* is the resource owned by another incident?
    provider,   \* the operator's view of the resource
    now,        \* seconds since the action's last attempt, up to Deadline
    faults,
    overlapped, \* have two processes ever worked at the same time?
    handler     \* the consumers' local variables, lost in a crash

durable == <<action, attempt, terminal, reverify, incident, rollback>>
outside == <<foreign, provider, now, faults, overlapped>>
vars == <<durable, row, outside, handler>>

Number == 1..(MaxAttempts + 1)
Eligible == {"OUTCOME_UNKNOWN", "RECONCILIATION_REQUIRED", "ACKNOWLEDGED"}
InDoubt == {"OUTCOME_UNKNOWN", "RECONCILIATION_REQUIRED"}
Classes == {"PROVIDER_AVAILABLE", "WAITING_FOR_PROVIDER", "PROVIDER_NOT_FOUND",
            "STILL_UNKNOWN"}
Verdicts == {"IMPROVED", "UNCHANGED", "INSUFFICIENT"}
Statuses == {"TERMINAL", "NOT_ELIGIBLE", "ESCALATED", "DEADLINE_REACHED",
             "READY_FOR_REVERIFICATION", "BACKOFF", "DUE"}
\* ended: found, but not in force any more.
ProviderStates == {"pending", "active", "ended", "absent"}
Places == {"idle", "status", "terminal", "escalate", "outcome", "resume", "renumber",
           "read", "save", "accept", "fail", "defer", "verify", "record", "settle",
           "resolve", "rollback", "ack"}

NotYet == [result |-> "NONE", time |-> 0]
IdleHandler == [at |-> "idle", row |-> 0, n |-> 0, seen |-> "PENDING", got |-> "NONE"]

TypeOK ==
    /\ action \in [state : ActionStates, known : BOOLEAN, by : {"executor", "reconciler"}]
    /\ attempt \in [Number -> [result : Classes \cup {"NONE"}, time : Nat]]
    /\ terminal \in [number : -1..MaxAttempts, time : Nat]
    /\ reverify \in [Number -> [result : Verdicts \cup {"NONE"}, time : Nat]]
    /\ incident \in [state : IncidentStates,
                     outcome : {"NONE", "MANUAL_RECONCILIATION_REQUIRED",
                                "RECOVERY_REQUIRED", "VERIFIED_IMPROVED", "ROLLED_BACK_SAFELY"}]
    /\ row \in [Number -> [state : {"ABSENT", "PENDING", "CLAIMED", "SENT"},
                           owner : Handler \cup {None}]]
    /\ rollback \in {"ABSENT", "PENDING", "SENT"}
    /\ foreign \in BOOLEAN
    /\ provider \in ProviderStates
    /\ now \in 0..Deadline
    /\ faults \in 0..MaxFaults
    /\ overlapped \in BOOLEAN
    /\ handler \in [Handler -> [at : Places, row : Number \cup {0}, n : Number \cup {0},
                                seen : ActionStates, got : Classes \cup Verdicts \cup {"NONE"}]]

\* What the executor leaves behind: an action it could not decide, of an incident
\* it has started on.  A provider identity comes with ACKNOWLEDGED, and the incident
\* is moved to VERIFYING in the step after it.
Init ==
    /\ action \in [state : Eligible, known : BOOLEAN, by : {"executor"}]
    /\ action.state = "ACKNOWLEDGED" => action.known
    /\ action.state = "OUTCOME_UNKNOWN" => ~action.known
    /\ attempt = [n \in Number |-> NotYet]
    /\ terminal = [number |-> -1, time |-> 0]
    /\ reverify = [n \in Number |-> NotYet]
    /\ incident \in [state : {"MITIGATING", "VERIFYING"}, outcome : {"NONE"}]
    /\ action.state = "RECONCILIATION_REQUIRED" /\ action.known => incident.state = "VERIFYING"
    /\ row = [n \in Number |-> [state |-> "ABSENT", owner |-> None]]
    /\ rollback = "ABSENT"
    /\ foreign = FALSE
    /\ provider \in {"pending", "active", "absent"}
    /\ now = 0
    /\ faults = 0
    /\ overlapped = FALSE
    /\ handler = [h \in Handler |-> IdleHandler]

(***************************************************************************)
(* work_status: what durable truth says about the action now.              *)
(***************************************************************************)
\* Attempts are numbered from one without gaps, so the count is the last number.
Count == IF \E n \in Number : attempt[n].result # "NONE"
         THEN CHOOSE n \in Number :
                 attempt[n].result # "NONE" /\ \A k \in Number : k > n => attempt[k].result = "NONE"
         ELSE 0

Backoff(n) ==
    CASE n = 0 -> 0
      [] n > 0 /\ BaseBackoff * 2 ^ (n - 1) <= MaxBackoff -> BaseBackoff * 2 ^ (n - 1)
      [] OTHER -> MaxBackoff

\* The terminal row is the last of the rows sorted by number and time.
EscalationIsLast ==
    /\ terminal.number >= Count
    /\ terminal.number = Count /\ Count > 0 => terminal.time >= attempt[Count].time

LastIsAvailable == Count > 0 /\ attempt[Count].result = "PROVIDER_AVAILABLE"

\* Wrong: the wait runs from the read, though a verification followed it.
NextAtFromRead ==
    IF Count = 0 THEN now
    ELSE IF LastIsAvailable /\ reverify[Count].result # "INSUFFICIENT" THEN now
    ELSE attempt[Count].time + Backoff(Count)

\* The instant up to which the last recorded read keeps the action waiting.
NextAt ==
    IF Count = 0 THEN now
    ELSE IF LastIsAvailable /\ reverify[Count].result = "INSUFFICIENT"
         THEN reverify[Count].time + Backoff(Count)
    ELSE IF LastIsAvailable THEN now
    ELSE attempt[Count].time + Backoff(Count)

\* Wrong: the state of the action is not looked at once it has been sent.
StatusIgnoresState ==
    IF EscalationIsLast THEN "ESCALATED"
    ELSE IF now >= Deadline \/ Count >= MaxAttempts THEN "DEADLINE_REACHED"
    ELSE IF now < NextAt THEN "BACKOFF"
    ELSE IF LastIsAvailable THEN "READY_FOR_REVERIFICATION"
    ELSE "DUE"

WorkStatus ==
    IF action.state \in TerminalActionStates THEN "TERMINAL"
    ELSE IF action.state \notin Eligible THEN "NOT_ELIGIBLE"
    ELSE IF EscalationIsLast THEN "ESCALATED"
    ELSE IF now >= Deadline \/ Count >= MaxAttempts THEN "DEADLINE_REACHED"
    ELSE IF now < NextAt THEN "BACKOFF"
    ELSE IF LastIsAvailable THEN "READY_FOR_REVERIFICATION"
    ELSE "DUE"

(***************************************************************************)
(* The scheduler and the outbox rows it appends.                           *)
(***************************************************************************)
\* Wrong: an action whose time has run out is not scheduled any more.
EnqueueDueOnly ==
    /\ incident.state \in ActiveIncidentStates
    /\ WorkStatus \in {"DUE", "READY_FOR_REVERIFICATION"}
    /\ row[Count + 1].state = "ABSENT"
    /\ row' = [row EXCEPT ![Count + 1] = [state |-> "PENDING", owner |-> None]]
    /\ UNCHANGED <<durable, outside, handler>>

\* enqueue_due: a row of this identity is not appended again, sent or not.
EnqueueDue ==
    /\ incident.state \in ActiveIncidentStates
    /\ WorkStatus \in {"DUE", "READY_FOR_REVERIFICATION", "DEADLINE_REACHED"}
    /\ row[Count + 1].state = "ABSENT"
    /\ row' = [row EXCEPT ![Count + 1] = [state |-> "PENDING", owner |-> None]]
    /\ UNCHANGED <<durable, outside, handler>>

At(h, place) == handler[h].at = place
GoTo(h, place) == handler' = [handler EXCEPT ![h].at = place]
\* The handler returns: all that is left is to acknowledge its row.
Return(h) == handler' = [handler EXCEPT ![h] =
                             [IdleHandler EXCEPT !.at = "ack", !.row = handler[h].row]]
OthersIdle(h) == \A g \in Handler \ {h} : At(g, "idle")
NoteOverlap(h) == overlapped' = (overlapped \/ ~OthersIdle(h))

\* A pending row, or one whose claim has lapsed, whoever held it.
Deliver(h, n) ==
    /\ At(h, "idle")
    /\ row[n].state \in {"PENDING", "CLAIMED"}
    /\ row' = [row EXCEPT ![n] = [state |-> "CLAIMED", owner |-> h]]
    /\ handler' = [handler EXCEPT ![h] = [IdleHandler EXCEPT !.at = "status", !.row = n]]
    /\ NoteOverlap(h)
    /\ UNCHANGED <<durable, foreign, provider, now, faults>>

Acknowledge(h) ==
    /\ At(h, "ack")
    /\ row' = IF row[handler[h].row].owner = h
              THEN [row EXCEPT ![handler[h].row] = [state |-> "SENT", owner |-> None]]
              ELSE row
    /\ handler' = [handler EXCEPT ![h] = IdleHandler]
    /\ UNCHANGED <<durable, outside>>

\* A repository is unavailable or a write loses its race: the row is failed for
\* a retry.  A crash leaves it CLAIMED until the claim lapses.
Fault(h) ==
    /\ ~At(h, "idle")
    /\ faults < MaxFaults
    /\ faults' = faults + 1
    /\ \/ row' = row
       \/ /\ row[handler[h].row].owner = h
          /\ row' = [row EXCEPT ![handler[h].row] = [state |-> "PENDING", owner |-> None]]
    /\ handler' = [handler EXCEPT ![h] = IdleHandler]
    /\ UNCHANGED <<durable, foreign, provider, now, overlapped>>

(***************************************************************************)
(* reconcile_action.                                                       *)
(***************************************************************************)
Branch ==
    CASE foreign -> "ack"
      [] ~foreign /\ WorkStatus = "DEADLINE_REACHED" -> "terminal"
      [] ~foreign /\ WorkStatus = "READY_FOR_REVERIFICATION" -> "resume"
      [] ~foreign /\ WorkStatus = "DUE" -> "read"
      [] OTHER -> "ack"

\* Wrong: a resumed verification takes the next number too.
StartAhead(h) ==
    /\ At(h, "status")
    /\ IF Branch = "ack" THEN Return(h)
       ELSE handler' = [handler EXCEPT ![h].at = Branch,
                            ![h].seen = IF Branch = "resume" THEN action.state ELSE @,
                            ![h].n = IF Branch = "terminal" THEN Count ELSE Count + 1]
    /\ UNCHANGED <<durable, row, outside>>

\* The reads at its start: ownership, then the status, decide the branch.
Start(h) ==
    /\ At(h, "status")
    /\ IF Branch = "ack" THEN Return(h)
       ELSE handler' = [handler EXCEPT ![h].at = Branch,
                            ![h].seen = IF Branch = "resume" THEN action.state ELSE @,
                            ![h].n = IF Branch = "read" THEN Count + 1 ELSE Count]
    /\ UNCHANGED <<durable, row, outside>>

\* Wrong: the terminal row counts itself as one more attempt.
SaveTerminalCounted(h) ==
    /\ At(h, "terminal")
    /\ terminal' = [number |-> handler[h].n + 1, time |-> now]
    /\ GoTo(h, "escalate")
    /\ UNCHANGED <<action, attempt, reverify, incident, rollback, row, outside>>

\* _save_terminal_escalation: the row first, and once ...
SaveTerminal(h) ==
    /\ At(h, "terminal")
    /\ IF terminal.number >= 0
       THEN Return(h) /\ UNCHANGED terminal
       ELSE /\ terminal' = [number |-> handler[h].n, time |-> now]
            /\ handler' = [handler EXCEPT ![h].at = "escalate",
                               ![h].got = "STILL_UNKNOWN"]
    /\ UNCHANGED <<action, attempt, reverify, incident, rollback, row, outside>>

\* ... then the incident, one transition at a time (_transition_to_escalated) ...
Escalate(h) ==
    /\ At(h, "escalate")
    /\ \/ /\ incident.state \in {"APPROVED", "MITIGATING"}
          /\ incident' = [incident EXCEPT !.state =
                              IF incident.state = "APPROVED" THEN "MITIGATING" ELSE "VERIFYING"]
          /\ UNCHANGED handler
       \/ /\ incident.state = "VERIFYING"
          /\ incident' = [incident EXCEPT !.state = "ESCALATED"]
          /\ GoTo(h, "outcome")
       \/ /\ incident.state \notin {"APPROVED", "MITIGATING", "VERIFYING"}
          /\ GoTo(h, "outcome")
          /\ UNCHANGED incident
    /\ UNCHANGED <<action, attempt, terminal, reverify, rollback, row, outside>>

\* ... then what became of it.
RecordOutcome(h) ==
    /\ At(h, "outcome")
    /\ incident' = [incident EXCEPT !.outcome =
                        IF handler[h].got = "PROVIDER_NOT_FOUND"
                        THEN "RECOVERY_REQUIRED" ELSE "MANUAL_RECONCILIATION_REQUIRED"]
    /\ Return(h)
    /\ UNCHANGED <<action, attempt, terminal, reverify, rollback, row, outside>>

Write(s) == action' = [action EXCEPT !.state = s, !.by = "reconciler"]

\* READY_FOR_REVERIFICATION: the provider was seen AVAILABLE, so no second read.
Resume(h) ==
    /\ At(h, "resume")
    /\ IF handler[h].seen \in InDoubt THEN Write("ACKNOWLEDGED") ELSE UNCHANGED action
    /\ handler' = [handler EXCEPT ![h].at = "renumber", ![h].seen = IdleHandler.seen]
    /\ UNCHANGED <<attempt, terminal, reverify, incident, rollback, row, outside>>

\* A verification that was insufficient is not overwritten: the next is a new attempt.
Renumber(h) ==
    /\ At(h, "renumber")
    /\ LET n == handler[h].n IN
       IF reverify[n].result = "INSUFFICIENT"
       THEN /\ attempt' = [attempt EXCEPT ![n + 1] =
                              [result |-> "PROVIDER_AVAILABLE", time |-> now]]
            /\ handler' = [handler EXCEPT ![h].at = "verify", ![h].n = n + 1]
       ELSE GoTo(h, "verify") /\ UNCHANGED attempt
    /\ UNCHANGED <<action, terminal, reverify, incident, rollback, row, outside>>

\* _read_capability: without a provider identity there is nothing to read.
CanRead == action.known

\* Wrong: an action without a provider identity is taken for one the provider lost.
ReadAssumesLost(h) ==
    /\ At(h, "read")
    /\ \E class \in Classes :
          /\ class = "PROVIDER_AVAILABLE" => action.known /\ provider = "active"
          /\ class = "WAITING_FOR_PROVIDER" => action.known /\ provider = "pending"
          /\ class = "PROVIDER_NOT_FOUND" => ~action.known \/ provider = "absent"
          /\ handler' = [handler EXCEPT ![h].at = "save", ![h].got = class]
    /\ UNCHANGED <<durable, row, outside>>

\* adapter.reconcile, awaited; a read that raises, answers nonsense or leaves doubt
\* is STILL_UNKNOWN.
Read(h) ==
    /\ At(h, "read")
    /\ \E class \in Classes :
          /\ class # "STILL_UNKNOWN" => CanRead
          /\ class = "PROVIDER_AVAILABLE" => provider = "active"
          /\ class = "WAITING_FOR_PROVIDER" => provider = "pending"
          /\ class = "PROVIDER_NOT_FOUND" => provider = "absent"
          /\ handler' = [handler EXCEPT ![h].at = "save", ![h].got = class]
    /\ UNCHANGED <<durable, row, outside>>

\* _save_attempt, an upsert, before anything is done about the answer.
SaveAttempt(h) ==
    /\ At(h, "save")
    /\ attempt' = [attempt EXCEPT ![handler[h].n] = [result |-> handler[h].got, time |-> now]]
    /\ GoTo(h, CASE handler[h].got = "PROVIDER_AVAILABLE" -> "accept"
                 [] handler[h].got = "PROVIDER_NOT_FOUND" -> "fail"
                 [] OTHER -> "defer")
    /\ UNCHANGED <<action, terminal, reverify, incident, rollback, row, outside>>

Accept(h) ==
    /\ At(h, "accept")
    /\ IF action.state \in InDoubt THEN Write("ACKNOWLEDGED") ELSE UNCHANGED action
    /\ GoTo(h, "verify")
    /\ UNCHANGED <<attempt, terminal, reverify, incident, rollback, row, outside>>

\* PROVIDER_NOT_FOUND: the action fails, whatever state it is in by now.
FailAction(h) ==
    /\ At(h, "fail")
    /\ Write("FAILED")
    /\ GoTo(h, "escalate")
    /\ UNCHANGED <<attempt, terminal, reverify, incident, rollback, row, outside>>

Defer(h) ==
    /\ At(h, "defer")
    /\ IF action.state = "OUTCOME_UNKNOWN"
       THEN Write("RECONCILIATION_REQUIRED") ELSE UNCHANGED action
    /\ Return(h)
    /\ UNCHANGED <<attempt, terminal, reverify, incident, rollback, row, outside>>

(***************************************************************************)
(* _reverify.                                                              *)
(***************************************************************************)
\* adapter.verify, awaited; VERIFIED_RESOURCE and any mismatch are INSUFFICIENT.
Verify(h) ==
    /\ At(h, "verify")
    /\ \E verdict \in Verdicts :
          /\ verdict # "INSUFFICIENT" => action.known /\ provider = "active"
          /\ handler' = [handler EXCEPT ![h].at = "record", ![h].got = verdict]
    /\ UNCHANGED <<durable, row, outside>>

\* Wrong: the verification is recorded under the attempt before.
RecordUnderPrevious(h) ==
    /\ At(h, "record")
    /\ LET n == IF handler[h].n > 1 THEN handler[h].n - 1 ELSE 1 IN
       reverify' = [reverify EXCEPT ![n] = [result |-> handler[h].got, time |-> now]]
    /\ GoTo(h, "settle")
    /\ UNCHANGED <<action, attempt, terminal, incident, rollback, row, outside>>

RecordVerdict(h) ==
    /\ At(h, "record")
    /\ reverify' = [reverify EXCEPT ![handler[h].n] = [result |-> handler[h].got, time |-> now]]
    /\ GoTo(h, "settle")
    /\ UNCHANGED <<action, attempt, terminal, incident, rollback, row, outside>>

\* The action is re-read and written, whatever state it is in by now.
Settle(h) ==
    /\ At(h, "settle")
    /\ \/ /\ handler[h].got = "IMPROVED"
          /\ Write("SUCCESS")
          /\ GoTo(h, "resolve")
       \/ /\ handler[h].got = "UNCHANGED"
          /\ Write("ROLLBACK_REQUIRED")
          /\ GoTo(h, "rollback")
       \/ /\ handler[h].got = "INSUFFICIENT"
          /\ IF action.state # "RECONCILIATION_REQUIRED"
             THEN Write("RECONCILIATION_REQUIRED") ELSE UNCHANGED action
          /\ Return(h)
    /\ UNCHANGED <<attempt, terminal, reverify, incident, rollback, row, outside>>

\* resolve_if_verified: when the plan's other actions are verified too, and only an
\* incident that is VERIFYING.  Its writes are separate steps in Execution.
Resolve(h) ==
    /\ At(h, "resolve")
    /\ \E whole \in BOOLEAN :
          /\ Sole => whole
          /\ incident' = IF whole /\ action.state = "SUCCESS" /\ incident.state = "VERIFYING"
                         THEN [state |-> "RESOLVED", outcome |-> "VERIFIED_IMPROVED"]
                         ELSE incident
    /\ Return(h)
    /\ UNCHANGED <<action, attempt, terminal, reverify, rollback, row, outside>>

\* _enqueue_phase7c_rollback: one identity, so one row for all time.
EnqueueRollback(h) ==
    /\ At(h, "rollback")
    /\ rollback' = IF rollback = "ABSENT" THEN "PENDING" ELSE rollback
    /\ Return(h)
    /\ UNCHANGED <<action, attempt, terminal, reverify, incident, row, outside>>

(***************************************************************************)
(* The environment: the executor, run by a consumer between two of these   *)
(* rows; the provider; other incidents; time.                              *)
(***************************************************************************)
\* The executor writes by compare-and-swap, so its await counts for nothing: it
\* writes only if the action is still in the state it started from.
ExecutorReconciles ==
    /\ action.state \in InDoubt
    /\ \E s \in {"ACKNOWLEDGED", "FAILED", "RECONCILIATION_REQUIRED"} :
          /\ s = "ACKNOWLEDGED" => action.known /\ provider # "absent"
          /\ s = "FAILED" => action.known /\ provider = "absent"
          /\ action' = [action EXCEPT !.state = s, !.by = "executor"]
    /\ UNCHANGED <<incident, rollback, provider>>

ExecutorVerifies ==
    /\ action.state = "ACKNOWLEDGED"
    /\ incident' = [incident EXCEPT !.state = IF @ = "MITIGATING" THEN "VERIFYING" ELSE @]
    /\ \E s \in {"SUCCESS", "ROLLBACK_REQUIRED", "RECONCILIATION_REQUIRED"} :
          /\ s # "RECONCILIATION_REQUIRED" => action.known /\ provider = "active"
          /\ action' = [action EXCEPT !.state = s, !.by = "executor"]
    /\ UNCHANGED <<rollback, provider>>

\* A rollback that is verified ends the action, and the incident where it is past
\* MITIGATING.
RollbackVerified ==
    /\ action' = [action EXCEPT !.state = "ROLLED_BACK", !.by = "executor"]
    /\ provider' = "absent"
    /\ incident' = IF incident.state \in {"VERIFYING", "RECOVERING"}
                   THEN [state |-> "RESOLVED", outcome |-> "ROLLED_BACK_SAFELY"]
                   ELSE incident

\* One that is unsupported, blocked, refused, ambiguous or not verified leaves the action
\* to be rolled back, and may have released the resource all the same.
RollbackOpen ==
    /\ UNCHANGED action
    /\ provider' \in {provider, "absent"}
    /\ \/ UNCHANGED incident
       \/ /\ incident.state = "VERIFYING"
          /\ \E s \in {"RECOVERING", "ESCALATED"} : incident' = [incident EXCEPT !.state = s]

\* For the outbox row, or in the call that found the action UNCHANGED.
ExecutorRollsBack ==
    /\ action.state = "ROLLBACK_REQUIRED"
    /\ rollback = "PENDING" \/ action.by = "executor"
    /\ rollback' = IF rollback = "PENDING" THEN "SENT" ELSE rollback
    /\ RollbackVerified \/ RollbackOpen

Execute(h) ==
    /\ At(h, "idle")
    /\ ExecutorReconciles \/ ExecutorVerifies \/ ExecutorRollsBack
    /\ NoteOverlap(h)
    /\ UNCHANGED <<attempt, terminal, reverify, row, foreign, now, faults, handler>>

Provider ==
    /\ \/ provider = "pending" /\ provider' \in {"active", "absent"}
       \/ provider = "active" /\ provider' \in {"ended", "absent"}
       \/ provider = "ended" /\ provider' = "absent"
    /\ UNCHANGED <<durable, row, foreign, now, faults, overlapped, handler>>

\* A lease outlasts the deadline (resource_lease_seconds 300, deadline 120), so
\* another incident can take the resource over only after it.
Contend ==
    /\ Contended
    /\ now = Deadline
    /\ foreign' = TRUE
    /\ UNCHANGED <<durable, row, provider, now, faults, overlapped, handler>>

Tick ==
    /\ now < Deadline
    /\ now' = now + 1
    /\ UNCHANGED <<durable, row, foreign, provider, faults, overlapped, handler>>

(***************************************************************************)
(* The specification.                                                      *)
(***************************************************************************)
Reconcile(h) ==
    \/ Acknowledge(h) \/ Start(h) \/ SaveTerminal(h) \/ Escalate(h) \/ RecordOutcome(h)
    \/ Resume(h) \/ Renumber(h) \/ Read(h) \/ SaveAttempt(h) \/ Accept(h)
    \/ FailAction(h) \/ Defer(h) \/ Verify(h) \/ RecordVerdict(h) \/ Settle(h)
    \/ Resolve(h) \/ EnqueueRollback(h)

Next ==
    \/ EnqueueDue
    \/ \E h \in Handler :
          \/ \E n \in Number : Deliver(h, n)
          \/ Reconcile(h) \/ Fault(h) \/ Execute(h)
    \/ Provider \/ Contend \/ Tick

Spec == Init /\ [][Next]_vars

\* The scheduler scans every few seconds, a consumer polls and its handler goes on,
\* and time passes.  Nothing is assumed of the executor, the provider, or others.
Fairness ==
    /\ WF_vars(EnqueueDue)
    /\ WF_vars(Tick)
    /\ \A h \in Handler :
          WF_vars(Reconcile(h)) /\ WF_vars(\E n \in Number : Deliver(h, n))

FairSpec == Spec /\ Fairness

(***************************************************************************)
(* Properties.                                                             *)
(***************************************************************************)
\* The provider is not read for ever: attempts are numbered without gaps and stay
\* within max_attempts, however rows are redelivered and handlers overlap.
AttemptBudget ==
    \A n \in Number :
       attempt[n].result # "NONE" =>
          n <= MaxAttempts /\ \A k \in 1..n : attempt[k].result # "NONE"

\* An action is written off only when the provider's resource is gone: doubt, an
\* unknown identity or a failed read never fails it.
FailedMeansGone == action.state = "FAILED" => provider = "absent"

\* While processes do not overlap, an action the reconciler settled stands on the
\* verification recorded under its last attempt, crashes and redeliveries included.
SettledOnEvidence ==
    ~overlapped /\ action.by = "reconciler" =>
       /\ action.state = "SUCCESS" => reverify[Count].result = "IMPROVED"
       /\ action.state = "ROLLBACK_REQUIRED" => reverify[Count].result = "UNCHANGED"

\* While processes do not overlap, two recorded attempts are at least the backoff
\* of the earlier one apart, which starts at its verification where it had one.
BackoffKept ==
    ~overlapped =>
       \A n \in 1..(MaxAttempts - 1) :
          attempt[n + 1].result # "NONE" =>
             /\ attempt[n + 1].time >= attempt[n].time + Backoff(n)
             /\ reverify[n].result = "INSUFFICIENT" =>
                   attempt[n + 1].time >= reverify[n].time + Backoff(n)

\* While processes do not overlap, a settled action stays settled: a redelivered
\* or late wake-up finds it terminal and writes nothing.
SettledStays ==
    [][~overlapped' /\ action.state \in TerminalActionStates => action' = action]_vars

Doubtful == action.state \in Eligible /\ incident.state \in ActiveIncidentStates
Escalated == terminal.number >= 0
\* The identity of the next wake-up belongs to a row that is already SENT.
WakeUpSpent == row[Count + 1].state = "SENT"

\* Doubt about an action ends, settled or escalated, or else its next wake-up was
\* used up by a row that was acknowledged without recording an attempt.
DoubtEndsOrWakeUpSpent == Doubtful ~> (~Doubtful \/ Escalated \/ WakeUpSpent)

\* What the tests of bounded attempts and of the deadline say: doubt always ends.
DoubtEnds == Doubtful ~> (~Doubtful \/ Escalated)

\* reconciliation_public_view: how the action is shown while its incident is active.
ViewStatus ==
    IF Escalated /\ EscalationIsLast THEN "ESCALATED"
    ELSE IF action.state = "SUCCESS" THEN "RESOLVED"
    ELSE IF action.state \in {"ROLLBACK_REQUIRED", "FAILED"} THEN "RECOVERY_REQUIRED"
    ELSE IF Count > 0 /\ reverify[Count].result = "INSUFFICIENT" THEN "WAIT_AND_REVERIFY"
    ELSE IF action.state = "ACKNOWLEDGED" THEN "VERIFYING"
    ELSE IF Count > 0 /\ attempt[Count].result = "WAITING_FOR_PROVIDER" THEN "WAITING_FOR_PROVIDER"
    ELSE "RECONCILIATION_REQUIRED"

\* What the public view reports as RESOLVED is resolved: the incident of an action
\* the reconciler verified, the only one of its plan, does not stay open.
VerifiedIsResolved ==
    (action.by = "reconciler" /\ ViewStatus = "RESOLVED")
        ~> (incident.state \notin ActiveIncidentStates)
=============================================================================
