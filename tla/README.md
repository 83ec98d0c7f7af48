# HARIS in TLA+

HARIS watches a mobile network, reasons about incidents with a graph of agents,
and mutates the operator's network (QoD sessions, geofences, slice attachments)
through Nokia's APIs.  What makes that hard is not the reasoning: it is that a
mutation must be made at most once, must be verified before it is called a
success, and must survive executors that race, provider calls whose outcome
nobody knows, exceptions between any two durable writes, and restarts.  This
directory specifies that part of the program in TLA+, model-checks it with TLC
on small instances, and proves the central safety properties with TLAPS for
every number of actions, incidents, resources and executors; and the outbox through
which every service hands work to the next, for every number of rows and
consumers.  The services around these two (ingestion, reasoning, reconciliation,
cleanup, dispatch, history, the planning graph) are each a module of their own.

Paths below are relative to the repository root, as checked out under `src/`.

## 1. Inventory

The authoritative state is in Postgres (Supabase), behind repository classes
with an in-memory twin in `durable_core.py`.  Services exchange work through one
outbox table: a service commits its decision together with a row naming the next
service, a consumer claims the row, runs the handler, and acknowledges.  Rows
are delivered at least once.

    event -> Ingestion -> [DURABLE_INCIDENT_READY]  -> Reasoning
          -> [DURABLE_DECISION_READY] -> Executor -> [DURABLE_ACTION_*] -> Reconciliation
             restart: Lifecycle.reconstruct marks, validates, then serves

| component | state it keeps | operations | what is hard | what makes it correct |
|---|---|---|---|---|
| Executor (`durable_execution.py`) | actions, rollback commands, incident state and outcome, verification records, resource leases, cost ledger | `execute_ready_action`, `reconcile_action`, `_verify_known`, `_maybe_resolve`, `_rollback`, validation cleanup | an `await` of the provider between any two writes; redelivered rows run in parallel; authority withdrawn half-way | at most one mutation; SUCCESS only when verified; no effect written off; a resolved incident is settled |
| Actuator adapter (`durable_execution.py`, `nokia_clients.py`) | none (the provider's) | `execute`, `verify`, `reconcile`, `rollback`, `verify_rollback` | accepted, refused, or lost: the caller may not learn which | its answers say no more than it knows |
| Repositories (`durable_core.py`, `postgres_persistence.py`, `supabase/migrations/`) | the tables | compare-and-swap on a version; leases; upserts | a stale writer; a check and a write that are two calls | versions only go forward; one owner of a live lease |
| Recovery record (`recovery_consistency.py`) | the incident's one recovery record and its projection on the incident | `save_recovery_and_repair` | two records under two versions | forward only; the projection catches up |
| Outbox consumer (`runtime_events.py`, `durable_core.py`) | rows with owner, lease and claim generation | claim, renew, ack, fail | the lease ends while the handler runs | a superseded claim can neither acknowledge nor fail the row |
| Restart (`platform_lifecycle.py`) | lifecycle status, reason | `mark_restart_unknown`, `_validate_reconstruction` | an old process may still be running | nothing is resent; what the code leaves behind passes the validation |
| Ingestion (`runtime_events.py`, `platform_events.py`) | inbox of event ids, incidents, sequence numbers, projections | `ingest`, correlation | duplicates, late and reordered events | an event counts once; a closed incident stays closed |
| Reasoning service (`durable_reasoning.py`) | incident state up to APPROVED or BLOCKED, decision | claim, run the graph, commit | a crash at each of its writes; a row lost after the commit | every decided incident is announced |
| Reconciliation service (`durable_reconciliation.py`) | attempts, deadline, next wake-up | scan, handle, `_reverify`, escalate | read before an `await`, written after | attempts are bounded; wake-ups are not lost |
| Planning graph (`agents.py`, `playbooks.py`) | the cycle's state; the fixture client's resources | sense, triage, Warden, actuate, verify, roll back, learn | cycles share one client; an actuator that stops half-way; advisory models that rank | what a cycle keeps helped; a device's protection is not split |
| Audit history (`memory.py`) | hash-chained records, a copy in every process | `remember_incident`, append, reload | writers race for the tail; answers are lost | one chain, which verifies everywhere |
| Dispatch (`dispatch.py`, `nokia_clients.py`, `agents.py`) | pending dispatches, history, OAuth states, tokens | evaluate, link, consent, callback, fallback | approval racing expiry; links replayed | nobody is asked twice, nor two at once |
| Legacy incident path (`incidents.py`, `scheduler.py`) | in-memory incidents | upsert, run cycle | quarantined in production | never runs beside the durable path |
| Network state, event bus, runtime | in-memory projections, subscriber queues | apply, publish | bounded queues that drop | disposable: rebuilt from durable state |
| API, console, transport, configuration, live scripts | sessions, settings | HTTP, Streamlit, Supabase REST | I/O | out of scope (section 8) |

The hazards that follow from the right-hand columns, each at its line, are listed
in `PROJECT.json` under `hazards` with the properties that would catch them.

## 2. Modules

| module | contents |
|---|---|
| `DurableCore` | vocabulary of `durable_core.py` and `recovery_consistency.py`: incident, action and recovery states, the transitions the repositories accept, the families a restart reads |
| `Execution` | the executor, the consumer loop around it, the provider, crashes and restarts |
| `MCExecution` | instances of `Execution` for TLC; one `.cfg` per run |
| `ExecutionProofs` | theorems about `Execution` for all constants: copies, legal moves, licences |
| `ExecutionOutcomes` | the same: what the end states say of the network, exclusion, the claim |
| `Delivery` | abstract: a row is offered once, stays open until handled, is closed once |
| `Outbox` | the outbox table, its consumers, their heartbeats, time; implements `Delivery` |
| `MCOutbox` | instances of `Outbox` for TLC |
| `OutboxProofs` | theorems about `Outbox` for all constants, the refinement and the heartbeat included |
| `Reconciliation`, `MCReconciliation` | the reconciliation service and scheduler for one action, and its instances |
| `ReconciliationProofs` | theorems about `Reconciliation` for all constants |
| `Reasoning`, `MCReasoning` | the decision service for one incident; the instance for its finding |
| `Ingestion` | readings of one cell, planned and committed by several processes |
| `RecoveryRecord` | the recovery record and the incident's copy of it |
| `Cleanup` | the operator's cleanup of a validation run |
| `TrustedDispatch` | the number verification of engineers for an incident |
| `AuditHistory` | the hash-chained history of several processes |
| `CycleGraph` | planning cycles over the fixture client, and the playbooks |
| `Services` | composes `Reasoning` and the six modules after it as one state space, and states their properties |
| `MCServices` | an instance of `Services` for TLC |
| `ServicesProofs` | theorems about `Services` for all constants: recovery copies, cleanup, history |
| `ServicesReview` | the same: the reasoning service |
| `ServicesEvents` | the same: ingestion and trusted dispatch |
| `ServicesCycles` | the same: the planning graph, and the types of all services |

### 2.1 How `Execution` corresponds to the code

An executor (`Worker`) is one activation of the outbox consumer working through
the actions of one incident's row.  Its record `worker[w]` is the handler's local
variables: `at` the place it is suspended, `act` the action, `seen` its copy of
the action row (whose version every compare-and-swap uses), `held` the version of
its copy of the rollback command, `got` the provider's last answer.  A crash
erases it; nothing else is erased.

One step is one durable write with the synchronous reads that decide it, or one
provider call.  Between two steps of one executor every other process may act;
this is what an `await` and separate repository calls permit.

| method | places, in order |
|---|---|
| consumer loop | `idle`, `next`: `Deliver`, `Acknowledge`, `Raise` (an exception fails the row) |
| `execute_ready_action` | `Dispatch` branches on the state read (`Route`); `Own`, `Recheck`, `Claim` (READY to SENT), `Confirm`, `Reserve`, `CallProvider`, `Result`, `RecordFailure`; refusals go through `Block`, `BlockIncident` |
| `reconcile_action` | `Reconcile` (a read), `Reconciled` |
| `_verify_known` | `Verify`, `Readback`, `Record` (an upsert), `Publish` (the incident's evidence), `Commit` |
| `_maybe_resolve` | `Resolve`, `RecordOutcome`, `Release` (one lease at a time) |
| `_rollback` | `ModeForbidsUndo`, `CannotUndo`, `Escalate`, `CreateUndo`, `ClaimUndo`, `RecordReleasing`, `ConfirmUndo`, `CallUndo`, `UndoResult`, `UndoAmbiguous`, `UndoPartial`, `UndoReadback`, `UndoRecover`, `UndoCommit`, `UndoOriginal`, `UndoComplete`, `UndoResolve`, `UndoOutcome` |
| `mark_restart_unknown`, `_validate_reconstruction` | `Reconstruct` after a `Crash`; `Overlap` when a new process starts beside the old |

Two failure actions stand for every exception: `Conflict`, a compare-and-swap that
loses or a recovery record that may not move, which raises whenever the code
raises; and `Fault`, a repository or lock that is unavailable at any step.  Both end
in `Raise`: the row is PENDING again if this executor still holds the claim.

The provider is `provider[a]`: whether the effect is on the network, and how many
mutation and release calls it received.  The adapter's answers are related to the
effect only as far as the adapter knows it: ACCEPTED implies the effect, an
explicit failure implies none, AMBIGUOUS implies nothing.  A QoD request is never
answered by an explicit failure, because the adapter maps every QoD error to an
ambiguous one.

### 2.2 Abstractions, and why they lose nothing the properties see

* `allowed[i]` is everything `_eligibility_reason` reads besides the incident's
  state: Warden decision, plan version, trust record, authorization age.  It can
  turn false at any moment and does not come back.
* `configured` is the mode and the adapter's configuration.  It changes only at a
  restart.  Whether a slice is OPERATING is read live, so `Dispatch` picks it (`Capable`).  While it is false both `ModeForbidsUndo` (the mode forbids mutations)
  and `CannotUndo` (the adapter lacks its preconditions) are possible.
* A lease can lapse only after the authority has aged out: both last 300 s
  (`rollback_seconds`, `resource_lease_seconds`), and the authorization precedes
  the acquisition of the lease.  `Exclusive` depends on these two settings being
  equal, and on nothing else about time.
* The claim of a row may lapse at any time (`Deliver` takes a CLAIMED row), which
  over-approximates the outbox lease and its heartbeat.  `Outbox` models them.
* The spend ceiling and plan-conflict checks are left out: the planner bounds a
  plan to the ceiling before it is committed (`agents.py:1018,1088,1136`).
* `_append_outbox` notifications are left out.  Their failure after a write is a `Fault`
  at the place that follows the write.
* An incident is written after a fresh read; losing that race is a `Fault`.
* RESOURCE is the verdict VERIFIED_RESOURCE, stored as IMPROVED with
  `mitigation_improved` false; UNCHANGED stands for DEGRADED, which the executor
  treats alike.
* `mark_restart_unknown` is one step, whereas the Postgres repository does a
  compare-and-swap per row; the executors' own compare-and-swaps commute with it
  row by row.
* The explicit-failure branch of a rollback raised as an exception is
  unreachable for QoD and geofences, the only reversible kinds, and is left out.

### 2.3 How `Outbox` corresponds to the code

`row` is the table `haris_event_outbox`; `consumer[c]` the local variables of one
`DurableOutboxWakeupConsumer`: `at` where `process_once` is, `held` the claimed
rows it has not finished with (their generation and what is left of their lease as
it was told), `cur` the row at hand, `heart` and `beat` the heartbeat task (`first` until
its first renewal, `beating` after it) and the time to its next renewal.  `handled` is a history variable.

| code | actions |
|---|---|
| `append` | `Append` |
| `process_once`: `claim` | `Claim`; if the answer is lost the rows are claimed and nobody works on them |
| the expiry check of the loop, the start of the handler and its heartbeat | `Start` |
| `_renew_claim` | `Renew` |
| the handler, publication and `post_commit` | `Handle` (returns or raises) |
| `ack`; the heartbeat's exception before it; `fail` | `Acknowledge`, `HeartbeatLost`, `Fail` |
| death of a process | `Crash`: the next one has a new owner id, for which a consumer without copies stands |
| time | `Tick` |

Time is counted down to the expiry instant 0, so that "not yet", "at" and "after"
it are the three values the code's comparisons distinguish: claiming
needs `claim_expires_at < now` (`left < 0`), renewing `> now` (`left > 0`), starting
`> now` on the consumer's copy.  Database and process share one clock; their skew is
not modelled.  The procedures are those of migration 007; the in-memory twin does
not look at the state in `ack` and `fail`, which shows nowhere because its
calls do not lose answers.  A row is its place in the order of `created_at`.
FAILED does not occur: `process_once` always asks for a retry.  `is_ready` and the
polling interval only delay a claim and are left to the stuttering of `Spec`.

A renewal that the database refuses ends the heartbeat with `ResourceAlreadyOwned`
in memory and with `RepositoryUnavailable` over HTTP (`refused` and `broken`: the
first leaves the row, the second fails it).  `RenewReaches` says whether the
transport passes renewals on: TRUE for the in-memory repository, FALSE
for the production transport, whose allow-list lacks the procedure.

With `Prompt`, time passes only while every consumer is running a handler or polling,
and no due renewal is delayed: the most favourable scheduling the code can hope for.

### 2.4 How `Reconciliation` corresponds to the code

One action, which the executor left in doubt or acknowledged.  `attempt`,
`reverify` and `terminal` are the three kinds of verification rows the service
writes, numbered as their identities are; `row` the wake-up rows, whose identity is the
number of the next attempt; `now` is the time since the last attempt.

| code | actions |
|---|---|
| `enqueue_due` | `EnqueueDue` |
| the outbox consumer | `Deliver`, `Acknowledge`, `Fault` |
| `work_status` | the operator `WorkStatus`; `Start` branches on it |
| `reconcile_action` | `Start`, `Renumber`, `Read`, `SaveAttempt`, `Accept`, `FailAction`, `Defer` |
| `_save_terminal_escalation`, `_transition_to_escalated` | `SaveTerminal`, `Escalate`, `RecordOutcome` |
| `_reverify`, `resolve_if_verified`, `_enqueue_phase7c_rollback` | `Resume`, `Verify`, `RecordVerdict`, `Settle`, `Resolve`, `EnqueueRollback` |

The executor (`Execute`: it reconciles, verifies, or rolls back, which resolves the incident
with the outcome ROLLED_BACK_SAFELY where the release is verified and leaves the action open
where it is not), another owner of the resource (`Contend`), the provider
(`Provider`) and time (`Tick`) act beside it.  `overlapped` remembers that two processes have worked at once:
three properties are promised only while they have not, because the service has no
claim on the action besides its wake-up row.

### 2.5 The other services

| module | code | a step is | left out |
|---|---|---|---|
| `Reasoning` | `durable_reasoning.py`, `handle_durable_incident_ready`: `Open`, `BuildContext` (its own read of the incident), `Check`, `Create`, `Join`, `Advance` (`_advance`), `WriteFields`, `Announce` (`_decision_outbox`) | one durable write with the reads that decide it | the context and the graph's answer: `Check` takes any verdict |
| `Ingestion` | `ingest_runtime_event`: `Observe` and `Correlate` (`_plan`), `Commit` (`process`, one transaction) | one read of durable state, or the transaction | payloads, other event types |
| `RecoveryRecord` | `save_recovery_and_repair`, `repair_incident_recovery_projection` | one read or compare-and-swap | the other fields of the record |
| `Cleanup` | `prepare_validation_cleanup`, `reconcile_validation_cleanup`, `complete_verified_validation_cleanup` | one durable write | the executor's steps of the rollback in between are merged (`Roll`, `Answer`, `Verify`, `Doubt`: what each compare-and-swap of the release may leave behind, the executor's death included); `_finalize_superseded_provider_reconciliation`, which closes attempts nobody reads again |
| `TrustedDispatch` | `_evaluate_field_intervention`, `number_verification_callback`, `_resume_pending_dispatch`, `_start_fallback`, the stores of `dispatch.py` | a handler up to its next `await` | the OAuth exchange and the SIM-swap call, by their answers |
| `AuditHistory` | `_ensure_history_loaded`, `remember_incident`, `append_record`, `verify_audit_chain` | one call of the store | the hash function: a hash stands for all that went into it |
| `CycleGraph` | the nodes of `_build_graph`, the routes, the end of `run_cycle` (`End`), `run_durable_reasoning`, `run_field_intervention_demo`, `recover_normalized_incident`, the playbooks, the fixture client | a node (the fixture client never suspends inside one) | forecasts, battery and location evidence, prompts, traces; guardrails are an arbitrary verdict |

In `CycleGraph` a language model may rank the candidates in any order (`Triage`
quantifies over all of them), so what holds does not rest on the model.  A cycle plans on
levels of `SeenLevels`, which stand for the snapshot of the poller or the durable
context and may be older than the client's; an isolated demo reads the client.
The end of a demo clears the client for every cycle (`Finally`), and a slice
belongs to the last cycle that attached it.  A field demo is isolated when the API asks for it
and not when the code is called without arguments, as its tests do (`unisolated_field`).
A cycle whose node raises after its actuator acted is outside `KeptIsMitigated`: unless it is an
isolated demo, nothing undoes what it did.

In `RecoveryRecord` an incident without a record shows PENDING, as ingestion creates it, and
the executor that closes an incident writes COMPLETE into the copy itself (`Touch`).  In
`Cleanup`, `proof` remembers whose read proved the session gone: an operator's attempt that was
saved, or the executor's own readback, after which the executor closes release, action, record and
incident itself (`CloseVerified`) and leaves the lease.

These services share no state, so `Services` composes them in one state space: an
initial state picks a service (`part`), only its variables change, and a variable name
that several of them use is shared.  Each property says for which service it speaks.
`MCServices` gives the constants their values.

## 3. Runs

`CHECK_DEADLOCK FALSE` is set because the systems really stop: rows are SENT, cycles
done and bounds spent.  Bounds: `MaxDeliveries` claims of one row, `MaxFaults`
exceptions, `MaxRestarts` crashes and overlapping starts, `MaxClaims`, `MaxCrashes`,
`MaxReads`, `MaxTries`, `MaxPlans`, `MaxTouches` as their modules say.

| run | instance | question |
|---|---|---|
| `race` | one QoD action, two executors, three deliveries, one fault, one restart (crash or rolling) | type invariant, the copies and licences of section 5, at most one mutation, legal moves, FAILED and ROLLED_BACK tell the truth |
| `plan` | QoD and slice on two devices of one incident, two executors, two deliveries | VERIFIED_IMPROVED only when the whole plan succeeded; no executor reclassifies another's claim in flight |
| `rivals` | a geofence and a slice of two incidents on one device, two fair executors, one delivery each, one exception, one restart | mutations of the two do not overlap; SENT is decided, by its executor or, after an exception or a crash, by the restart |
| `claims` | two rows, two consumers, batches of two, lease 2, interval 1, two claims of a row, one lost or failed call, one crash, time at will | type invariant, claims exclusive, SENT earned and final, nothing settled by a consumer that lost its claim or its heartbeat, `Delivery` implemented |
| `deliver` | the same, lease 6, interval 2, `Prompt`, four claims, fair | a handler that has renewed its claim keeps it and everybody else at the row is superseded; every appended row is eventually SENT |
| `reconcile` | one action beside another of its plan, one consumer with the executor between its rows, a contended resource, two attempts, deadline 2, backoff 1 and 2, one fault | the budget and spacing of reads, settled on evidence and for good, nothing written off in doubt, doubt ends unless the wake-up is spent |
| `services` | two processes that review an incident in two plan versions, and one with two rows and a fault; two that ingest three readings; two recovery writers beside another writer of the incident; an operator with two reads; three engineers of whom two may be asked; two history writers with four checkpoints; a scheduled cycle beside a demo, a field demo (isolated or not) or a durable one, one cell, a critical and a bulk device of which one may be reconfigured | the twelve properties listed in `PROJECT.json`, one or two per service |

Why the bounds are enough for what they ask.  A race needs two executors on one
action and a third delivery to find what the race left.  One crash puts the system in every
state a crash can leave; a second adds only the crash during recovery of the
first, which `race` reaches through a fault.  A plan's hazards are about one action
being decided while another is not: two actions.  That the executor-level safety
does not depend on the bounds at all is what section 5 proves.

For the outbox, two rows make a batch in which one waits, two consumers make a
claim that is taken over while its handler runs.  In `deliver` the bound on claims is never reached:
with one fault and one crash a row is claimed at most four times, and five
claims give the same states.  In `claims` lease and interval only serve to let claims lapse
and renewals be due, for which 2 and 1 suffice.  In `deliver`, where time matters, they are 6 and 2:
the code's three intervals to a lease (`runtime_events.py:399,417`), and a clock finer than the
interval.  The finer clock matters.  The rows of a batch are claimed together and
started one after the other, and a heartbeat first renews one interval after the
start; a row started with less than an interval left of its lease is claimed by another
consumer before its first renewal, and handled twice at once.  A clock as
coarse as the interval cannot express "less than an interval" and would hide it.  So
`HandledAlone` speaks of handlers that have renewed; of the others `LostClaimSettlesNothing` says that
they change nothing in a row that was taken over, and do not settle one whose heartbeat failed.

For reconciliation, the second attempt is the last and the first that waits for a
backoff; the deadline ends while it waits.  The run has one consumer, whose handlers
never overlap: two of them, with liveness, are more states than TLC visits in a
reasonable time.  Overlap is left to the theorems, which hold for any number of
consumers.  For the services: two writers make every
race between a read and a compare-and-swap; three readings are a first, a later
and a late one; three engineers and two attempts make a fallback and its refusal;
a bound of one device on two devices is the smallest that cuts a plan.  `RecoveryRecord`
lets its writers start again without limit.  The reasoning service is looked at twice: two
processes on one row with two plan versions, so that a slow process of the first
version meets the second; and one process with two candidates, two rows and a fault.
There a BLOCK or ESCALATE plan version may be written over by the lower version of a slower process
(`durable_reasoning.py:604`); `AnnouncedIsBacked` therefore asks that the
incident has reached the announced plan, that the actions exist and that only one
plan is ever announced, not that the announced plan is the incident's last.

## 4. What the code does not do

Each of these runs checks one statement of the repository, and TLC refutes it.

| run | statement | what happens |
|---|---|---|
| `undorestart` | a verified rollback leaves state that passes the start-up's own validation | `_rollback` resolves the incident and never releases its lease (`:1185`), `_maybe_resolve` does |
| `renewal` | the owner of a live claim can renew it | the transport refuses the procedure (`supabase_transport.py:199`), so a handler that outlives one heartbeat interval is failed and delivered again |
| `wakeup` | bounded attempts or the deadline escalate an action in doubt | a wake-up acknowledged in BACKOFF uses up the identity of the next one (`durable_reconciliation.py:750`); nothing wakes the action again |
| `stranded` | an action shown as RESOLVED is of a resolved incident | `_reverify` resolves only from VERIFYING (`:664`); after a crash before that move the incident stays MITIGATING |
| `unannounced` | the decision service is retry-safe | a failure between the decision and its outbox row (`durable_reasoning.py:611`, `:619`) leaves an approved plan nobody is told of |

The precise quotations are in `PROJECT.json` under `findings`.

Seen in the models and not made a run of: a rollback resolves the incident of an
action that is still undecided (`durable_execution.py:1187`); verification records
are upserted by losers of the compare-and-swap (`:993`); a redelivery reclassifies a
rollback command that is in flight (`:1090`); a crash after the cleanup closed the release
leaves the rest open, because the next run answers `cleanup_already_verified`
(`durable_reconciliation.py:481`); two overlapping consumers of one action both settle it
(`durable_reconciliation.py:663`); when the link of the fallback engineer cannot
be made nobody is asked (`agents.py:1620`).  They are in the hazards' notes.

## 5. Proofs

`ExecutionProofs` proves, from `ConstantsAssumption` alone (the functions from
actions to incidents, resources and kinds are total, the bounds are naturals, and
`None` is none of the model's values):

| theorem | statement |
|---|---|
| `TypeCorrect` | `Spec => []TypeOK` |
| `CopiesAreSound` | `Spec => [](CopiesCurrent /\ CopiesFit)` |
| `ActionsMoveLegally` | `Spec => LegalActionSteps` |
| `LicencesAreExclusive` | `Spec => [](MutationLicence /\ RollbackLicence)` |
| `MutationsAtMostOnce` | `Spec => []AtMostOneMutation` |

The sets need not be finite, so the theorems hold for any number of executors,
deliveries, faults and restarts, rolling ones included.

The argument.  `AtMostOneMutation` is not inductive: that an executor at `call`
has not been preceded by another says nothing about who may arrive there.
`CopyInvariant` says first what an executor knows: its copy is never newer than
the record, and if the versions agree the copies agree (`CopiesCurrent`); and the
copy has the state its place calls for (`CopiesFit`).  Hence a compare-and-swap
that succeeds starts from the state the code believes, and every move of an action
is one of `ActionMoves`, however stale the writer.  `ActionMoves` never returns to
READY, so READY to SENT is taken once per action, by one executor.
`LicenceInvariant` adds that this licence is held by one executor between the
claim and the call, and that the call spends it; at most one call follows.
The rollback command has a licence of its own with the same argument.  Each
invariant is checked by TLC in `race` before it is proved.

Each proof has one lemma per action or per group of actions, and the last step
combines them.

`ExecutionOutcomes` goes on from there, from the same assumption:

| theorem | statement |
|---|---|
| `FailedHasNoEffect` | `Spec => []FailedMeansNoEffect` |
| `RollbackIsReal` | `Spec => []RolledBackMeansGone` |
| `OutcomeIsVerified` | `Spec => []VerifiedOutcome` |
| `MutationsAreExclusive` | `Spec => []Exclusive` |
| `ClaimIsKept` | `Spec => []ClaimSurvives`, where `Rolling` is FALSE |

The argument.  The executor has some fifty actions, so its step is summed up
once: where it may go (`Flow`), what it may write to an action (`ActionWrites`), to
an incident (`IncidentMoves`) and to a lease, and what it does to the provider
(`Turns`).  The invariants are inductive over these summaries.  `EffectInvariant`
ties states to the network: an action whose mutation was not sent has left no trace
(`TracesNeedCalls`), and at each place the executor's answer is as true as the adapter
made it (`CallBehind`, `UndoBehind`).  `PlanInvariant` adds what an incident's
state says of its plan: an APPROVED one has only actions that are READY or
FAILED, one in recovery has an action that needed it, and whoever is about to report
the outcome has seen every action succeed and none can leave SUCCESS.
`LeaseHeld` says that a mutation sent holds the lease of its resource as long as its
incident is authorized and active; a lease has one owner, hence `Exclusive`.
`ClaimSurvives` needs that a process that is down has no executor, which is what a
rolling restart breaks.  TLC checks `PlanInvariant` on `race`, `plan` and `rivals`, `ClaimInvariant`
on the two that do not restart rolling.

`OutboxProofs` proves, from `OutboxAssumption` alone:

| theorem | statement |
|---|---|
| `TypeCorrect` | `Spec => []TypeOK` |
| `ClaimsAreExclusive` | `Spec => []ClaimsExclusive` |
| `SentRowsWereHandled` | `Spec => []SentMeansHandled` |
| `SentStaysSent` | `Spec => SentIsFinal` |
| `LostClaimsSettleNothing` | `Spec => LostClaimSettlesNothing` |
| `OutboxDelivers` | `Spec => ImplementsDelivery` |
| `RenewedIsAlone` | `Spec => []HandledAlone` |

The argument.  The inductive invariant `IInv` adds to the checked invariants what
a consumer's place says of its row (`PlacesFit`: a row at hand is held, and at
`settle` it was handled) and that generations start at the first claim
(`GenerationsStart`).  Every action but `Claim` is `Quiet`: no copy appears, no
generation changes, no row becomes claimed; quiet steps keep claims exclusive.
`Claim` gives a generation above that of every copy.  `PlacesFit` makes
`Acknowledge` a `Close` of `Delivery`, `GenerationsStart` makes `Handle` a
`Complete` of an offered row, and everything else stutters.  None of it
depends on lease, interval, `Prompt` or `RenewReaches`: safety rests on generations,
not on time.  `RenewedIsAlone` is the one theorem about time: from the first renewal on
a handler's row has `Lease - Interval` more left than its heartbeat has yet to wait
(`RenewedHolds`), so with `Interval < Lease` and prompt renewals it never lapses, and every
other copy of the row is of an older generation.

`ReconciliationProofs` proves, from `ReconciliationAssumption` alone:

| theorem | statement |
|---|---|
| `TypeCorrect` | `Spec => []TypeOK` |
| `AttemptsAreBounded` | `Spec => []AttemptBudget` |
| `DoubtNeverFails` | `Spec => []FailedMeansGone` |
| `SettledIsFinal` | `Spec => SettledStays` |
| `SettlementsAreProven` | `Spec => []SettledOnEvidence` |
| `BackoffIsKept` | `Spec => []BackoffKept` |

The argument.  The first three hold however handlers overlap.  A handler takes its number
once, when it reads the status, and attempts are never deleted: so its number
stays within the bound and the attempts before it stay recorded (`NumbersFit`), and an
answer NOT_FOUND stays true (`AnswersFit`).  The last three are promised only
without overlap, and there the invariant says what the wake-up row buys: one handler
works at a time (`Alone`), so nobody moves the action while it decides (`StillOpen`), its number
is the last or the next (`NumbersCurrent`), and the wait it started after is
still over when it records (`WaitsFit`, `TimesFit`).  `Came` lists the ways a
handler comes to a place; each part of the invariant is shown along it.
`IInv` was first checked by TLC on the instance of `reconcile`, and on one of two consumers whose
handlers overlap in one attempt.

The other services are proved about in four modules, from `ServicesAssumption` alone, which
joins the assumptions of their modules.  `Parted` and `Starts` say that a behaviour of
`Services` is one of a single service, so that an invariant of that service is
one of the whole.

| theorem | statement | in |
|---|---|---|
| `CopiesStayBehind` | `Spec => []CopyBehind` | `ServicesProofs` |
| `CleanupIsProven` | `Spec => []CleanIsProven` | `ServicesProofs` |
| `HistoryVerifies` | `Spec => []ChainsVerify` | `ServicesProofs` |
| `AcknowledgedWasDecided` | `Spec => []AckedIsDecided` | `ServicesReview` |
| `AnnouncementsAreBacked` | `Spec => []AnnouncedIsBacked` | `ServicesReview` |
| `NamesAlwaysResolve` | `Spec => []RowsResolve` | `ServicesEvents` |
| `ReadingsGoForward` | `Spec => ProjectionForward` | `ServicesEvents` |
| `EngineersAskedOnce` | `Spec => []AskedOnce` | `ServicesEvents` |
| `KeptWasMitigated` | `Spec => []KeptIsMitigated` | `ServicesCycles` |
| `PlansAreWhole` | `Spec => []PlanIsWhole` | `ServicesCycles` |
| `TypeCorrect` | `Spec => []TypeOK`, of all seven services | `ServicesCycles` |

The arguments.

* Recovery: a writer that goes to save knows of a forward edge from the record, if
  nobody has written it since; one that repairs carries a state behind it.
* Cleanup: the read that proves the session gone comes first, and the records are
  closed down a ladder that the operator's place in the code follows (`CleanOrder`).
* History: the stored records are one chain without repetition, and every copy begins as the chain does;
  an append succeeds only on the tail, so it prolongs the chain, and a lost
  answer shows when the copy is read again.
* Reasoning: a process that uses an answer for a plan version beyond the first has seen a decided
  incident that was not APPROVED, and never becomes so any more; so it cannot announce actions, and only the
  first version is ever announced (`HandlerFacts`).  Decisions stay made and actions stay
  (`Onward`), so what a process concluded is still true when it acknowledges.
* Ingestion: a commit succeeds only on the projection it was planned from, and
  opening an incident gives the projection a new version; so a plan that found no open
  incident finds none when it opens one (`PlanFacts`).
* Dispatch: an incident's dispatches exist in order, each created after the one
  before was closed and its engineer noted as attempted (`AskedInTurn`); the
  bound on attempts bounds the dispatches, and an engineer noted is not asked again.
* Planning graph: a cycle has nothing at the client before its actuator acts, nothing but
  what its actuator did, and nothing after its rollback (`CycleFacts`); so who has
  something and is routed past the rollback was mitigated.  Other cycles only take
  resources away.  A plan is a selection by device of what the playbooks
  propose, which is whole (`ProposedWhole`); that a ranking loses no candidate is
  the pigeonhole principle (`RankedAll`), for which the devices must be finite.
  `Bounded` says in closed form what the loop of `_triage` computes: a device is selected while
  fewer than `MaxDevices` others rank before it.  Written as the loop, over a
  fold, it would need induction over the ranking.

Every one of these invariants, with the types of its service in it, was checked by TLC on the
instance of `services` before it was proved.

### Only model-checked

* `SentIsDecided`, `EveryRowSent`, `DoubtEndsOrWakeUpSpent` and `ReviewEnds` are
  liveness under fairness, out of the prover's reach.

Every safety property and action property of the passing runs is a theorem.

## 6. Fairness

`FairSpec` assumes weak fairness of each executor's steps (an asyncio task whose
awaits time out is eventually resumed), of the delivery of each incident's row
(the consumer polls, and no row is permanently passed over), and of `Reconstruct`
(the supervisor restarts a dead process).  No fairness is assumed of the
environment: authority need not be withdrawn, leases need not lapse and the provider
need not answer in any particular way.  An exception between claim and result that is
not a crash leaves the action SENT until the next restart, which nothing forces to happen:
`SentIsDecided` therefore lets such an action wait (`Abandoned`: no executor has it any more)
and asks that the restart, once the process is down, decides it.

`FairSpec` of `Outbox` assumes weak fairness of each consumer's `process_once`
(handlers return or raise: every await in them has a timeout), of a due heartbeat,
and of time.  No fairness is assumed of writers, faults or crashes, but `MaxFaults` bounds
the failures: a handler that fails for ever keeps its row open for ever, as
`Delivery` allows.

`FairSpec` of `Reconciliation` assumes weak fairness of the scheduler's scan, of
time, and of each process with the row it handles and the rows that wait; `Reasoning`
the same of its processes and rows, and for the finding of an executor that takes up
what was announced.  `Services` repeats the latter for its deployments.  The
other services are checked for safety only: nothing in the code promises that an
engineer consents, an operator comes back or an event arrives.

## 7. Plan

Done: the modules of section 2 with their runs, and a theorem for every safety property of
the passing runs.  Next, in order of importance:

1. Theorems beyond the runs' properties: that an attempt of the reconciler is never
   rewritten, that an incident's state only moves along the transitions of `DurableCore`,
   and an abstract specification of one mutation that `Execution` implements.
2. `Lifecycle`: the composition of executor and outbox over restarts, and the
   starvation of later rows by rows that always fail.
3. Event bus and rate limiter; the API's locks around demos.

## 8. Not modelled, and why

`nokia_clients.py` beyond the adapter's answers, the fixture client's resources and
the number verification, `supabase_transport.py` beyond its allow-list and lost
answers, `run_api.py` and `app.py` are I/O and presentation: what they can do to the
protocols is fail, which is `Fault`.  In the planning graph, the forecasts, the battery,
location and cost evidence and the explanations are inputs or wording; the
guardrails that read them are an arbitrary verdict, so nothing is shown of the spend
ceiling.  `Execution` starts from any plan the graph commits.  The policies
`memory.py` learns only weigh proposals.  Scripts under `external/` are operator-run
drivers.  Network state, prediction and observations are in-memory projections
without a protocol of their own; the legacy incident manager is quarantined and
`scheduler.py` only starts cycles.  Checkpoints of `platform_lifecycle.py` are
validated but nothing of the modelled protocols reads them.
