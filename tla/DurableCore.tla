---------------------------- MODULE DurableCore ----------------------------
(***************************************************************************)
(* The vocabulary of durable_core.py and recovery_consistency.py: the      *)
(* incident, action and recovery states, the transitions the repositories  *)
(* accept, and the state families that restart reconstruction reads.       *)
(***************************************************************************)

IncidentStates ==
    {"DETECTED", "EVALUATING", "PLANNED", "WARDEN_REVIEW", "APPROVED",
     "MITIGATING", "VERIFYING", "RECOVERING", "RESOLVED", "BLOCKED", "FAILED",
     "ESCALATED", "CANCELLED"}

ClosedIncidentStates == {"RESOLVED", "BLOCKED", "FAILED", "CANCELLED"}

\* ESCALATED and RECOVERING incidents are still active: they keep their leases
\* and they are what a restarting process reconstructs.
ActiveIncidentStates == IncidentStates \ ClosedIncidentStates

\* The pairs InMemoryIncidentRepository.transition (and its Postgres twin)
\* accept; anything else raises InvalidTransition.
Transitions ==
    [DETECTED      |-> {"EVALUATING", "BLOCKED", "CANCELLED"},
     EVALUATING    |-> {"PLANNED", "BLOCKED", "FAILED", "ESCALATED"},
     PLANNED       |-> {"WARDEN_REVIEW", "BLOCKED", "CANCELLED"},
     WARDEN_REVIEW |-> {"APPROVED", "BLOCKED", "ESCALATED"},
     APPROVED      |-> {"MITIGATING", "BLOCKED", "FAILED"},
     MITIGATING    |-> {"VERIFYING", "FAILED", "BLOCKED"},
     VERIFYING     |-> {"RECOVERING", "RESOLVED", "FAILED", "ESCALATED"},
     RECOVERING    |-> {"RESOLVED", "FAILED", "BLOCKED"},
     ESCALATED     |-> {"RECOVERING", "CANCELLED", "BLOCKED"},
     RESOLVED      |-> {},
     BLOCKED       |-> {},
     FAILED        |-> {},
     CANCELLED     |-> {}]

ActionStates ==
    {"PENDING", "READY", "SENT", "ACKNOWLEDGED", "AVAILABLE", "SUCCESS",
     "FAILED", "TIMED_OUT", "ROLLBACK_REQUIRED", "ROLLED_BACK",
     "OUTCOME_UNKNOWN", "RECONCILIATION_REQUIRED"}

TerminalActionStates == {"SUCCESS", "FAILED", "ROLLED_BACK"}

\* actions.pending_or_unknown(): the actions a restart must find an active
\* incident for.
PendingOrUnknown ==
    {"PENDING", "READY", "SENT", "OUTCOME_UNKNOWN", "RECONCILIATION_REQUIRED"}

ActionableIncidentStates == {"APPROVED", "MITIGATING", "VERIFYING"}

RecoveryStates ==
    {"PENDING", "RELEASING", "VERIFYING_RELEASE", "COMPLETE", "PARTIAL", "FAILED"}

\* recovery.pending(): neither PARTIAL nor terminal records are pending.
PendingRecoveries == {"PENDING", "RELEASING", "VERIFYING_RELEASE"}

\* An incident that has no recovery record yet.
NoRecovery == "NONE"

\* The forward edges of a recovery record.
Forward ==
    [NONE              |-> RecoveryStates,
     PENDING           |-> RecoveryStates \ {"PENDING"},
     RELEASING         |-> {"VERIFYING_RELEASE", "PARTIAL", "FAILED", "COMPLETE"},
     VERIFYING_RELEASE |-> {"PARTIAL", "FAILED", "COMPLETE"},
     PARTIAL           |-> {"COMPLETE"},
     FAILED            |-> {},
     COMPLETE          |-> {}]

\* _valid_forward(current, target): a first record, a repeated one, or an edge.
ValidForward(current, target) ==
    current = target \/ target \in Forward[current]
=============================================================================
