----------------------------- MODULE CycleGraph -----------------------------
(***************************************************************************)
(* The process-local control graph of HARIS (agents.py, HarisAgentSystem): *)
(* sense, plan, WARDEN, actuate, verify, roll back, learn.  A cycle is one *)
(* run_cycle or run_durable_reasoning call; the cycles of one process      *)
(* share the fixture client and interleave between the nodes of the graph  *)
(* (no call of the fixture client suspends, so a node is one step).  The   *)
(* playbooks propose, any ranking of the advisory models is allowed, and   *)
(* the guardrails are an arbitrary verdict on a non-empty plan.            *)
(***************************************************************************)
EXTENDS Naturals, FiniteSets, SequencesExt

CONSTANTS
    Cycle,          \* cycles
    KindsOf,        \* cycle -> the kinds it may be started as
    Modes,          \* values of nac_mode
    Device,         \* registered devices
    Cell,           \* logical cells
    Tier,           \* device -> 1 (mission critical) or 3 (bulk)
    CellOf,         \* device -> its cell
    FixtureLevel,   \* cell -> congestion level of the fixture, None..High = 0..3
    Geofencing,     \* geofencing_monitoring_enabled
    MinBulk,        \* capacity_harvest_min_bulk_devices
    MaxDevices,     \* max_devices_reconfigured_per_cycle
    RaisingKinds,   \* action kinds whose client call may raise
    SeenLevels,     \* bound: levels a snapshot or a durable context may show
    MaxFaults,      \* bound: nodes that raise
    None

\* Asked for from the code itself, the field demo is not isolated (unisolated_field).
Kinds == {"standard", "demo", "field", "unisolated_field", "durable"}
FieldKinds == {"field", "unisolated_field"}

CycleAssumption ==
    /\ KindsOf \in [Cycle -> SUBSET Kinds]
    /\ IsFiniteSet(Device)
    /\ Modes \subseteq {"fixture", "live_read_only", "live_write"}
    /\ Tier \in [Device -> {1, 3}]
    /\ CellOf \in [Device -> Cell]
    /\ FixtureLevel \in [Cell -> 0..3]
    /\ Geofencing \in BOOLEAN /\ SeenLevels \subseteq 0..3
    /\ MinBulk \in Nat /\ MaxDevices \in Nat /\ MaxFaults \in Nat

VARIABLES
    conf,       \* settings: nac_mode, rollback_test_mode
    cycle,      \* cycle -> its HarisState
    held,       \* resources active in the fixture client, and whose they are
    level,      \* cell -> congestion level the fixture client answers
    latest,     \* _latest_cycle
    faults

vars == <<conf, cycle, held, level, latest, faults>>

Nodes == {"idle", "sentinel", "triage", "normalize", "warden", "actuator",
          "verify", "rollback", "learn", "end", "planned", "done", "raised"}
Profiles == {"guaranteed", "low-bandwidth", "emergency-only", "none"}
Actions == [kind : {"qos", "slice_attach", "geofence"}, dev : Device, prof : Profiles]

Isolated(c) == cycle[c].kind \in {"demo", "field"}
Running(c) == cycle[c].at \notin {"idle", "done", "raised"}
Mine(c) == {r \in held : r.by = c}

Fresh ==
    [at |-> "idle", kind |-> "standard", dust |-> FALSE, before |-> FixtureLevel,
     plan |-> {}, approval |-> FALSE, warden |-> "none", reason |-> "none",
     executed |-> FALSE, did |-> {}, rolled |-> "no", final |-> "none",
     outcome |-> "none"]

Init ==
    /\ conf \in [mode : Modes, suppress : BOOLEAN]
    /\ conf.suppress => conf.mode = "fixture"
    /\ cycle = [c \in Cycle |-> Fresh]
    /\ held = {}
    /\ level = FixtureLevel
    /\ latest = None
    /\ faults = 0

(***************************************************************************)
(* Playbooks.                                                              *)
(***************************************************************************)
Qos(d, profile) == [kind |-> "qos", dev |-> d, prof |-> profile]
Other(kind, d) == [kind |-> kind, dev |-> d, prof |-> "none"]

StormShield(dust, seen) ==
    UNION {{Qos(d, "guaranteed"), Other("slice_attach", d)}
           \cup (IF Geofencing THEN {Other("geofence", d)} ELSE {}) :
              d \in {e \in Device : dust /\ Tier[e] = 1 /\ seen[CellOf[e]] >= 2}}

CapacityHarvest(seen) ==
    LET BulkOf(cell) == {d \in Device : Tier[d] = 3 /\ CellOf[d] = cell}
    IN  {Qos(d, "low-bandwidth") :
            d \in {e \in Device : /\ Tier[e] = 3 /\ seen[CellOf[e]] = 3
                                  /\ Cardinality(BulkOf(CellOf[e])) >= MinBulk}}

\* drained: bulk devices with a low battery and a sustained High window.
EnergyGuard(seen, drained) ==
    {Qos(d, "emergency-only") :
        d \in {e \in drained : Tier[e] = 3 /\ seen[CellOf[e]] = 3}}

\* Energy Guard over Storm Shield over Capacity Harvest, per device and kind.
Proposed(dust, seen, drained) ==
    LET Over(high, low) ==
            high \cup {a \in low : \A b \in high : <<a.kind, a.dev>> # <<b.kind, b.dev>>}
    IN  Over(EnergyGuard(seen, drained), Over(StormShield(dust, seen), CapacityHarvest(seen)))

(***************************************************************************)
(* Nodes.                                                                  *)
(***************************************************************************)
\* A node returns the fields of the state that it changes.
Move(c, fields) ==
    cycle' = [cycle EXCEPT ![c] =
        [f \in DOMAIN cycle[c] |-> IF f \in DOMAIN fields THEN fields[f] ELSE cycle[c][f]]]

\* The autonomous endpoint runs one demo at a time; the field demo, the
\* scheduler and durable planning take no lock.
Start(c, kind, dust) ==
    /\ cycle[c].at = "idle"
    /\ kind \in {"demo"} \cup FieldKinds => conf.mode = "fixture" /\ dust
    /\ kind = "demo" => \A d \in Cycle : ~(Running(d) /\ cycle[d].kind = "demo")
    /\ Move(c, [at |-> "sentinel", kind |-> kind, dust |-> dust])
    /\ UNCHANGED <<conf, held, level, latest, faults>>

\* An isolated demo reads the client; others prefer a snapshot of the poller, or the
\* evidence of the durable context, which may be older.
Sentinel(c) ==
    /\ cycle[c].at = "sentinel"
    /\ \E seen \in IF Isolated(c) THEN {level} ELSE [Cell -> SeenLevels] :
          Move(c, [at |-> "triage", before |-> seen])
    /\ UNCHANGED <<conf, held, level, latest, faults>>

\* Wrong: the bound counts actions.
BoundedActions(ranked) == {ranked[n] : n \in {m \in DOMAIN ranked : m <= MaxDevices}}

\* The bound is on devices: one is selected while fewer than MaxDevices others rank
\* before it, and a selected device keeps all that is proposed for it.
Selected(ranked) ==
    LET Others(n) == {ranked[m].dev : m \in 1..(n - 1)} \ {ranked[n].dev}
    IN  {ranked[n].dev : n \in {m \in DOMAIN ranked : Cardinality(Others(m)) < MaxDevices}}

Bounded(ranked) == {a \in ToSet(ranked) : a.dev \in Selected(ranked)}

\* CrewAI may rank the candidates in any order (an isolated demo does not ask it: its
\* ranking by tier and congestion is one of them).  The planner may rank what was kept
\* in any order too: a plan is a set, and what a fault leaves of it any subset.
Triage(c) ==
    /\ cycle[c].at = "triage"
    /\ \E drained \in SUBSET Device, approval \in BOOLEAN :
          \E ranked \in SetToSeqs(Proposed(cycle[c].dust, cycle[c].before, drained)) :
             Move(c, [at |-> IF cycle[c].kind = "durable" THEN "normalize" ELSE "warden",
                      plan |-> Bounded(ranked), approval |-> approval])
    /\ UNCHANGED <<conf, held, level, latest, faults>>

\* Durable planning drops what is unsafe, out of scope or not proven OPERATING.
Normalize(c) ==
    /\ cycle[c].at = "normalize"
    /\ \E allowed \in SUBSET cycle[c].plan, approval \in BOOLEAN :
          Move(c, [at |-> "warden", plan |-> allowed, approval |-> approval])
    /\ UNCHANGED <<conf, held, level, latest, faults>>

\* Checks of WARDEN that do not depend on trust.
PlanSafe(c) ==
    /\ ~cycle[c].approval
    /\ cycle[c].plan # {}
    /\ Cardinality({a.dev : a \in cycle[c].plan}) <= MaxDevices

\* safe: the remaining checks; trust: the verdict on the engineer.
Warden(c) ==
    /\ cycle[c].at = "warden"
    /\ \E safe \in BOOLEAN, trust \in {"ALLOW", "PENDING", "BLOCK"} :
          LET asked == cycle[c].kind \in {"durable"} \cup FieldKinds
          IN  /\ ~asked => trust = "ALLOW"
              /\ Move(c, [warden |-> IF trust = "PENDING" THEN "pending"
                                     ELSE IF safe /\ PlanSafe(c) /\ trust = "ALLOW" THEN "ok"
                                     ELSE "rejected",
                          at |-> IF cycle[c].kind = "durable" THEN "planned" ELSE "actuator"])
    /\ UNCHANGED <<conf, held, level, latest, faults>>

\* run_durable_reasoning ends at WARDEN; the caller accepts what it persisted.
AcceptDurable(c) ==
    /\ cycle[c].at = "planned"
    /\ Move(c, [at |-> "done", reason |-> "phase_7b_authorized_plan_only"])
    /\ latest' \in {latest, c}
    /\ UNCHANGED <<conf, held, level, faults>>

\* Why the actuator does not execute, in the order in which it looks.
Refusal(c) ==
    IF conf.mode = "live_read_only" THEN "live_read_only"
    ELSE IF conf.mode = "live_write" THEN "durable_executor_required"
    ELSE IF cycle[c].approval THEN "guardrail"
    ELSE IF cycle[c].warden = "pending" THEN "identity_verification_pending"
    ELSE IF cycle[c].warden # "ok" THEN "warden_rejected"
    ELSE "none"

\* What the client holds after the actions: a slice belongs to the last to
\* attach it.
Installed(c, acts) ==
    {r \in held : ~ \E a \in acts : a.kind = "slice_attach"
                                    /\ r.kind = a.kind /\ r.dev = a.dev}
    \cup {[kind |-> a.kind, dev |-> a.dev, by |-> c] : a \in acts}

\* A QoD session lowers the level of the device's cell by one.
Relieved(acts) ==
    [cell \in Cell |->
        LET n == Cardinality({a \in acts : a.kind = "qos" /\ CellOf[a.dev] = cell})
        IN  IF conf.suppress \/ n = 0 THEN level[cell]
            ELSE IF n >= level[cell] THEN 0 ELSE level[cell] - n]

Actuator(c) ==
    /\ cycle[c].at = "actuator"
    /\ UNCHANGED <<conf, latest>>
    /\ \/ /\ Refusal(c) # "none"
          /\ Move(c, [at |-> "verify", reason |-> Refusal(c)])
          /\ UNCHANGED <<held, level, faults>>
       \/ /\ Refusal(c) = "none"
          /\ \E did \in SUBSET cycle[c].plan :
                LET all == did = cycle[c].plan
                IN  /\ ~all => /\ \E a \in cycle[c].plan \ did : a.kind \in RaisingKinds
                               /\ faults < MaxFaults
                    /\ faults' = IF all THEN faults ELSE faults + 1
                    /\ held' = Installed(c, did)
                    /\ level' = Relieved(did)
                    /\ Move(c, [at |-> "verify", executed |-> all, did |-> did,
                                reason |-> IF all THEN "none" ELSE "execution_error"])

\* The cells the plan meant to relieve: a geofence relieves none.
TargetCells(c) == {CellOf[a.dev] : a \in {b \in cycle[c].plan : b.kind # "geofence"}}

Better(c) == \E cell \in TargetCells(c) : level[cell] < cycle[c].before[cell]
Worse(c) == \E cell \in TargetCells(c) : level[cell] > cycle[c].before[cell]

\* reachable: all affected devices answer.
Status(c, reachable) ==
    IF cycle[c].reason = "live_read_only" THEN "live_read_only_proposal"
    ELSE IF cycle[c].plan = {} THEN "no_action_proposed"
    ELSE IF ~cycle[c].executed
         THEN IF cycle[c].reason \in {"identity_verification_pending", "warden_rejected"}
              THEN cycle[c].reason
              ELSE IF cycle[c].did # {} THEN "execution_failed_partial" ELSE "execution_failed"
    ELSE IF TargetCells(c) = {} THEN "verification_unavailable"
    ELSE IF reachable /\ Better(c) /\ ~Worse(c) THEN "mitigated"
    ELSE IF Worse(c) THEN "degraded"
    ELSE IF ~Better(c) THEN "unchanged"
    ELSE "not_mitigated"

FinalStatus(c, status) ==
    CASE status = "live_read_only_proposal" -> status
      [] status # "live_read_only_proposal" /\ cycle[c].rolled = "ok" -> "rolled_back_safely"
      [] cycle[c].rolled # "ok" /\ status \in {"mitigated", "no_action_proposed",
             "execution_failed", "warden_rejected", "verification_unavailable"} -> status
      [] cycle[c].rolled # "ok" /\ status = "identity_verification_pending" ->
             "waiting_for_identity_verification"
      [] OTHER -> IF Worse(c) THEN "degraded" ELSE "verification_failed"

\* Nothing was executed, or it was and it helped.
NothingToUndo(status) ==
    status \in {"no_action_proposed", "execution_failed", "live_read_only_proposal",
                "warden_rejected", "identity_verification_pending", "mitigated"}

Route(c, status) ==
    IF NothingToUndo(status) \/ cycle[c].rolled # "no" THEN "learn" ELSE "rollback"

\* The router notes a failed rollback in the copy of the state it was handed;
\* whether the graph keeps the note is the library's affair.
Verify(c) ==
    /\ cycle[c].at = "verify"
    /\ \E reachable \in BOOLEAN :
          LET status == Status(c, reachable)
              noted == ~NothingToUndo(status) /\ cycle[c].rolled = "failed"
          IN  \E final \in {FinalStatus(c, status)}
                           \cup (IF noted THEN {"rollback_failed"} ELSE {}) :
                 Move(c, [at |-> Route(c, status), final |-> final])
    /\ UNCHANGED <<conf, held, level, latest, faults>>

\* release_qos and delete_geofence know the resource or answer False;
\* detach_slice always detaches, whoever attached last.
Released(c) ==
    held \ {r \in held : \E a \in cycle[c].did :
               /\ r.kind = a.kind /\ r.dev = a.dev
               /\ r.kind = "slice_attach" \/ r.by = c}
AllReleased(c) ==
    \A a \in cycle[c].did :
        a.kind # "slice_attach" => [kind |-> a.kind, dev |-> a.dev, by |-> c] \in held

\* Wrong: a failed execution counts as one without effects.
RollbackWhole(c) ==
    /\ cycle[c].at = "rollback"
    /\ IF cycle[c].rolled # "no" \/ ~cycle[c].executed
       THEN Move(c, [at |-> "verify", rolled |-> "ok"]) /\ UNCHANGED held
       ELSE /\ held' = Released(c)
            /\ Move(c, [at |-> "verify", rolled |-> IF AllReleased(c) THEN "ok" ELSE "failed"])
    /\ UNCHANGED <<conf, level, latest, faults>>

Rollback(c) ==
    /\ cycle[c].at = "rollback"
    /\ IF cycle[c].rolled # "no"
       THEN Move(c, [at |-> "verify"]) /\ UNCHANGED held
       ELSE /\ held' = Released(c)
            /\ Move(c, [at |-> "verify", rolled |-> IF AllReleased(c) THEN "ok" ELSE "failed"])
    /\ UNCHANGED <<conf, level, latest, faults>>

Outcome(c, final) ==
    CASE final = "mitigated" -> "verified"
      [] final \in {"rolled_back_safely", "recovered", "recovery_cleanup_failed",
                    "rollback_failed", "execution_failed", "live_read_only_proposal",
                    "warden_rejected", "verification_unavailable", "no_action_proposed"} -> final
      [] final = "waiting_for_identity_verification" -> "identity_verification_pending"
      [] OTHER -> IF cycle[c].approval THEN "guardrail_or_approval_required"
                  ELSE "failed_or_unverified"

\* The outcome is recorded, and the write of the history awaited.
Learn(c) ==
    /\ cycle[c].at = "learn"
    /\ Move(c, [at |-> "end", outcome |-> Outcome(c, cycle[c].final)])
    /\ UNCHANGED <<conf, held, level, latest, faults>>

\* The end of run_cycle: an isolated demo clears the client of everything.
Finally(c) ==
    /\ held' = IF Isolated(c) THEN {} ELSE held
    /\ level' = IF Isolated(c) THEN FixtureLevel ELSE level

End(c) ==
    /\ cycle[c].at = "end"
    /\ Move(c, [at |-> "done"])
    /\ Finally(c)
    /\ latest' = c
    /\ UNCHANGED <<conf, faults>>

\* A provider read, a planner or the history raises: nobody keeps the cycle.
Raise(c) ==
    /\ cycle[c].at \in {"sentinel", "triage", "verify", "learn"}
    /\ faults < MaxFaults
    /\ faults' = faults + 1
    /\ Move(c, [at |-> "raised"])
    /\ Finally(c)
    /\ UNCHANGED <<conf, latest>>

\* recover_normalized_incident: the affected cells have gone back to normal.
Normalized(c) ==
    LET affected == {cell \in Cell : /\ cycle[c].before[cell] >= 2
                                     /\ \E d \in Device : CellOf[d] = cell}
    IN  affected # {} /\ \A cell \in affected : level[cell] <= 1

Recover(c) ==
    /\ latest = c
    /\ cycle[c].at = "done" /\ cycle[c].final = "mitigated" /\ cycle[c].executed
    /\ Normalized(c)
    /\ held' = Released(c)
    /\ LET final == IF AllReleased(c) THEN "recovered" ELSE "recovery_cleanup_failed"
       IN  Move(c, [final |-> final, outcome |-> Outcome(c, final)])
    /\ UNCHANGED <<conf, level, latest, faults>>

Node(c) ==
    \/ Sentinel(c) \/ Triage(c) \/ Normalize(c) \/ Warden(c) \/ AcceptDurable(c)
    \/ Actuator(c) \/ Verify(c) \/ Rollback(c) \/ Learn(c) \/ End(c)

Next ==
    \E c \in Cycle :
        \/ \E kind \in KindsOf[c], dust \in BOOLEAN : Start(c, kind, dust)
        \/ Node(c) \/ Raise(c) \/ Recover(c)

Spec == Init /\ [][Next]_vars

(***************************************************************************)
(* Properties.                                                             *)
(***************************************************************************)
TypeOK ==
    /\ conf \in [mode : Modes, suppress : BOOLEAN]
    /\ \A c \in Cycle :
          /\ cycle[c].at \in Nodes /\ cycle[c].kind \in Kinds
          /\ cycle[c].did \subseteq cycle[c].plan /\ cycle[c].plan \subseteq Actions
          /\ cycle[c].before \in [Cell -> 0..3]
          /\ cycle[c].rolled \in {"no", "ok", "failed"}
          /\ cycle[c].warden \in {"none", "ok", "pending", "rejected"}
    /\ held \subseteq [kind : {"qos", "slice_attach", "geofence"}, dev : Device, by : Cycle]
    /\ level \in [Cell -> 0..3]
    /\ latest \in Cycle \cup {None}
    /\ faults \in 0..MaxFaults

\* A cycle that ended keeps a resource only if it is recorded as a verified
\* mitigation: partial executions, unreadable and unhelpful ones are undone,
\* whatever the other cycles did to the client meanwhile.
KeptIsMitigated ==
    \A c \in Cycle : cycle[c].at = "done" /\ Mine(c) # {} => cycle[c].outcome = "verified"

\* Whatever the advisory models rank first, a mission-critical device that is
\* selected keeps its whole protection, and no device gets two profiles.
PlanIsWhole ==
    \A c \in Cycle : cycle[c].at \in {"warden", "actuator", "verify", "rollback", "learn"}
                     /\ cycle[c].kind # "durable" =>
        LET acts == cycle[c].plan IN
        /\ \A a \in StormShield(cycle[c].dust, cycle[c].before) :
              (\E b \in acts : b.dev = a.dev) => a \in acts
        /\ \A a, b \in acts : a.kind = b.kind /\ a.dev = b.dev => a = b
=============================================================================
