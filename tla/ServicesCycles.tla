--------------------------- MODULE ServicesCycles ---------------------------
(***************************************************************************)
(* Proofs about the planning graph, for any number of cycles that          *)
(* interleave, of devices and of cells; and the types of all services.     *)
(*                                                                         *)
(*   CycleTypes      the state of a cycle is well typed;                   *)
(*   CycleFacts      what its place in the graph says of the resources the *)
(*                   cycle has at the client: it has none before its       *)
(*                   actuator acts, none but what the actuator did, none   *)
(*                   after its rollback;                                   *)
(*   CyclePlan       its plan is whole until WARDEN and the actuator use   *)
(*                   it.                                                   *)
(*                                                                         *)
(* Other cycles may take resources of a cycle away (a demo's end clears    *)
(* the client, a slice belongs to the last to attach it), but never give   *)
(* it any: that is why its facts survive their steps.                      *)
(***************************************************************************)
EXTENDS ServicesReview, ServicesEvents

(***************************************************************************)
(* The invariant.                                                          *)
(***************************************************************************)
Fields == {"at", "kind", "dust", "before", "plan", "approval", "warden", "reason",
           "executed", "did", "rolled", "final", "outcome"}
Resource == [kind : {"qos", "slice_attach", "geofence"}, dev : Device, by : Cycle]

\* Every node assigns fields the state has.
Shaped == DOMAIN cycle = Cycle /\ \A c \in Cycle : DOMAIN cycle[c] = Fields

CycleTypes(c) ==
    /\ cycle[c].at \in Graph!Nodes /\ cycle[c].kind \in Graph!Kinds
    /\ cycle[c].did \subseteq cycle[c].plan /\ cycle[c].plan \subseteq Graph!Actions
    /\ cycle[c].before \in [Cell -> 0..3]
    /\ cycle[c].rolled \in {"no", "ok", "failed"}
    /\ cycle[c].warden \in {"none", "ok", "pending", "rejected"}

ClientTypes ==
    /\ conf \in [mode : Modes, suppress : BOOLEAN]
    /\ held \subseteq Resource
    /\ level \in [Cell -> 0..3]
    /\ latest \in Cycle \cup {None}
    /\ faults \in 0..MaxFaults

\* The nodes before the actuator has acted, and those after WARDEN has the plan.
Untouched == {"idle", "sentinel", "triage", "normalize", "warden", "planned", "actuator"}
Committed == {"warden", "actuator", "verify", "rollback", "learn"}

CycleFacts(c) ==
    LET mine == Graph!Mine(c)
    IN  /\ cycle[c].at \in Untouched =>
              mine = {} /\ cycle[c].did = {} /\ cycle[c].rolled = "no"
        /\ \A r \in mine : \E a \in cycle[c].did : a.kind = r.kind /\ a.dev = r.dev
        /\ cycle[c].rolled # "no" => mine = {}
        /\ cycle[c].reason \notin {"none", "execution_error"} => cycle[c].did = {}
        /\ cycle[c].at = "learn" /\ mine # {} => cycle[c].final = "mitigated"
        /\ cycle[c].at \in {"end", "done"} /\ mine # {} => cycle[c].outcome = "verified"

\* A selected device keeps its protection, and has one action of a kind.
Whole(acts, dust, seen) ==
    /\ \A a \in Graph!StormShield(dust, seen) : (\E b \in acts : b.dev = a.dev) => a \in acts
    /\ \A a, b \in acts : a.kind = b.kind /\ a.dev = b.dev => a = b

CyclePlan(c) ==
    /\ cycle[c].at = "normalize" => cycle[c].kind = "durable"
    /\ cycle[c].at \in Committed /\ cycle[c].kind # "durable" =>
          Whole(cycle[c].plan, cycle[c].dust, cycle[c].before)

GraphInvariant ==
    /\ Shaped /\ ClientTypes
    /\ \A c \in Cycle : CycleTypes(c) /\ CycleFacts(c) /\ CyclePlan(c)

GraphKept == part \in Deployment \cup Service /\ (part = "graph" => GraphInvariant)

(***************************************************************************)
(* The plan.                                                               *)
(***************************************************************************)
\* The instance counts as FiniteSets does.
LEMMA GraphCounts ==
    ASSUME NEW S
    PROVE  Graph!Cardinality(S) = Cardinality(S) /\ (Graph!IsFiniteSet(S) <=> IsFiniteSet(S))
  BY DEF Graph!Cardinality, Cardinality, Graph!IsFiniteSet, IsFiniteSet

LEMMA GraphConstants ==
    /\ KindsOf \in [Cycle -> SUBSET Graph!Kinds]
    /\ IsFiniteSet(Device)
    /\ Tier \in [Device -> {1, 3}] /\ CellOf \in [Device -> Cell]
    /\ FixtureLevel \in [Cell -> 0..3] /\ SeenLevels \subseteq 0..3
    /\ MaxFaults \in Nat
  BY ServicesAssumption, GraphCounts DEF Graph!CycleAssumption

\* An action is its kind, device and profile.
LEMMA ActionFields ==
    /\ \A a \in Graph!Actions : a.kind \in {"qos", "slice_attach", "geofence"} /\ a.dev \in Device
    /\ \A a, b \in Graph!Actions :
          a.kind = b.kind /\ a.dev = b.dev /\ a.prof = b.prof => a = b
  BY DEF Graph!Actions

LEMMA ActionsFinite == IsFiniteSet(Graph!Actions)
  <1> DEFINE Sorts == {"qos", "slice_attach", "geofence"}
             Targets == Device \X Graph!Profiles
             Make == [t \in Sorts \X Targets |-> [kind |-> t[1], dev |-> t[2][1], prof |-> t[2][2]]]
  <1>1. IsFiniteSet(Sorts) /\ IsFiniteSet(Graph!Profiles)
    <2>1. IsFiniteSet({"qos"} \cup {"slice_attach"} \cup {"geofence"})
      BY FS_Singleton, FS_Union
    <2>2. IsFiniteSet({"guaranteed"} \cup {"low-bandwidth"} \cup {"emergency-only"} \cup {"none"})
      BY FS_Singleton, FS_Union
    <2>3. /\ Sorts = {"qos"} \cup {"slice_attach"} \cup {"geofence"}
          /\ Graph!Profiles
                = {"guaranteed"} \cup {"low-bandwidth"} \cup {"emergency-only"} \cup {"none"}
      BY DEF Graph!Profiles
    <2> QED BY <2>1, <2>2, <2>3
  <1>2. IsFiniteSet(Sorts \X Targets)
    BY <1>1, GraphConstants, FS_Product
  <1>3. Make \in Surjection(Sorts \X Targets, Graph!Actions)
    <2>1. Make \in [Sorts \X Targets -> Graph!Actions]
      BY DEF Graph!Actions
    <2>2. ASSUME NEW a \in Graph!Actions
          PROVE  \E t \in Sorts \X Targets : Make[t] = a
      <3>1. <<a.kind, <<a.dev, a.prof>>>> \in Sorts \X Targets
        BY DEF Graph!Actions
      <3>2. Make[<<a.kind, <<a.dev, a.prof>>>>] = a
        BY <3>1 DEF Graph!Actions
      <3> QED BY <3>1, <3>2
    <2> QED BY <2>1, <2>2 DEF Surjection
  <1> QED BY <1>2, <1>3, FS_Surjection

\* A ranking leaves no candidate out.
LEMMA RankedAll ==
    ASSUME NEW S \in SUBSET Graph!Actions, NEW ranked \in Graph!SetToSeqs(S)
    PROVE  Graph!ToSet(ranked) = S
  <1>1. IsFiniteSet(S) /\ Cardinality(S) \in Nat
    BY ActionsFinite, FS_Subset, FS_CardinalityType
  <1> DEFINE n == Cardinality(S)
  <1>2. /\ ranked \in [1..n -> S]
        /\ \A i, j \in 1..n : i # j => ranked[i] # ranked[j]
    BY GraphCounts DEF Graph!SetToSeqs
  <1>3. ranked \in Injection(1..n, S)
    BY <1>2 DEF Injection, IsInjective
  <1>4. Cardinality(1..n) = n
    BY <1>1, FS_Interval
  <1>5. ranked \in Surjection(1..n, S)
    BY <1>1, <1>3, <1>4, FS_Injection
  <1> QED BY <1>2, <1>5 DEF Surjection, Graph!ToSet

\* What the playbooks propose, by device, kind and profile.
LEMMA Proposals ==
    ASSUME NEW dust, NEW seen, NEW drained \in SUBSET Device
    PROVE  /\ \A a \in Graph!EnergyGuard(seen, drained) :
                 /\ a \in Graph!Actions /\ a.kind = "qos" /\ a.prof = "emergency-only"
                 /\ Tier[a.dev] = 3
           /\ \A a \in Graph!StormShield(dust, seen) :
                 /\ a \in Graph!Actions /\ Tier[a.dev] = 1
                 /\ a.prof = IF a.kind = "qos" THEN "guaranteed" ELSE "none"
           /\ \A a \in Graph!CapacityHarvest(seen) :
                 a \in Graph!Actions /\ a.kind = "qos" /\ a.prof = "low-bandwidth"
  <1>1. \A a \in Graph!EnergyGuard(seen, drained) :
            /\ a \in Graph!Actions /\ a.kind = "qos" /\ a.prof = "emergency-only"
            /\ Tier[a.dev] = 3
    BY DEF Graph!EnergyGuard, Graph!Qos, Graph!Actions, Graph!Profiles
  <1>2. ASSUME NEW a \in Graph!StormShield(dust, seen)
        PROVE  /\ a \in Graph!Actions /\ Tier[a.dev] = 1
               /\ a.prof = IF a.kind = "qos" THEN "guaranteed" ELSE "none"
    <2>1. PICK d \in Device :
              /\ Tier[d] = 1
              /\ a \in {Graph!Qos(d, "guaranteed"), Graph!Other("slice_attach", d),
                        Graph!Other("geofence", d)}
      BY <1>2 DEF Graph!StormShield
    <2> QED BY <2>1 DEF Graph!Qos, Graph!Other, Graph!Actions, Graph!Profiles
  <1>3. ASSUME NEW a \in Graph!CapacityHarvest(seen)
        PROVE  a \in Graph!Actions /\ a.kind = "qos" /\ a.prof = "low-bandwidth"
    <2>1. PICK d \in Device : a = Graph!Qos(d, "low-bandwidth")
      BY <1>3, Zenon DEF Graph!CapacityHarvest
    <2> QED BY <2>1 DEF Graph!Qos, Graph!Actions, Graph!Profiles
  <1> QED BY <1>1, <1>2, <1>3

\* Whatever devices are selected, what is proposed for them is whole.
LEMMA ProposedWhole ==
    ASSUME NEW dust, NEW seen, NEW drained \in SUBSET Device, NEW selected
    PROVE  LET all == Graph!Proposed(dust, seen, drained)
           IN  /\ all \subseteq Graph!Actions
               /\ Whole({a \in all : a.dev \in selected}, dust, seen)
  <1> DEFINE all == Graph!Proposed(dust, seen, drained)
             guard == Graph!EnergyGuard(seen, drained)
             shield == Graph!StormShield(dust, seen)
             harvest == Graph!CapacityHarvest(seen)
             Free(a, high) == \A b \in high : <<a.kind, a.dev>> # <<b.kind, b.dev>>
             lower == shield \cup {a \in harvest : Free(a, shield)}
  <1>1. all = guard \cup {a \in lower : Free(a, guard)}
    BY DEF Graph!Proposed
  <1>2. /\ \A a \in guard : /\ a \in Graph!Actions /\ a.kind = "qos"
                            /\ a.prof = "emergency-only" /\ Tier[a.dev] = 3
        /\ \A a \in shield : /\ a \in Graph!Actions /\ Tier[a.dev] = 1
                             /\ a.prof = IF a.kind = "qos" THEN "guaranteed" ELSE "none"
        /\ \A a \in harvest : a \in Graph!Actions /\ a.kind = "qos" /\ a.prof = "low-bandwidth"
    BY Proposals
  <1> HIDE DEF all, guard, harvest
  <1>3. all \subseteq Graph!Actions
    BY <1>1, <1>2
  <1>4. shield \subseteq all
    <2>1. \A a \in shield : Free(a, guard)
      BY <1>2
    <2> QED BY <1>1, <2>1
  <1>5. ASSUME NEW a \in all, NEW b \in all, a.kind = b.kind, a.dev = b.dev
        PROVE  a = b
    <2>1. a.prof = b.prof
      BY <1>1, <1>2, <1>5
    <2> QED BY <1>3, <1>5, <2>1, ActionFields
  <1>6. Whole({a \in all : a.dev \in selected}, dust, seen)
    BY <1>4, <1>5 DEF Whole
  <1> QED BY <1>3, <1>6 DEF all

(***************************************************************************)
(* Steps.                                                                  *)
(***************************************************************************)
LEMMA GraphTyped == Graph!TypeOK <=> ClientTypes /\ \A c \in Cycle : CycleTypes(c)
  BY DEF Graph!TypeOK, ClientTypes, CycleTypes, Resource

LEMMA GraphStarts == ASSUME Graph!Init PROVE GraphInvariant
  <1>1. cycle = [c \in Cycle |-> Graph!Fresh] /\ held = {}
    BY DEF Graph!Init
  <1>2. Shaped
    BY <1>1 DEF Shaped, Graph!Fresh, Fields
  <1>3. ClientTypes
    BY GraphConstants DEF Graph!Init, ClientTypes
  <1>4. ASSUME NEW c \in Cycle  PROVE CycleTypes(c) /\ CycleFacts(c) /\ CyclePlan(c)
    <2>1. cycle[c] = Graph!Fresh /\ Graph!Mine(c) = {}
      BY <1>1 DEF Graph!Mine
    <2>2. CycleTypes(c)
      BY <2>1, GraphConstants DEF CycleTypes, Graph!Fresh, Graph!Nodes, Graph!Kinds
    <2>3. CycleFacts(c)
      BY <2>1 DEF CycleFacts, Graph!Fresh, Untouched
    <2>4. CyclePlan(c)
      BY <2>1 DEF CyclePlan, Graph!Fresh, Committed
    <2> QED BY <2>2, <2>3, <2>4
  <1> QED BY <1>2, <1>3, <1>4 DEF GraphInvariant

\* A step of one cycle leaves the states of the others alone, and gives them nothing.
Apart(c) ==
    /\ Shaped'
    /\ \A d \in Cycle \ {c} : cycle'[d] = cycle[d]
    /\ \A r \in held' : r \in held \/ r.by = c

LEMMA OthersKeep ==
    ASSUME NEW c \in Cycle, Apart(c), NEW d \in Cycle \ {c},
           CycleTypes(d), CycleFacts(d), CyclePlan(d)
    PROVE  CycleTypes(d)' /\ CycleFacts(d)' /\ CyclePlan(d)'
  <1>1. cycle'[d] = cycle[d]
    BY DEF Apart
  <1>2. Graph!Mine(d)' \subseteq Graph!Mine(d)
    BY DEF Apart, Graph!Mine
  <1>3. CycleTypes(d)'
    BY <1>1 DEF CycleTypes
  <1>4. CycleFacts(d)'
    BY <1>1, <1>2 DEF CycleFacts
  <1>5. CyclePlan(d)'
    BY <1>1 DEF CyclePlan, Whole
  <1> QED BY <1>3, <1>4, <1>5

LEMMA OneMoves ==
    ASSUME GraphInvariant, NEW c \in Cycle, Apart(c), ClientTypes',
           CycleTypes(c)', CycleFacts(c)', CyclePlan(c)'
    PROVE  GraphInvariant'
  <1>1. Shaped'
    BY DEF Apart
  <1>2. ASSUME NEW d \in Cycle  PROVE CycleTypes(d)' /\ CycleFacts(d)' /\ CyclePlan(d)'
    <2>1. CycleTypes(d) /\ CycleFacts(d) /\ CyclePlan(d)
      BY DEF GraphInvariant
    <2> QED BY <2>1, OthersKeep
  <1> QED BY <1>1, <1>2 DEF GraphInvariant

\* What a cycle that steps relies on.
LEMMA GraphFacts ==
    ASSUME GraphInvariant, NEW c \in Cycle
    PROVE  /\ Shaped /\ ClientTypes /\ CycleTypes(c) /\ CycleFacts(c) /\ CyclePlan(c)
           /\ DOMAIN cycle = Cycle /\ DOMAIN cycle[c] = Fields
           /\ \A d \in Cycle : DOMAIN cycle[d] = Fields
  BY DEF GraphInvariant, Shaped

\* A node before the actuator that only changes what follows from its inputs.
LEMMA UntouchedStep ==
    ASSUME GraphInvariant, NEW c \in Cycle, Apart(c), ClientTypes', UNCHANGED held,
           cycle[c].at \in Untouched, cycle'[c].at \in Untouched \cup {"done"},
           cycle'[c].did = cycle[c].did, cycle'[c].rolled = cycle[c].rolled,
           CycleTypes(c)', CyclePlan(c)'
    PROVE  GraphInvariant'
  <1>1. Graph!Mine(c) = {} /\ cycle[c].did = {} /\ cycle[c].rolled = "no"
    BY DEF GraphInvariant, CycleFacts
  <1>2. Graph!Mine(c)' = {}
    BY <1>1 DEF Graph!Mine
  <1>3. CycleFacts(c)'
    BY <1>1, <1>2 DEF CycleFacts
  <1> QED BY <1>3, OneMoves

LEMMA StartStep ==
    ASSUME GraphInvariant, NEW c \in Cycle, NEW kind \in KindsOf[c], NEW dust \in BOOLEAN,
           Graph!Start(c, kind, dust)
    PROVE  GraphInvariant'
  <1>1. kind \in Graph!Kinds
    BY GraphConstants
  <1>2. /\ cycle[c].at = "idle" /\ cycle'[c].at = "sentinel" /\ cycle'[c].kind = kind
        /\ \A f \in {"before", "plan", "did", "rolled", "warden"} : cycle'[c][f] = cycle[c][f]
        /\ Apart(c)
    BY GraphFacts DEF Graph!Start, Graph!Move, Apart, Shaped, Fields
  <1>3. CycleTypes(c)'
    BY <1>1, <1>2, GraphFacts DEF CycleTypes, Graph!Nodes
  <1>4. CyclePlan(c)'
    BY <1>2 DEF CyclePlan, Committed
  <1>5. ClientTypes' /\ UNCHANGED held
    BY GraphFacts DEF Graph!Start, ClientTypes
  <1> QED BY <1>2, <1>3, <1>4, <1>5, UntouchedStep DEF Untouched

LEMMA SentinelStep ==
    ASSUME GraphInvariant, NEW c \in Cycle, Graph!Sentinel(c)
    PROVE  GraphInvariant'
  <1>1. PICK seen \in [Cell -> 0..3] : Graph!Move(c, [at |-> "triage", before |-> seen])
    <2>1. PICK seen \in IF Graph!Isolated(c) THEN {level} ELSE [Cell -> SeenLevels] :
              Graph!Move(c, [at |-> "triage", before |-> seen])
      BY DEF Graph!Sentinel
    <2>2. seen \in [Cell -> 0..3]
      BY <2>1, GraphConstants, GraphFacts DEF ClientTypes
    <2> QED BY <2>1, <2>2
  <1>2. cycle[c].at = "sentinel" /\ UNCHANGED <<conf, held, level, latest, faults>>
    BY DEF Graph!Sentinel
  <1>3. /\ cycle'[c].at = "triage" /\ cycle'[c].before = seen
        /\ \A f \in {"kind", "plan", "did", "rolled", "warden"} : cycle'[c][f] = cycle[c][f]
        /\ Apart(c)
    BY <1>1, <1>2, GraphFacts DEF Graph!Move, Apart, Shaped, Fields
  <1>4. CycleTypes(c)'
    BY <1>3, GraphFacts DEF CycleTypes, Graph!Nodes
  <1>5. CyclePlan(c)'
    BY <1>3 DEF CyclePlan, Committed
  <1>6. ClientTypes'
    BY <1>2, GraphFacts DEF ClientTypes
  <1> QED BY <1>2, <1>3, <1>4, <1>5, <1>6, UntouchedStep DEF Untouched

\* Triage selects devices of what is proposed: the plan is whole.
LEMMA TriageStep ==
    ASSUME GraphInvariant, NEW c \in Cycle, Graph!Triage(c)
    PROVE  GraphInvariant'
  <1> DEFINE dust == cycle[c].dust
             seen == cycle[c].before
             node == IF cycle[c].kind = "durable" THEN "normalize" ELSE "warden"
  <1>1. PICK drained \in SUBSET Device, approval \in BOOLEAN :
            \E ranked \in Graph!SetToSeqs(Graph!Proposed(dust, seen, drained)) :
               Graph!Move(c, [at |-> node, plan |-> Graph!Bounded(ranked),
                              approval |-> approval])
    BY DEF Graph!Triage
  <1>2. PICK ranked \in Graph!SetToSeqs(Graph!Proposed(dust, seen, drained)) :
            Graph!Move(c, [at |-> node, plan |-> Graph!Bounded(ranked), approval |-> approval])
    BY <1>1
  <1> DEFINE acts == Graph!Bounded(ranked)
             all == Graph!Proposed(dust, seen, drained)
  <1>3. acts \subseteq Graph!Actions /\ Whole(acts, dust, seen)
    <2>1. all \subseteq Graph!Actions
      BY ProposedWhole
    <2>2. Graph!ToSet(ranked) = all
      BY <2>1, RankedAll
    <2>3. acts = {a \in all : a.dev \in Graph!Selected(ranked)}
      BY <2>2 DEF Graph!Bounded
    <2>4. Whole({a \in all : a.dev \in Graph!Selected(ranked)}, dust, seen)
      BY ProposedWhole
    <2> QED BY <2>1, <2>3, <2>4
  <1>4. cycle[c].at = "triage" /\ UNCHANGED <<conf, held, level, latest, faults>>
    BY DEF Graph!Triage
  <1> HIDE DEF acts, all
  <1>5. /\ cycle'[c].at = node /\ cycle'[c].plan = acts
        /\ \A f \in {"kind", "dust", "before", "did", "rolled", "warden"} :
              cycle'[c][f] = cycle[c][f]
        /\ Apart(c)
    BY <1>2, <1>4, GraphFacts DEF acts, Graph!Move, Apart, Shaped, Fields
  <1>6. CycleTypes(c)'
    <2>1. cycle[c].did = {}
      BY <1>4, GraphFacts DEF CycleFacts, Untouched
    <2> QED BY <1>3, <1>5, <2>1, GraphFacts DEF CycleTypes, Graph!Nodes
  <1>7. CyclePlan(c)'
    BY <1>3, <1>5 DEF CyclePlan, Committed
  <1>8. ClientTypes'
    BY <1>4, GraphFacts DEF ClientTypes
  <1> QED BY <1>4, <1>5, <1>6, <1>7, <1>8, UntouchedStep DEF Untouched

LEMMA NormalizeStep ==
    ASSUME GraphInvariant, NEW c \in Cycle, Graph!Normalize(c)
    PROVE  GraphInvariant'
  <1>1. PICK allowed \in SUBSET cycle[c].plan, approval \in BOOLEAN :
            Graph!Move(c, [at |-> "warden", plan |-> allowed, approval |-> approval])
    BY DEF Graph!Normalize
  <1>2. cycle[c].at = "normalize" /\ UNCHANGED <<conf, held, level, latest, faults>>
    BY DEF Graph!Normalize
  <1>3. /\ cycle'[c].at = "warden" /\ cycle'[c].plan = allowed
        /\ \A f \in {"kind", "before", "did", "rolled", "warden"} : cycle'[c][f] = cycle[c][f]
        /\ Apart(c)
    BY <1>1, <1>2, GraphFacts DEF Graph!Move, Apart, Shaped, Fields
  <1>4. CycleTypes(c)'
    <2>1. cycle[c].did = {}
      BY <1>2, GraphFacts DEF CycleFacts, Untouched
    <2> QED BY <1>3, <2>1, GraphFacts DEF CycleTypes, Graph!Nodes
  <1>5. CyclePlan(c)'
    BY <1>2, <1>3, GraphFacts DEF CyclePlan
  <1>6. ClientTypes'
    BY <1>2, GraphFacts DEF ClientTypes
  <1> QED BY <1>2, <1>3, <1>4, <1>5, <1>6, UntouchedStep DEF Untouched

LEMMA WardenStep ==
    ASSUME GraphInvariant, NEW c \in Cycle, Graph!Warden(c)
    PROVE  GraphInvariant'
  <1>1. PICK verdict \in {"ok", "pending", "rejected"}, node \in {"planned", "actuator"} :
            Graph!Move(c, [warden |-> verdict, at |-> node])
    BY DEF Graph!Warden
  <1>2. cycle[c].at = "warden" /\ UNCHANGED <<conf, held, level, latest, faults>>
    BY DEF Graph!Warden
  <1>3. /\ cycle'[c].at = node /\ cycle'[c].warden = verdict
        /\ \A f \in {"kind", "dust", "before", "plan", "did", "rolled"} :
              cycle'[c][f] = cycle[c][f]
        /\ Apart(c)
    BY <1>1, <1>2, GraphFacts DEF Graph!Move, Apart, Shaped, Fields
  <1>4. CycleTypes(c)'
    BY <1>3, GraphFacts DEF CycleTypes, Graph!Nodes
  <1>5. CyclePlan(c)'
    BY <1>2, <1>3, GraphFacts DEF CyclePlan, Committed
  <1>6. ClientTypes'
    BY <1>2, GraphFacts DEF ClientTypes
  <1> QED BY <1>2, <1>3, <1>4, <1>5, <1>6, UntouchedStep DEF Untouched

LEMMA AcceptDurableStep ==
    ASSUME GraphInvariant, NEW c \in Cycle, Graph!AcceptDurable(c)
    PROVE  GraphInvariant'
  <1>1. /\ cycle[c].at = "planned" /\ UNCHANGED <<conf, held, level, faults>>
        /\ Graph!Move(c, [at |-> "done", reason |-> "phase_7b_authorized_plan_only"])
        /\ latest' \in {latest, c}
    BY DEF Graph!AcceptDurable
  <1>2. /\ cycle'[c].at = "done"
        /\ \A f \in {"kind", "before", "plan", "did", "rolled", "warden"} :
              cycle'[c][f] = cycle[c][f]
        /\ Apart(c)
    BY <1>1, GraphFacts DEF Graph!Move, Apart, Shaped, Fields
  <1>3. CycleTypes(c)'
    BY <1>2, GraphFacts DEF CycleTypes, Graph!Nodes
  <1>4. CyclePlan(c)'
    BY <1>2 DEF CyclePlan, Committed
  <1>5. ClientTypes'
    BY <1>1, GraphFacts DEF ClientTypes
  <1> QED BY <1>1, <1>2, <1>3, <1>4, <1>5, UntouchedStep DEF Untouched

\* The client's level of a cell after sessions were added is a level.
LEMMA RelievedTyped ==
    ASSUME ClientTypes, NEW acts \in SUBSET Graph!Actions
    PROVE  Graph!Relieved(acts) \in [Cell -> 0..3]
  <1> DEFINE sessions(cell) == {a \in acts : a.kind = "qos" /\ CellOf[a.dev] = cell}
             n(cell) == Graph!Cardinality(sessions(cell))
             rest(cell) == IF conf.suppress \/ n(cell) = 0 THEN level[cell]
                           ELSE IF n(cell) >= level[cell] THEN 0 ELSE level[cell] - n(cell)
  <1>1. ASSUME NEW cell \in Cell  PROVE rest(cell) \in 0..3
    <2>1. sessions(cell) \subseteq Graph!Actions
      OBVIOUS
    <2>2. n(cell) \in Nat
      BY <2>1, ActionsFinite, FS_Subset, FS_CardinalityType, GraphCounts
    <2>3. level[cell] \in 0..3
      BY DEF ClientTypes
    <2> HIDE DEF n
    <2> QED BY <2>2, <2>3
  <1>2. Graph!Relieved(acts) = [cell \in Cell |-> rest(cell)]
    BY DEF Graph!Relieved
  <1> HIDE DEF rest
  <1> QED BY <1>1, <1>2

\* The actuator of a cycle is the only one to give it resources, those of its actions.
LEMMA ActuatorStep ==
    ASSUME GraphInvariant, NEW c \in Cycle, Graph!Actuator(c)
    PROVE  GraphInvariant'
  <1>1. /\ cycle[c].at = "actuator" /\ UNCHANGED <<conf, latest>>
        /\ Graph!Mine(c) = {} /\ cycle[c].did = {} /\ cycle[c].rolled = "no"
        /\ cycle[c].plan \subseteq Graph!Actions
    BY GraphFacts DEF Graph!Actuator, CycleFacts, CycleTypes, Untouched
  <1>2. CASE /\ Graph!Move(c, [at |-> "verify", reason |-> Graph!Refusal(c)])
             /\ UNCHANGED <<held, level, faults>>
    <2>1. /\ cycle'[c].at = "verify"
          /\ \A f \in {"kind", "dust", "before", "plan", "did", "rolled", "warden"} :
                cycle'[c][f] = cycle[c][f]
          /\ Apart(c)
      BY <1>1, <1>2, GraphFacts DEF Graph!Move, Apart, Shaped, Fields
    <2>2. CycleTypes(c)'
      BY <2>1, GraphFacts DEF CycleTypes, Graph!Nodes
    <2>3. Graph!Mine(c)' = {}
      BY <1>1, <1>2 DEF Graph!Mine
    <2>4. CycleFacts(c)'
      BY <1>1, <2>1, <2>3 DEF CycleFacts
    <2>5. CyclePlan(c)'
      BY <1>1, <2>1, GraphFacts DEF CyclePlan, Committed
    <2>6. ClientTypes'
      BY <1>1, <1>2, GraphFacts DEF ClientTypes
    <2> QED BY <2>1, <2>2, <2>4, <2>5, <2>6, OneMoves
  <1>3. ASSUME NEW did \in SUBSET cycle[c].plan, NEW all \in BOOLEAN,
               ~all => faults < MaxFaults,
               faults' = IF all THEN faults ELSE faults + 1,
               held' = Graph!Installed(c, did), level' = Graph!Relieved(did),
               Graph!Move(c, [at |-> "verify", executed |-> all, did |-> did,
                              reason |-> IF all THEN "none" ELSE "execution_error"])
        PROVE  GraphInvariant'
    <2>1. \A r \in held' : \/ r \in held
                           \/ /\ r \in Resource /\ r.by = c
                              /\ \E a \in did : a.kind = r.kind /\ a.dev = r.dev
      <3>1. \A a \in did : a.kind \in {"qos", "slice_attach", "geofence"} /\ a.dev \in Device
        BY <1>1, ActionFields
      <3>2. ASSUME NEW r \in held', r \notin held
            PROVE  /\ r \in Resource /\ r.by = c
                   /\ \E a \in did : a.kind = r.kind /\ a.dev = r.dev
        <4>1. PICK a \in did : r = [kind |-> a.kind, dev |-> a.dev, by |-> c]
          BY <1>3, <3>2 DEF Graph!Installed
        <4> QED BY <3>1, <4>1 DEF Resource
      <3> QED BY <3>2
    <2>2. /\ cycle'[c].at = "verify" /\ cycle'[c].did = did
          /\ cycle'[c].reason \in {"none", "execution_error"}
          /\ \A f \in {"kind", "dust", "before", "plan", "rolled", "warden"} :
                cycle'[c][f] = cycle[c][f]
          /\ Shaped' /\ \A d \in Cycle \ {c} : cycle'[d] = cycle[d]
      BY <1>1, <1>3, GraphFacts DEF Graph!Move, Shaped, Fields
    <2>3. Apart(c)
      BY <2>1, <2>2 DEF Apart
    <2>4. CycleTypes(c)'
      BY <2>2, GraphFacts DEF CycleTypes, Graph!Nodes
    <2>5. \A r \in Graph!Mine(c)' : \E a \in did : a.kind = r.kind /\ a.dev = r.dev
      BY <1>1, <2>1 DEF Graph!Mine
    <2>6. CycleFacts(c)'
      BY <1>1, <2>2, <2>5 DEF CycleFacts, Untouched
    <2>7. CyclePlan(c)'
      BY <1>1, <2>2, GraphFacts DEF CyclePlan, Committed
    <2>8. ClientTypes'
      <3>1. level' \in [Cell -> 0..3]
        BY <1>1, <1>3, GraphFacts, RelievedTyped
      <3>2. held' \subseteq Resource
        BY <2>1, GraphFacts DEF ClientTypes
      <3>3. faults' \in 0..MaxFaults
        BY <1>3, GraphFacts, GraphConstants DEF ClientTypes
      <3> QED BY <1>1, <3>1, <3>2, <3>3, GraphFacts DEF ClientTypes
    <2> QED BY <2>3, <2>4, <2>6, <2>7, <2>8, OneMoves
  <1>4. CASE \E did \in SUBSET cycle[c].plan, all \in BOOLEAN :
                /\ ~all => faults < MaxFaults
                /\ faults' = IF all THEN faults ELSE faults + 1
                /\ held' = Graph!Installed(c, did) /\ level' = Graph!Relieved(did)
                /\ Graph!Move(c, [at |-> "verify", executed |-> all, did |-> did,
                                  reason |-> IF all THEN "none" ELSE "execution_error"])
    BY <1>3, <1>4
  <1> QED BY <1>2, <1>4 DEF Graph!Actuator

\* A cycle with resources that is routed to learn was mitigated.
LEMMA KeptOnlyIfMitigated ==
    ASSUME NEW c \in Cycle, CycleTypes(c), CycleFacts(c), Graph!Mine(c) # {},
           NEW reachable \in BOOLEAN,
           Graph!Route(c, Graph!Status(c, reachable)) = "learn"
    PROVE  /\ Graph!Status(c, reachable) = "mitigated"
           /\ Graph!FinalStatus(c, "mitigated") = "mitigated"
  <1>1. /\ cycle[c].did # {} /\ cycle[c].plan # {} /\ cycle[c].rolled = "no"
        /\ cycle[c].reason \in {"none", "execution_error"}
    BY DEF CycleFacts, CycleTypes
  <1>2. Graph!NothingToUndo(Graph!Status(c, reachable))
    BY <1>1 DEF Graph!Route
  <1>3. Graph!Status(c, reachable) \in {"execution_failed_partial", "verification_unavailable",
                                        "mitigated", "degraded", "unchanged", "not_mitigated"}
    BY <1>1 DEF Graph!Status
  <1>4. Graph!Status(c, reachable) = "mitigated"
    BY <1>2, <1>3 DEF Graph!NothingToUndo
  <1>5. Graph!FinalStatus(c, "mitigated") = "mitigated"
    BY <1>1 DEF Graph!FinalStatus
  <1> QED BY <1>4, <1>5

LEMMA VerifyStep ==
    ASSUME GraphInvariant, NEW c \in Cycle, Graph!Verify(c)
    PROVE  GraphInvariant'
  <1>1. cycle[c].at = "verify" /\ UNCHANGED <<conf, held, level, latest, faults>>
    BY DEF Graph!Verify
  <1>2. PICK reachable \in BOOLEAN :
            LET status == Graph!Status(c, reachable)
                noted == ~Graph!NothingToUndo(status) /\ cycle[c].rolled = "failed"
            IN  \E final \in {Graph!FinalStatus(c, status)}
                             \cup (IF noted THEN {"rollback_failed"} ELSE {}) :
                   Graph!Move(c, [at |-> Graph!Route(c, status), final |-> final])
    BY DEF Graph!Verify
  <1> DEFINE status == Graph!Status(c, reachable)
             node == Graph!Route(c, status)
  <1>3. PICK final :
            /\ \/ final = Graph!FinalStatus(c, status)
               \/ ~Graph!NothingToUndo(status)
            /\ Graph!Move(c, [at |-> node, final |-> final])
    BY <1>2
  <1>4. node \in {"learn", "rollback"}
    BY DEF Graph!Route
  <1>5. cycle[c].rolled = "no" /\ node = "learn" => Graph!NothingToUndo(status)
    BY DEF Graph!Route
  <1>6. node = "learn" /\ Graph!Mine(c) # {} => final = "mitigated"
    BY <1>3, <1>5, KeptOnlyIfMitigated, GraphFacts DEF CycleFacts
  <1> HIDE DEF status, node
  <1>7. /\ cycle'[c].at = node /\ cycle'[c].final = final
        /\ \A f \in {"kind", "dust", "before", "plan", "did", "rolled", "warden", "reason"} :
              cycle'[c][f] = cycle[c][f]
        /\ Apart(c)
    BY <1>1, <1>3, GraphFacts DEF Graph!Move, Apart, Shaped, Fields
  <1>8. CycleTypes(c)'
    BY <1>4, <1>7, GraphFacts DEF CycleTypes, Graph!Nodes
  <1>9. CycleFacts(c)'
    <2>1. Graph!Mine(c)' = Graph!Mine(c)
      BY <1>1 DEF Graph!Mine
    <2> QED BY <1>4, <1>6, <1>7, <2>1, GraphFacts DEF CycleFacts, Untouched
  <1>10. CyclePlan(c)'
    BY <1>1, <1>4, <1>7, GraphFacts DEF CyclePlan, Committed
  <1>11. ClientTypes'
    BY <1>1, GraphFacts DEF ClientTypes
  <1> QED BY <1>7, <1>8, <1>9, <1>10, <1>11, OneMoves

\* What is released is everything the cycle has.
LEMMA ReleasedAll ==
    ASSUME NEW c \in Cycle, CycleFacts(c), held' = Graph!Released(c)
    PROVE  held' \subseteq held /\ Graph!Mine(c)' = {}
  BY DEF CycleFacts, Graph!Released, Graph!Mine

LEMMA RollbackStep ==
    ASSUME GraphInvariant, NEW c \in Cycle, Graph!Rollback(c)
    PROVE  GraphInvariant'
  <1>1. cycle[c].at = "rollback" /\ UNCHANGED <<conf, level, latest, faults>>
    BY DEF Graph!Rollback
  <1>2. held' \subseteq held /\ Graph!Mine(c)' = {}
    <2>1. CASE cycle[c].rolled # "no"
      BY <2>1, GraphFacts DEF Graph!Rollback, CycleFacts, Graph!Mine
    <2>2. CASE cycle[c].rolled = "no"
      BY <2>2, ReleasedAll, GraphFacts DEF Graph!Rollback
    <2> QED BY <2>1, <2>2, GraphFacts DEF CycleTypes
  <1>3. /\ cycle'[c].at = "verify" /\ cycle'[c].rolled \in {"no", "ok", "failed"}
        /\ \A f \in {"kind", "dust", "before", "plan", "did", "warden", "reason"} :
              cycle'[c][f] = cycle[c][f]
        /\ Apart(c)
    <2>1. CASE Graph!Move(c, [at |-> "verify"])
      BY <1>2, <2>1, GraphFacts DEF Graph!Move, Apart, Shaped, Fields, CycleTypes
    <2>2. ASSUME NEW rolled \in {"ok", "failed"},
                 Graph!Move(c, [at |-> "verify", rolled |-> rolled])
          PROVE  /\ cycle'[c].at = "verify" /\ cycle'[c].rolled \in {"no", "ok", "failed"}
                 /\ \A f \in {"kind", "dust", "before", "plan", "did", "warden", "reason"} :
                       cycle'[c][f] = cycle[c][f]
                 /\ Apart(c)
      BY <1>2, <2>2, GraphFacts DEF Graph!Move, Apart, Shaped, Fields
    <2>3. \/ Graph!Move(c, [at |-> "verify"])
          \/ \E rolled \in {"ok", "failed"} : Graph!Move(c, [at |-> "verify", rolled |-> rolled])
      BY DEF Graph!Rollback
    <2> QED BY <2>1, <2>2, <2>3
  <1>4. CycleTypes(c)'
    BY <1>3, GraphFacts DEF CycleTypes, Graph!Nodes
  <1>5. CycleFacts(c)'
    BY <1>2, <1>3, GraphFacts DEF CycleFacts, Untouched
  <1>6. CyclePlan(c)'
    BY <1>1, <1>3, GraphFacts DEF CyclePlan, Committed
  <1>7. ClientTypes'
    BY <1>1, <1>2, GraphFacts DEF ClientTypes
  <1> QED BY <1>3, <1>4, <1>5, <1>6, <1>7, OneMoves

LEMMA LearnStep ==
    ASSUME GraphInvariant, NEW c \in Cycle, Graph!Learn(c)
    PROVE  GraphInvariant'
  <1>1. cycle[c].at = "learn" /\ UNCHANGED <<conf, held, level, latest, faults>>
    BY DEF Graph!Learn
  <1>2. /\ cycle'[c].at = "end"
        /\ cycle'[c].outcome = Graph!Outcome(c, cycle[c].final)
        /\ \A f \in {"kind", "before", "plan", "did", "rolled", "warden", "reason", "final"} :
              cycle'[c][f] = cycle[c][f]
        /\ Apart(c)
    BY <1>1, GraphFacts DEF Graph!Learn, Graph!Move, Apart, Shaped, Fields
  <1>3. CycleTypes(c)'
    BY <1>2, GraphFacts DEF CycleTypes, Graph!Nodes
  <1>4. CycleFacts(c)'
    <2>1. Graph!Mine(c)' = Graph!Mine(c)
      BY <1>1 DEF Graph!Mine
    <2>2. Graph!Mine(c) # {} => cycle'[c].outcome = "verified"
      <3>1. cycle[c].final = "mitigated" => Graph!Outcome(c, cycle[c].final) = "verified"
        BY DEF Graph!Outcome
      <3> QED BY <1>1, <1>2, <3>1, GraphFacts DEF CycleFacts
    <2> QED BY <1>2, <2>1, <2>2, GraphFacts DEF CycleFacts, Untouched
  <1>5. CyclePlan(c)'
    BY <1>2 DEF CyclePlan, Committed
  <1>6. ClientTypes'
    BY <1>1, GraphFacts DEF ClientTypes
  <1> QED BY <1>2, <1>3, <1>4, <1>5, <1>6, OneMoves

\* The end of a cycle only takes resources away.
LEMMA FinallyLess ==
    ASSUME GraphInvariant, NEW c \in Cycle, Graph!Finally(c)
    PROVE  held' \subseteq held /\ level' \in [Cell -> 0..3]
  BY GraphConstants, GraphFacts DEF Graph!Finally, ClientTypes

LEMMA EndStep ==
    ASSUME GraphInvariant, NEW c \in Cycle, Graph!End(c)
    PROVE  GraphInvariant'
  <1>1. /\ cycle[c].at = "end" /\ UNCHANGED <<conf, faults>> /\ latest' = c
        /\ held' \subseteq held /\ level' \in [Cell -> 0..3]
    BY FinallyLess DEF Graph!End
  <1>2. /\ cycle'[c].at = "done"
        /\ \A f \in {"kind", "before", "plan", "did", "rolled", "warden", "reason", "outcome"} :
              cycle'[c][f] = cycle[c][f]
        /\ Apart(c)
    BY <1>1, GraphFacts DEF Graph!End, Graph!Move, Apart, Shaped, Fields
  <1>3. CycleTypes(c)'
    BY <1>2, GraphFacts DEF CycleTypes, Graph!Nodes
  <1>4. CycleFacts(c)'
    <2>1. Graph!Mine(c)' \subseteq Graph!Mine(c)
      BY <1>1 DEF Graph!Mine
    <2> QED BY <1>1, <1>2, <2>1, GraphFacts DEF CycleFacts, Untouched
  <1>5. CyclePlan(c)'
    BY <1>2 DEF CyclePlan, Committed
  <1>6. ClientTypes'
    BY <1>1, GraphFacts DEF ClientTypes
  <1> QED BY <1>2, <1>3, <1>4, <1>5, <1>6, OneMoves

LEMMA RaiseStep ==
    ASSUME GraphInvariant, NEW c \in Cycle, Graph!Raise(c)
    PROVE  GraphInvariant'
  <1>1. /\ faults < MaxFaults /\ faults' = faults + 1 /\ UNCHANGED <<conf, latest>>
        /\ held' \subseteq held /\ level' \in [Cell -> 0..3]
    BY FinallyLess DEF Graph!Raise
  <1>2. /\ cycle'[c].at = "raised"
        /\ \A f \in {"kind", "before", "plan", "did", "rolled", "warden", "reason"} :
              cycle'[c][f] = cycle[c][f]
        /\ Apart(c)
    BY <1>1, GraphFacts DEF Graph!Raise, Graph!Move, Apart, Shaped, Fields
  <1>3. CycleTypes(c)'
    BY <1>2, GraphFacts DEF CycleTypes, Graph!Nodes
  <1>4. CycleFacts(c)'
    <2>1. Graph!Mine(c)' \subseteq Graph!Mine(c)
      BY <1>1 DEF Graph!Mine
    <2> QED BY <1>2, <2>1, GraphFacts DEF CycleFacts, Untouched
  <1>5. CyclePlan(c)'
    BY <1>2 DEF CyclePlan, Committed
  <1>6. ClientTypes'
    BY <1>1, GraphFacts, GraphConstants DEF ClientTypes
  <1> QED BY <1>2, <1>3, <1>4, <1>5, <1>6, OneMoves

LEMMA RecoverStep ==
    ASSUME GraphInvariant, NEW c \in Cycle, Graph!Recover(c)
    PROVE  GraphInvariant'
  <1>1. /\ cycle[c].at = "done" /\ UNCHANGED <<conf, level, latest, faults>>
        /\ held' \subseteq held /\ Graph!Mine(c)' = {}
    BY ReleasedAll, GraphFacts DEF Graph!Recover
  <1>2. /\ \A f \in {"at", "kind", "before", "plan", "did", "rolled", "warden", "reason"} :
              cycle'[c][f] = cycle[c][f]
        /\ Apart(c)
    BY <1>1, GraphFacts DEF Graph!Recover, Graph!Move, Apart, Shaped, Fields
  <1>3. CycleTypes(c)'
    BY <1>2, GraphFacts DEF CycleTypes
  <1>4. CycleFacts(c)'
    BY <1>1, <1>2, GraphFacts DEF CycleFacts
  <1>5. CyclePlan(c)'
    BY <1>1, <1>2 DEF CyclePlan, Committed
  <1>6. ClientTypes'
    BY <1>1, GraphFacts DEF ClientTypes
  <1> QED BY <1>2, <1>3, <1>4, <1>5, <1>6, OneMoves

LEMMA GraphStep ==
    ASSUME GraphInvariant, Graph!Next
    PROVE  GraphInvariant'
  BY StartStep, SentinelStep, TriageStep, NormalizeStep, WardenStep, AcceptDurableStep,
     ActuatorStep, VerifyStep, RollbackStep, LearnStep, EndStep, RaiseStep, RecoverStep
     DEF Graph!Next, Graph!Node

LEMMA GraphStutters ==
    ASSUME GraphInvariant, UNCHANGED Graph!vars
    PROVE  GraphInvariant'
  BY DEF GraphInvariant, Graph!vars, Shaped, ClientTypes, CycleTypes, CycleFacts, CyclePlan,
         Whole, Graph!Mine

LEMMA GraphAlways == Spec => []GraphKept
  <1>1. Init => GraphKept
    BY Starts, GraphStarts DEF GraphKept
  <1>2. GraphKept /\ [Next]_vars => GraphKept'
    <2> SUFFICES ASSUME GraphKept, [Next]_vars  PROVE GraphKept'
      OBVIOUS
    <2>1. part' = part /\ (part = "graph" => [Graph!Next]_(Graph!vars))
      BY Parted DEF GraphKept
    <2>2. ASSUME part = "graph"  PROVE GraphInvariant'
      BY <2>1, <2>2, GraphStep, GraphStutters DEF GraphKept
    <2> QED BY <2>1, <2>2 DEF GraphKept
  <1> QED BY <1>1, <1>2, PTL DEF Spec

(***************************************************************************)
(* The theorems.                                                           *)
(***************************************************************************)
\* What a partial execution, a failed or unreadable verification, a reset by another
\* cycle or a slice taken over leaves behind: a cycle that ended has nothing at the
\* client unless it is recorded as a verified mitigation; for any number of cycles.
THEOREM KeptWasMitigated == Spec => []KeptIsMitigated
  <1>1. GraphInvariant => Graph!KeptIsMitigated
    BY DEF GraphInvariant, CycleFacts, Graph!KeptIsMitigated
  <1>2. GraphKept => KeptIsMitigated
    BY <1>1 DEF GraphKept, KeptIsMitigated
  <1> QED BY GraphAlways, <1>2, PTL

\* However the advisory models rank what the playbooks propose, and whatever the bound
\* on devices, a selected device keeps its whole protection and no device gets two
\* actions of a kind.
THEOREM PlansAreWhole == Spec => []PlanIsWhole
  <1>1. GraphInvariant => Graph!PlanIsWhole
    BY DEF GraphInvariant, CyclePlan, Committed, Whole, Graph!PlanIsWhole
  <1>2. GraphKept => PlanIsWhole
    BY <1>1 DEF GraphKept, PlanIsWhole
  <1> QED BY GraphAlways, <1>2, PTL

\* Every service keeps to its types: the handlers' counters and places within their
\* bounds, and the records within the vocabulary of the code.
THEOREM TypeCorrect == Spec => []TypeOK
  <1>1. HistoryInvariant => History!TypeOK
    <2> SUFFICES ASSUME HistoryInvariant  PROVE History!TypeOK
      OBVIOUS
    <2>1. \A n \in DOMAIN chain : chain[n] \in Seq(Checkpoint)
      BY ElementOfSeq DEF HistoryInvariant, ChainOrder, Records
    <2>2. \A p \in Process : \A n \in DOMAIN view[p] : view[p][n] \in Seq(Checkpoint)
      BY ElementOfSeq DEF HistoryInvariant, ViewsBegin, Records
    <2>3. proc \in [Process -> ProcRecord]
      BY DEF HistoryInvariant, ProcTypes
    <2> QED BY <2>1, <2>2, <2>3 DEF History!TypeOK, ProcRecord
  <1>2. GraphInvariant => Graph!TypeOK
    BY GraphTyped DEF GraphInvariant
  <1>3. CleanInvariant => Clean!TypeOK
    BY CleanTypesAre DEF CleanInvariant
  <1>4. /\ RecoveryInvariant => Recover!TypeOK
        /\ IngestInvariant => Ingest!TypeOK
        /\ DispatchInvariant => Dispatch!TypeOK
        /\ \A d \in Deployment : ReviewInvariant(d) => Reason(d)!TypeOK
    BY DEF RecoveryInvariant, IngestInvariant, DispatchInvariant, ReviewInvariant
  <1>5. /\ ReviewKept /\ IngestKept /\ RecoveryKept /\ CleanKept
        /\ DispatchKept /\ HistoryKept /\ GraphKept
        => TypeOK
    BY <1>1, <1>2, <1>3, <1>4
       DEF TypeOK, ReviewKept, IngestKept, RecoveryKept, CleanKept, DispatchKept,
           HistoryKept, GraphKept
  <1> QED BY ReviewAlways, IngestAlways, RecoveryAlways, CleanAlways, DispatchAlways,
             HistoryAlways, GraphAlways, <1>5, PTL
=============================================================================
