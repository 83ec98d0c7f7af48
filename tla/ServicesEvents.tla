--------------------------- MODULE ServicesEvents ---------------------------
(***************************************************************************)
(* Proofs about the services that answer to events from outside: the       *)
(* ingestion of network readings, and trusted dispatch with its callbacks. *)
(*                                                                         *)
(* Ingestion: a plan that is committed was made from the projection as it  *)
(* still is; the projection moves whenever an incident opens, so a plan    *)
(* that found no open incident finds none when it opens one.               *)
(*                                                                         *)
(* Dispatch: the pending dispatches of an incident are created in order,   *)
(* each after the one before was closed and its engineer noted; the bound  *)
(* on the attempted engineers is thus a bound on the dispatches.           *)
(***************************************************************************)
EXTENDS ServicesProofs, FiniteSetTheorems, WellFoundedInduction

(***************************************************************************)
(* Ingestion.                                                              *)
(***************************************************************************)
\* The local state of a process.
Planner ==
    [at : {"idle", "observe", "correlate", "commit"}, reading : Reading \cup {None},
     tries : 0..PlanAttempts, copy : Ingest!Projection, moves : BOOLEAN,
     existing : Reading \cup {None}]

\* What a process may rely on: its copy is the projection unless that has moved on, and
\* while it has not, no incident was opened that the process did not find.
PlanFacts(p) ==
    LET plan == proc[p]
        known == proc[p].copy
    IN  /\ plan.at # "idle" => plan.reading \in Reading
        /\ plan.at = "observe" => plan.tries < PlanAttempts
        /\ plan.at \in {"correlate", "commit"} =>
              /\ known.version <= projection.version
              /\ known.version = projection.version => known = projection
              /\ plan.moves => TimeOf[plan.reading] >= known.seen[KindOf[plan.reading]]
        /\ plan.at = "commit" =>
              /\ plan.existing # None => incident[plan.existing] # "ABSENT"
              /\ Ingest!Heeds(p) /\ plan.existing = None /\ known.version = projection.version
                    => \A r \in Reading : incident[r] # "OPEN"

NamesResolve ==
    /\ \A r \in Reading : row[r] \in Reading => incident[row[r]] # "ABSENT"
    /\ \A r \in projection.active : incident[r] # "ABSENT"

OneIsOpen ==
    \A r, s \in Reading : incident[r] = "OPEN" /\ incident[s] = "OPEN" => r = s

IngestInvariant ==
    /\ Ingest!TypeOK
    /\ NamesResolve
    /\ OneIsOpen
    /\ \A p \in Process : PlanFacts(p)

LEMMA IngestConstants ==
    /\ TimeOf \in [Reading -> Nat] /\ KindOf \in [Reading -> Ingest!Channel]
    /\ HighOf \in [Reading -> BOOLEAN]
    /\ PlanAttempts \in Nat /\ PlanAttempts >= 1 /\ MaxCrashes \in Nat
    /\ None \notin Reading /\ "absent" \notin Reading /\ "refresh" \notin Reading
  BY ServicesAssumption DEF Ingest!IngestionAssumption

LEMMA NoProjectionType == Ingest!NoProjection \in Ingest!Projection
  BY DEF Ingest!NoProjection, Ingest!Projection, Ingest!Never

LEMMA IdlePlanner == Ingest!IdleProcess \in Planner /\ Ingest!IdleProcess.at = "idle"
  <1>1. 0 \in 0..PlanAttempts /\ FALSE \in BOOLEAN
    BY IngestConstants
  <1> QED BY <1>1, NoProjectionType DEF Ingest!IdleProcess, Planner

LEMMA IngestTyped ==
    Ingest!TypeOK <=>
        /\ inbox \subseteq Reading
        /\ projection \in Ingest!Projection
        /\ incident \in [Reading -> {"ABSENT", "OPEN", "CLOSED"}]
        /\ row \in [Reading -> Reading \cup {"absent", "refresh"}]
        /\ view \in [Process -> Ingest!Projection]
        /\ proc \in [Process -> Planner]
        /\ crashes \in 0..MaxCrashes
  BY DEF Ingest!TypeOK, Planner

\* Everybody but p stays where it is.
OtherPlans(p) == \A q \in Process \ {p} : proc'[q] = proc[q]

\* Incidents stay known, and the projection has a new version when an incident opens.
IngestOnward ==
    /\ projection'.version \in Nat
    /\ \A r \in Reading : incident[r] # "ABSENT" => incident'[r] # "ABSENT"
    /\ \/ /\ projection' = projection
          /\ \A r \in Reading : incident'[r] = "OPEN" => incident[r] = "OPEN"
       \/ projection'.version = projection.version + 1

LEMMA PlanKept ==
    ASSUME Ingest!TypeOK, NEW p \in Process, PlanFacts(p), IngestOnward, proc'[p] = proc[p]
    PROVE  PlanFacts(p)'
  <1>1. /\ proc[p].copy.version \in Nat /\ projection.version \in Nat
        /\ proc[p].existing \in Reading \cup {None}
    BY IngestTyped DEF Planner, Ingest!Projection
  <1>2. Ingest!Heeds(p)' <=> Ingest!Heeds(p)
    BY DEF Ingest!Heeds
  <1>3. CASE projection' = projection
    BY <1>1, <1>2, <1>3 DEF PlanFacts, IngestOnward
  <1>4. CASE projection'.version = projection.version + 1
    BY <1>1, <1>2, <1>4 DEF PlanFacts, IngestOnward
  <1> QED BY <1>3, <1>4 DEF IngestOnward

\* A process that gives up, ends or dies is as good as new.
LEMMA DoneEffect ==
    ASSUME Ingest!TypeOK, NEW p \in Process, Ingest!Done(p)
    PROVE  proc' \in [Process -> Planner] /\ OtherPlans(p) /\ PlanFacts(p)'
  <1>1. proc' \in [Process -> Planner] /\ OtherPlans(p) /\ proc'[p].at = "idle"
    BY IngestTyped, IdlePlanner DEF Ingest!Done, OtherPlans
  <1> QED BY <1>1 DEF PlanFacts

LEMMA IngestStarts == ASSUME Ingest!Init PROVE IngestInvariant
  <1>1. Ingest!TypeOK
    BY IngestTyped, NoProjectionType, IdlePlanner, IngestConstants DEF Ingest!Init
  <1>2. NamesResolve /\ OneIsOpen
    BY IngestConstants DEF Ingest!Init, NamesResolve, OneIsOpen, Ingest!NoProjection
  <1>3. \A p \in Process : PlanFacts(p)
    BY IdlePlanner DEF Ingest!Init, PlanFacts
  <1> QED BY <1>1, <1>2, <1>3 DEF IngestInvariant

\* A step of one process that leaves its own facts true keeps the invariant.
LEMMA PlanStep ==
    ASSUME IngestInvariant, NEW p \in Process, Ingest!TypeOK', OtherPlans(p), PlanFacts(p)',
           IngestOnward, NamesResolve', OneIsOpen'
    PROVE  IngestInvariant'
  <1>1. ASSUME NEW q \in Process  PROVE PlanFacts(q)'
    <2>1. CASE q = p
      BY <2>1
    <2>2. CASE q # p
      BY <2>2, PlanKept DEF IngestInvariant, OtherPlans
    <2> QED BY <2>1, <2>2
  <1> QED BY <1>1 DEF IngestInvariant

\* What a step that writes nothing leaves as it is.
LEMMA NothingCommitted ==
    ASSUME IngestInvariant, UNCHANGED <<inbox, projection, incident, row, view, crashes>>,
           proc' \in [Process -> Planner]
    PROVE  Ingest!TypeOK' /\ IngestOnward /\ NamesResolve' /\ OneIsOpen'
  <1>1. Ingest!TypeOK'
    BY IngestTyped DEF IngestInvariant, Ingest!TypeOK, Planner
  <1>2. projection.version \in Nat
    BY IngestTyped DEF IngestInvariant, Ingest!Projection
  <1> QED BY <1>1, <1>2 DEF IngestInvariant, IngestOnward, NamesResolve, OneIsOpen

LEMMA ReceiveStep ==
    ASSUME IngestInvariant, NEW p \in Process, NEW r \in Reading, Ingest!Receive(p, r)
    PROVE  IngestInvariant'
  <1> DEFINE begun == [Ingest!IdleProcess EXCEPT !.at = "observe", !.reading = r]
  <1>1. /\ begun \in Planner /\ begun.at = "observe" /\ begun.reading = r
        /\ begun.tries = 0
    BY IdlePlanner DEF Planner, Ingest!IdleProcess
  <1>2. /\ proc' = [proc EXCEPT ![p] = begun]
        /\ UNCHANGED <<inbox, projection, incident, row, view, crashes>>
    BY DEF Ingest!Receive
  <1> HIDE DEF begun
  <1>3. proc' \in [Process -> Planner] /\ OtherPlans(p) /\ proc'[p] = begun
    BY <1>1, <1>2, IngestTyped DEF IngestInvariant, OtherPlans
  <1>4. PlanFacts(p)'
    BY <1>1, <1>3, IngestConstants DEF PlanFacts
  <1> QED BY <1>2, <1>3, <1>4, NothingCommitted, PlanStep

LEMMA ObserveStep ==
    ASSUME IngestInvariant, NEW p \in Process, Ingest!Observe(p)
    PROVE  IngestInvariant'
  <1> DEFINE r == proc[p].reading
             tries == proc[p].tries + 1
  <1>1. /\ UNCHANGED <<inbox, projection, incident, row, view, crashes>>
        /\ proc[p].at = "observe"
    BY DEF Ingest!Observe, Ingest!At
  <1>2. PICK moves \in BOOLEAN :
           /\ moves => TimeOf[r] >= projection.seen[KindOf[r]]
           /\ proc' = [proc EXCEPT ![p].at = "correlate", ![p].copy = projection,
                                   ![p].tries = tries, ![p].moves = moves]
    <2>1. CASE TimeOf[r] >= projection.seen[KindOf[r]]
      <3>1. proc' = [proc EXCEPT ![p].at = "correlate", ![p].copy = projection,
                                 ![p].tries = tries, ![p].moves = TRUE]
        BY <2>1 DEF Ingest!Observe
      <3> QED BY <2>1, <3>1
    <2>2. CASE ~(TimeOf[r] >= projection.seen[KindOf[r]])
      <3>1. (TimeOf[r] >= projection.seen[KindOf[r]]) = FALSE
        BY <2>2
      <3>2. proc' = [proc EXCEPT ![p].at = "correlate", ![p].copy = projection,
                                 ![p].tries = tries, ![p].moves = FALSE]
        BY <3>1, Zenon DEF Ingest!Observe
      <3> QED BY <3>2
    <2> QED BY <2>1, <2>2
  <1>3. /\ projection \in Ingest!Projection /\ proc \in [Process -> Planner]
        /\ r \in Reading /\ projection.version \in Nat
    BY <1>1, IngestTyped DEF IngestInvariant, PlanFacts, Ingest!Projection
  <1>4. tries \in 0..PlanAttempts
    <2>1. proc[p].tries \in 0..PlanAttempts /\ proc[p].tries < PlanAttempts
      BY <1>1, <1>3 DEF IngestInvariant, PlanFacts, Planner
    <2> QED BY <2>1, IngestConstants
  <1> HIDE DEF tries
  <1>5. /\ proc' \in [Process -> Planner] /\ OtherPlans(p)
        /\ proc'[p].at = "correlate" /\ proc'[p].copy = projection
        /\ proc'[p].moves = moves /\ proc'[p].reading = r
    <2> DEFINE read == [proc[p] EXCEPT !.at = "correlate", !.copy = projection,
                                       !.tries = tries, !.moves = moves]
    <2>1. read = [proc[p] EXCEPT !.at = "correlate", !.copy = projection,
                                 !.tries = tries, !.moves = moves]
      OBVIOUS
    <2>2. proc' = [proc EXCEPT ![p] = read]
      BY <1>3, <1>2
    <2> HIDE DEF read
    <2>3. proc[p] \in Planner
      BY <1>3
    <2>4. /\ read \in Planner /\ read.at = "correlate" /\ read.copy = projection
          /\ read.moves = moves /\ read.reading = r
      BY <1>3, <1>4, <2>1, <2>3 DEF Planner
    <2> QED BY <1>3, <2>2, <2>4 DEF OtherPlans
  <1>6. PlanFacts(p)'
    <2>1. /\ proc'[p].copy.version <= projection'.version
          /\ proc'[p].copy = projection' /\ proc'[p].reading \in Reading
          /\ proc'[p].moves => TimeOf[proc'[p].reading]
                                  >= proc'[p].copy.seen[KindOf[proc'[p].reading]]
      BY <1>1, <1>3, <1>2, <1>5
    <2> QED BY <1>5, <2>1 DEF PlanFacts
  <1> QED BY <1>1, <1>5, <1>6, NothingCommitted, PlanStep

LEMMA CorrelateStep ==
    ASSUME IngestInvariant, NEW p \in Process, Ingest!Correlate(p)
    PROVE  IngestInvariant'
  <1>1. PICK found \in IF Ingest!Open = {} THEN {None} ELSE Ingest!Open :
           proc' = [proc EXCEPT ![p].at = "commit",
                       ![p].existing = IF proc[p].moves /\ HighOf[proc[p].reading]
                                       THEN found ELSE None]
    BY DEF Ingest!Correlate
  <1>2. /\ UNCHANGED <<inbox, projection, incident, row, view, crashes>>
        /\ proc[p].at = "correlate" /\ proc \in [Process -> Planner]
    BY IngestTyped DEF Ingest!Correlate, Ingest!At, IngestInvariant
  <1> DEFINE existing == IF proc[p].moves /\ HighOf[proc[p].reading] THEN found ELSE None
  <1>3. /\ existing \in Reading \cup {None}
        /\ existing # None => incident[existing] # "ABSENT"
        /\ existing = None /\ proc[p].moves /\ HighOf[proc[p].reading] =>
              \A r \in Reading : incident[r] # "OPEN"
    BY <1>1, IngestConstants DEF Ingest!Open
  <1>4. proc' = [proc EXCEPT ![p].at = "commit", ![p].existing = existing]
    BY <1>1
  <1> HIDE DEF existing
  <1>5. /\ proc' \in [Process -> Planner] /\ OtherPlans(p)
        /\ proc'[p].at = "commit" /\ proc'[p].copy = proc[p].copy
        /\ proc'[p].moves = proc[p].moves /\ proc'[p].reading = proc[p].reading
        /\ proc'[p].existing = existing
    BY <1>2, <1>3, <1>4 DEF Planner, OtherPlans
  <1>6. PlanFacts(p)
    BY DEF IngestInvariant
  <1>7. PlanFacts(p)'
    BY <1>2, <1>3, <1>5, <1>6 DEF PlanFacts, Ingest!Heeds
  <1> QED BY <1>2, <1>5, <1>7, NothingCommitted, PlanStep

LEMMA CloseStep ==
    ASSUME IngestInvariant, NEW r \in Reading, Ingest!Close(r)
    PROVE  IngestInvariant'
  <1>1. /\ incident' = [incident EXCEPT ![r] = "CLOSED"]
        /\ UNCHANGED <<inbox, projection, row, view, proc, crashes>>
        /\ incident \in [Reading -> {"ABSENT", "OPEN", "CLOSED"}]
    BY IngestTyped DEF Ingest!Close, IngestInvariant
  <1>2. /\ incident' \in [Reading -> {"ABSENT", "OPEN", "CLOSED"}]
        /\ \A q \in Reading : /\ incident[q] # "ABSENT" => incident'[q] # "ABSENT"
                              /\ incident'[q] = "OPEN" => incident[q] = "OPEN"
    BY <1>1
  <1>3. Ingest!TypeOK'
    BY <1>1, <1>2, IngestTyped DEF IngestInvariant, Ingest!TypeOK, Planner
  <1>4. projection.version \in Nat /\ projection.active \subseteq Reading
    BY IngestTyped DEF IngestInvariant, Ingest!Projection
  <1>5. IngestOnward /\ NamesResolve' /\ OneIsOpen'
    BY <1>1, <1>2, <1>4 DEF IngestInvariant, IngestOnward, NamesResolve, OneIsOpen
  <1>6. ASSUME NEW q \in Process  PROVE PlanFacts(q)'
    BY <1>1, <1>5, PlanKept DEF IngestInvariant
  <1> QED BY <1>3, <1>5, <1>6 DEF IngestInvariant

LEMMA CrashStep ==
    ASSUME IngestInvariant, NEW p \in Process, Ingest!Crash(p)
    PROVE  IngestInvariant'
  <1>1. /\ crashes < MaxCrashes /\ crashes' = crashes + 1 /\ Ingest!Done(p)
        /\ view' = [view EXCEPT ![p] = projection]
        /\ UNCHANGED <<inbox, projection, incident, row>>
    BY DEF Ingest!Crash
  <1>2. proc' \in [Process -> Planner] /\ OtherPlans(p) /\ PlanFacts(p)'
    BY <1>1, DoneEffect DEF IngestInvariant
  <1>3. crashes' \in 0..MaxCrashes /\ view' \in [Process -> Ingest!Projection]
    BY <1>1, IngestTyped, IngestConstants DEF IngestInvariant
  <1>4. Ingest!TypeOK'
    BY <1>1, <1>2, <1>3, IngestTyped DEF IngestInvariant, Ingest!TypeOK, Planner
  <1>5. projection.version \in Nat
    BY IngestTyped DEF IngestInvariant, Ingest!Projection
  <1>6. IngestOnward /\ NamesResolve' /\ OneIsOpen'
    BY <1>1, <1>5 DEF IngestInvariant, IngestOnward, NamesResolve, OneIsOpen
  <1> QED BY <1>2, <1>4, <1>6, PlanStep

\* The projection a plan writes.
LEMMA MovedType ==
    ASSUME Ingest!TypeOK, NEW p \in Process, proc[p].reading \in Reading
    PROVE  /\ Ingest!Moved(p) \in Ingest!Projection
           /\ Ingest!Moved(p).version = proc[p].copy.version + 1
           /\ Ingest!Moved(p).seen = [proc[p].copy.seen EXCEPT
                                         ![KindOf[proc[p].reading]] = TimeOf[proc[p].reading]]
           /\ Ingest!Moved(p).active = IF Ingest!Heeds(p)
                                       THEN proc[p].copy.active \cup {Ingest!Named(p)}
                                       ELSE proc[p].copy.active
  <1> DEFINE r == proc[p].reading
             known == proc[p].copy
             seen == [known.seen EXCEPT ![KindOf[r]] = TimeOf[r]]
             high == IF KindOf[r] = "congestion" THEN HighOf[r] ELSE known.high
             active == IF Ingest!Heeds(p) THEN known.active \cup {Ingest!Named(p)}
                       ELSE known.active
  <1>1. /\ known \in Ingest!Projection /\ proc[p].existing \in Reading \cup {None}
    BY IngestTyped DEF Planner
  <1>2. known.version + 1 \in Nat /\ known.active \subseteq Reading /\ known.high \in BOOLEAN
        /\ known.seen \in [Ingest!Channel -> Nat \cup {Ingest!Never}]
    BY <1>1 DEF Ingest!Projection
  <1>3. seen \in [Ingest!Channel -> Nat \cup {Ingest!Never}]
    BY <1>2, IngestConstants
  <1>4. high \in BOOLEAN
    BY <1>2, IngestConstants
  <1>5. active \subseteq Reading
    BY <1>1, <1>2 DEF Ingest!Named
  <1>6. Ingest!Moved(p) = [version |-> known.version + 1, seen |-> seen, high |-> high,
                           active |-> active]
    BY DEF Ingest!Moved
  <1> HIDE DEF known, seen, high, active
  <1>7. Ingest!Moved(p) \in Ingest!Projection
    BY <1>2, <1>3, <1>4, <1>5, <1>6 DEF Ingest!Projection
  <1> QED BY <1>6, <1>7 DEF known, seen, active

\* Names that were planned before it was known who opens the incident resolve: a plan
\* that is written is current, and then its name is an incident it found or opens.
LEMMA CommitStep ==
    ASSUME IngestInvariant, NEW p \in Process, Ingest!Commit(p)
    PROVE  IngestInvariant'
  <1>1. /\ proc[p].at = "commit" /\ crashes' = crashes
        /\ Ingest!TypeOK /\ PlanFacts(p)
    BY DEF Ingest!Commit, Ingest!At, IngestInvariant
  <1>2. CASE Ingest!Duplicate(p)
    <2>1. proc' \in [Process -> Planner] /\ OtherPlans(p) /\ PlanFacts(p)'
      BY <1>1, <1>2, DoneEffect DEF Ingest!Duplicate
    <2>2. UNCHANGED <<inbox, projection, incident, row, view, crashes>>
      BY <1>1, <1>2 DEF Ingest!Duplicate
    <2> QED BY <2>1, <2>2, NothingCommitted, PlanStep
  <1>3. CASE Ingest!Conflict(p)
    <2>1. UNCHANGED <<inbox, projection, incident, row, view, crashes>>
      BY <1>1, <1>3 DEF Ingest!Conflict
    <2>2. proc' \in [Process -> Planner] /\ OtherPlans(p) /\ PlanFacts(p)'
      <3>1. CASE Ingest!Done(p)
        BY <1>1, <3>1, DoneEffect
      <3>2. CASE proc[p].tries < PlanAttempts
        <4> DEFINE again == [Ingest!IdleProcess EXCEPT !.at = "observe",
                                !.reading = proc[p].reading, !.tries = proc[p].tries]
        <4>1. proc[p].reading \in Reading /\ proc[p].tries \in 0..PlanAttempts
          BY <1>1, IngestTyped DEF PlanFacts, Planner
        <4>2. /\ again \in Planner /\ again.at = "observe"
              /\ again.reading = proc[p].reading /\ again.tries = proc[p].tries
          BY <4>1, IdlePlanner DEF Planner
        <4>3. proc' = [proc EXCEPT ![p] = again]
          BY <1>3, <3>2 DEF Ingest!Conflict
        <4> HIDE DEF again
        <4>4. proc' \in [Process -> Planner] /\ OtherPlans(p) /\ proc'[p] = again
          BY <1>1, <4>2, <4>3, IngestTyped DEF OtherPlans
        <4> QED BY <3>2, <4>1, <4>2, <4>4 DEF PlanFacts
      <3> QED BY <1>3, <3>1, <3>2 DEF Ingest!Conflict
    <2> QED BY <2>1, <2>2, NothingCommitted, PlanStep
  <1>4. CASE (proc[p].moves => Ingest!Current(p)) /\ Ingest!Accept(p)
    <2> DEFINE r == proc[p].reading
    <2>1. /\ r \in Reading /\ proc[p].existing \in Reading \cup {None}
          /\ projection \in Ingest!Projection /\ proc[p].copy \in Ingest!Projection
          /\ incident \in [Reading -> {"ABSENT", "OPEN", "CLOSED"}]
          /\ row \in [Reading -> Reading \cup {"absent", "refresh"}]
          /\ proc[p].moves => projection = proc[p].copy
      BY <1>1, <1>4, IngestTyped DEF PlanFacts, Planner, Ingest!Current
    <2>2. /\ inbox' = inbox \cup {r}
          /\ projection' = IF proc[p].moves THEN Ingest!Moved(p) ELSE projection
          /\ view' = IF proc[p].moves THEN [view EXCEPT ![p] = Ingest!Moved(p)] ELSE view
          /\ incident' = Ingest!CreateOrGet(p)
          /\ row' = [row EXCEPT ![r] = IF Ingest!Heeds(p) THEN Ingest!Named(p) ELSE "refresh"]
          /\ Ingest!Done(p)
      BY <1>4 DEF Ingest!Accept
    <2>3. proc' \in [Process -> Planner] /\ OtherPlans(p) /\ PlanFacts(p)'
      BY <1>1, <2>2, DoneEffect
    <2>4. Ingest!Named(p) \in Reading
      BY <2>1 DEF Ingest!Named
    <2>5. Ingest!Heeds(p) => proc[p].moves
      BY DEF Ingest!Heeds
    <2>6. /\ incident' \in [Reading -> {"ABSENT", "OPEN", "CLOSED"}]
          /\ \A q \in Reading : incident[q] # "ABSENT" => incident'[q] # "ABSENT"
          /\ \A q \in Reading : incident'[q] = "OPEN" =>
                incident[q] = "OPEN" \/ (Ingest!Heeds(p) /\ q = r)
          /\ Ingest!Heeds(p) => incident'[Ingest!Named(p)] # "ABSENT"
          /\ OneIsOpen'
      <3>1. CASE Ingest!Heeds(p) /\ proc[p].existing = None
        <4>1. \A q \in Reading : incident[q] # "OPEN"
          BY <1>1, <2>1, <2>5, <3>1 DEF PlanFacts
        <4>2. incident' = [incident EXCEPT ![r] = "OPEN"]
          BY <2>2, <3>1, <4>1 DEF Ingest!CreateOrGet, Ingest!Open
        <4>3. Ingest!Named(p) = r
          BY <3>1 DEF Ingest!Named
        <4> HIDE DEF r
        <4> QED BY <2>1, <3>1, <4>1, <4>2, <4>3 DEF OneIsOpen
      <3>2. CASE ~(Ingest!Heeds(p) /\ proc[p].existing = None)
        <4>1. incident' = incident
          BY <2>2, <3>2 DEF Ingest!CreateOrGet
        <4>2. Ingest!Heeds(p) => incident[Ingest!Named(p)] # "ABSENT"
          BY <1>1, <3>2 DEF PlanFacts, Ingest!Named
        <4> QED BY <2>1, <4>1, <4>2 DEF IngestInvariant, OneIsOpen
      <3> QED BY <3>1, <3>2
    <2>7. /\ projection' \in Ingest!Projection
          /\ \/ projection' = projection /\ ~proc[p].moves
             \/ /\ projection'.version = projection.version + 1
                /\ projection'.active \subseteq projection.active
                     \cup (IF Ingest!Heeds(p) THEN {Ingest!Named(p)} ELSE {})
      BY <1>1, <2>1, <2>2, MovedType
    <2>8. projection'.version \in Nat /\ projection.active \subseteq Reading
      BY <2>1, <2>7 DEF Ingest!Projection
    <2>9. IngestOnward
      BY <2>5, <2>6, <2>7, <2>8 DEF IngestOnward
    <2> DEFINE named == IF Ingest!Heeds(p) THEN Ingest!Named(p) ELSE "refresh"
    <2>10. /\ row' = [row EXCEPT ![r] = named]
           /\ named \in Reading => incident'[named] # "ABSENT"
           /\ named \in Reading \cup {"absent", "refresh"}
      BY <2>2, <2>4, <2>6, IngestConstants
    <2> HIDE DEF named
    <2>11. NamesResolve'
      <3>1. \A q \in Reading : row'[q] \in Reading => incident'[row'[q]] # "ABSENT"
        BY <2>1, <2>6, <2>10 DEF IngestInvariant, NamesResolve
      <3>2. \A q \in projection'.active : incident'[q] # "ABSENT"
        BY <2>6, <2>7, <2>8 DEF IngestInvariant, NamesResolve
      <3> QED BY <3>1, <3>2 DEF NamesResolve
    <2>12. Ingest!TypeOK'
      <3>1. inbox' \subseteq Reading
        BY <1>1, <2>1, <2>2 DEF Ingest!TypeOK
      <3>2. view' \in [Process -> Ingest!Projection]
        BY <1>1, <2>1, <2>2, MovedType, IngestTyped
      <3>3. row' \in [Reading -> Reading \cup {"absent", "refresh"}]
        BY <2>1, <2>10
      <3>4. crashes' \in 0..MaxCrashes
        BY <1>1 DEF Ingest!TypeOK
      <3> QED BY <2>3, <2>6, <2>7, <3>1, <3>2, <3>3, <3>4 DEF Ingest!TypeOK, Planner
    <2> QED BY <2>3, <2>6, <2>9, <2>11, <2>12, PlanStep
  <1> QED BY <1>2, <1>3, <1>4 DEF Ingest!Commit

LEMMA IngestStep ==
    ASSUME IngestInvariant, Ingest!Next
    PROVE  IngestInvariant'
  BY ReceiveStep, ObserveStep, CorrelateStep, CommitStep, CrashStep, CloseStep DEF Ingest!Next

IngestKept == part \in Deployment \cup Service /\ (part = "ingestion" => IngestInvariant)

LEMMA IngestStutters ==
    ASSUME IngestInvariant, UNCHANGED Ingest!vars
    PROVE  IngestInvariant'
  <1>1. UNCHANGED <<inbox, projection, incident, row, view, proc, crashes>>
    BY DEF Ingest!vars
  <1>2. proc' \in [Process -> Planner]
    BY <1>1, IngestTyped DEF IngestInvariant
  <1>3. Ingest!TypeOK' /\ IngestOnward /\ NamesResolve' /\ OneIsOpen'
    BY <1>1, <1>2, NothingCommitted
  <1>4. ASSUME NEW p \in Process  PROVE PlanFacts(p)'
    BY <1>1, <1>3, PlanKept DEF IngestInvariant
  <1> QED BY <1>3, <1>4 DEF IngestInvariant

LEMMA IngestAlways == Spec => []IngestKept
  <1>1. Init => IngestKept
    BY Starts, IngestStarts DEF IngestKept
  <1>2. IngestKept /\ [Next]_vars => IngestKept'
    <2> SUFFICES ASSUME IngestKept, [Next]_vars  PROVE IngestKept'
      OBVIOUS
    <2>1. part' = part /\ (part = "ingestion" => [Ingest!Next]_(Ingest!vars))
      BY Parted DEF IngestKept
    <2>2. ASSUME part = "ingestion"  PROVE IngestInvariant'
      BY <2>1, <2>2, IngestStep, IngestStutters DEF IngestKept
    <2> QED BY <2>1, <2>2 DEF IngestKept
  <1> QED BY <1>1, <1>2, PTL DEF Spec

\* The instance counts as FiniteSets does.
LEMMA IngestCounts == ASSUME NEW S PROVE Ingest!Cardinality(S) = Cardinality(S)
  BY DEF Ingest!Cardinality, Cardinality

\* Whoever loses the race to open the incident of a cell, no row and no projection is
\* left with the name of an incident that does not exist, and the cell never has two
\* open ones: for every number of processes, readings, attempts and crashes.
THEOREM NamesAlwaysResolve == Spec => []RowsResolve
  <1>1. IngestInvariant => Ingest!RowsResolve
    <2> SUFFICES ASSUME IngestInvariant  PROVE Ingest!RowsResolve
      OBVIOUS
    <2>1. Cardinality(Ingest!Open) <= 1
      <3>1. CASE Ingest!Open = {}
        BY <3>1, FS_EmptySet
      <3>2. CASE Ingest!Open # {}
        <4>1. PICK r \in Ingest!Open : TRUE
          BY <3>2
        <4>2. Ingest!Open = {r}
          BY <4>1 DEF Ingest!Open, IngestInvariant, OneIsOpen
        <4>3. Cardinality({r}) = 1
          BY FS_Singleton
        <4> QED BY <4>2, <4>3
      <3> QED BY <3>1, <3>2
    <2> QED BY <2>1, IngestCounts DEF Ingest!RowsResolve, IngestInvariant, NamesResolve
  <1>2. IngestKept => RowsResolve
    BY <1>1 DEF IngestKept, RowsResolve
  <1> QED BY IngestAlways, <1>2, PTL

\* What is committed was planned from the projection as it still is, so a reading that
\* moves it is not older than what it replaces.
LEMMA CommitsForward ==
    ASSUME IngestInvariant, NEW p \in Process, Ingest!Commit(p)
    PROVE  Ingest!Forward
  <1>1. /\ projection \in Ingest!Projection /\ proc[p].at = "commit"
        /\ PlanFacts(p) /\ Ingest!TypeOK
    BY IngestTyped DEF Ingest!Commit, Ingest!At, IngestInvariant
  <1>2. /\ projection.seen \in [Ingest!Channel -> Nat \cup {-1}]
        /\ \A c \in Ingest!Channel : projection.seen[c] \in Int
    BY <1>1 DEF Ingest!Projection, Ingest!Never
  <1>3. CASE projection' = projection
    BY <1>2, <1>3 DEF Ingest!Forward
  <1>4. CASE proc[p].moves /\ Ingest!Current(p) /\ projection' = Ingest!Moved(p)
    <2> DEFINE r == proc[p].reading
    <2>1. r \in Reading /\ projection = proc[p].copy
          /\ TimeOf[r] >= projection.seen[KindOf[r]]
      BY <1>1, <1>4 DEF PlanFacts, Ingest!Current
    <2>2. TimeOf[r] \in Int /\ KindOf[r] \in Ingest!Channel
      BY <2>1, IngestConstants
    <2>3. /\ projection'.seen = [projection.seen EXCEPT ![KindOf[r]] = TimeOf[r]]
          /\ projection.active \subseteq projection'.active
      BY <1>1, <1>4, <2>1, MovedType
    <2> HIDE DEF r
    <2>4. \A c \in Ingest!Channel : projection'.seen[c] >= projection.seen[c]
      BY <1>2, <2>1, <2>2, <2>3
    <2> QED BY <2>3, <2>4 DEF Ingest!Forward
  <1> QED BY <1>3, <1>4 DEF Ingest!Commit, Ingest!Duplicate, Ingest!Accept, Ingest!Conflict

\* Readings that come late, twice or out of order, planned by any number of processes
\* from older copies, never take a channel of the projection back in time.
THEOREM ReadingsGoForward == Spec => ProjectionForward
  <1>1. IngestKept /\ [Next]_vars => [part = "ingestion" => Ingest!Forward]_vars
    <2> SUFFICES ASSUME IngestKept, [Next]_vars, part = "ingestion"  PROVE Ingest!Forward
      OBVIOUS
    <2>1. [Ingest!Next]_(Ingest!vars) /\ IngestInvariant
      BY Parted DEF IngestKept
    <2>2. \A c \in Ingest!Channel : projection.seen[c] \in Int
      BY <2>1, IngestTyped DEF IngestInvariant, Ingest!Projection, Ingest!Never
    <2>3. CASE projection' = projection
      BY <2>2, <2>3 DEF Ingest!Forward
    <2>4. CASE \E p \in Process : Ingest!Commit(p)
      BY <2>1, <2>4, CommitsForward
    <2>5. ASSUME Ingest!Next, ~ \E p \in Process : Ingest!Commit(p)
          PROVE  projection' = projection
      BY <2>5 DEF Ingest!Next, Ingest!Receive, Ingest!Observe, Ingest!Correlate, Ingest!Crash,
                  Ingest!Close
    <2> QED BY <2>1, <2>3, <2>4, <2>5 DEF Ingest!vars
  <1> QED BY IngestAlways, <1>1, PTL DEF Spec, ProjectionForward

(***************************************************************************)
(* Trusted dispatch.                                                       *)
(***************************************************************************)
\* A pending dispatch.
Ticket ==
    [status : {"ABSENT", "PENDING", "COMPLETED", "BLOCKED", "EXPIRED"}, engineer : 0..Engineers,
     late : BOOLEAN, oauth : {"none", "live", "used"},
     link : {"none", "asked", "ready", "held"}]

\* The first c dispatches of an incident exist and no others; all but the last are
\* closed and their engineers noted as attempted; no engineer has two.
AskedInTurn(tickets, noted, i, c) ==
    /\ \A n \in Dispatch!Index : tickets[<<i, n>>].status # "ABSENT" <=> n <= c
    /\ \A n \in 1..c : tickets[<<i, n>>].engineer \in Dispatch!Engineer
    /\ \A n \in 1..c : n # c => /\ tickets[<<i, n>>].status # "PENDING"
                               /\ tickets[<<i, n>>].engineer \in noted
    /\ \A m, n \in 1..c : m # n => tickets[<<i, m>>].engineer # tickets[<<i, n>>].engineer

AskFacts(i) ==
    \E c \in 0..MaxAsked :
        AskedInTurn(pending, attempted[i], i, c) /\ (result[i] = "none" => c = 0)

\* Nothing is under way for a dispatch that does not exist.
NothingAbsent(t) == t.status = "ABSENT" => t.link # "asked" /\ t.oauth # "live"

\* The dispatch shown with a link exists.
Shows(l) ==
    /\ l \in [key : Dispatch!Key \cup {None}, link : BOOLEAN]
    /\ l.link => l.key \in Dispatch!Key

DispatchInvariant ==
    /\ Dispatch!TypeOK
    /\ Shows(latest)
    /\ \A k \in Dispatch!Key : NothingAbsent(pending[k])
    /\ \A i \in Incident : AskFacts(i)

LEMMA DispatchConstants ==
    /\ Engineers \in Nat /\ MaxAsked \in Nat /\ MaxAsked >= 1
    /\ Dispatch!Index = 1..(MaxAsked + 1) /\ Dispatch!Engineer = 1..Engineers
    /\ Dispatch!Key = Incident \X (1..(MaxAsked + 1))
  BY ServicesAssumption
     DEF Dispatch!DispatchAssumption, Dispatch!Index, Dispatch!Engineer, Dispatch!Key

LEMMA DispatchTyped ==
    Dispatch!TypeOK <=>
        /\ pending \in [Dispatch!Key -> Ticket]
        /\ attempted \in [Incident -> SUBSET Dispatch!Engineer]
        /\ receipts \subseteq Dispatch!Engineer
        /\ latest \in [key : Dispatch!Key \cup {None}, link : BOOLEAN]
        /\ tokens \subseteq Dispatch!Key
        /\ result \in [Incident -> {"none", "waiting", "APPROVED", "BLOCKED", "MANUAL"}]
  BY DEF Dispatch!TypeOK, Ticket

\* A set of natural numbers has a least element.
LEMMA LeastExists ==
    ASSUME NEW S \in SUBSET Nat, S # {}
    PROVE  \E m \in S : \A n \in S : m <= n
  <1> DEFINE less == OpToRel(<, Nat)
  <1>1. IsWellFoundedOn(less, Nat)
    BY NatLessThanWellFounded
  <1>2. \A n, m \in Nat : n < m => <<n, m>> \in less
    BY DEF OpToRel
  <1> HIDE DEF less
  <1>3. PICK m \in S : \A n \in S : ~(<<n, m>> \in less)
    BY <1>1, WFMin
  <1>4. ASSUME NEW n \in S  PROVE m <= n
    <2>1. n \in Nat /\ m \in Nat
      OBVIOUS
    <2>2. ~(n < m)
      BY <1>2, <1>3, <2>1
    <2> QED BY <2>1, <2>2
  <1> QED BY <1>4

\* Who is asked is one of those who may be.
LEMMA FirstIsOne ==
    ASSUME NEW S \in SUBSET Dispatch!Engineer, S # {}
    PROVE  Dispatch!First(S) \in S
  <1>1. S \in SUBSET Nat
    BY DispatchConstants
  <1>2. \E m \in S : \A n \in S : m <= n
    BY <1>1, LeastExists
  <1> QED BY <1>2 DEF Dispatch!First

LEMMA DispatchCounts == ASSUME NEW S PROVE Dispatch!Cardinality(S) = Cardinality(S)
  BY DEF Dispatch!Cardinality, Cardinality

\* The dispatches created are the first c, so the next one is c + 1.
LEMMA NextTicket ==
    ASSUME NEW i \in Incident, NEW c \in 0..MaxAsked, AskedInTurn(pending, attempted[i], i, c)
    PROVE  /\ Dispatch!Created(i) = 1..c
           /\ Dispatch!Cardinality(Dispatch!Created(i)) = c
           /\ Dispatch!Fresh(i) = <<i, c + 1>>
           /\ Dispatch!Fresh(i) \in Dispatch!Key
  <1>1. c \in Nat /\ c <= MaxAsked /\ MaxAsked \in Nat
    BY DispatchConstants
  <1>2. Dispatch!Created(i) = 1..c
    BY <1>1, DispatchConstants DEF Dispatch!Created, AskedInTurn
  <1>3. Cardinality(1..c) = c
    BY <1>1, FS_Interval
  <1>4. Dispatch!Cardinality(Dispatch!Created(i)) = c
    BY <1>2, <1>3, DispatchCounts
  <1>5. Dispatch!Fresh(i) = <<i, c + 1>>
    BY <1>4 DEF Dispatch!Fresh
  <1>6. c + 1 \in 1..(MaxAsked + 1)
    BY <1>1
  <1> QED BY <1>2, <1>4, <1>5, <1>6, DispatchConstants

\* Engineers that are all noted, each for one dispatch, are at least as many.
LEMMA NotedAreMore ==
    ASSUME NEW i \in Incident, NEW c \in 0..MaxAsked, NEW tickets,
           NEW noted \in SUBSET Dispatch!Engineer,
           AskedInTurn(tickets, noted, i, c),
           \A n \in 1..c : tickets[<<i, n>>].engineer \in noted
    PROVE  Dispatch!Cardinality(noted) \in Nat /\ c <= Dispatch!Cardinality(noted)
  <1>1. c \in Nat /\ MaxAsked \in Nat /\ Engineers \in Nat
    BY DispatchConstants
  <1>2. IsFiniteSet(Dispatch!Engineer)
    BY <1>1, FS_Interval, DispatchConstants
  <1>3. IsFiniteSet(noted)
    BY <1>2, FS_Subset
  <1> DEFINE asks == [n \in 1..c |-> tickets[<<i, n>>].engineer]
  <1>4. asks \in Injection(1..c, noted)
    <2>1. asks \in [1..c -> noted]
      OBVIOUS
    <2>2. \A m, n \in 1..c : asks[m] = asks[n] => m = n
      BY DEF AskedInTurn
    <2> HIDE DEF asks
    <2> QED BY <2>1, <2>2 DEF Injection, IsInjective
  <1> HIDE DEF asks
  <1>5. Cardinality(1..c) <= Cardinality(noted)
    BY <1>3, <1>4, FS_Injection
  <1>6. Cardinality(1..c) = c
    BY <1>1, FS_Interval
  <1>7. Cardinality(noted) \in Nat
    BY <1>3, FS_CardinalityType
  <1> QED BY <1>5, <1>6, <1>7, DispatchCounts

LEMMA DispatchStarts == ASSUME Dispatch!Init PROVE DispatchInvariant
  <1>1. Dispatch!NoPending \in Ticket /\ NothingAbsent(Dispatch!NoPending)
    BY DispatchConstants DEF Dispatch!NoPending, Ticket, NothingAbsent
  <1>2. Dispatch!NoDispatch \in [key : Dispatch!Key \cup {None}, link : BOOLEAN]
    BY DEF Dispatch!NoDispatch
  <1>3. Dispatch!TypeOK /\ Shows(latest)
    BY <1>1, <1>2, DispatchTyped DEF Dispatch!Init, Shows, Dispatch!NoDispatch
  <1>4. ASSUME NEW i \in Incident  PROVE AskFacts(i)
    <2>1. \A n \in Dispatch!Index : pending[<<i, n>>].status = "ABSENT" /\ ~(n <= 0)
      BY DispatchConstants DEF Dispatch!Init, Dispatch!NoPending
    <2>2. 1..0 = {} /\ 0 \in 0..MaxAsked
      BY DispatchConstants
    <2> QED BY <2>1, <2>2 DEF AskFacts, AskedInTurn
  <1>5. \A k \in Dispatch!Key : NothingAbsent(pending[k])
    BY <1>1 DEF Dispatch!Init
  <1> QED BY <1>3, <1>4, <1>5 DEF DispatchInvariant

LEMMA NothingShown ==
    ASSUME NEW k \in Dispatch!Key \cup {None}
    PROVE  Shows([key |-> k, link |-> FALSE])
  BY DEF Shows

LEMMA LinkShown ==
    ASSUME NEW k \in Dispatch!Key
    PROVE  Shows([key |-> k, link |-> TRUE])
  BY DEF Shows

\* A dispatch changes without being asked anew.
LEMMA TicketChanged ==
    ASSUME DispatchInvariant, NEW k \in Dispatch!Key, NEW t \in Ticket,
           pending' = [pending EXCEPT ![k] = t],
           t.engineer = pending[k].engineer,
           t.status = "ABSENT" <=> pending[k].status = "ABSENT",
           t.status = "PENDING" => pending[k].status = "PENDING",
           NothingAbsent(t),
           attempted' \in [Incident -> SUBSET Dispatch!Engineer],
           result' \in [Incident -> {"none", "waiting", "APPROVED", "BLOCKED", "MANUAL"}],
           \A i \in Incident : attempted[i] \subseteq attempted'[i],
           \A i \in Incident : result'[i] = "none" => result[i] = "none",
           receipts' \subseteq Dispatch!Engineer,
           Shows(latest'),
           tokens' \subseteq Dispatch!Key
    PROVE  DispatchInvariant'
  <1>1. pending \in [Dispatch!Key -> Ticket]
    BY DispatchTyped DEF DispatchInvariant
  <1>2. pending' \in [Dispatch!Key -> Ticket]
    BY <1>1
  <1>3. Dispatch!TypeOK'
    BY <1>2 DEF Dispatch!TypeOK, Ticket, Shows
  <1>4. \A j \in Dispatch!Key : NothingAbsent(pending'[j])
    BY <1>1 DEF DispatchInvariant
  <1>5. \A j \in Dispatch!Key :
           /\ pending'[j].engineer = pending[j].engineer
           /\ pending'[j].status = "ABSENT" <=> pending[j].status = "ABSENT"
           /\ pending'[j].status = "PENDING" => pending[j].status = "PENDING"
    BY <1>1
  <1>6. ASSUME NEW i \in Incident  PROVE AskFacts(i)'
    <2>1. PICK c \in 0..MaxAsked :
             AskedInTurn(pending, attempted[i], i, c) /\ (result[i] = "none" => c = 0)
      BY DEF DispatchInvariant, AskFacts
    <2>2. \A n \in Dispatch!Index : <<i, n>> \in Dispatch!Key
      BY DispatchConstants
    <2>3. \A n \in 1..c : n \in Dispatch!Index
      BY DispatchConstants
    <2>4. attempted[i] \subseteq attempted'[i] /\ (result'[i] = "none" => result[i] = "none")
      OBVIOUS
    <2>5. \A n \in Dispatch!Index :
             /\ pending'[<<i, n>>].engineer = pending[<<i, n>>].engineer
             /\ pending'[<<i, n>>].status = "ABSENT" <=> pending[<<i, n>>].status = "ABSENT"
             /\ pending'[<<i, n>>].status = "PENDING" => pending[<<i, n>>].status = "PENDING"
      BY <1>5, <2>2
    <2>6. AskedInTurn(pending', attempted'[i], i, c)
      <3>1. \A n \in Dispatch!Index : pending'[<<i, n>>].status # "ABSENT" <=> n <= c
        BY <2>1, <2>5 DEF AskedInTurn
      <3>2. \A n \in 1..c : pending'[<<i, n>>].engineer \in Dispatch!Engineer
        BY <2>1, <2>3, <2>5 DEF AskedInTurn
      <3>3. \A n \in 1..c : n # c => /\ pending'[<<i, n>>].status # "PENDING"
                                   /\ pending'[<<i, n>>].engineer \in attempted'[i]
        BY <2>1, <2>3, <2>4, <2>5 DEF AskedInTurn
      <3>4. \A m, n \in 1..c :
               m # n => pending'[<<i, m>>].engineer # pending'[<<i, n>>].engineer
        BY <2>1, <2>3, <2>5 DEF AskedInTurn
      <3> QED BY <3>1, <3>2, <3>3, <3>4 DEF AskedInTurn
    <2> QED BY <2>1, <2>4, <2>6 DEF AskFacts
  <1> QED BY <1>3, <1>4, <1>6 DEF DispatchInvariant

\* A dispatch is created after the one before was closed.
LEMMA TicketAdded ==
    ASSUME NEW i \in Incident, NEW c \in 0..MaxAsked, c < MaxAsked,
           NEW tickets \in [Dispatch!Key -> Ticket],
           NEW noted \in SUBSET Dispatch!Engineer, NEW more \in SUBSET Dispatch!Engineer,
           noted \subseteq more,
           AskedInTurn(tickets, noted, i, c),
           \A n \in 1..c : /\ tickets[<<i, n>>].engineer \in noted
                          /\ tickets[<<i, n>>].status # "PENDING",
           NEW t \in Ticket, t.status # "ABSENT", t.engineer \in Dispatch!Engineer \ noted
    PROVE  AskedInTurn([tickets EXCEPT ![<<i, c + 1>>] = t], more, i, c + 1)
  <1> DEFINE added == [tickets EXCEPT ![<<i, c + 1>>] = t]
  <1>1. /\ c \in Nat /\ MaxAsked \in Nat /\ c + 1 \in Dispatch!Index
        /\ \A n \in Dispatch!Index : <<i, n>> \in Dispatch!Key
        /\ \A n \in 1..(c + 1) : n \in Dispatch!Index /\ (n = c + 1 \/ n \in 1..c)
        /\ \A n \in Dispatch!Index : n \in Nat
    BY DispatchConstants
  <1>2. /\ added[<<i, c + 1>>] = t
        /\ \A n \in Dispatch!Index : n # c + 1 => added[<<i, n>>] = tickets[<<i, n>>]
    BY <1>1
  <1> HIDE DEF added
  <1>3. \A n \in Dispatch!Index : added[<<i, n>>].status # "ABSENT" <=> n <= c + 1
    BY <1>1, <1>2 DEF AskedInTurn
  <1>4. \A n \in 1..c : added[<<i, n>>] = tickets[<<i, n>>]
    BY <1>1, <1>2
  <1>5. \A n \in 1..(c + 1) : added[<<i, n>>].engineer \in Dispatch!Engineer
    BY <1>1, <1>2, <1>4 DEF AskedInTurn
  <1>6. \A n \in 1..(c + 1) : n # c + 1 => /\ added[<<i, n>>].status # "PENDING"
                                         /\ added[<<i, n>>].engineer \in more
    BY <1>1, <1>4
  <1>7. ASSUME NEW m \in 1..(c + 1), NEW n \in 1..(c + 1), m # n
        PROVE  added[<<i, m>>].engineer # added[<<i, n>>].engineer
    <2>1. CASE m = c + 1
      BY <1>1, <1>2, <1>4, <1>7, <2>1
    <2>2. CASE n = c + 1
      BY <1>1, <1>2, <1>4, <1>7, <2>2
    <2>3. CASE m \in 1..c /\ n \in 1..c
      BY <1>4, <1>7, <2>3 DEF AskedInTurn
    <2> QED BY <1>1, <2>1, <2>2, <2>3
  <1>8. AskedInTurn(added, more, i, c + 1)
    BY <1>3, <1>5, <1>6, <1>7 DEF AskedInTurn
  <1> QED BY <1>8 DEF added

\* The other incidents see nothing of it.
LEMMA OthersAsked ==
    ASSUME NEW i \in Incident, NEW j \in Incident, i # j, AskFacts(j),
           \A n \in Dispatch!Index : pending'[<<j, n>>] = pending[<<j, n>>],
           attempted'[j] = attempted[j], result'[j] = result[j]
    PROVE  AskFacts(j)'
  <1>1. PICK c \in 0..MaxAsked :
           AskedInTurn(pending, attempted[j], j, c) /\ (result[j] = "none" => c = 0)
    BY DEF AskFacts
  <1>2. \A n \in 1..c : n \in Dispatch!Index
    BY DispatchConstants
  <1>3. AskedInTurn(pending', attempted'[j], j, c)
    BY <1>1, <1>2 DEF AskedInTurn
  <1> QED BY <1>1, <1>3 DEF AskFacts

\* A dispatch that is asked or shown.
LEMMA NewTickets ==
    ASSUME NEW e \in Dispatch!Engineer, NEW t \in {Dispatch!Asked(e), Dispatch!Shown(e)}
    PROVE  t \in Ticket /\ t.status = "PENDING" /\ t.engineer = e
  <1>1. e \in 0..Engineers
    BY DispatchConstants
  <1> QED BY <1>1, DispatchConstants DEF Dispatch!Asked, Dispatch!Shown, Dispatch!NoPending, Ticket

\* Nobody is asked anew: engineers are noted, or the incident comes to something.
LEMMA NobodyAsked ==
    ASSUME DispatchInvariant, pending' = pending,
           attempted' \in [Incident -> SUBSET Dispatch!Engineer],
           result' \in [Incident -> {"none", "waiting", "APPROVED", "BLOCKED", "MANUAL"}],
           \A i \in Incident : attempted[i] \subseteq attempted'[i],
           \A i \in Incident : result'[i] = "none" => result[i] = "none",
           receipts' \subseteq Dispatch!Engineer,
           Shows(latest'),
           tokens' \subseteq Dispatch!Key
    PROVE  DispatchInvariant'
  <1>1. pending \in [Dispatch!Key -> Ticket]
    BY DispatchTyped DEF DispatchInvariant
  <1>2. Dispatch!TypeOK'
    BY <1>1 DEF Dispatch!TypeOK, Ticket, Shows
  <1>3. ASSUME NEW i \in Incident  PROVE AskFacts(i)'
    <2>1. PICK c \in 0..MaxAsked :
             AskedInTurn(pending, attempted[i], i, c) /\ (result[i] = "none" => c = 0)
      BY DEF DispatchInvariant, AskFacts
    <2>2. AskedInTurn(pending', attempted'[i], i, c)
      BY <2>1 DEF AskedInTurn
    <2> QED BY <2>1, <2>2 DEF AskFacts
  <1> QED BY <1>2, <1>3 DEF DispatchInvariant

\* One more dispatch of an incident, after the others of it were closed.
LEMMA TicketCreated ==
    ASSUME DispatchInvariant, NEW i \in Incident, NEW c \in 0..MaxAsked, c < MaxAsked,
           NEW tickets \in [Dispatch!Key -> Ticket],
           \A j \in Incident : j # i =>
              \A n \in Dispatch!Index : tickets[<<j, n>>] = pending[<<j, n>>],
           \A k \in Dispatch!Key : NothingAbsent(tickets[k]),
           NEW noted \in SUBSET Dispatch!Engineer, NEW more \in SUBSET Dispatch!Engineer,
           noted \subseteq more, attempted' = [attempted EXCEPT ![i] = more],
           AskedInTurn(tickets, noted, i, c),
           \A n \in 1..c : /\ tickets[<<i, n>>].engineer \in noted
                          /\ tickets[<<i, n>>].status # "PENDING",
           NEW t \in Ticket, t.status # "ABSENT", t.engineer \in Dispatch!Engineer \ noted,
           pending' = [tickets EXCEPT ![<<i, c + 1>>] = t],
           result' \in [Incident -> {"none", "waiting", "APPROVED", "BLOCKED", "MANUAL"}],
           \A j \in Incident : j # i => result'[j] = result[j],
           result'[i] # "none",
           receipts' \subseteq Dispatch!Engineer,
           Shows(latest'),
           tokens' \subseteq Dispatch!Key
    PROVE  DispatchInvariant'
  <1>1. attempted \in [Incident -> SUBSET Dispatch!Engineer]
    BY DispatchTyped DEF DispatchInvariant
  <1>2. c + 1 \in 0..MaxAsked /\ <<i, c + 1>> \in Dispatch!Key
    BY DispatchConstants
  <1>3. pending' \in [Dispatch!Key -> Ticket]
    BY <1>2
  <1>4. Dispatch!TypeOK'
    BY <1>1, <1>3 DEF Dispatch!TypeOK, Ticket, Shows
  <1>5. \A k \in Dispatch!Key : NothingAbsent(pending'[k])
    BY <1>2 DEF NothingAbsent
  <1>6. AskFacts(i)'
    <2>1. AskedInTurn(pending', more, i, c + 1)
      BY TicketAdded
    <2>2. attempted'[i] = more
      BY <1>1
    <2> QED BY <1>2, <2>1, <2>2 DEF AskFacts
  <1>7. ASSUME NEW j \in Incident, j # i  PROVE AskFacts(j)'
    <2>1. attempted'[j] = attempted[j] /\ result'[j] = result[j] /\ AskFacts(j)
      BY <1>1, <1>7 DEF DispatchInvariant
    <2>2. \A n \in Dispatch!Index : <<j, n>> \in Dispatch!Key /\ <<j, n>> # <<i, c + 1>>
      BY <1>7, DispatchConstants
    <2>3. \A n \in Dispatch!Index : pending'[<<j, n>>] = pending[<<j, n>>]
      BY <1>7, <2>2
    <2> QED BY <1>7, <2>1, <2>3, OthersAsked
  <1> QED BY <1>4, <1>5, <1>6, <1>7 DEF DispatchInvariant

LEMMA EvaluateStep ==
    ASSUME DispatchInvariant, NEW i \in Incident, Dispatch!Evaluate(i)
    PROVE  DispatchInvariant'
  <1>1. PICK candidates \in Dispatch!Candidates(i) :
          IF candidates = {}
          THEN /\ result' = [result EXCEPT ![i] = "BLOCKED"]
               /\ UNCHANGED <<pending, attempted, latest>>
          ELSE /\ attempted' = [attempted EXCEPT ![i] = @ \cup {Dispatch!First(candidates)}]
               /\ \/ /\ \E trust \in Dispatch!Trust : result' = [result EXCEPT ![i] = trust]
                     /\ UNCHANGED <<pending, latest>>
                  \/ /\ \/ /\ pending' = [pending EXCEPT ![Dispatch!Fresh(i)]
                                                = Dispatch!Asked(Dispatch!First(candidates))]
                           /\ UNCHANGED latest
                        \/ /\ pending' = [pending EXCEPT ![Dispatch!Fresh(i)]
                                                = Dispatch!Shown(Dispatch!First(candidates))]
                           /\ latest' = [key |-> Dispatch!Fresh(i), link |-> FALSE]
                     /\ result' = [result EXCEPT ![i] = "waiting"]
    BY DEF Dispatch!Evaluate
  <1>2. /\ pending \in [Dispatch!Key -> Ticket]
        /\ attempted \in [Incident -> SUBSET Dispatch!Engineer]
        /\ receipts \subseteq Dispatch!Engineer
        /\ Shows(latest)
        /\ tokens \subseteq Dispatch!Key
        /\ result \in [Incident -> {"none", "waiting", "APPROVED", "BLOCKED", "MANUAL"}]
    BY DispatchTyped DEF DispatchInvariant
  <1>3. UNCHANGED <<receipts, tokens>> /\ result[i] = "none"
    BY DEF Dispatch!Evaluate
  <1>4. CASE candidates = {}
    <2>1. /\ result' = [result EXCEPT ![i] = "BLOCKED"]
          /\ UNCHANGED <<pending, attempted, latest>>
      BY <1>1, <1>4
    <2> QED BY <1>2, <1>3, <2>1, NobodyAsked
  <1>5. CASE candidates # {}
    <2> DEFINE e == Dispatch!First(candidates)
               more == attempted[i] \cup {e}
    <2>1. e \in Dispatch!Engineer
      BY <1>5, FirstIsOne DEF Dispatch!Candidates
    <2>2. more \in SUBSET Dispatch!Engineer /\ attempted' = [attempted EXCEPT ![i] = more]
      BY <1>1, <1>2, <1>5, <2>1
    <2>3. \/ /\ \E trust \in {"APPROVED", "BLOCKED"} : result' = [result EXCEPT ![i] = trust]
             /\ UNCHANGED <<pending, latest>>
          \/ /\ result' = [result EXCEPT ![i] = "waiting"]
             /\ \E t \in {Dispatch!Asked(e), Dispatch!Shown(e)} :
                   pending' = [pending EXCEPT ![Dispatch!Fresh(i)] = t]
             /\ latest' \in {latest, [key |-> Dispatch!Fresh(i), link |-> FALSE]}
      BY <1>1, <1>5 DEF Dispatch!Trust
    <2>4. CASE pending' = pending /\ latest' = latest
               /\ \E trust \in {"APPROVED", "BLOCKED"} : result' = [result EXCEPT ![i] = trust]
      <3> HIDE DEF more, e
      <3>1. attempted' \in [Incident -> SUBSET Dispatch!Engineer]
        BY <1>2, <2>2
      <3>2. \A j \in Incident : attempted[j] \subseteq attempted'[j]
        BY <1>2, <2>2 DEF more
      <3> QED BY <1>2, <1>3, <2>4, <3>1, <3>2, NobodyAsked
    <2>5. ASSUME result' = [result EXCEPT ![i] = "waiting"],
                 NEW t \in {Dispatch!Asked(e), Dispatch!Shown(e)},
                 pending' = [pending EXCEPT ![Dispatch!Fresh(i)] = t],
                 latest' \in {latest, [key |-> Dispatch!Fresh(i), link |-> FALSE]}
          PROVE  DispatchInvariant'
      <3>1. t \in Ticket /\ t.status = "PENDING" /\ t.engineer = e
        BY <2>1, <2>5, NewTickets
      <3>2. PICK c \in 0..MaxAsked :
               AskedInTurn(pending, attempted[i], i, c) /\ (result[i] = "none" => c = 0)
        BY DEF DispatchInvariant, AskFacts
      <3>3. Dispatch!Fresh(i) = <<i, c + 1>> /\ Dispatch!Fresh(i) \in Dispatch!Key
        BY <3>2, NextTicket
      <3>4. c = 0 /\ c < MaxAsked
        BY <1>3, <3>2, DispatchConstants
      <3>5. /\ AskedInTurn(pending, {}, i, c)
            /\ \A n \in 1..c : /\ pending[<<i, n>>].engineer \in {}
                              /\ pending[<<i, n>>].status # "PENDING"
        BY <3>2, <3>4 DEF AskedInTurn
      <3>6. Shows(latest')
        BY <1>2, <2>5, <3>3, NothingShown
      <3>7. /\ result' \in [Incident -> {"none", "waiting", "APPROVED", "BLOCKED", "MANUAL"}]
            /\ \A j \in Incident : j # i => result'[j] = result[j]
            /\ result'[i] # "none"
        BY <1>2, <2>5
      <3>8. \A k \in Dispatch!Key : NothingAbsent(pending[k])
        BY DEF DispatchInvariant
      <3>9. t.engineer \in Dispatch!Engineer \ {}
        BY <2>1, <3>1
      <3> DEFINE none == {}
      <3>10. none \in SUBSET Dispatch!Engineer /\ none \subseteq more
        OBVIOUS
      <3>11. pending' = [pending EXCEPT ![<<i, c + 1>>] = t] /\ t.status # "ABSENT"
        BY <2>5, <3>1, <3>3
      <3> HIDE DEF more, e
      <3>12. /\ AskedInTurn(pending, none, i, c)
             /\ \A n \in 1..c : /\ pending[<<i, n>>].engineer \in none
                               /\ pending[<<i, n>>].status # "PENDING"
             /\ t.engineer \in Dispatch!Engineer \ none
        BY <3>5, <3>9
      <3>13. receipts' \subseteq Dispatch!Engineer /\ tokens' \subseteq Dispatch!Key
        BY <1>2, <1>3
      <3> HIDE DEF none
      <3> QED BY <1>2, <2>2, <3>1, <3>4, <3>6, <3>7, <3>8, <3>10, <3>11, <3>12, <3>13,
                 TicketCreated
    <2> QED BY <2>3, <2>4, <2>5
  <1> QED BY <1>4, <1>5

\* The dispatch of a step, changed.
LEMMA TicketLink ==
    ASSUME NEW t \in Ticket, NEW l \in {"none", "asked", "ready", "held"},
           NEW u, u = [t EXCEPT !.link = l]
    PROVE  /\ u \in Ticket /\ u.engineer = t.engineer /\ u.status = t.status
           /\ u.oauth = t.oauth /\ u.link = l
  BY DEF Ticket

LEMMA TicketLate ==
    ASSUME NEW t \in Ticket, NEW u, u = [t EXCEPT !.late = TRUE]
    PROVE  /\ u \in Ticket /\ u.engineer = t.engineer /\ u.status = t.status
           /\ u.oauth = t.oauth /\ u.link = t.link
  BY DEF Ticket

LEMMA TicketUsed ==
    ASSUME NEW t \in Ticket, NEW u, u = [t EXCEPT !.oauth = "used"]
    PROVE  /\ u \in Ticket /\ u.engineer = t.engineer /\ u.status = t.status
           /\ u.oauth = "used" /\ u.link = t.link
  BY DEF Ticket

LEMMA TicketEnded ==
    ASSUME NEW t \in Ticket, NEW s \in {"PENDING", "COMPLETED", "BLOCKED", "EXPIRED"}
    PROVE  LET u == Dispatch!Ended(t, s)
           IN  /\ u \in Ticket /\ u.engineer = t.engineer /\ u.status = s
               /\ u.oauth = "used" /\ u.link = t.link
  BY DEF Ticket, Dispatch!Ended

LEMMA LinkStep ==
    ASSUME DispatchInvariant, NEW k \in Dispatch!Key, NEW made \in BOOLEAN,
           Dispatch!Link(k, made)
    PROVE  DispatchInvariant'
  <1>1. /\ pending[k] \in Ticket /\ pending[k].link = "asked" /\ NothingAbsent(pending[k])
        /\ pending[k].status # "ABSENT"
    BY DispatchTyped DEF DispatchInvariant, Dispatch!Link, NothingAbsent
  <1>2. /\ UNCHANGED <<attempted, receipts, tokens, result>>
        /\ attempted \in [Incident -> SUBSET Dispatch!Engineer]
        /\ receipts \subseteq Dispatch!Engineer
        /\ Shows(latest)
        /\ tokens \subseteq Dispatch!Key
        /\ result \in [Incident -> {"none", "waiting", "APPROVED", "BLOCKED", "MANUAL"}]
    BY DispatchTyped DEF DispatchInvariant, Dispatch!Link
  <1>3. Shows([key |-> k, link |-> TRUE]) /\ Shows([key |-> k, link |-> FALSE])
    BY LinkShown, NothingShown
  <1>4. CASE made
    <2> DEFINE t == [pending[k] EXCEPT !.link = "ready"]
    <2>1. pending' = [pending EXCEPT ![k] = t]
      BY <1>4 DEF Dispatch!Link
    <2>2. latest' = [key |-> k, link |-> TRUE]
      BY <1>4 DEF Dispatch!Link
    <2>3. /\ t \in Ticket /\ t.engineer = pending[k].engineer /\ t.status = pending[k].status
          /\ t.link = "ready"
      BY <1>1, TicketLink
    <2> HIDE DEF t
    <2>4. NothingAbsent(t)
      BY <1>1, <2>3 DEF NothingAbsent
    <2> QED BY <1>2, <1>3, <2>1, <2>2, <2>3, <2>4, TicketChanged
  <1>5. CASE ~made
    <2> DEFINE u == Dispatch!Ended(pending[k], "BLOCKED")
               t == [u EXCEPT !.link = "none"]
    <2>1. pending' = [pending EXCEPT ![k] = t]
      BY <1>5 DEF Dispatch!Link
    <2>2. latest' \in {latest, [key |-> k, link |-> FALSE]}
      BY <1>5 DEF Dispatch!Link
    <2>3. u \in Ticket /\ u.engineer = pending[k].engineer /\ u.status = "BLOCKED"
      BY <1>1, TicketEnded
    <2> HIDE DEF u
    <2>4. t \in Ticket /\ t.engineer = pending[k].engineer /\ t.status = "BLOCKED"
      BY <2>3, TicketLink
    <2> HIDE DEF t
    <2>5. NothingAbsent(t) /\ Shows(latest')
      BY <1>2, <1>3, <2>2, <2>4 DEF NothingAbsent
    <2> QED BY <1>1, <1>2, <2>1, <2>4, <2>5, TicketChanged
  <1> QED BY <1>4, <1>5

LEMMA IssueStep == ASSUME DispatchInvariant, Dispatch!Issue PROVE DispatchInvariant'
  <1>1. latest.link /\ tokens' = tokens \cup {latest.key}
        /\ UNCHANGED <<pending, attempted, receipts, latest, result>>
    BY DEF Dispatch!Issue
  <1>2. /\ attempted \in [Incident -> SUBSET Dispatch!Engineer]
        /\ receipts \subseteq Dispatch!Engineer
        /\ Shows(latest)
        /\ tokens \subseteq Dispatch!Key
        /\ result \in [Incident -> {"none", "waiting", "APPROVED", "BLOCKED", "MANUAL"}]
    BY DispatchTyped DEF DispatchInvariant
  <1>3. tokens' \subseteq Dispatch!Key
    BY <1>1, <1>2 DEF Shows
  <1> QED BY <1>1, <1>2, <1>3, NobodyAsked

LEMMA ConsumeStep ==
    ASSUME DispatchInvariant, NEW k \in Dispatch!Key, Dispatch!Consume(k)
    PROVE  DispatchInvariant'
  <1>1. /\ UNCHANGED <<attempted, receipts, latest, result>> /\ tokens' = tokens \ {k}
        /\ attempted \in [Incident -> SUBSET Dispatch!Engineer]
        /\ receipts \subseteq Dispatch!Engineer
        /\ Shows(latest)
        /\ tokens' \subseteq Dispatch!Key
        /\ result \in [Incident -> {"none", "waiting", "APPROVED", "BLOCKED", "MANUAL"}]
    BY DispatchTyped DEF DispatchInvariant, Dispatch!Consume
  <1>2. CASE pending' = pending
    BY <1>1, <1>2, NobodyAsked
  <1>3. CASE pending' = [pending EXCEPT ![k].link = "held"]
    <2> DEFINE t == [pending[k] EXCEPT !.link = "held"]
    <2>1. pending[k] \in Ticket /\ NothingAbsent(pending[k])
      BY DispatchTyped DEF DispatchInvariant
    <2>2. pending' = [pending EXCEPT ![k] = t]
      BY <1>3
    <2>3. /\ t \in Ticket /\ t.engineer = pending[k].engineer /\ t.status = pending[k].status
          /\ t.oauth = pending[k].oauth /\ t.link = "held"
      BY <2>1, TicketLink
    <2> HIDE DEF t
    <2>4. NothingAbsent(t)
      BY <2>1, <2>3 DEF NothingAbsent
    <2> QED BY <1>1, <2>2, <2>3, <2>4, TicketChanged
  <1> QED BY <1>2, <1>3 DEF Dispatch!Consume

LEMMA ExpireStep ==
    ASSUME DispatchInvariant, NEW k \in Dispatch!Key, Dispatch!Expire(k)
    PROVE  DispatchInvariant'
  <1>1. /\ UNCHANGED <<attempted, receipts, latest, result, tokens>>
        /\ attempted \in [Incident -> SUBSET Dispatch!Engineer]
        /\ receipts \subseteq Dispatch!Engineer
        /\ Shows(latest)
        /\ tokens \subseteq Dispatch!Key
        /\ result \in [Incident -> {"none", "waiting", "APPROVED", "BLOCKED", "MANUAL"}]
    BY DispatchTyped DEF DispatchInvariant, Dispatch!Expire
  <1> DEFINE t == [pending[k] EXCEPT !.late = TRUE]
  <1>2. pending[k] \in Ticket /\ NothingAbsent(pending[k])
    BY DispatchTyped DEF DispatchInvariant
  <1>3. pending' = [pending EXCEPT ![k] = t]
    BY DEF Dispatch!Expire
  <1>4. /\ t \in Ticket /\ t.engineer = pending[k].engineer /\ t.status = pending[k].status
        /\ t.oauth = pending[k].oauth /\ t.link = pending[k].link
    BY <1>2, TicketLate
  <1> HIDE DEF t
  <1>5. NothingAbsent(t)
    BY <1>2, <1>4 DEF NothingAbsent
  <1> QED BY <1>1, <1>3, <1>4, <1>5, TicketChanged

LEMMA CallbackFailsStep ==
    ASSUME DispatchInvariant, NEW k \in Dispatch!Key, Dispatch!CallbackFails(k)
    PROVE  DispatchInvariant'
  <1>1. /\ UNCHANGED <<attempted, receipts, latest, result, tokens>>
        /\ attempted \in [Incident -> SUBSET Dispatch!Engineer]
        /\ receipts \subseteq Dispatch!Engineer
        /\ Shows(latest)
        /\ tokens \subseteq Dispatch!Key
        /\ result \in [Incident -> {"none", "waiting", "APPROVED", "BLOCKED", "MANUAL"}]
    BY DispatchTyped DEF DispatchInvariant, Dispatch!CallbackFails
  <1> DEFINE t == [pending[k] EXCEPT !.oauth = "used"]
  <1>2. pending[k] \in Ticket /\ NothingAbsent(pending[k])
    BY DispatchTyped DEF DispatchInvariant
  <1>3. pending' = [pending EXCEPT ![k] = t]
    BY DEF Dispatch!CallbackFails
  <1>4. /\ t \in Ticket /\ t.engineer = pending[k].engineer /\ t.status = pending[k].status
        /\ t.oauth = "used" /\ t.link = pending[k].link
    BY <1>2, TicketUsed
  <1> HIDE DEF t
  <1>5. NothingAbsent(t)
    BY <1>2, <1>4 DEF NothingAbsent
  <1> QED BY <1>1, <1>3, <1>4, <1>5, TicketChanged

LEMMA ReceiptStep ==
    ASSUME DispatchInvariant, NEW e \in Dispatch!Engineer, Dispatch!Receipt(e)
    PROVE  DispatchInvariant'
  <1>1. /\ UNCHANGED <<pending, attempted, latest, result, tokens>>
        /\ attempted \in [Incident -> SUBSET Dispatch!Engineer]
        /\ receipts' \subseteq Dispatch!Engineer
        /\ Shows(latest)
        /\ tokens \subseteq Dispatch!Key
        /\ result \in [Incident -> {"none", "waiting", "APPROVED", "BLOCKED", "MANUAL"}]
    BY DispatchTyped DEF DispatchInvariant, Dispatch!Receipt
  <1> QED BY <1>1, NobodyAsked

\* Who was asked is an engineer, so noting him keeps the history one of engineers.
LEMMA NotedTyped ==
    ASSUME DispatchInvariant, NEW k \in Dispatch!Key, pending[k].status # "ABSENT",
           attempted' = Dispatch!Noted(k)
    PROVE  /\ attempted' \in [Incident -> SUBSET Dispatch!Engineer]
           /\ \A i \in Incident : attempted[i] \subseteq attempted'[i]
           /\ attempted'[k[1]] = attempted[k[1]] \cup {pending[k].engineer}
           /\ attempted' = [attempted EXCEPT ![k[1]] = attempted'[k[1]]]
  <1>1. PICK i \in Incident, n \in Dispatch!Index : k = <<i, n>>
    BY DispatchConstants
  <1>2. PICK c \in 0..MaxAsked : AskedInTurn(pending, attempted[i], i, c)
    BY DEF DispatchInvariant, AskFacts
  <1>3. n \in 1..c
    BY <1>1, <1>2, DispatchConstants DEF AskedInTurn
  <1>4. pending[k].engineer \in Dispatch!Engineer
    BY <1>1, <1>2, <1>3 DEF AskedInTurn
  <1>5. attempted \in [Incident -> SUBSET Dispatch!Engineer]
    BY DispatchTyped DEF DispatchInvariant
  <1>6. k[1] = i
    BY <1>1
  <1>7. attempted' = [attempted EXCEPT ![i] = attempted[i] \cup {pending[k].engineer}]
    BY <1>5, <1>6 DEF Dispatch!Noted
  <1> QED BY <1>4, <1>5, <1>6, <1>7

LEMMA ApproveStep ==
    ASSUME DispatchInvariant, NEW k \in Dispatch!Key, pending[k].status = "PENDING",
           receipts' \subseteq Dispatch!Engineer, Dispatch!Approve(k)
    PROVE  DispatchInvariant'
  <1>1. /\ attempted' = Dispatch!Noted(k) /\ latest' = [key |-> k, link |-> FALSE]
        /\ result' = [result EXCEPT ![k[1]] = "APPROVED"] /\ tokens' = tokens
        /\ tokens \subseteq Dispatch!Key
        /\ result \in [Incident -> {"none", "waiting", "APPROVED", "BLOCKED", "MANUAL"}]
    BY DispatchTyped DEF DispatchInvariant, Dispatch!Approve
  <1>2. /\ result' \in [Incident -> {"none", "waiting", "APPROVED", "BLOCKED", "MANUAL"}]
        /\ \A i \in Incident : result'[i] = "none" => result[i] = "none"
    BY <1>1
  <1>3. /\ attempted' \in [Incident -> SUBSET Dispatch!Engineer]
        /\ \A i \in Incident : attempted[i] \subseteq attempted'[i]
    BY <1>1, NotedTyped
  <1>4. Shows(latest')
    BY <1>1, NothingShown
  <1> DEFINE t == Dispatch!Ended(pending[k], "COMPLETED")
  <1>5. pending[k] \in Ticket /\ pending' = [pending EXCEPT ![k] = t]
    BY DispatchTyped DEF DispatchInvariant, Dispatch!Approve
  <1>6. t \in Ticket /\ t.engineer = pending[k].engineer /\ t.status = "COMPLETED"
    BY <1>5, TicketEnded
  <1> HIDE DEF t
  <1>7. NothingAbsent(t)
    BY <1>6 DEF NothingAbsent
  <1> QED BY <1>1, <1>2, <1>3, <1>4, <1>5, <1>6, <1>7, TicketChanged

\* The dispatch that was pending is the last, so when it is closed and its engineer noted
\* all are closed and noted, and the next one goes to somebody else.
LEMMA FailStep ==
    ASSUME DispatchInvariant, NEW k \in Dispatch!Key, pending[k].status = "PENDING",
           receipts' \subseteq Dispatch!Engineer, Dispatch!Fail(k)
    PROVE  DispatchInvariant'
  <1> DEFINE i == k[1]
             u == Dispatch!Ended(pending[k], "BLOCKED")
             closed == [pending EXCEPT ![k] = u]
             noted == attempted'[i]
  <1>1. /\ attempted' = Dispatch!Noted(k) /\ latest' = [key |-> k, link |-> FALSE]
        /\ tokens' = tokens \ {k} /\ tokens \subseteq Dispatch!Key
        /\ pending \in [Dispatch!Key -> Ticket]
        /\ result \in [Incident -> {"none", "waiting", "APPROVED", "BLOCKED", "MANUAL"}]
    BY DispatchTyped DEF DispatchInvariant, Dispatch!Fail, Dispatch!Fallback
  <1>2. /\ attempted' \in [Incident -> SUBSET Dispatch!Engineer]
        /\ \A j \in Incident : attempted[j] \subseteq attempted'[j]
        /\ noted = attempted[i] \cup {pending[k].engineer}
        /\ attempted' = [attempted EXCEPT ![i] = noted]
    BY <1>1, NotedTyped
  <1>3. Shows(latest') /\ tokens' \subseteq Dispatch!Key
    BY <1>1, NothingShown
  <1>4. PICK n \in Dispatch!Index : i \in Incident /\ k = <<i, n>>
    BY DispatchConstants
  <1>5. PICK available \in SUBSET Dispatch!Engineer :
           IF Dispatch!Cardinality(noted) >= MaxAsked \/ available \ noted = {}
           THEN /\ pending' = closed
                /\ result' = [result EXCEPT ![i] = "MANUAL"]
           ELSE /\ pending' = [closed EXCEPT ![Dispatch!Fresh(i)]
                                 = Dispatch!Asked(Dispatch!First(available \ noted))]
                /\ UNCHANGED result
    BY DEF Dispatch!Fail, Dispatch!Fallback
  <1>6. /\ u \in Ticket /\ u.engineer = pending[k].engineer /\ u.status = "BLOCKED"
        /\ pending[k] \in Ticket
    BY <1>1, TicketEnded
  <1> HIDE DEF u, i
  <1>7. NothingAbsent(u)
    BY <1>6 DEF NothingAbsent
  <1>8. CASE pending' = closed /\ result' = [result EXCEPT ![i] = "MANUAL"]
    <2>1. /\ result' \in [Incident -> {"none", "waiting", "APPROVED", "BLOCKED", "MANUAL"}]
          /\ \A j \in Incident : result'[j] = "none" => result[j] = "none"
      BY <1>1, <1>4, <1>8
    <2> QED BY <1>2, <1>3, <1>6, <1>7, <1>8, <2>1, TicketChanged
  <1>9. CASE /\ ~(Dispatch!Cardinality(noted) >= MaxAsked) /\ available \ noted # {}
            /\ pending' = [closed EXCEPT ![Dispatch!Fresh(i)]
                             = Dispatch!Asked(Dispatch!First(available \ noted))]
            /\ result' = result
    <2>1. PICK c \in 0..MaxAsked :
             AskedInTurn(pending, attempted[i], i, c) /\ (result[i] = "none" => c = 0)
      BY <1>4 DEF DispatchInvariant, AskFacts
    <2>2. n \in 1..c /\ n = c
      BY <1>4, <2>1, DispatchConstants DEF AskedInTurn
    <2>3. result[i] # "none"
      BY <2>1, <2>2
    <2>4. \A m \in Dispatch!Index : /\ <<i, m>> \in Dispatch!Key
                                   /\ m # c => <<i, m>> # k
      BY <1>4, <2>2, DispatchConstants
    <2>5. /\ closed \in [Dispatch!Key -> Ticket] /\ closed[k] = u
          /\ \A m \in Dispatch!Index : m # c => closed[<<i, m>>] = pending[<<i, m>>]
      BY <1>1, <1>6, <2>4
    <2>6. \A m \in 1..c : m \in Dispatch!Index
      BY DispatchConstants
    <2>7. \A j \in Incident : j # i =>
             \A m \in Dispatch!Index : closed[<<j, m>>] = pending[<<j, m>>]
      <3>1. \A j \in Incident : j # i =>
               \A m \in Dispatch!Index : <<j, m>> \in Dispatch!Key /\ <<j, m>> # k
        BY <1>4, DispatchConstants
      <3> QED BY <1>1, <3>1
    <2>8. \A j \in Dispatch!Key : NothingAbsent(closed[j])
      BY <1>1, <1>7 DEF DispatchInvariant
    <2> HIDE DEF closed
    <2>9. closed[<<i, c>>] = u /\ u.engineer = pending[<<i, c>>].engineer /\ <<i, c>> = k
      BY <1>4, <1>6, <2>2, <2>5
    <2>10. \A m \in 1..c : closed[<<i, m>>].engineer = pending[<<i, m>>].engineer
      BY <2>5, <2>6, <2>9
    <2>11. \A m \in 1..c : /\ closed[<<i, m>>].engineer \in noted
                          /\ closed[<<i, m>>].status # "PENDING"
      BY <1>2, <1>6, <2>1, <2>5, <2>6, <2>9, <2>10 DEF AskedInTurn
    <2>12. AskedInTurn(closed, noted, i, c)
      <3>1. \A m \in Dispatch!Index : closed[<<i, m>>].status # "ABSENT" <=> m <= c
        BY <1>6, <2>1, <2>2, <2>5, <2>9, DispatchConstants DEF AskedInTurn
      <3>2. \A m \in 1..c : closed[<<i, m>>].engineer \in Dispatch!Engineer
        BY <2>1, <2>10 DEF AskedInTurn
      <3>3. \A m, l \in 1..c :
               m # l => closed[<<i, m>>].engineer # closed[<<i, l>>].engineer
        BY <2>1, <2>10 DEF AskedInTurn
      <3> QED BY <2>11, <3>1, <3>2, <3>3 DEF AskedInTurn
    <2>13. noted \in SUBSET Dispatch!Engineer
      BY <1>2, <1>4
    <2> HIDE DEF noted
    <2>14. c < MaxAsked
      <3>1. Dispatch!Cardinality(noted) \in Nat /\ c <= Dispatch!Cardinality(noted)
        BY <1>4, <2>11, <2>12, <2>13, NotedAreMore
      <3> QED BY <1>9, <3>1, DispatchConstants
    <2> DEFINE e == Dispatch!First(available \ noted)
               t == Dispatch!Asked(e)
    <2>15. e \in available \ noted /\ e \in Dispatch!Engineer
      BY <1>9, FirstIsOne
    <2> HIDE DEF e
    <2>16. /\ t \in Ticket /\ t.status # "ABSENT"
           /\ t.engineer \in Dispatch!Engineer \ noted
      BY <2>15, NewTickets
    <2>17. pending' = [closed EXCEPT ![<<i, c + 1>>] = t]
      BY <1>4, <1>9, <2>1, NextTicket DEF e
    <2> HIDE DEF t
    <2>18. noted \subseteq noted /\ i \in Incident
      BY <1>4
    <2>19. /\ result' \in [Incident -> {"none", "waiting", "APPROVED", "BLOCKED", "MANUAL"}]
           /\ \A j \in Incident : j # i => result'[j] = result[j]
           /\ result'[i] # "none"
      BY <1>1, <1>9, <2>3
    <2>20. /\ closed \in [Dispatch!Key -> Ticket]
           /\ attempted' = [attempted EXCEPT ![i] = noted]
      BY <1>2, <2>5
    <2> QED BY <1>3, <2>7, <2>8, <2>11, <2>12, <2>13, <2>14, <2>16, <2>17, <2>18, <2>19, <2>20,
               TicketCreated
  <1> QED BY <1>5, <1>8, <1>9

LEMMA CallbackStep ==
    ASSUME DispatchInvariant, NEW k \in Dispatch!Key, NEW verified \in BOOLEAN,
           Dispatch!Callback(k, verified)
    PROVE  DispatchInvariant'
  <1>1. /\ pending[k] \in Ticket /\ pending[k].oauth = "live" /\ NothingAbsent(pending[k])
        /\ pending[k].status # "ABSENT"
    BY DispatchTyped DEF DispatchInvariant, Dispatch!Callback, Dispatch!Usable, NothingAbsent
  <1>2. PICK i \in Incident, n \in Dispatch!Index : k = <<i, n>>
    BY DispatchConstants
  <1>3. pending[k].engineer \in Dispatch!Engineer
    <2>1. PICK c \in 0..MaxAsked : AskedInTurn(pending, attempted[i], i, c)
      BY DEF DispatchInvariant, AskFacts
    <2>2. n \in 1..c
      BY <1>1, <1>2, <2>1, DispatchConstants DEF AskedInTurn
    <2> QED BY <1>2, <2>1, <2>2 DEF AskedInTurn
  <1>4. receipts' \subseteq Dispatch!Engineer
    BY <1>3, DispatchTyped DEF DispatchInvariant, Dispatch!Callback
  <1>5. CASE ~pending[k].late /\ pending[k].status = "PENDING"
    <2>1. Dispatch!Approve(k) \/ Dispatch!Fail(k)
      BY <1>5 DEF Dispatch!Callback
    <2> QED BY <1>4, <1>5, <2>1, ApproveStep, FailStep
  <1>6. CASE ~(~pending[k].late /\ pending[k].status = "PENDING")
    <2>1. PICK s \in {"PENDING", "COMPLETED", "BLOCKED", "EXPIRED"} :
             /\ s = (IF pending[k].late THEN "EXPIRED" ELSE pending[k].status)
             /\ s = "PENDING" => pending[k].status = "PENDING"
      BY <1>1 DEF Ticket
    <2> DEFINE t == Dispatch!Ended(pending[k], s)
    <2>2. /\ pending' = [pending EXCEPT ![k] = t]
          /\ UNCHANGED <<attempted, latest, tokens, result>>
      BY <1>6, <2>1 DEF Dispatch!Callback
    <2>3. t \in Ticket /\ t.engineer = pending[k].engineer /\ t.status = s
      BY <1>1, TicketEnded
    <2> HIDE DEF t
    <2>4. NothingAbsent(t) /\ t.status # "ABSENT"
      BY <2>3 DEF NothingAbsent
    <2>5. /\ attempted \in [Incident -> SUBSET Dispatch!Engineer]
          /\ Shows(latest)
          /\ tokens \subseteq Dispatch!Key
          /\ result \in [Incident -> {"none", "waiting", "APPROVED", "BLOCKED", "MANUAL"}]
      BY DispatchTyped DEF DispatchInvariant
    <2> QED BY <1>1, <1>4, <2>1, <2>2, <2>3, <2>4, <2>5, TicketChanged
  <1> QED BY <1>5, <1>6

LEMMA DispatchStep == ASSUME DispatchInvariant, Dispatch!Next PROVE DispatchInvariant'
  BY EvaluateStep, LinkStep, IssueStep, ConsumeStep, ExpireStep, ReceiptStep,
     CallbackFailsStep, CallbackStep DEF Dispatch!Next

LEMMA DispatchStutters ==
    ASSUME DispatchInvariant, UNCHANGED Dispatch!vars
    PROVE  DispatchInvariant'
  <1>1. UNCHANGED <<pending, attempted, receipts, latest, tokens, result>>
    BY DEF Dispatch!vars
  <1>2. /\ attempted \in [Incident -> SUBSET Dispatch!Engineer]
        /\ receipts \subseteq Dispatch!Engineer
        /\ Shows(latest)
        /\ tokens \subseteq Dispatch!Key
        /\ result \in [Incident -> {"none", "waiting", "APPROVED", "BLOCKED", "MANUAL"}]
    BY DispatchTyped DEF DispatchInvariant
  <1> QED BY <1>1, <1>2, NobodyAsked

DispatchKept == part \in Deployment \cup Service /\ (part = "dispatch" => DispatchInvariant)

LEMMA DispatchAlways == Spec => []DispatchKept
  <1>1. Init => DispatchKept
    BY Starts, DispatchStarts DEF DispatchKept
  <1>2. DispatchKept /\ [Next]_vars => DispatchKept'
    <2> SUFFICES ASSUME DispatchKept, [Next]_vars  PROVE DispatchKept'
      OBVIOUS
    <2>1. part' = part /\ (part = "dispatch" => [Dispatch!Next]_(Dispatch!vars))
      BY Parted DEF DispatchKept
    <2>2. ASSUME part = "dispatch"  PROVE DispatchInvariant'
      BY <2>1, <2>2, DispatchStep, DispatchStutters DEF DispatchKept
    <2> QED BY <2>1, <2>2 DEF DispatchKept
  <1> QED BY <1>1, <1>2, PTL DEF Spec

\* Consents that fail, expire or are never given, links that are not made, callbacks that
\* are repeated: none of it makes an incident ask an engineer twice, two at once, or more
\* than it may: for every number of engineers, of incidents and of attempts.
THEOREM EngineersAskedOnce == Spec => []AskedOnce
  <1>1. DispatchInvariant => Dispatch!AskedOnce
    <2> SUFFICES ASSUME DispatchInvariant, NEW i \in Incident
                 PROVE  /\ Dispatch!Cardinality(Dispatch!Created(i)) <= MaxAsked
                        /\ Dispatch!Cardinality({n \in Dispatch!Index :
                                pending[<<i, n>>].status = "PENDING"}) <= 1
                        /\ \A m, n \in Dispatch!Created(i) :
                               m # n => pending[<<i, m>>].engineer # pending[<<i, n>>].engineer
      BY DEF Dispatch!AskedOnce
    <2>1. PICK c \in 0..MaxAsked : AskedInTurn(pending, attempted[i], i, c)
      BY DEF DispatchInvariant, AskFacts
    <2>2. Dispatch!Created(i) = 1..c /\ Dispatch!Cardinality(Dispatch!Created(i)) = c
      BY <2>1, NextTicket
    <2> DEFINE open == {n \in Dispatch!Index : pending[<<i, n>>].status = "PENDING"}
    <2>3. \A n \in open : n = c
      BY <2>1, DispatchConstants DEF AskedInTurn
    <2>4. Cardinality(open) <= 1
      <3>1. open = {} \/ open = {c}
        BY <2>3
      <3>2. Cardinality({c}) = 1 /\ Cardinality({}) = 0
        BY FS_Singleton, FS_EmptySet
      <3> HIDE DEF open
      <3> QED BY <3>1, <3>2
    <2>5. Dispatch!Cardinality(open) <= 1
      BY <2>4, DispatchCounts
    <2> QED BY <2>1, <2>2, <2>5, DispatchConstants DEF AskedInTurn
  <1>2. DispatchKept => AskedOnce
    BY <1>1 DEF DispatchKept, AskedOnce
  <1> QED BY DispatchAlways, <1>2, PTL
=============================================================================
