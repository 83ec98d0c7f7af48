----------------------------- MODULE Ingestion -----------------------------
(***************************************************************************)
(* The ingestion of network events by runtime_events.py: readings of one   *)
(* cell arrive late, twice and out of order at several processes; each is  *)
(* planned from durable state and committed in one transaction that        *)
(* claims its identity, moves the projection of the cell, opens or finds   *)
(* the incident and appends the row that wakes the decision service up.    *)
(*                                                                         *)
(* An event, its incident and its row are named by the reading: a reading  *)
(* that comes again carries the same idempotency key and is not accepted   *)
(* twice, so the names are as unique as the identities made from them.     *)
(***************************************************************************)
EXTENDS Integers, FiniteSets

CONSTANTS
    Process,
    Reading,
    TimeOf,         \* source_timestamp of a reading
    KindOf,         \* congestion or reachability
    HighOf,         \* is it a congestion level High?
    MaxAttempts,    \* max_version_attempts
    MaxCrashes,     \* bound: crashes
    None

Channel == {"congestion", "reachability"}

IngestionAssumption ==
    /\ TimeOf \in [Reading -> Nat] /\ KindOf \in [Reading -> Channel]
    /\ HighOf \in [Reading -> BOOLEAN]
    /\ \A r \in Reading : HighOf[r] => KindOf[r] = "congestion"
    /\ MaxAttempts \in Nat \ {0} /\ MaxCrashes \in Nat
    /\ None \notin Reading /\ {"absent", "refresh"} \cap Reading = {}

VARIABLES
    inbox,      \* the readings whose identity has been claimed
    projection, \* the cell: version, time seen per channel, congestion, incidents
    incident,   \* the incidents, by the reading that opened them
    row,        \* the outbox rows: the incident they name, or a refresh
    view,       \* each process's copy of the projection
    proc,       \* each process's local variables
    crashes

vars == <<inbox, projection, incident, row, view, proc, crashes>>

Never == -1
Projection == [version : Nat, seen : [Channel -> Nat \cup {Never}], high : BOOLEAN,
               active : SUBSET Reading]
NoProjection == [version |-> 0, seen |-> [c \in Channel |-> Never], high |-> FALSE,
                 active |-> {}]
IdleProcess == [at |-> "idle", reading |-> None, tries |-> 0, copy |-> NoProjection,
                moves |-> FALSE, existing |-> None]

TypeOK ==
    /\ inbox \subseteq Reading
    /\ projection \in Projection
    /\ incident \in [Reading -> {"ABSENT", "OPEN", "CLOSED"}]
    /\ row \in [Reading -> Reading \cup {"absent", "refresh"}]
    /\ view \in [Process -> Projection]
    /\ proc \in [Process -> [at : {"idle", "observe", "correlate", "commit"},
                             reading : Reading \cup {None}, tries : 0..MaxAttempts,
                             copy : Projection, moves : BOOLEAN,
                             existing : Reading \cup {None}]]
    /\ crashes \in 0..MaxCrashes

Init ==
    /\ inbox = {}
    /\ projection = NoProjection
    /\ incident = [r \in Reading |-> "ABSENT"]
    /\ row = [r \in Reading |-> "absent"]
    /\ view = [p \in Process |-> NoProjection]
    /\ proc = [p \in Process |-> IdleProcess]
    /\ crashes = 0

At(p, place) == proc[p].at = place
Done(p) == proc' = [proc EXCEPT ![p] = IdleProcess]
Open == {r \in Reading : incident[r] = "OPEN"}

\* A reading arrives, for the first time or again, from the poll or the webhook.
Receive(p, r) ==
    /\ At(p, "idle")
    /\ proc' = [proc EXCEPT ![p] = [IdleProcess EXCEPT !.at = "observe", !.reading = r]]
    /\ UNCHANGED <<inbox, projection, incident, row, view, crashes>>

\* _plan reads the projection.  _projection_for: a reading older than the one its
\* channel has seen moves nothing.
Observe(p) ==
    LET r == proc[p].reading IN
    /\ At(p, "observe")
    /\ proc' = [proc EXCEPT ![p].at = "correlate", ![p].copy = projection,
                            ![p].tries = @ + 1,
                            ![p].moves = TimeOf[r] >= projection.seen[KindOf[r]]]
    /\ UNCHANGED <<inbox, projection, incident, row, view, crashes>>

\* _plan looks for the active incident of the cell, for a High level that counts.
Correlate(p) ==
    /\ At(p, "correlate")
    /\ \E found \in IF Open = {} THEN {None} ELSE Open :
          proc' = [proc EXCEPT ![p].at = "commit",
                      ![p].existing = IF proc[p].moves /\ HighOf[proc[p].reading]
                                      THEN found ELSE None]
    /\ UNCHANGED <<inbox, projection, incident, row, view, crashes>>

Heeds(p) == proc[p].moves /\ HighOf[proc[p].reading]
\* The incident the plan names: the one it found, or a new one.
Named(p) == IF proc[p].existing # None THEN proc[p].existing ELSE proc[p].reading

\* The projection the plan writes.
Moved(p) ==
    LET r == proc[p].reading
        copy == proc[p].copy
    IN  [version |-> copy.version + 1,
         seen |-> [copy.seen EXCEPT ![KindOf[r]] = TimeOf[r]],
         high |-> IF KindOf[r] = "congestion" THEN HighOf[r] ELSE copy.high,
         active |-> IF Heeds(p) THEN copy.active \cup {Named(p)} ELSE copy.active]

\* create_or_get_active: at most one active incident for a correlation key.
CreateOrGet(p) ==
    IF Heeds(p) /\ proc[p].existing = None /\ Open = {}
    THEN [incident EXCEPT ![proc[p].reading] = "OPEN"]
    ELSE incident

Duplicate(p) ==
    /\ proc[p].reading \in inbox
    /\ Done(p)
    /\ UNCHANGED <<inbox, projection, incident, row, view>>

\* The transaction commits, and the process shows what it has committed.
Accept(p) ==
    /\ inbox' = inbox \cup {proc[p].reading}
    /\ projection' = IF proc[p].moves THEN Moved(p) ELSE projection
    /\ view' = IF proc[p].moves THEN [view EXCEPT ![p] = Moved(p)] ELSE view
    /\ incident' = CreateOrGet(p)
    /\ row' = [row EXCEPT ![proc[p].reading] = IF Heeds(p) THEN Named(p) ELSE "refresh"]
    /\ Done(p)

\* VersionConflict: everything is rolled back and the plan is made again, once.
Conflict(p) ==
    /\ IF proc[p].tries < MaxAttempts
       THEN proc' = [proc EXCEPT ![p] = [IdleProcess EXCEPT
                !.at = "observe", !.reading = proc[p].reading, !.tries = proc[p].tries]]
       ELSE Done(p)
    /\ UNCHANGED <<inbox, projection, incident, row, view>>

Current(p) == proc[p].copy.version = projection.version

\* Wrong: the version of the projection is not compared.
CommitUnchecked(p) ==
    /\ At(p, "commit")
    /\ \/ Duplicate(p)
       \/ proc[p].reading \notin inbox /\ Accept(p)
    /\ UNCHANGED crashes

\* process() of the inbound repository, one transaction.
Commit(p) ==
    /\ At(p, "commit")
    /\ \/ Duplicate(p)
       \/ proc[p].reading \notin inbox /\ (proc[p].moves => Current(p)) /\ Accept(p)
       \/ proc[p].reading \notin inbox /\ proc[p].moves /\ ~Current(p) /\ Conflict(p)
    /\ UNCHANGED crashes

\* The incident ends, by the work of the other services.
Close(r) ==
    /\ incident[r] = "OPEN"
    /\ incident' = [incident EXCEPT ![r] = "CLOSED"]
    /\ UNCHANGED <<inbox, projection, row, view, proc, crashes>>

\* A process dies and is started again: its view is reconstructed.
Crash(p) ==
    /\ crashes < MaxCrashes
    /\ crashes' = crashes + 1
    /\ Done(p)
    /\ view' = [view EXCEPT ![p] = projection]
    /\ UNCHANGED <<inbox, projection, incident, row>>

Next ==
    \/ \E p \in Process, r \in Reading : Receive(p, r)
    \/ \E p \in Process : Observe(p) \/ Correlate(p) \/ Commit(p) \/ Crash(p)
    \/ \E r \in Reading : Close(r)

Spec == Init /\ [][Next]_vars

(***************************************************************************)
(* Properties.                                                             *)
(***************************************************************************)
\* A plan names the incident it means to open before it is known who opens it, so
\* whoever loses the race must not leave the name behind: every incident that a row
\* or the projection names exists, and the cell has at most one that is open.
RowsResolve ==
    /\ \A r \in Reading : row[r] \in Reading => incident[row[r]] # "ABSENT"
    /\ \A r \in projection.active : incident[r] # "ABSENT"
    /\ Cardinality(Open) <= 1

\* Late and repeated readings, planned by several processes from older copies, never
\* take a channel of the projection back in time, nor an incident off it.
Forward ==
    /\ \A c \in Channel : projection'.seen[c] >= projection.seen[c]
    /\ projection.active \subseteq projection'.active
ProjectionForward == [][Forward]_vars
=============================================================================
