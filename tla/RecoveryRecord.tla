--------------------------- MODULE RecoveryRecord ---------------------------
(***************************************************************************)
(* recovery_consistency.py: the recovery record of an incident is the      *)
(* authority; the incident carries a copy of its state.  A writer reads    *)
(* the record, checks that its target is a forward edge, compares and      *)
(* swaps the record, and then repairs the copy in at most Retries tries,   *)
(* each a compare-and-swap of the incident, which others write as well.    *)
(* A process that starts repairs the copy of every active incident.        *)
(***************************************************************************)
EXTENDS DurableCore, Integers

CONSTANTS
    Writer,
    Retries,        \* retries of save_recovery_and_repair
    MaxTouches      \* bound: other writes of the incident

RecoveryAssumption == Retries \in Nat \ {0} /\ MaxTouches \in Nat

VARIABLES
    record,     \* the authoritative record: its state and version
    copy,       \* the incident: its recovery_state and version
    writer,     \* local variables of the writers
    touches

vars == <<record, copy, writer, touches>>

Absent == -1
Record == [state : RecoveryStates \cup {NoRecovery}, version : Nat \cup {Absent}]
IdleWriter == [at |-> "idle", target |-> NoRecovery, version |-> Absent, tries |-> 0]

TypeOK ==
    /\ record \in Record
    /\ copy \in Record
    /\ writer \in [Writer -> [at : {"idle", "save", "reread", "get", "write"},
                              target : RecoveryStates \cup {NoRecovery},
                              version : Nat \cup {Absent}, tries : 0..Retries]]
    /\ touches \in 0..MaxTouches

Init ==
    /\ record = [state |-> NoRecovery, version |-> Absent]
    /\ copy = [state |-> "PENDING", version |-> 0]
    /\ writer = [w \in Writer |-> IdleWriter]
    /\ touches = 0

At(w, place) == writer[w].at = place
Done(w) == writer' = [writer EXCEPT ![w] = IdleWriter]
GoTo(w, place) == writer' = [writer EXCEPT ![w].at = place]

\* save_recovery_and_repair reads the record.  A target that is no forward edge is
\* refused; one that is the state of the record needs no write.
Begin(w, target) ==
    /\ At(w, "idle")
    /\ ValidForward(record.state, target)
    /\ writer' = [writer EXCEPT ![w] = [at |-> IF record.state = target THEN "reread" ELSE "save",
                      target |-> target, version |-> record.version, tries |-> 0]]
    /\ UNCHANGED <<record, copy, touches>>

Put(w) ==
    /\ record' = [state |-> writer[w].target, version |-> record.version + 1]
    /\ GoTo(w, "reread")

\* Wrong: the version that was read is not compared.
SaveUnchecked(w) ==
    /\ At(w, "save")
    /\ Put(w)
    /\ UNCHANGED <<copy, touches>>

\* save(): compare and swap, VersionConflict to the caller.
Save(w) ==
    /\ At(w, "save")
    /\ IF record.version = writer[w].version THEN Put(w) ELSE Done(w) /\ UNCHANGED record
    /\ UNCHANGED <<copy, touches>>

\* repair_incident_recovery_projection reads the authority once, here or at a start.
Reread(w) ==
    /\ At(w, "reread") \/ At(w, "idle")
    /\ IF record.state = NoRecovery
       THEN Done(w)
       ELSE writer' = [writer EXCEPT ![w].at = "get", ![w].target = record.state]
    /\ UNCHANGED <<record, copy, touches>>

\* Wrong: one try more than there are retries.
GetOnceMore(w) ==
    /\ At(w, "get")
    /\ IF copy.state = writer[w].target \/ writer[w].tries > Retries
       THEN Done(w)
       ELSE writer' = [writer EXCEPT ![w].at = "write", ![w].version = copy.version,
                                     ![w].tries = @ + 1]
    /\ UNCHANGED <<record, copy, touches>>

\* Repairs the copy, unless it shows the state already or the tries are spent.
Get(w) ==
    /\ At(w, "get")
    /\ IF copy.state = writer[w].target \/ writer[w].tries = Retries
       THEN Done(w)
       ELSE writer' = [writer EXCEPT ![w].at = "write", ![w].version = copy.version,
                                     ![w].tries = @ + 1]
    /\ UNCHANGED <<record, copy, touches>>

\* The copy takes the state that was read before the first try, under its version.
Write(w) ==
    /\ At(w, "write")
    /\ IF copy.version = writer[w].version
       THEN /\ copy' = [state |-> writer[w].target, version |-> copy.version + 1]
            /\ Done(w)
       ELSE GoTo(w, "get") /\ UNCHANGED copy
    /\ UNCHANGED <<record, touches>>

\* Another service writes the incident; the executor that closes it writes COMPLETE into
\* the copy, after it has saved the record so.
Touch ==
    /\ touches < MaxTouches
    /\ touches' = touches + 1
    /\ \E state \in {copy.state} \cup ({record.state} \cap {"COMPLETE"}) :
          copy' = [state |-> state, version |-> copy.version + 1]
    /\ UNCHANGED <<record, writer>>

\* The process of the writer dies, or a repository call raises.
Crash(w) ==
    /\ ~At(w, "idle")
    /\ Done(w)
    /\ UNCHANGED <<record, copy, touches>>

Next ==
    \/ \E w \in Writer, target \in RecoveryStates : Begin(w, target)
    \/ \E w \in Writer : Save(w) \/ Reread(w) \/ Get(w) \/ Write(w) \/ Crash(w)
    \/ Touch

Spec == Init /\ [][Next]_vars

(***************************************************************************)
(* Properties.                                                             *)
(***************************************************************************)
\* Writers that read the same record, repairs that write an old state over a newer
\* one and writers that die in between leave the copy stale, but never ahead: from
\* what the incident shows, the record is one forward edge away or the same, and an
\* incident without a record shows PENDING.
CopyBehind ==
    IF record.state = NoRecovery THEN copy.state = "PENDING"
    ELSE ValidForward(copy.state, record.state)
=============================================================================
