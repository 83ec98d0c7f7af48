---------------------------- MODULE AuditHistory ----------------------------
(***************************************************************************)
(* The hash-chained audit history of memory.py: every process keeps a copy *)
(* of the chain, computes the hash of a new checkpoint over the tail of    *)
(* its copy, and asks the store to append it; the store accepts it only    *)
(* on its own tail, and answers a checkpoint it holds with the record it   *)
(* holds.                                                                  *)
(*                                                                         *)
(* A hash stands for everything that went into it, so a record is the      *)
(* sequence of the checkpoints up to and including its own.                *)
(***************************************************************************)
EXTENDS Integers, Sequences

CONSTANTS
    Process,
    Checkpoint,
    WriterOf,       \* the process whose cycle makes a checkpoint
    MaxTries        \* attempts of remember_incident

HistoryAssumption ==
    /\ WriterOf \in [Checkpoint -> Process]
    /\ MaxTries \in Nat \ {0}

VARIABLES
    chain,      \* the records of the store, in sequence
    view,       \* _incidents, the copy of a process
    proc        \* the process: is its copy loaded, and what does it remember?

vars == <<chain, view, proc>>

Started == [loaded |-> FALSE, at |-> "idle", tries |-> 0, checkpoint |-> "none"]
Hash(records) == IF records = <<>> THEN <<>> ELSE records[Len(records)]
Holds(records, c) == \E n \in DOMAIN records : records[n][Len(records[n])] = c
RecordOf(c) == chain[CHOOSE n \in DOMAIN chain : chain[n][Len(chain[n])] = c]

TypeOK ==
    /\ \A n \in DOMAIN chain : chain[n] \in Seq(Checkpoint)
    /\ \A p \in Process : \A n \in DOMAIN view[p] : view[p][n] \in Seq(Checkpoint)
    /\ proc \in [Process -> [loaded : BOOLEAN, at : {"idle", "append", "reload"},
                             tries : 0..MaxTries, checkpoint : Checkpoint \cup {"none"}]]

Init ==
    /\ chain = <<>>
    /\ view = [p \in Process |-> <<>>]
    /\ proc = [p \in Process |-> Started]

Idle(p) == proc' = [proc EXCEPT ![p] = [Started EXCEPT !.loaded = TRUE]]

\* _ensure_history_loaded, once: when the store does not answer the copy stays empty.
Load(p) ==
    /\ ~proc[p].loaded
    /\ \/ view' = [view EXCEPT ![p] = chain]
       \/ UNCHANGED view
    /\ Idle(p)
    /\ UNCHANGED chain

\* remember_incident: nothing to do for a checkpoint the copy holds.
Remember(p, c) ==
    /\ proc[p].loaded /\ proc[p].at = "idle" /\ WriterOf[c] = p
    /\ ~Holds(view[p], c)
    /\ proc' = [proc EXCEPT ![p].at = "append", ![p].checkpoint = c, ![p].tries = 1]
    /\ UNCHANGED <<chain, view>>

Learn(p, record) == view' = [view EXCEPT ![p] = Append(@, record)]

\* Wrong: the store does not compare the tail.
OnTailAlways(record) == TRUE

\* append_record: is the record chained to the last one?
OnTail(record) == Hash(chain) = SubSeq(record, 1, Len(record) - 1)

\* One call of the store, which serializes them.  The answer may be lost.
AppendRecord(p) ==
    LET c == proc[p].checkpoint
        record == Append(Hash(view[p]), c)
    IN  /\ proc[p].at = "append"
        /\ \/ /\ Holds(chain, c)
              /\ IF RecordOf(c) = record THEN Learn(p, record) ELSE UNCHANGED view
              /\ Idle(p)
              /\ UNCHANGED chain
           \/ /\ ~Holds(chain, c) /\ OnTail(record)
              /\ chain' = Append(chain, record)
              /\ Learn(p, record) \/ UNCHANGED view
              /\ Idle(p)
           \/ /\ ~Holds(chain, c) /\ ~OnTail(record)
              /\ proc' = [proc EXCEPT ![p].at = "reload"]
              /\ UNCHANGED <<chain, view>>

\* HistoryTailConflict: the copy is loaded again and the hash recomputed, a few times.
Reload(p) ==
    /\ proc[p].at = "reload"
    /\ view' = [view EXCEPT ![p] = chain]
    /\ IF Holds(chain, proc[p].checkpoint) \/ proc[p].tries = MaxTries
       THEN Idle(p)
       ELSE proc' = [proc EXCEPT ![p].at = "append", ![p].tries = @ + 1]
    /\ UNCHANGED chain

\* The call fails before it reaches the store, or the process is started again.
Fail(p) ==
    /\ \/ proc[p].at # "idle" /\ Idle(p) /\ UNCHANGED view
       \/ proc' = [proc EXCEPT ![p] = Started] /\ view' = [view EXCEPT ![p] = <<>>]
    /\ UNCHANGED chain

Next ==
    \E p \in Process :
        \/ Load(p) \/ AppendRecord(p) \/ Reload(p) \/ Fail(p)
        \/ \E c \in Checkpoint : Remember(p, c)

Spec == Init /\ [][Next]_vars

(***************************************************************************)
(* Properties.                                                             *)
(***************************************************************************)
\* verify_audit_chain: every record is hashed over the one before it.
Verifies(records) ==
    \A n \in DOMAIN records :
        SubSeq(records[n], 1, Len(records[n]) - 1) = Hash(SubSeq(records, 1, n - 1))

\* Writers that race for the tail, calls whose answer is lost, copies that never loaded
\* and restarts leave one chain: it holds no checkpoint twice, and every process's copy
\* is a beginning of it, so the verification succeeds wherever it runs.
ChainsVerify ==
    /\ Verifies(chain)
    /\ \A m, n \in DOMAIN chain : m # n =>
           chain[m][Len(chain[m])] # chain[n][Len(chain[n])]
    /\ \A p \in Process : /\ Len(view[p]) <= Len(chain)
                          /\ view[p] = SubSeq(chain, 1, Len(view[p]))
=============================================================================
