------------------------------- MODULE Outbox -------------------------------
(***************************************************************************)
(* The wake-up outbox: the rows of haris_event_outbox with their claims,   *)
(* leases and generations, and the consumers that work on them             *)
(* (DurableOutboxWakeupConsumer, one per process).                         *)
(*                                                                         *)
(* A consumer claims the oldest rows in one batch, works on them one after *)
(* the other, renews the claim of the row at hand from a heartbeat task,   *)
(* and acknowledges or fails it.  Time is counted down: `left` is how long *)
(* a claim, or a consumer's copy of it, has to its expiry instant (0), and *)
(* one Tick takes every count down to -1, past the expiry.                 *)
(***************************************************************************)
EXTENDS Integers, FiniteSets

CONSTANTS
    Row,            \* outbox rows, each identified by its created_at
    Consumer,
    Limit,          \* rows claimed at once
    Lease,          \* lease_seconds
    Interval,       \* heartbeat interval, a third of the lease
    RenewReaches,   \* does the transport let renewals through?
    Prompt,         \* do consumers and due heartbeats run at once?
    MaxClaims,      \* bound: claims of one row
    MaxFaults,      \* bound: calls whose answer is an exception
    MaxCrashes,     \* bound: consumers that die
    None

ASSUME OutboxAssumption ==
    /\ Row \subseteq Nat
    /\ Limit \in Nat \ {0}
    /\ Interval \in Nat \ {0} /\ Lease \in Nat /\ Interval < Lease
    /\ RenewReaches \in BOOLEAN /\ Prompt \in BOOLEAN
    /\ MaxClaims \in Nat /\ MaxFaults \in Nat /\ MaxCrashes \in Nat
    /\ None \notin Row \cup Consumer

VARIABLES
    row,        \* the table
    consumer,   \* the consumers' local variables
    handled,    \* rows a handler has completed (history)
    used        \* how much of each bound is spent

vars == <<row, consumer, handled, used>>

RowRecord ==
    [state : {"ABSENT", "PENDING", "CLAIMED", "SENT"},
     owner : Consumer \cup {None}, gen : Nat, left : -1..Lease]
\* A claimed row as the consumer received it; gen 0 is no copy.
Copy == [gen : Nat, left : -1..Lease]
ConsumerRecord ==
    [at : {"ready", "handle", "settle", "fail"}, held : [Row -> Copy],
     cur : Row \cup {None}, beat : 0..Interval,
     heart : {"off", "first", "beating", "refused", "broken"}]

NoCopy == [gen |-> 0, left |-> 0]
Idle == [at |-> "ready", held |-> [r \in Row |-> NoCopy], cur |-> None,
         beat |-> 0, heart |-> "off"]

TypeOK ==
    /\ row \in [Row -> RowRecord]
    /\ consumer \in [Consumer -> ConsumerRecord]
    /\ handled \in SUBSET Row
    /\ used \in [faults : Nat, crashes : Nat]

Init ==
    /\ row = [r \in Row |-> [state |-> "ABSENT", owner |-> None, gen |-> 0, left |-> 0]]
    /\ consumer = [c \in Consumer |-> Idle]
    /\ handled = {}
    /\ used = [faults |-> 0, crashes |-> 0]

At(c, place) == consumer[c].at = place
Cur(c) == consumer[c].cur
Gen(c, r) == consumer[c].held[r].gen
Waiting(c) == {r \in Row : Gen(c, r) # 0 /\ r # Cur(c)}

\* What ack, fail and renew require of the row.
Holds(c, r) ==
    /\ row[r].state = "CLAIMED"
    /\ row[r].owner = c
    /\ row[r].gen = Gen(c, r)

\* The consumer is through with its current row.
Through(c) ==
    [Idle EXCEPT !.held = [consumer[c].held EXCEPT ![Cur(c)] = NoCopy]]

\* A call that ends in an exception.
Faulty ==
    /\ used.faults < MaxFaults
    /\ used' = [used EXCEPT !.faults = @ + 1]

(***************************************************************************)
(* The writers.                                                            *)
(***************************************************************************)
\* Wrong: appending a row that exists puts it back to PENDING.
AppendAgain(r) ==
    /\ row' = [row EXCEPT ![r].state = "PENDING", ![r].owner = None, ![r].left = 0]
    /\ UNCHANGED <<consumer, handled, used>>

\* A second append of the same outbox_id changes nothing (it returns the row in
\* memory and raises in Postgres).
Append(r) ==
    /\ row' = IF row[r].state = "ABSENT"
              THEN [row EXCEPT ![r].state = "PENDING"] ELSE row
    /\ UNCHANGED <<consumer, handled, used>>

(***************************************************************************)
(* process_once.                                                           *)
(***************************************************************************)
\* Wrong: a claim, once made, is never taken over.
ClaimableOnce == {r \in Row : row[r].state = "PENDING"}

\* Pending rows, and claimed ones whose lease is over.
Claimable ==
    {r \in Row : \/ row[r].state = "PENDING"
                 \/ row[r].state = "CLAIMED" /\ row[r].left < 0}

\* The Limit oldest of them.
Oldest(rows) ==
    /\ rows \subseteq Claimable
    /\ \A r \in rows, s \in Claimable \ rows : r < s
    /\ Cardinality(rows) <= Limit
    /\ rows = Claimable \/ Cardinality(rows) = Limit

\* Wrong: the claim keeps the generation of the one it takes over.
ClaimedSame(c, r) ==
    [state |-> "CLAIMED", owner |-> c, gen |-> IF row[r].gen = 0 THEN 1 ELSE row[r].gen,
     left |-> Lease]

Claimed(c, r) ==
    [state |-> "CLAIMED", owner |-> c, gen |-> row[r].gen + 1, left |-> Lease]

\* outbox.claim; when the answer is lost the rows stay claimed by nobody.
Claim(c) ==
    /\ At(c, "ready") /\ Waiting(c) = {}
    /\ \E rows \in SUBSET Row :
          /\ rows # {} /\ Oldest(rows)
          /\ \A r \in rows : row[r].gen < MaxClaims
          /\ row' = [r \in Row |-> IF r \in rows THEN Claimed(c, r) ELSE row[r]]
          /\ \/ /\ consumer' = [consumer EXCEPT ![c].held =
                       [r \in Row |-> IF r \in rows
                            THEN [gen |-> Claimed(c, r).gen, left |-> Lease] ELSE NoCopy]]
                /\ UNCHANGED used
             \/ Faulty /\ UNCHANGED consumer
    /\ UNCHANGED handled

\* The handler runs; its heartbeat waits one interval before the first renewal.
Handling(c, r) ==
    [at |-> "handle", held |-> consumer[c].held, cur |-> r, beat |-> Interval,
     heart |-> "first"]
HeartBeats(c) == consumer[c].heart \in {"first", "beating"}
RenewalDue(c) == HeartBeats(c) /\ consumer[c].beat = 0
Renewed(k) == [k EXCEPT !.beat = Interval, !.heart = "beating"]

\* The next row of the batch, unless its copy has expired.
Start(c) ==
    /\ At(c, "ready")
    /\ \E r \in Waiting(c) :
          consumer' = IF consumer[c].held[r].left <= 0
                      THEN [consumer EXCEPT ![c].held[r] = NoCopy]
                      ELSE [consumer EXCEPT ![c] = Handling(c, r)]
    /\ UNCHANGED <<row, handled, used>>

\* Wrong: a renewal adds the lease to what is left of it.
RenewExtends(c) ==
    /\ At(c, "handle")
    /\ RenewalDue(c)
    /\ Holds(c, Cur(c)) /\ row[Cur(c)].left > 0
    /\ row' = [row EXCEPT ![Cur(c)].left = @ + Lease]
    /\ consumer' = [consumer EXCEPT ![c] = Renewed(@)]
    /\ UNCHANGED <<handled, used>>

\* Wrong: a renewal does not look at whose the claim is by now.
RenewAnyones(c) ==
    /\ At(c, "handle") /\ RenewalDue(c)
    /\ row[Cur(c)].state = "CLAIMED" /\ row[Cur(c)].left > 0
    /\ row' = [row EXCEPT ![Cur(c)].left = Lease]
    /\ consumer' = [consumer EXCEPT ![c] = Renewed(@)]
    /\ UNCHANGED <<handled, used>>

\* _renew_claim: a renewal that is due.  Any exception ends the task: a refusal
\* is ResourceAlreadyOwned in memory and RepositoryUnavailable over HTTP, and a
\* transport that does not list the procedure refuses them all.
Renew(c) ==
    /\ At(c, "handle") /\ RenewalDue(c)
    /\ IF RenewReaches /\ Holds(c, Cur(c)) /\ row[Cur(c)].left > 0
       THEN /\ row' = [row EXCEPT ![Cur(c)].left = Lease]
            /\ consumer' = [consumer EXCEPT ![c] = Renewed(@)]
       ELSE /\ \E end \in {"refused", "broken"} :
                  /\ end = "refused" => RenewReaches
                  /\ consumer' = [consumer EXCEPT ![c].heart = end]
            /\ UNCHANGED row
    /\ UNCHANGED <<handled, used>>

\* Wrong: a handler that raised is acknowledged all the same.
HandleAlways(c) ==
    /\ At(c, "handle")
    /\ consumer' = [consumer EXCEPT ![c].at = "settle"]
    /\ \/ handled' = handled \cup {Cur(c)} /\ UNCHANGED used
       \/ Faulty /\ UNCHANGED handled
    /\ UNCHANGED row

\* The handler returns, or it or the publication that follows raises; a
\* ResourceAlreadyOwned of the handler's own is taken for a lost claim.
Handle(c) ==
    /\ At(c, "handle")
    /\ \/ /\ handled' = handled \cup {Cur(c)}
          /\ consumer' = [consumer EXCEPT ![c].at = "settle"]
          /\ UNCHANGED used
       \/ /\ Faulty
          /\ \/ consumer' = [consumer EXCEPT ![c].at = "fail"]
             \/ consumer' = [consumer EXCEPT ![c] = Through(c)]
          /\ UNCHANGED handled
    /\ UNCHANGED row

Sent(r) == [row EXCEPT ![r].state = "SENT", ![r].left = 0]
Retried(r) == [row EXCEPT ![r].state = "PENDING", ![r].owner = None, ![r].left = 0]

\* Wrong: whoever handled the row acknowledges it.
AcknowledgeUnchecked(c) ==
    /\ At(c, "settle") /\ HeartBeats(c)
    /\ row' = Sent(Cur(c))
    /\ consumer' = [consumer EXCEPT ![c] = Through(c)]
    /\ UNCHANGED <<handled, used>>

\* Wrong: the heartbeat is not looked at before the acknowledgement.
AcknowledgeUnbeaten(c) ==
    /\ At(c, "settle")
    /\ row' = IF Holds(c, Cur(c)) THEN Sent(Cur(c)) ELSE row
    /\ consumer' = [consumer EXCEPT ![c] = Through(c)]
    /\ UNCHANGED <<handled, used>>

\* outbox.ack; a conflict leaves the row to its new owner, and when the call
\* raises it may have been applied.
Acknowledge(c) ==
    /\ At(c, "settle") /\ HeartBeats(c)
    /\ \/ /\ row' = IF Holds(c, Cur(c)) THEN Sent(Cur(c)) ELSE row
          /\ consumer' = [consumer EXCEPT ![c] = Through(c)]
          /\ UNCHANGED used
       \/ /\ Faulty
          /\ \/ UNCHANGED row
             \/ Holds(c, Cur(c)) /\ row' = Sent(Cur(c))
          /\ consumer' = [consumer EXCEPT ![c].at = "fail"]
    /\ UNCHANGED handled

\* The heartbeat's exception is raised again before the acknowledgement.
HeartbeatLost(c) ==
    /\ At(c, "settle")
    /\ \/ /\ consumer[c].heart = "refused"
          /\ consumer' = [consumer EXCEPT ![c] = Through(c)]
       \/ /\ consumer[c].heart = "broken"
          /\ consumer' = [consumer EXCEPT ![c].at = "fail"]
    /\ UNCHANGED <<row, handled, used>>

\* Wrong: fail does not look at the state of the row.
FailUnchecked(c) ==
    /\ At(c, "fail")
    /\ row' = IF row[Cur(c)].owner = c /\ row[Cur(c)].gen = Gen(c, Cur(c))
              THEN Retried(Cur(c)) ELSE row
    /\ consumer' = [consumer EXCEPT ![c] = Through(c)]
    /\ UNCHANGED <<handled, used>>

\* outbox.fail with retry; an exception of this call ends process_once, and
\* the rest of the batch stays claimed.
Fail(c) ==
    /\ At(c, "fail")
    /\ \/ /\ row' = IF Holds(c, Cur(c)) THEN Retried(Cur(c)) ELSE row
          /\ consumer' = [consumer EXCEPT ![c] = Through(c)]
          /\ UNCHANGED used
       \/ /\ Faulty
          /\ \/ UNCHANGED row
             \/ Holds(c, Cur(c)) /\ row' = Retried(Cur(c))
          /\ consumer' = [consumer EXCEPT ![c] = Idle]
    /\ UNCHANGED handled

(***************************************************************************)
(* Time and crashes.                                                       *)
(***************************************************************************)
Older(n) == IF n > -1 THEN n - 1 ELSE n
Sooner(n) == IF n > 0 THEN n - 1 ELSE n

\* Nothing but a handler that runs, or a poll, takes this consumer's time.
Patient(c) ==
    \/ At(c, "ready") /\ Waiting(c) = {}
    \/ At(c, "handle") /\ ~RenewalDue(c)

Tick ==
    /\ Prompt => \A c \in Consumer : Patient(c)
    /\ row' = [r \in Row |-> IF row[r].state = "CLAIMED"
                   THEN [row[r] EXCEPT !.left = Older(@)] ELSE row[r]]
    /\ consumer' = [c \in Consumer |->
          [consumer[c] EXCEPT
              !.beat = Sooner(@),
              !.held = [r \in Row |-> IF Gen(c, r) = 0 THEN NoCopy
                            ELSE [gen |-> Gen(c, r),
                                  left |-> Older(consumer[c].held[r].left)]]]]
    /\ UNCHANGED <<handled, used>>

\* A process dies; the next one has a new owner id and knows no copy.
Crash(c) ==
    /\ used.crashes < MaxCrashes
    /\ used' = [used EXCEPT !.crashes = @ + 1]
    /\ consumer' = [consumer EXCEPT ![c] = Idle]
    /\ UNCHANGED <<row, handled>>

ProcessOnce(c) ==
    \/ Claim(c) \/ Start(c) \/ Handle(c)
    \/ Acknowledge(c) \/ HeartbeatLost(c) \/ Fail(c)

Next ==
    \/ \E r \in Row : Append(r)
    \/ \E c \in Consumer : ProcessOnce(c) \/ Renew(c) \/ Crash(c)
    \/ Tick

Spec == Init /\ [][Next]_vars

\* A consumer goes on, its handlers return, and time passes.
FairSpec ==
    /\ Spec
    /\ \A c \in Consumer : WF_vars(ProcessOnce(c)) /\ WF_vars(Renew(c))
    /\ WF_vars(Tick)

(***************************************************************************)
(* Properties.                                                             *)
(***************************************************************************)
\* At most one consumer has the current claim of a row: copies are never newer
\* than the row, a copy of the row's generation is its owner's, and only the
\* row at hand is between its start and its settlement.
ClaimsExclusive ==
    /\ \A c \in Consumer, r \in Row :
          /\ Gen(c, r) <= row[r].gen
          /\ row[r].state = "CLAIMED" /\ Gen(c, r) = row[r].gen => row[r].owner = c
    /\ \A c, d \in Consumer, r \in Row :
          c # d /\ Gen(c, r) # 0 => Gen(c, r) # Gen(d, r)

\* A row is SENT only after some handler of it ran to its end, although
\* answers are lost, claims lapse, and consumers die.
SentMeansHandled == \A r \in Row : row[r].state = "SENT" => r \in handled

\* SENT is final: no late failure, lapsed claim or second append reopens it.
SentIsFinal == [][\A r \in Row : row[r].state = "SENT" => row'[r] = row[r]]_vars

\* A consumer whose claim was taken over does nothing more to the row, and one whose
\* heartbeat ended in an exception does not acknowledge it, though its handler went on to
\* the end and its claim may still be good: all it may do is give the row back.
Superseded(c) ==
    /\ Cur(c) # None
    /\ Gen(c, Cur(c)) < row[Cur(c)].gen
HeartbeatFailed(c) ==
    /\ Cur(c) # None
    /\ consumer[c].heart \in {"refused", "broken"}

LostClaimSettlesNothing ==
    [][\A c \in Consumer : ProcessOnce(c) =>
          /\ Superseded(c) => row'[Cur(c)] = row[Cur(c)]
          /\ HeartbeatFailed(c) => row' \in {row, Retried(Cur(c))}]_vars

\* Consumers implement at-least-once delivery.
Work ==
    [r \in Row |-> CASE row[r].state = "ABSENT" -> "none"
                     [] row[r].state = "SENT" -> "closed"
                     [] OTHER -> "open"]
D == INSTANCE Delivery WITH work <- Work
ImplementsDelivery == D!Spec

\* With punctual heartbeats a handler whose heartbeat has renewed the claim still has it,
\* and whoever else is at the row is superseded.  (Not so before the first renewal: a row
\* started late in its lease may be claimed, and handled, a second time meanwhile.)
HandledAlone ==
    Prompt => \A c \in Consumer :
        At(c, "handle") /\ consumer[c].heart = "beating" =>
            /\ Holds(c, Cur(c)) /\ row[Cur(c)].left > 0
            /\ \A d \in Consumer : d # c /\ Cur(d) = Cur(c) => Superseded(d)

\* Every appended row is eventually SENT.
EveryRowSent ==
    \A r \in Row : (row[r].state # "ABSENT") ~> (row[r].state = "SENT")

(***************************************************************************)
(* What the repository says and the code does not do.                      *)
(***************************************************************************)
\* The owner of a live claim can renew it (migration 007).
RenewalGranted ==
    \A c \in Consumer : consumer[c].heart = "broken" =>
        ~(Holds(c, Cur(c)) /\ row[Cur(c)].left > 0)
=============================================================================
