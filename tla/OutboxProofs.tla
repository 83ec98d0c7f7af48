---------------------------- MODULE OutboxProofs ----------------------------
(***************************************************************************)
(* Theorems about Outbox, for every set of rows and consumers, every lease *)
(* and batch size, and every bound.                                        *)
(***************************************************************************)
EXTENDS Outbox, TLAPS

\* What a consumer's place says of its row: nothing is at hand between rows,
\* a row at hand is held under a claim, and the handler of a row about to be
\* acknowledged has run to its end.
PlacesFit ==
    \A c \in Consumer :
        /\ At(c, "ready") => Cur(c) = None
        /\ ~At(c, "ready") => Cur(c) \in Row /\ Gen(c, Cur(c)) # 0
        /\ At(c, "settle") => Cur(c) \in handled

\* Generations count claims: none before the first.
GenerationsStart ==
    \A r \in Row :
        /\ row[r].state = "ABSENT" => row[r].gen = 0
        /\ row[r].state = "CLAIMED" => row[r].gen # 0

IInv ==
    /\ TypeOK /\ PlacesFit /\ GenerationsStart
    /\ ClaimsExclusive /\ SentMeansHandled

\* An idle consumer is well typed.
LEMMA IdleTyped == NoCopy \in Copy /\ Idle \in ConsumerRecord
BY OutboxAssumption DEF Idle, ConsumerRecord, Copy, NoCopy

\* So is one that is through with its row,
LEMMA ThroughTyped ==
    ASSUME TypeOK, NEW c \in Consumer, Cur(c) \in Row
    PROVE  Through(c) \in ConsumerRecord
<1>1. consumer[c].held \in [Row -> Copy] BY DEF TypeOK, ConsumerRecord
<1> QED BY <1>1, IdleTyped DEF Through, ConsumerRecord, Idle

\* one that starts a row,
LEMMA HandlingTyped ==
    ASSUME TypeOK, NEW c \in Consumer, NEW r \in Row
    PROVE  Handling(c, r) \in ConsumerRecord
<1>1. consumer[c].held \in [Row -> Copy] BY DEF TypeOK, ConsumerRecord
<1>2. Interval \in 0..Interval BY OutboxAssumption
<1> QED BY <1>1, <1>2 DEF Handling, ConsumerRecord

\* and one with another place, other copies, heartbeat or interval.
LEMMA UpdatesTyped ==
    ASSUME NEW k \in ConsumerRecord
    PROVE  /\ \A p \in {"settle", "fail"} : [k EXCEPT !.at = p] \in ConsumerRecord
           /\ \A h \in [Row -> Copy] : [k EXCEPT !.held = h] \in ConsumerRecord
           /\ \A r \in Row : [k EXCEPT !.held[r] = NoCopy] \in ConsumerRecord
           /\ \A e \in {"refused", "broken"} : [k EXCEPT !.heart = e] \in ConsumerRecord
           /\ Renewed(k) \in ConsumerRecord
<1>1. \A r \in Row : [k EXCEPT !.held[r] = NoCopy] \in ConsumerRecord
  BY IdleTyped DEF ConsumerRecord
<1>2. \A p \in {"settle", "fail"} : [k EXCEPT !.at = p] \in ConsumerRecord
  BY DEF ConsumerRecord
<1>3. \A h \in [Row -> Copy] : [k EXCEPT !.held = h] \in ConsumerRecord
  BY DEF ConsumerRecord
<1>4. \A e \in {"refused", "broken"} : [k EXCEPT !.heart = e] \in ConsumerRecord
  BY DEF ConsumerRecord
<1>5. Renewed(k) \in ConsumerRecord
  <2>1. Interval \in 0..Interval BY OutboxAssumption
  <2> QED BY <2>1 DEF ConsumerRecord, Renewed
<1> QED BY <1>1, <1>2, <1>3, <1>4, <1>5

\* Replacing one consumer keeps the types of all.
LEMMA UpdateTyped ==
    ASSUME TypeOK, NEW c \in Consumer, NEW k \in ConsumerRecord,
           consumer' = [consumer EXCEPT ![c] = k]
    PROVE  consumer' \in [Consumer -> ConsumerRecord]
BY DEF TypeOK

\* Every step keeps the types.
LEMMA TypeStep ==
    ASSUME TypeOK, PlacesFit, [Next]_vars
    PROVE  TypeOK'
<1> USE OutboxAssumption
<1>1. ASSUME NEW r \in Row, Append(r) PROVE TypeOK'
  BY <1>1 DEF TypeOK, RowRecord, Append
<1>2. ASSUME NEW c \in Consumer, Claim(c) PROVE TypeOK'
  <2>1. handled' \in SUBSET Row BY <1>2 DEF TypeOK, Claim
  <2>2. used' \in [faults : Nat, crashes : Nat] BY <1>2 DEF TypeOK, Claim, Faulty
  <2>3. PICK rows \in SUBSET Row :
           /\ row' = [r \in Row |-> IF r \in rows THEN Claimed(c, r) ELSE row[r]]
           /\ \/ consumer' = [consumer EXCEPT ![c].held =
                    [r \in Row |-> IF r \in rows
                         THEN [gen |-> Claimed(c, r).gen, left |-> Lease] ELSE NoCopy]]
              \/ UNCHANGED consumer
    BY <1>2 DEF Claim
  <2>4. \A r \in Row : Claimed(c, r) \in RowRecord
    BY DEF Claimed, RowRecord, TypeOK
  <2>5. row' \in [Row -> RowRecord] BY <2>3, <2>4 DEF TypeOK
  <2>6. [r \in Row |-> IF r \in rows
            THEN [gen |-> Claimed(c, r).gen, left |-> Lease] ELSE NoCopy] \in [Row -> Copy]
    BY <2>4, IdleTyped DEF RowRecord, Copy
  <2>7. consumer' \in [Consumer -> ConsumerRecord]
    <3>1. CASE UNCHANGED consumer BY <3>1 DEF TypeOK
    <3>2. CASE ~UNCHANGED consumer
      <4>1. consumer[c] \in ConsumerRecord BY DEF TypeOK
      <4> QED BY <3>2, <2>3, <2>6, <4>1, UpdatesTyped, UpdateTyped
    <3> QED BY <3>1, <3>2
  <2> QED BY <2>1, <2>2, <2>5, <2>7 DEF TypeOK
<1>3. ASSUME NEW c \in Consumer, Start(c) PROVE TypeOK'
  <2>1. PICK r \in Row :
          consumer' = IF consumer[c].held[r].left <= 0
                      THEN [consumer EXCEPT ![c].held[r] = NoCopy]
                      ELSE [consumer EXCEPT ![c] = Handling(c, r)]
    BY <1>3 DEF Start, Waiting
  <2>2. consumer' \in [Consumer -> ConsumerRecord]
    <3>1. consumer[c] \in ConsumerRecord BY DEF TypeOK
    <3>2. CASE consumer[c].held[r].left <= 0
      BY <2>1, <3>1, <3>2, UpdatesTyped, UpdateTyped
    <3>3. CASE ~(consumer[c].held[r].left <= 0)
      BY <2>1, <3>3, HandlingTyped, UpdateTyped
    <3> QED BY <3>2, <3>3
  <2> QED BY <1>3, <2>2 DEF TypeOK, Start
<1>4. ASSUME NEW c \in Consumer, Renew(c) PROVE TypeOK'
  <2>1. Cur(c) \in Row BY <1>4 DEF Renew, PlacesFit, At
  <2>2. row' \in [Row -> RowRecord]
    BY <1>4, <2>1 DEF TypeOK, Renew, RowRecord
  <2>3. consumer' \in [Consumer -> ConsumerRecord]
    <3>1. consumer[c] \in ConsumerRecord BY DEF TypeOK
    <3>2. \/ consumer' = [consumer EXCEPT ![c] = Renewed(consumer[c])]
          \/ \E e \in {"refused", "broken"} : consumer' = [consumer EXCEPT ![c].heart = e]
      BY <1>4 DEF Renew
    <3> QED BY <3>1, <3>2, UpdatesTyped, UpdateTyped
  <2> QED BY <1>4, <2>2, <2>3 DEF TypeOK, Renew
<1>5. ASSUME NEW c \in Consumer, Handle(c) PROVE TypeOK'
  <2>1. Cur(c) \in Row BY <1>5 DEF Handle, PlacesFit, At
  <2>2. consumer' \in [Consumer -> ConsumerRecord]
    <3>1. consumer[c] \in ConsumerRecord BY DEF TypeOK
    <3>2. \/ consumer' = [consumer EXCEPT ![c] = Through(c)]
          \/ \E p \in {"settle", "fail"} : consumer' = [consumer EXCEPT ![c].at = p]
      BY <1>5 DEF Handle
    <3> QED BY <2>1, <3>1, <3>2, ThroughTyped, UpdatesTyped, UpdateTyped
  <2>3. handled' \in SUBSET Row BY <1>5, <2>1 DEF TypeOK, Handle
  <2>4. used' \in [faults : Nat, crashes : Nat] BY <1>5 DEF TypeOK, Handle, Faulty
  <2> QED BY <1>5, <2>2, <2>3, <2>4 DEF TypeOK, Handle
<1>6. ASSUME NEW c \in Consumer, Acknowledge(c) PROVE TypeOK'
  <2>1. Cur(c) \in Row BY <1>6 DEF Acknowledge, PlacesFit, At
  <2>2. consumer' \in [Consumer -> ConsumerRecord]
    <3>1. consumer[c] \in ConsumerRecord BY DEF TypeOK
    <3>2. \/ consumer' = [consumer EXCEPT ![c] = Through(c)]
          \/ \E p \in {"settle", "fail"} : consumer' = [consumer EXCEPT ![c].at = p]
      BY <1>6 DEF Acknowledge
    <3> QED BY <2>1, <3>1, <3>2, ThroughTyped, UpdatesTyped, UpdateTyped
  <2>3. row' \in [Row -> RowRecord]
    BY <1>6, <2>1 DEF TypeOK, Acknowledge, Sent, RowRecord
  <2>4. used' \in [faults : Nat, crashes : Nat] BY <1>6 DEF TypeOK, Acknowledge, Faulty
  <2> QED BY <1>6, <2>2, <2>3, <2>4 DEF TypeOK, Acknowledge
<1>7. ASSUME NEW c \in Consumer, HeartbeatLost(c) PROVE TypeOK'
  <2>1. Cur(c) \in Row BY <1>7 DEF HeartbeatLost, PlacesFit, At
  <2>2. consumer' \in [Consumer -> ConsumerRecord]
    <3>1. consumer[c] \in ConsumerRecord BY DEF TypeOK
    <3>2. \/ consumer' = [consumer EXCEPT ![c] = Through(c)]
          \/ \E p \in {"settle", "fail"} : consumer' = [consumer EXCEPT ![c].at = p]
      BY <1>7 DEF HeartbeatLost
    <3> QED BY <2>1, <3>1, <3>2, ThroughTyped, UpdatesTyped, UpdateTyped
  <2> QED BY <1>7, <2>2 DEF TypeOK, HeartbeatLost
<1>8. ASSUME NEW c \in Consumer, Fail(c) PROVE TypeOK'
  <2>1. Cur(c) \in Row BY <1>8 DEF Fail, PlacesFit, At
  <2>2. consumer' \in [Consumer -> ConsumerRecord]
    BY <1>8, <2>1, ThroughTyped, IdleTyped DEF TypeOK, Fail
  <2>3. row' \in [Row -> RowRecord]
    BY <1>8, <2>1 DEF TypeOK, Fail, Retried, RowRecord
  <2>4. used' \in [faults : Nat, crashes : Nat] BY <1>8 DEF TypeOK, Fail, Faulty
  <2> QED BY <1>8, <2>2, <2>3, <2>4 DEF TypeOK, Fail
<1>9. ASSUME Tick PROVE TypeOK'
  <2>1. \A n \in -1..Lease : Older(n) \in -1..Lease BY DEF Older
  <2>2. \A n \in 0..Interval : Sooner(n) \in 0..Interval BY DEF Sooner
  <2>3. row' \in [Row -> RowRecord]
    <3>1. ASSUME NEW k \in RowRecord PROVE [k EXCEPT !.left = Older(@)] \in RowRecord
      <4>1. Older(k.left) \in -1..Lease BY <2>1 DEF RowRecord
      <4> QED BY <4>1 DEF RowRecord
    <3> QED BY <1>9, <3>1 DEF TypeOK, Tick
  <2>4. ASSUME NEW c \in Consumer
        PROVE  [r \in Row |-> IF Gen(c, r) = 0 THEN NoCopy
                    ELSE [gen |-> Gen(c, r), left |-> Older(consumer[c].held[r].left)]]
                 \in [Row -> Copy]
    BY <2>1, IdleTyped DEF TypeOK, ConsumerRecord, Copy, Gen
  <2>5. consumer' \in [Consumer -> ConsumerRecord]
    <3>1. ASSUME NEW k \in ConsumerRecord, NEW h \in [Row -> Copy]
          PROVE  [k EXCEPT !.beat = Sooner(@), !.held = h] \in ConsumerRecord
      <4>1. Sooner(k.beat) \in 0..Interval BY <2>2 DEF ConsumerRecord
      <4> QED BY <4>1 DEF ConsumerRecord
    <3> QED BY <1>9, <2>4, <3>1 DEF TypeOK, Tick
  <2> QED BY <1>9, <2>3, <2>5 DEF TypeOK, Tick
<1>10. ASSUME NEW c \in Consumer, Crash(c) PROVE TypeOK'
  BY <1>10, IdleTyped DEF TypeOK, Crash
<1>11. ASSUME UNCHANGED vars PROVE TypeOK'
  BY <1>11 DEF TypeOK, vars
<1> QED
  BY <1>1, <1>2, <1>3, <1>4, <1>5, <1>6, <1>7, <1>8, <1>9, <1>10, <1>11
  DEF Next, ProcessOnce

\* Every step but a claim is quiet: no copy appears or changes its generation,
\* no row changes its generation, and none becomes claimed or absent.
Quiet ==
    /\ \A d \in Consumer, r \in Row : Gen(d, r)' \in {0, Gen(d, r)}
    /\ \A r \in Row :
          /\ row'[r].gen = row[r].gen
          /\ row'[r].state = "CLAIMED" =>
                row[r].state = "CLAIMED" /\ row'[r].owner = row[r].owner
          /\ row'[r].state = "ABSENT" => row[r].state = "ABSENT"

\* Quiet steps keep claims exclusive.
LEMMA QuietKeepsClaims ==
    ASSUME TypeOK, TypeOK', ClaimsExclusive, GenerationsStart, Quiet
    PROVE  ClaimsExclusive' /\ GenerationsStart'
<1>1. \A r \in Row : row[r].gen \in Nat BY DEF TypeOK, RowRecord
<1>2. GenerationsStart' BY DEF GenerationsStart, Quiet
<1>3. \A c \in Consumer, r \in Row : Gen(c, r)' <= row'[r].gen
  BY <1>1 DEF ClaimsExclusive, Quiet
<1>4. ASSUME NEW c \in Consumer, NEW r \in Row, row'[r].state = "CLAIMED",
             Gen(c, r)' = row'[r].gen
      PROVE  row'[r].owner = c
  BY <1>4 DEF ClaimsExclusive, GenerationsStart, Quiet
<1>5. ASSUME NEW c \in Consumer, NEW d \in Consumer, NEW r \in Row, c # d, Gen(c, r)' # 0
      PROVE  Gen(c, r)' # Gen(d, r)'
  BY <1>5 DEF ClaimsExclusive, Quiet
<1> QED BY <1>2, <1>3, <1>4, <1>5 DEF ClaimsExclusive

\* Being through with a row drops one copy and leaves no row at hand.
LEMMA ThroughCopies ==
    ASSUME TypeOK, NEW c \in Consumer, Cur(c) \in Row,
           consumer' = [consumer EXCEPT ![c] = Through(c)]
    PROVE  /\ \A d \in Consumer, r \in Row : Gen(d, r)' \in {0, Gen(d, r)}
           /\ consumer'[c].at = "ready" /\ consumer'[c].cur = None
           /\ \A d \in Consumer : d # c => consumer'[d] = consumer[d]
<1>1. consumer[c].held \in [Row -> Copy] BY DEF TypeOK, ConsumerRecord
<1>2. consumer'[c] = Through(c) BY DEF TypeOK
<1>3. \A d \in Consumer : d # c => consumer'[d] = consumer[d] BY DEF TypeOK
<1>4. Through(c).at = "ready" /\ Through(c).cur = None BY DEF Through, Idle
<1>5. Through(c).held = [consumer[c].held EXCEPT ![Cur(c)] = NoCopy] BY DEF Through, Idle
<1>6. \A r \in Row : Through(c).held[r].gen \in {0, consumer[c].held[r].gen}
  BY <1>1, <1>5 DEF NoCopy
<1> QED BY <1>2, <1>3, <1>4, <1>6 DEF Gen

\* An abandoned batch drops all copies.
LEMMA IdleCopies ==
    ASSUME TypeOK, NEW c \in Consumer, consumer' = [consumer EXCEPT ![c] = Idle]
    PROVE  /\ \A d \in Consumer, r \in Row : Gen(d, r)' \in {0, Gen(d, r)}
           /\ consumer'[c].at = "ready" /\ consumer'[c].cur = None
           /\ \A d \in Consumer : d # c => consumer'[d] = consumer[d]
BY DEF TypeOK, Idle, NoCopy, Gen

\* Moving on with the same row keeps all copies.
LEMMA PlaceCopies ==
    ASSUME TypeOK, NEW c \in Consumer, NEW p \in {"settle", "fail"},
           consumer' = [consumer EXCEPT ![c].at = p]
    PROVE  /\ \A d \in Consumer, r \in Row : Gen(d, r)' = Gen(d, r)
           /\ consumer'[c].at = p /\ consumer'[c].cur = consumer[c].cur
           /\ \A d \in Consumer : d # c => consumer'[d] = consumer[d]
<1>1. consumer[c] \in ConsumerRecord BY DEF TypeOK
<1>2. consumer'[c] = [consumer[c] EXCEPT !.at = p] BY DEF TypeOK
<1>3. \A d \in Consumer : d # c => consumer'[d] = consumer[d] BY DEF TypeOK
<1>4. consumer'[c].held = consumer[c].held /\ consumer'[c].at = p
      /\ consumer'[c].cur = consumer[c].cur
  BY <1>1, <1>2 DEF ConsumerRecord
<1> QED BY <1>3, <1>4 DEF Gen

\* Settling a row, or putting it back, is quiet and touches only a held row.
LEMMA SettlingIsQuiet ==
    ASSUME TypeOK, NEW c \in Consumer, Cur(c) \in Row,
           \/ UNCHANGED row
           \/ Holds(c, Cur(c)) /\ row' = Sent(Cur(c))
           \/ Holds(c, Cur(c)) /\ row' = Retried(Cur(c))
    PROVE  \A r \in Row :
              /\ row'[r].gen = row[r].gen
              /\ row'[r].state = "CLAIMED" =>
                    row[r].state = "CLAIMED" /\ row'[r].owner = row[r].owner
              /\ row'[r].state = "ABSENT" => row[r].state = "ABSENT"
              /\ row'[r].state = "SENT" =>
                    row[r].state = "SENT" \/ (row' = Sent(r) /\ r = Cur(c))
              /\ row[r].state = "SENT" => row'[r] = row[r]
<1>1. CASE UNCHANGED row BY <1>1
<1>2. CASE Holds(c, Cur(c)) /\ row' = Sent(Cur(c))
  <2>1. \A r \in Row : row'[r] = IF r = Cur(c)
            THEN [row[r] EXCEPT !.state = "SENT", !.left = 0] ELSE row[r]
    BY <1>2 DEF Sent, TypeOK
  <2> QED BY <1>2, <2>1 DEF TypeOK, RowRecord, Holds
<1>3. CASE Holds(c, Cur(c)) /\ row' = Retried(Cur(c))
  <2>1. \A r \in Row : row'[r] = IF r = Cur(c)
            THEN [row[r] EXCEPT !.state = "PENDING", !.owner = None, !.left = 0]
            ELSE row[r]
    BY <1>3 DEF Retried, TypeOK
  <2> QED BY <1>3, <2>1 DEF TypeOK, RowRecord, Holds
<1> QED BY <1>1, <1>2, <1>3

\* A step of c leaves the places of the others as they are.
LEMMA PlacesOfOthers ==
    ASSUME PlacesFit, NEW c \in Consumer, handled \subseteq handled',
           \A d \in Consumer : d # c => consumer'[d] = consumer[d],
           consumer'[c].at = "ready" => consumer'[c].cur = None,
           consumer'[c].at # "ready" =>
              consumer'[c].cur \in Row /\ Gen(c, consumer[c].cur)' # 0
              /\ consumer'[c].cur = consumer[c].cur,
           consumer'[c].at = "settle" => consumer'[c].cur \in handled'
    PROVE  PlacesFit'
<1>1. ASSUME NEW d \in Consumer, d # c
      PROVE  /\ At(d, "ready")' => Cur(d)' = None
             /\ ~At(d, "ready")' => Cur(d)' \in Row /\ Gen(d, Cur(d))' # 0
             /\ At(d, "settle")' => Cur(d)' \in handled'
  <2>1. consumer'[d] = consumer[d] BY <1>1
  <2> QED BY <2>1 DEF PlacesFit, At, Cur, Gen
<1>2. /\ At(c, "ready")' => Cur(c)' = None
      /\ ~At(c, "ready")' => Cur(c)' \in Row /\ Gen(c, Cur(c))' # 0
      /\ At(c, "settle")' => Cur(c)' \in handled'
  BY DEF At, Cur, Gen
<1> QED BY <1>1, <1>2 DEF PlacesFit

\* The writers keep the invariant.
LEMMA AppendKeeps ==
    ASSUME IInv, TypeOK', NEW r \in Row, Append(r)
    PROVE  IInv'
<1>1. UNCHANGED <<consumer, handled>> BY DEF Append
<1>2. \A s \in Row : row'[s] = IF s = r /\ row[r].state = "ABSENT"
                               THEN [row[r] EXCEPT !.state = "PENDING"] ELSE row[s]
  BY DEF IInv, TypeOK, Append
<1>3. \A s \in Row :
         /\ row'[s].gen = row[s].gen /\ row'[s].owner = row[s].owner
         /\ row'[s].state = row[s].state \/ row'[s].state = "PENDING"
  BY <1>2 DEF IInv, TypeOK, RowRecord
<1>4. Quiet BY <1>1, <1>3 DEF Quiet, Gen
<1>5. PlacesFit' BY <1>1 DEF IInv, PlacesFit, At, Cur, Gen
<1>6. SentMeansHandled' BY <1>1, <1>3 DEF IInv, SentMeansHandled
<1> QED BY <1>4, <1>5, <1>6, QuietKeepsClaims DEF IInv

\* A claim keeps it: the generation it gives is above that of every copy.
LEMMA ClaimKeeps ==
    ASSUME IInv, TypeOK', NEW c \in Consumer, Claim(c)
    PROVE  IInv'
<1>1. PICK rows \in SUBSET Row :
        /\ Oldest(rows)
        /\ row' = [r \in Row |-> IF r \in rows THEN Claimed(c, r) ELSE row[r]]
        /\ \/ consumer' = [consumer EXCEPT ![c].held =
                 [r \in Row |-> IF r \in rows
                      THEN [gen |-> Claimed(c, r).gen, left |-> Lease] ELSE NoCopy]]
           \/ UNCHANGED consumer
  BY DEF Claim
<1>2. handled' = handled /\ At(c, "ready") BY DEF Claim
<1>3. \A r \in Row : row[r].gen \in Nat BY DEF IInv, TypeOK, RowRecord
<1>4. \A r \in Row : /\ Claimed(c, r).gen = row[r].gen + 1
                     /\ Claimed(c, r).state = "CLAIMED" /\ Claimed(c, r).owner = c
  BY <1>3 DEF Claimed
<1>5. \A d \in Consumer, r \in Row :
         \/ d = c /\ r \in rows /\ Gen(d, r)' = row[r].gen + 1
         \/ Gen(d, r)' \in {0, Gen(d, r)}
  BY <1>1 DEF IInv, TypeOK, ConsumerRecord, Gen, Claimed, NoCopy
<1>6. \A d \in Consumer : /\ consumer'[d].at = consumer[d].at
                          /\ consumer'[d].cur = consumer[d].cur
                          /\ d # c => consumer'[d] = consumer[d]
  BY <1>1 DEF IInv, TypeOK, ConsumerRecord
<1>7. \A r \in rows : row[r].state # "SENT"
  BY <1>1 DEF Oldest, Claimable
<1>8. /\ \A r \in rows : /\ row'[r].gen = row[r].gen + 1
                         /\ row'[r].state = "CLAIMED" /\ row'[r].owner = c
      /\ \A r \in Row \ rows : row'[r] = row[r]
  BY <1>1, <1>4
<1>9. PlacesFit'
  <2>1. consumer'[c].at = "ready" /\ consumer'[c].cur = None
    BY <1>2, <1>6 DEF IInv, PlacesFit, At, Cur
  <2> QED BY <1>2, <1>6, <2>1, PlacesOfOthers DEF IInv
<1>10. SentMeansHandled' BY <1>2, <1>7, <1>8 DEF IInv, SentMeansHandled
<1>11. ASSUME NEW d \in Consumer, NEW r \in Row PROVE Gen(d, r)' <= row'[r].gen
  <2>1. Gen(d, r) <= row[r].gen BY DEF IInv, ClaimsExclusive
  <2>2. Gen(d, r) \in Nat BY DEF IInv, TypeOK, ConsumerRecord, Copy, Gen
  <2> QED BY <1>3, <1>5, <1>8, <2>1, <2>2
<1>12. GenerationsStart'
  <2> SUFFICES ASSUME NEW r \in Row
               PROVE  /\ row'[r].state = "ABSENT" => row'[r].gen = 0
                      /\ row'[r].state = "CLAIMED" => row'[r].gen # 0
    BY DEF GenerationsStart
  <2>1. CASE r \in rows BY <1>3, <1>8, <2>1
  <2>2. CASE r \notin rows BY <1>8, <2>2 DEF IInv, GenerationsStart
  <2> QED BY <2>1, <2>2
<1>13. ASSUME NEW d \in Consumer, NEW r \in Row, row'[r].state = "CLAIMED",
              Gen(d, r)' = row'[r].gen
       PROVE  row'[r].owner = d
  <2>1. Gen(d, r) <= row[r].gen BY DEF IInv, ClaimsExclusive
  <2>2. Gen(d, r) \in Nat BY DEF IInv, TypeOK, ConsumerRecord, Copy, Gen
  <2>3. CASE r \in rows BY <1>3, <1>5, <1>8, <1>13, <2>1, <2>2, <2>3
  <2>4. CASE r \notin rows
    BY <1>3, <1>5, <1>8, <1>13, <2>4 DEF IInv, ClaimsExclusive, GenerationsStart
  <2> QED BY <2>3, <2>4
<1>14. ASSUME NEW d \in Consumer, NEW e \in Consumer, NEW r \in Row, d # e,
              Gen(d, r)' # 0
       PROVE  Gen(d, r)' # Gen(e, r)'
  <2>1. /\ Gen(d, r) <= row[r].gen /\ Gen(e, r) <= row[r].gen
        /\ Gen(d, r) # 0 => Gen(d, r) # Gen(e, r)
    BY <1>14 DEF IInv, ClaimsExclusive
  <2>2. Gen(d, r) \in Nat /\ Gen(e, r) \in Nat
    BY DEF IInv, TypeOK, ConsumerRecord, Copy, Gen
  <2> QED BY <1>3, <1>5, <1>14, <2>1, <2>2
<1> QED BY <1>9, <1>10, <1>11, <1>12, <1>13, <1>14 DEF IInv, ClaimsExclusive

\* Starting or skipping a row of the batch is quiet.
LEMMA StartKeeps ==
    ASSUME IInv, TypeOK', NEW c \in Consumer, Start(c)
    PROVE  IInv'
<1>1. UNCHANGED <<row, handled>> BY DEF Start
<1>2. PICK r \in Waiting(c) :
        consumer' = IF consumer[c].held[r].left <= 0
                    THEN [consumer EXCEPT ![c].held[r] = NoCopy]
                    ELSE [consumer EXCEPT ![c] = Handling(c, r)]
  BY DEF Start
<1>3. r \in Row /\ Gen(c, r) # 0 BY DEF Waiting
<1>4. At(c, "ready") BY DEF Start
<1>5. CASE consumer' = [consumer EXCEPT ![c].held[r] = NoCopy]
  <2>1. consumer[c] \in ConsumerRecord BY DEF IInv, TypeOK
  <2>2. consumer'[c] = [consumer[c] EXCEPT !.held[r] = NoCopy]
    BY <1>5 DEF IInv, TypeOK
  <2>3. \A d \in Consumer : d # c => consumer'[d] = consumer[d]
    BY <1>5 DEF IInv, TypeOK
  <2>4. /\ consumer'[c].at = "ready" /\ consumer'[c].cur = consumer[c].cur
        /\ consumer'[c].held = [consumer[c].held EXCEPT ![r] = NoCopy]
    BY <1>4, <2>1, <2>2 DEF ConsumerRecord, At
  <2>5. \A s \in Row : Gen(c, s)' \in {0, Gen(c, s)}
    BY <1>3, <2>1, <2>4 DEF ConsumerRecord, Gen, NoCopy
  <2>6. Quiet BY <1>1, <2>3, <2>5 DEF Quiet, Gen
  <2>7. PlacesFit'
    BY <1>1, <1>4, <2>3, <2>4, PlacesOfOthers DEF IInv, PlacesFit, At, Cur
  <2>8. SentMeansHandled' BY <1>1 DEF IInv, SentMeansHandled
  <2> QED BY <2>6, <2>7, <2>8, QuietKeepsClaims DEF IInv
<1>6. CASE consumer' = [consumer EXCEPT ![c] = Handling(c, r)]
  <2>1. consumer'[c] = Handling(c, r) BY <1>6 DEF IInv, TypeOK
  <2>2. \A d \in Consumer : d # c => consumer'[d] = consumer[d]
    BY <1>6 DEF IInv, TypeOK
  <2>3. /\ consumer'[c].at = "handle" /\ consumer'[c].cur = r
        /\ consumer'[c].held = consumer[c].held
    BY <2>1 DEF Handling
  <2>4. Quiet BY <1>1, <2>2, <2>3 DEF Quiet, Gen
  <2>5. PlacesFit'
    <3>1. ASSUME NEW d \in Consumer, d # c
          PROVE  /\ At(d, "ready")' => Cur(d)' = None
                 /\ ~At(d, "ready")' => Cur(d)' \in Row /\ Gen(d, Cur(d))' # 0
                 /\ At(d, "settle")' => Cur(d)' \in handled'
      <4>1. consumer'[d] = consumer[d] BY <2>2, <3>1
      <4> QED BY <1>1, <4>1 DEF IInv, PlacesFit, At, Cur, Gen
    <3> QED BY <1>3, <2>3, <3>1 DEF PlacesFit, At, Cur, Gen
  <2>6. SentMeansHandled' BY <1>1 DEF IInv, SentMeansHandled
  <2> QED BY <2>4, <2>5, <2>6, QuietKeepsClaims DEF IInv
<1> QED BY <1>2, <1>5, <1>6

\* A step of c that ends with c at another place of the same row, or through
\* with it, and may settle the row it holds.
LEMMA SettleKeeps ==
    ASSUME IInv, TypeOK', NEW c \in Consumer, ~At(c, "ready"),
           handled \subseteq handled',
           \/ UNCHANGED row
           \/ Holds(c, Cur(c)) /\ row' = Sent(Cur(c)) /\ Cur(c) \in handled
           \/ Holds(c, Cur(c)) /\ row' = Retried(Cur(c)),
           \/ consumer' = [consumer EXCEPT ![c] = Through(c)]
           \/ consumer' = [consumer EXCEPT ![c] = Idle]
           \/ consumer' = [consumer EXCEPT ![c].at = "fail"]
           \/ consumer' = [consumer EXCEPT ![c].at = "settle"] /\ Cur(c) \in handled'
    PROVE  IInv'
<1>1. Cur(c) \in Row /\ Gen(c, Cur(c)) # 0 BY DEF IInv, PlacesFit
<1>2. TypeOK /\ PlacesFit BY DEF IInv
<1>3. \A r \in Row :
         /\ row'[r].gen = row[r].gen
         /\ row'[r].state = "CLAIMED" =>
               row[r].state = "CLAIMED" /\ row'[r].owner = row[r].owner
         /\ row'[r].state = "ABSENT" => row[r].state = "ABSENT"
         /\ row'[r].state = "SENT" =>
               row[r].state = "SENT" \/ (row' = Sent(r) /\ r = Cur(c))
  BY <1>1, <1>2, SettlingIsQuiet
<1>4. /\ \A d \in Consumer, r \in Row : Gen(d, r)' \in {0, Gen(d, r)}
      /\ PlacesFit'
  <2>1. CASE consumer' = [consumer EXCEPT ![c] = Through(c)]
    BY <1>1, <1>2, <2>1, ThroughCopies, PlacesOfOthers
  <2>2. CASE consumer' = [consumer EXCEPT ![c] = Idle]
    BY <1>1, <1>2, <2>2, IdleCopies, PlacesOfOthers
  <2>3. CASE consumer' = [consumer EXCEPT ![c].at = "fail"]
    <3>1. /\ \A d \in Consumer, r \in Row : Gen(d, r)' = Gen(d, r)
          /\ consumer'[c].at = "fail" /\ consumer'[c].cur = consumer[c].cur
          /\ \A d \in Consumer : d # c => consumer'[d] = consumer[d]
      BY <1>2, <2>3, PlaceCopies
    <3>2. consumer'[c].cur \in Row /\ Gen(c, consumer[c].cur)' # 0
      BY <1>1, <3>1 DEF Cur
    <3> QED BY <1>2, <3>1, <3>2, PlacesOfOthers
  <2>4. CASE consumer' = [consumer EXCEPT ![c].at = "settle"] /\ Cur(c) \in handled'
    <3>1. /\ \A d \in Consumer, r \in Row : Gen(d, r)' = Gen(d, r)
          /\ consumer'[c].at = "settle" /\ consumer'[c].cur = consumer[c].cur
          /\ \A d \in Consumer : d # c => consumer'[d] = consumer[d]
      BY <1>2, <2>4, PlaceCopies
    <3>2. consumer'[c].cur \in Row /\ Gen(c, consumer[c].cur)' # 0
      BY <1>1, <3>1 DEF Cur
    <3> QED BY <1>2, <2>4, <3>1, <3>2, PlacesOfOthers DEF Cur
  <2> QED BY <2>1, <2>2, <2>3, <2>4
<1>5. Quiet BY <1>3, <1>4 DEF Quiet
<1>6. SentMeansHandled'
  <2>1. row' = Sent(Cur(c)) => Cur(c) \in handled
    <3>1. CASE UNCHANGED row
      <4>1. row' = Sent(Cur(c)) => row[Cur(c)].state = "SENT"
        BY <1>1, <1>2, <3>1 DEF Sent, TypeOK, RowRecord
      <4> QED BY <1>1, <4>1 DEF IInv, SentMeansHandled
    <3>2. CASE Holds(c, Cur(c)) /\ row' = Retried(Cur(c))
      <4>1. row' # Sent(Cur(c))
        BY <1>1, <1>2, <3>2 DEF Sent, Retried, TypeOK, RowRecord
      <4> QED BY <4>1
    <3> QED BY <3>1, <3>2
  <2> QED BY <1>3, <2>1 DEF IInv, SentMeansHandled
<1> QED BY <1>4, <1>5, <1>6, QuietKeepsClaims DEF IInv

\* So is a renewal, granted or not,
LEMMA RenewKeeps ==
    ASSUME IInv, TypeOK', NEW c \in Consumer, Renew(c)
    PROVE  IInv'
<1>1. UNCHANGED handled BY DEF Renew
<1>2. \A d \in Consumer : /\ consumer'[d].at = consumer[d].at
                          /\ consumer'[d].cur = consumer[d].cur
                          /\ consumer'[d].held = consumer[d].held
  <2>1. consumer[c] \in ConsumerRecord BY DEF IInv, TypeOK
  <2>2. \/ consumer' = [consumer EXCEPT ![c] = Renewed(consumer[c])]
        \/ \E end \in {"refused", "broken"} : consumer' = [consumer EXCEPT ![c].heart = end]
    BY DEF Renew
  <2>3. CASE consumer' = [consumer EXCEPT ![c] = Renewed(consumer[c])]
    BY <2>1, <2>3 DEF IInv, TypeOK, ConsumerRecord, Renewed
  <2>4. CASE \E end \in {"refused", "broken"} : consumer' = [consumer EXCEPT ![c].heart = end]
    BY <2>1, <2>4 DEF IInv, TypeOK, ConsumerRecord
  <2> QED BY <2>2, <2>3, <2>4
<1>3. \A r \in Row : /\ row'[r].gen = row[r].gen
                     /\ row'[r].state = row[r].state
                     /\ row'[r].owner = row[r].owner
  <2>1. \/ UNCHANGED row
        \/ row' = [row EXCEPT ![Cur(c)].left = Lease]
    BY DEF Renew
  <2>2. CASE row' = [row EXCEPT ![Cur(c)].left = Lease]
    BY <2>2 DEF IInv, TypeOK, RowRecord
  <2> QED BY <2>1, <2>2
<1>4. Quiet BY <1>2, <1>3 DEF Quiet, Gen
<1>5. PlacesFit' BY <1>1, <1>2 DEF IInv, PlacesFit, At, Cur, Gen
<1>6. SentMeansHandled' BY <1>1, <1>3 DEF IInv, SentMeansHandled
<1> QED BY <1>4, <1>5, <1>6, QuietKeepsClaims DEF IInv

\* the passing of time,
LEMMA TickKeeps ==
    ASSUME IInv, TypeOK', Tick
    PROVE  IInv'
<1>1. UNCHANGED handled BY DEF Tick
<1>2. \A d \in Consumer : /\ consumer'[d].at = consumer[d].at
                          /\ consumer'[d].cur = consumer[d].cur
                          /\ \A r \in Row : Gen(d, r)' = Gen(d, r)
  <2> TAKE d \in Consumer
  <2> DEFINE h == [r \in Row |-> IF Gen(d, r) = 0 THEN NoCopy
                      ELSE [gen |-> Gen(d, r), left |-> Older(consumer[d].held[r].left)]]
  <2>1. consumer[d] \in ConsumerRecord BY DEF IInv, TypeOK
  <2>2. consumer'[d] = [consumer[d] EXCEPT !.beat = Sooner(@), !.held = h]
    BY DEF Tick
  <2>3. \A r \in Row : h[r].gen = Gen(d, r) BY DEF NoCopy
  <2> HIDE DEF h
  <2>4. /\ consumer'[d].at = consumer[d].at
        /\ consumer'[d].cur = consumer[d].cur
        /\ consumer'[d].held = h
    BY <2>1, <2>2 DEF ConsumerRecord
  <2> QED BY <2>3, <2>4 DEF Gen
<1>3. \A d \in Consumer, r \in Row : Gen(d, r)' = Gen(d, r) BY <1>2
<1>4. \A r \in Row : /\ row'[r].gen = row[r].gen
                     /\ row'[r].state = row[r].state
                     /\ row'[r].owner = row[r].owner
  BY DEF IInv, TypeOK, RowRecord, Tick
<1>5. Quiet BY <1>3, <1>4 DEF Quiet
<1>6. PlacesFit' BY <1>1, <1>2, <1>3 DEF IInv, PlacesFit, At, Cur
<1>7. SentMeansHandled' BY <1>1, <1>4 DEF IInv, SentMeansHandled
<1> QED BY <1>5, <1>6, <1>7, QuietKeepsClaims DEF IInv

\* and a crash.
LEMMA CrashKeeps ==
    ASSUME IInv, TypeOK', NEW c \in Consumer, Crash(c)
    PROVE  IInv'
<1>1. UNCHANGED <<row, handled>> BY DEF Crash
<1>2. /\ \A d \in Consumer, r \in Row : Gen(d, r)' \in {0, Gen(d, r)}
      /\ consumer'[c].at = "ready" /\ consumer'[c].cur = None
      /\ \A d \in Consumer : d # c => consumer'[d] = consumer[d]
  BY IdleCopies DEF IInv, Crash
<1>3. Quiet BY <1>1, <1>2 DEF Quiet
<1>4. PlacesFit' BY <1>1, <1>2, PlacesOfOthers DEF IInv
<1>5. SentMeansHandled' BY <1>1 DEF IInv, SentMeansHandled
<1> QED BY <1>3, <1>4, <1>5, QuietKeepsClaims DEF IInv

\* Every step keeps the inductive invariant, one case per action.
LEMMA InvStep ==
    ASSUME IInv, [Next]_vars
    PROVE  IInv'
<1>1. TypeOK' BY TypeStep DEF IInv
<1>2. ASSUME NEW r \in Row, Append(r) PROVE IInv'
  BY <1>1, <1>2, AppendKeeps
<1>3. ASSUME NEW c \in Consumer, Claim(c) PROVE IInv'
  BY <1>1, <1>3, ClaimKeeps
<1>4. ASSUME NEW c \in Consumer, Start(c) PROVE IInv'
  BY <1>1, <1>4, StartKeeps
<1>5. ASSUME NEW c \in Consumer, Handle(c) PROVE IInv'
  <2>1. ~At(c, "ready") /\ UNCHANGED row BY <1>5 DEF Handle, At
  <2>2. \/ /\ handled' = handled \cup {Cur(c)}
           /\ consumer' = [consumer EXCEPT ![c].at = "settle"]
        \/ /\ handled' = handled
           /\ \/ consumer' = [consumer EXCEPT ![c].at = "fail"]
              \/ consumer' = [consumer EXCEPT ![c] = Through(c)]
    BY <1>5 DEF Handle
  <2> QED BY <1>1, <2>1, <2>2, SettleKeeps
<1>6. ASSUME NEW c \in Consumer, Acknowledge(c) PROVE IInv'
  <2>1. ~At(c, "ready") /\ UNCHANGED handled BY <1>6 DEF Acknowledge, At
  <2>2. Cur(c) \in handled BY <1>6 DEF IInv, PlacesFit, Acknowledge
  <2>3. UNCHANGED row \/ (Holds(c, Cur(c)) /\ row' = Sent(Cur(c)))
    BY <1>6 DEF Acknowledge
  <2>4. \/ consumer' = [consumer EXCEPT ![c] = Through(c)]
        \/ consumer' = [consumer EXCEPT ![c].at = "fail"]
    BY <1>6 DEF Acknowledge
  <2> QED BY <1>1, <2>1, <2>2, <2>3, <2>4, SettleKeeps
<1>7. ASSUME NEW c \in Consumer, HeartbeatLost(c) PROVE IInv'
  <2>1. ~At(c, "ready") /\ UNCHANGED <<row, handled>> BY <1>7 DEF HeartbeatLost, At
  <2>2. \/ consumer' = [consumer EXCEPT ![c] = Through(c)]
        \/ consumer' = [consumer EXCEPT ![c].at = "fail"]
    BY <1>7 DEF HeartbeatLost
  <2> QED BY <1>1, <2>1, <2>2, SettleKeeps
<1>8. ASSUME NEW c \in Consumer, Fail(c) PROVE IInv'
  <2>1. ~At(c, "ready") /\ UNCHANGED handled BY <1>8 DEF Fail, At
  <2>2. UNCHANGED row \/ (Holds(c, Cur(c)) /\ row' = Retried(Cur(c)))
    BY <1>8 DEF Fail
  <2>3. \/ consumer' = [consumer EXCEPT ![c] = Through(c)]
        \/ consumer' = [consumer EXCEPT ![c] = Idle]
    BY <1>8 DEF Fail
  <2> QED BY <1>1, <2>1, <2>2, <2>3, SettleKeeps
<1>9. ASSUME NEW c \in Consumer, Renew(c) PROVE IInv'
  BY <1>1, <1>9, RenewKeeps
<1>10. ASSUME Tick PROVE IInv'
  BY <1>1, <1>10, TickKeeps
<1>11. ASSUME NEW c \in Consumer, Crash(c) PROVE IInv'
  BY <1>1, <1>11, CrashKeeps
<1>12. ASSUME UNCHANGED vars PROVE IInv'
  BY <1>12 DEF vars, IInv, TypeOK, PlacesFit, GenerationsStart, ClaimsExclusive,
               SentMeansHandled, At, Cur, Gen
<1> QED
  BY <1>2, <1>3, <1>4, <1>5, <1>6, <1>7, <1>8, <1>9, <1>10, <1>11, <1>12
  DEF Next, ProcessOnce

\* It holds at the start, when nothing was appended.
LEMMA InvInit == Init => IInv
<1> SUFFICES ASSUME Init PROVE IInv
  OBVIOUS
<1>1. TypeOK BY OutboxAssumption, IdleTyped DEF Init, TypeOK, RowRecord
<1>2. \A c \in Consumer : /\ consumer[c].at = "ready" /\ consumer[c].cur = None
                          /\ \A r \in Row : Gen(c, r) = 0
  BY DEF Init, Idle, NoCopy, Gen
<1>3. \A r \in Row : row[r].state = "ABSENT" /\ row[r].gen = 0 BY DEF Init
<1>4. PlacesFit BY <1>2 DEF PlacesFit, At, Cur
<1>5. GenerationsStart BY <1>3 DEF GenerationsStart
<1>6. ClaimsExclusive BY <1>2, <1>3 DEF ClaimsExclusive
<1>7. SentMeansHandled BY <1>3 DEF SentMeansHandled
<1> QED BY <1>1, <1>4, <1>5, <1>6, <1>7 DEF IInv

\* The inductive invariant holds in every reachable state.
THEOREM Invariant == Spec => []IInv
<1>1. IInv /\ [Next]_vars => IInv' BY InvStep
<1> QED BY InvInit, <1>1, PTL DEF Spec

\* The table, the consumers' variables and the counters keep their types.
THEOREM TypeCorrect == Spec => []TypeOK
<1>1. IInv => TypeOK BY DEF IInv
<1> QED BY Invariant, <1>1, PTL

\* Two consumers never have the current claim of one row: claim_outbox gives
\* every claim a generation that no consumer has.
THEOREM ClaimsAreExclusive == Spec => []ClaimsExclusive
<1>1. IInv => ClaimsExclusive BY DEF IInv
<1> QED BY Invariant, <1>1, PTL

\* A row that process_once acknowledged was handled to its end, whatever was
\* lost, lapsed or crashed in between.
THEOREM SentRowsWereHandled == Spec => []SentMeansHandled
<1>1. IInv => SentMeansHandled BY DEF IInv
<1> QED BY Invariant, <1>1, PTL

\* Only ack, fail and renew of a held row change a settled table, and a SENT
\* row is not held.
LEMMA SentStep ==
    ASSUME IInv, [Next]_vars, NEW s \in Row, row[s].state = "SENT"
    PROVE  row'[s] = row[s]
<1>1. TypeOK /\ PlacesFit BY DEF IInv
<1>2. ASSUME NEW r \in Row, Append(r) PROVE row'[s] = row[s]
  BY <1>1, <1>2 DEF Append, TypeOK
<1>3. ASSUME NEW c \in Consumer, Claim(c) PROVE row'[s] = row[s]
  <2>1. PICK rows \in SUBSET Row :
          /\ Oldest(rows)
          /\ row' = [r \in Row |-> IF r \in rows THEN Claimed(c, r) ELSE row[r]]
    BY <1>3 DEF Claim
  <2>2. s \notin rows BY <2>1 DEF Oldest, Claimable
  <2> QED BY <2>1, <2>2
<1>4. ASSUME NEW c \in Consumer, Start(c) \/ Handle(c) \/ HeartbeatLost(c) \/ Crash(c)
      PROVE  row'[s] = row[s]
  BY <1>4 DEF Start, Handle, HeartbeatLost, Crash
<1>5. ASSUME NEW c \in Consumer, Renew(c) PROVE row'[s] = row[s]
  <2>1. UNCHANGED row \/ (Holds(c, Cur(c)) /\ row' = [row EXCEPT ![Cur(c)].left = Lease])
    BY <1>5 DEF Renew
  <2> QED BY <1>1, <2>1 DEF Holds, TypeOK
<1>6. ASSUME NEW c \in Consumer, Acknowledge(c) \/ Fail(c) PROVE row'[s] = row[s]
  <2>1. Cur(c) \in Row BY <1>1, <1>6 DEF Acknowledge, Fail, PlacesFit, At
  <2>2. \/ UNCHANGED row
        \/ Holds(c, Cur(c)) /\ row' = Sent(Cur(c))
        \/ Holds(c, Cur(c)) /\ row' = Retried(Cur(c))
    BY <1>6 DEF Acknowledge, Fail
  <2> QED BY <1>1, <2>1, <2>2, SettlingIsQuiet
<1>7. ASSUME Tick PROVE row'[s] = row[s]
  BY <1>7 DEF Tick
<1>8. ASSUME UNCHANGED vars PROVE row'[s] = row[s]
  BY <1>8 DEF vars
<1> QED BY <1>2, <1>3, <1>4, <1>5, <1>6, <1>7, <1>8 DEF Next, ProcessOnce

\* No late fail, lapsed claim or second append reopens a row that was sent.
THEOREM SentStaysSent == Spec => SentIsFinal
<1>1. IInv /\ [Next]_vars => [\A r \in Row : row[r].state = "SENT" => row'[r] = row[r]]_vars
  BY SentStep
<1> QED BY Invariant, <1>1, PTL DEF Spec, SentIsFinal

\* A consumer whose claim was taken over changes nothing in the row: ack and
\* fail compare the generation, and a consumer between rows has none at hand.
LEMMA SupersededStep ==
    ASSUME IInv, [Next]_vars, NEW c \in Consumer, Superseded(c), ProcessOnce(c)
    PROVE  row'[Cur(c)] = row[Cur(c)]
<1>1. ~At(c, "ready") /\ Cur(c) \in Row BY DEF IInv, PlacesFit, Superseded
<1>2. ~Claim(c) /\ ~Start(c) BY <1>1 DEF Claim, Start
<1>3. ~Holds(c, Cur(c))
  <2>1. row[Cur(c)].gen \in Nat /\ Gen(c, Cur(c)) \in Nat
    BY <1>1 DEF IInv, TypeOK, RowRecord, ConsumerRecord, Copy, Gen
  <2> QED BY <2>1 DEF Superseded, Holds
<1>4. CASE Handle(c) \/ HeartbeatLost(c) BY <1>4 DEF Handle, HeartbeatLost
<1>5. CASE Acknowledge(c) BY <1>3, <1>5 DEF Acknowledge
<1>6. CASE Fail(c) BY <1>3, <1>6 DEF Fail
<1> QED BY <1>2, <1>4, <1>5, <1>6 DEF ProcessOnce

\* A consumer whose heartbeat failed is at a row, and settles it by failing it or not
\* at all: the only step that makes a row SENT needs a heart that beats.
LEMMA HeartlessStep ==
    ASSUME IInv, NEW c \in Consumer, HeartbeatFailed(c), ProcessOnce(c)
    PROVE  row' \in {row, Retried(Cur(c))}
<1>1. ~At(c, "ready") BY DEF IInv, PlacesFit, HeartbeatFailed
<1>2. ~Claim(c) /\ ~Start(c) BY <1>1 DEF Claim, Start
<1>3. ~Acknowledge(c) BY DEF HeartbeatFailed, Acknowledge, HeartBeats
<1>4. CASE Handle(c) \/ HeartbeatLost(c) BY <1>4 DEF Handle, HeartbeatLost
<1>5. CASE Fail(c) BY <1>5 DEF Fail
<1> QED BY <1>2, <1>3, <1>4, <1>5 DEF ProcessOnce

\* The generation silences a consumer whose lease lapsed while it worked, and the
\* heartbeat's exception keeps it from acknowledging what it may have lost.
THEOREM LostClaimsSettleNothing == Spec => LostClaimSettlesNothing
<1>1. IInv /\ [Next]_vars =>
        [\A c \in Consumer : ProcessOnce(c) =>
            /\ Superseded(c) => row'[Cur(c)] = row[Cur(c)]
            /\ HeartbeatFailed(c) => row' \in {row, Retried(Cur(c))}]_vars
  BY SupersededStep, HeartlessStep
<1> QED BY Invariant, <1>1, PTL DEF Spec, LostClaimSettlesNothing

\* What the writers see of a row depends on whether it is absent and whether
\* it is sent.
LEMMA WorkKept ==
    ASSUME \A r \in Row : /\ row'[r].state = "ABSENT" <=> row[r].state = "ABSENT"
                          /\ row'[r].state = "SENT" <=> row[r].state = "SENT"
    PROVE  Work' = Work
BY DEF Work

\* Every step of the outbox is a step of Delivery or leaves it as it is.
LEMMA DeliveryStep ==
    ASSUME IInv, [Next]_vars
    PROVE  [D!Next]_(D!vars)
<1>1. TypeOK /\ PlacesFit /\ GenerationsStart BY DEF IInv
<1>2. ASSUME NEW r \in Row, Append(r) PROVE D!Offer(r) \/ UNCHANGED <<Work, handled>>
  <2>1. CASE row[r].state = "ABSENT"
    <3>1. \A s \in Row : row'[s].state = IF s = r THEN "PENDING" ELSE row[s].state
      BY <1>1, <1>2, <2>1 DEF Append, TypeOK, RowRecord
    <3>2. Work' = [Work EXCEPT ![r] = "open"] BY <2>1, <3>1 DEF Work
    <3>3. Work[r] = "none" BY <2>1 DEF Work
    <3> QED BY <1>2, <3>2, <3>3 DEF D!Offer, Append
  <2>2. CASE row[r].state # "ABSENT"
    BY <1>2, <2>2, WorkKept DEF Append
  <2> QED BY <2>1, <2>2
<1>3. ASSUME NEW c \in Consumer, Claim(c) PROVE UNCHANGED <<Work, handled>>
  <2>1. PICK rows \in SUBSET Row :
          /\ Oldest(rows)
          /\ row' = [r \in Row |-> IF r \in rows THEN Claimed(c, r) ELSE row[r]]
    BY <1>3 DEF Claim
  <2>2. \A r \in rows : row[r].state \in {"PENDING", "CLAIMED"}
    BY <2>1 DEF Oldest, Claimable
  <2>3. \A r \in rows : row'[r].state = "CLAIMED" BY <2>1 DEF Claimed
  <2>4. \A r \in Row \ rows : row'[r] = row[r] BY <2>1
  <2>5. \A r \in Row : /\ row'[r].state = "ABSENT" <=> row[r].state = "ABSENT"
                       /\ row'[r].state = "SENT" <=> row[r].state = "SENT"
    BY <2>2, <2>3, <2>4
  <2> QED BY <1>3, <2>5, WorkKept DEF Claim
<1>4. ASSUME NEW c \in Consumer, Start(c) \/ HeartbeatLost(c) \/ Crash(c)
      PROVE  UNCHANGED <<Work, handled>>
  <2>1. UNCHANGED <<row, handled>> BY <1>4 DEF Start, HeartbeatLost, Crash
  <2> QED BY <2>1, WorkKept
<1>5. ASSUME NEW c \in Consumer, Handle(c)
      PROVE  (\E r \in Row : D!Complete(r)) \/ UNCHANGED <<Work, handled>>
  <2>1. UNCHANGED row BY <1>5 DEF Handle
  <2>2. Work' = Work BY <2>1, WorkKept
  <2>3. Cur(c) \in Row /\ Gen(c, Cur(c)) # 0 BY <1>1, <1>5 DEF Handle, PlacesFit, At
  <2>4. row[Cur(c)].state # "ABSENT"
    <3>1. Gen(c, Cur(c)) <= row[Cur(c)].gen BY <2>3 DEF IInv, ClaimsExclusive
    <3>2. Gen(c, Cur(c)) \in Nat BY <1>1, <2>3 DEF TypeOK, ConsumerRecord, Copy, Gen
    <3> QED BY <1>1, <2>3, <3>1, <3>2 DEF GenerationsStart
  <2>5. Work[Cur(c)] # "none" BY <2>3, <2>4 DEF Work
  <2>6. handled' = handled \cup {Cur(c)} \/ UNCHANGED handled BY <1>5 DEF Handle
  <2> QED BY <2>2, <2>3, <2>5, <2>6 DEF D!Complete
<1>6. ASSUME NEW c \in Consumer, Acknowledge(c)
      PROVE  (\E r \in Row : D!Close(r)) \/ UNCHANGED <<Work, handled>>
  <2>1. Cur(c) \in Row /\ Cur(c) \in handled BY <1>1, <1>6 DEF Acknowledge, PlacesFit, At
  <2>2. UNCHANGED handled BY <1>6 DEF Acknowledge
  <2>3. CASE UNCHANGED row BY <2>2, <2>3, WorkKept
  <2>4. CASE Holds(c, Cur(c)) /\ row' = Sent(Cur(c))
    <3>1. \A s \in Row : row'[s].state = IF s = Cur(c) THEN "SENT" ELSE row[s].state
      BY <1>1, <2>1, <2>4 DEF Sent, TypeOK, RowRecord
    <3>2. Work' = [Work EXCEPT ![Cur(c)] = "closed"] BY <2>1, <3>1 DEF Work
    <3>3. Work[Cur(c)] = "open" BY <2>1, <2>4 DEF Work, Holds
    <3> QED BY <2>1, <2>2, <3>2, <3>3 DEF D!Close
  <2> QED BY <1>6, <2>3, <2>4 DEF Acknowledge
<1>7. ASSUME NEW c \in Consumer, Fail(c) PROVE UNCHANGED <<Work, handled>>
  <2>1. Cur(c) \in Row BY <1>1, <1>7 DEF Fail, PlacesFit, At
  <2>2. UNCHANGED handled BY <1>7 DEF Fail
  <2>3. CASE UNCHANGED row BY <2>2, <2>3, WorkKept
  <2>4. CASE Holds(c, Cur(c)) /\ row' = Retried(Cur(c))
    <3>1. \A s \in Row : row'[s].state = IF s = Cur(c) THEN "PENDING" ELSE row[s].state
      BY <1>1, <2>1, <2>4 DEF Retried, TypeOK, RowRecord
    <3> QED BY <2>2, <2>4, <3>1, WorkKept DEF Holds
  <2> QED BY <1>7, <2>3, <2>4 DEF Fail
<1>8. ASSUME NEW c \in Consumer, Renew(c) PROVE UNCHANGED <<Work, handled>>
  <2>1. UNCHANGED row \/ row' = [row EXCEPT ![Cur(c)].left = Lease] BY <1>8 DEF Renew
  <2>2. \A s \in Row : row'[s].state = row[s].state
    BY <1>1, <2>1 DEF TypeOK, RowRecord
  <2> QED BY <1>8, <2>2, WorkKept DEF Renew
<1>9. ASSUME Tick PROVE UNCHANGED <<Work, handled>>
  <2>1. \A s \in Row : row'[s].state = row[s].state
    BY <1>1, <1>9 DEF TypeOK, RowRecord, Tick
  <2> QED BY <1>9, <2>1, WorkKept DEF Tick
<1>10. ASSUME UNCHANGED vars PROVE UNCHANGED <<Work, handled>>
  BY <1>10, WorkKept DEF vars
<1> QED
  BY <1>2, <1>3, <1>4, <1>5, <1>6, <1>7, <1>8, <1>9, <1>10
  DEF Next, ProcessOnce, D!Next, D!vars

\* The outbox implements at-least-once delivery: an offered row stays open
\* until a handler has completed it, and is closed once.
THEOREM OutboxDelivers == Spec => ImplementsDelivery
<1>1. Init => D!Init BY DEF Init, D!Init, Work
<1>2. IInv /\ [Next]_vars => [D!Next]_(D!vars) BY DeliveryStep
<1> QED BY Invariant, <1>1, <1>2, PTL DEF Spec, ImplementsDelivery, D!Spec

(***************************************************************************)
(* The heartbeat.                                                          *)
(***************************************************************************)
\* Where consumers run promptly, a renewed claim has as much left as its heartbeat has yet
\* to wait, and the part of the lease beyond one interval besides.
RenewedHolds ==
    Prompt => \A c \in Consumer :
        At(c, "handle") /\ consumer[c].heart = "beating" =>
            /\ Holds(c, Cur(c))
            /\ row[Cur(c)].left = (Lease - Interval) + consumer[c].beat

\* What a handler relies on while its heartbeat beats.
LEMMA RenewedHasTime ==
    ASSUME IInv, RenewedHolds, Prompt, NEW c \in Consumer,
           At(c, "handle"), consumer[c].heart = "beating"
    PROVE  /\ Holds(c, Cur(c)) /\ Cur(c) \in Row
           /\ consumer[c].beat \in 0..Interval
           /\ row[Cur(c)].left = (Lease - Interval) + consumer[c].beat
           /\ row[Cur(c)].left > 0
<1>1. Holds(c, Cur(c)) /\ row[Cur(c)].left = (Lease - Interval) + consumer[c].beat
  BY DEF RenewedHolds
<1>2. Cur(c) \in Row BY DEF IInv, PlacesFit, At
<1>3. consumer[c].beat \in 0..Interval BY DEF IInv, TypeOK, ConsumerRecord
<1> QED BY <1>1, <1>2, <1>3, OutboxAssumption

\* A claim with time left is nobody else's to take, settle or renew.
LEMMA ClaimRespected ==
    ASSUME IInv, NEW c \in Consumer, NEW r \in Row, Holds(c, r), row[r].left > 0,
           NEW d \in Consumer, d # c, ProcessOnce(d) \/ Renew(d) \/ Crash(d)
    PROVE  row'[r] = row[r]
<1>1. TypeOK /\ row[r].state = "CLAIMED" /\ row[r].owner = c BY DEF IInv, Holds
<1>2. CASE Claim(d)
  <2>1. PICK rows \in SUBSET Row :
          /\ Oldest(rows)
          /\ row' = [s \in Row |-> IF s \in rows THEN Claimed(d, s) ELSE row[s]]
    BY <1>2 DEF Claim
  <2>2. row[r].left \in Int BY <1>1 DEF TypeOK, RowRecord
  <2>3. r \notin rows BY <1>1, <2>1, <2>2 DEF Oldest, Claimable
  <2> QED BY <2>1, <2>3
<1>3. CASE Start(d) \/ Handle(d) \/ HeartbeatLost(d) \/ Crash(d)
  BY <1>3 DEF Start, Handle, HeartbeatLost, Crash
<1>4. CASE Acknowledge(d) \/ Fail(d) \/ Renew(d)
  <2>1. Cur(d) \in Row BY <1>4 DEF IInv, PlacesFit, Acknowledge, Fail, Renew, At
  <2>2. CASE UNCHANGED row BY <2>2
  <2>3. CASE /\ Holds(d, Cur(d))
             /\ \/ row' = Sent(Cur(d))
                \/ row' = Retried(Cur(d))
                \/ row' = [row EXCEPT ![Cur(d)].left = Lease]
    <3>1. Cur(d) # r BY <1>1, <2>3 DEF Holds
    <3>2. CASE row' = [row EXCEPT ![Cur(d)].left = Lease] BY <1>1, <2>1, <3>1, <3>2 DEF TypeOK
    <3>3. CASE row' = Sent(Cur(d)) BY <1>1, <2>1, <3>1, <3>3 DEF TypeOK, Sent
    <3>4. CASE row' = Retried(Cur(d)) BY <1>1, <2>1, <3>1, <3>4 DEF TypeOK, Retried
    <3> QED BY <2>3, <3>2, <3>3, <3>4
  <2> QED BY <1>4, <2>2, <2>3 DEF Acknowledge, Fail, Renew
<1> QED BY <1>2, <1>3, <1>4 DEF ProcessOnce

\* A consumer that takes a step of process_once is not in a handler after it, unless it
\* has just started one.
LEMMA StepsLeaveHandler ==
    ASSUME IInv, NEW c \in Consumer, ProcessOnce(c) \/ Crash(c)
    PROVE  /\ consumer'[c].at = "handle" => consumer'[c].heart = "first"
           /\ \A d \in Consumer : d # c => consumer'[d] = consumer[d]
<1>1. consumer \in [Consumer -> ConsumerRecord] BY DEF IInv, TypeOK
<1>2. CASE Claim(c)
  <2>1. consumer[c].at = "ready" BY <1>2 DEF Claim, At
  <2>2. PICK held : consumer' \in {consumer, [consumer EXCEPT ![c].held = held]}
    BY <1>2 DEF Claim
  <2> QED BY <1>1, <2>1, <2>2 DEF ConsumerRecord
<1>3. CASE Start(c)
  <2>1. consumer[c].at = "ready" BY <1>3 DEF Start, At
  <2>2. PICK r \in Row : \/ consumer' = [consumer EXCEPT ![c].held[r] = NoCopy]
                        \/ consumer' = [consumer EXCEPT ![c] = Handling(c, r)]
    BY <1>3 DEF Start, Waiting
  <2>3. CASE consumer' = [consumer EXCEPT ![c].held[r] = NoCopy]
    BY <1>1, <2>1, <2>3 DEF ConsumerRecord
  <2>4. CASE consumer' = [consumer EXCEPT ![c] = Handling(c, r)]
    BY <1>1, <2>4 DEF Handling
  <2> QED BY <2>2, <2>3, <2>4
<1>4. CASE Handle(c) \/ Acknowledge(c) \/ HeartbeatLost(c) \/ Fail(c) \/ Crash(c)
  <2>1. \/ \E place \in {"settle", "fail"} : consumer' = [consumer EXCEPT ![c].at = place]
        \/ consumer' = [consumer EXCEPT ![c] = Through(c)]
        \/ consumer' = [consumer EXCEPT ![c] = Idle]
    BY <1>4 DEF Handle, Acknowledge, HeartbeatLost, Fail, Crash
  <2>2. Through(c).at = "ready" /\ Idle.at = "ready" BY DEF Through, Idle
  <2>3. CASE \E place \in {"settle", "fail"} : consumer' = [consumer EXCEPT ![c].at = place]
    BY <1>1, <2>3 DEF ConsumerRecord
  <2>4. CASE \/ consumer' = [consumer EXCEPT ![c] = Through(c)]
             \/ consumer' = [consumer EXCEPT ![c] = Idle]
    BY <1>1, <2>2, <2>4
  <2> QED BY <2>1, <2>3, <2>4
<1> QED BY <1>2, <1>3, <1>4 DEF ProcessOnce

\* A handler whose consumer and row are left alone keeps its time.
LEMMA UntouchedHolds ==
    ASSUME IInv, RenewedHolds, Prompt, NEW c \in Consumer,
           consumer'[c] = consumer[c],
           At(c, "handle") /\ consumer[c].heart = "beating" => row'[Cur(c)] = row[Cur(c)],
           At(c, "handle")', consumer'[c].heart = "beating"
    PROVE  /\ Holds(c, Cur(c))'
           /\ row'[Cur(c)'].left = (Lease - Interval) + consumer'[c].beat
<1>1. At(c, "handle") /\ consumer[c].heart = "beating" /\ Cur(c)' = Cur(c)
  BY DEF At, Cur
<1>2. Holds(c, Cur(c)) /\ row[Cur(c)].left = (Lease - Interval) + consumer[c].beat
  BY <1>1, RenewedHasTime
<1> QED BY <1>1, <1>2 DEF Holds, Gen

\* Every step keeps it, one case per action.
LEMMA RenewedStep ==
    ASSUME IInv, RenewedHolds, [Next]_vars
    PROVE  RenewedHolds'
<1> SUFFICES ASSUME Prompt, NEW c \in Consumer,
                    At(c, "handle")', consumer'[c].heart = "beating"
             PROVE  /\ Holds(c, Cur(c))'
                    /\ row'[Cur(c)'].left = (Lease - Interval) + consumer'[c].beat
  BY DEF RenewedHolds
<1>1. /\ row \in [Row -> RowRecord] /\ consumer \in [Consumer -> ConsumerRecord]
      /\ consumer[c] \in ConsumerRecord
  BY DEF IInv, TypeOK
<1>2. ASSUME NEW r \in Row, Append(r)
      PROVE  /\ Holds(c, Cur(c))'
             /\ row'[Cur(c)'].left = (Lease - Interval) + consumer'[c].beat
  <2>1. consumer'[c] = consumer[c] BY <1>2 DEF Append
  <2>2. ASSUME At(c, "handle"), consumer[c].heart = "beating" PROVE row'[Cur(c)] = row[Cur(c)]
    <3>1. row[Cur(c)].state = "CLAIMED" BY <2>2, RenewedHasTime DEF Holds
    <3> QED BY <1>1, <1>2, <3>1 DEF Append
  <2> QED BY <2>1, <2>2, UntouchedHolds
<1>3. ASSUME NEW d \in Consumer, ProcessOnce(d) \/ Renew(d) \/ Crash(d), d # c
      PROVE  /\ Holds(c, Cur(c))'
             /\ row'[Cur(c)'].left = (Lease - Interval) + consumer'[c].beat
  <2>1. consumer'[c] = consumer[c]
    <3>1. CASE ProcessOnce(d) \/ Crash(d) BY <1>3, <3>1, StepsLeaveHandler
    <3>2. CASE Renew(d) BY <1>1, <1>3, <3>2 DEF Renew
    <3> QED BY <1>3, <3>1, <3>2
  <2>2. ASSUME At(c, "handle"), consumer[c].heart = "beating" PROVE row'[Cur(c)] = row[Cur(c)]
    <3>1. Holds(c, Cur(c)) /\ Cur(c) \in Row /\ row[Cur(c)].left > 0 BY <2>2, RenewedHasTime
    <3> QED BY <1>3, <3>1, ClaimRespected
  <2> QED BY <2>1, <2>2, UntouchedHolds
<1>4. ~ProcessOnce(c) /\ ~Crash(c)
  BY StepsLeaveHandler DEF At
<1>5. ASSUME Renew(c)
      PROVE  /\ Holds(c, Cur(c))'
             /\ row'[Cur(c)'].left = (Lease - Interval) + consumer'[c].beat
  <2>1. Cur(c) \in Row BY <1>5 DEF Renew, IInv, PlacesFit, At
  <2>2. /\ Holds(c, Cur(c)) /\ row' = [row EXCEPT ![Cur(c)].left = Lease]
        /\ consumer' = [consumer EXCEPT ![c] = Renewed(consumer[c])]
    <3>1. CASE \E end \in {"refused", "broken"} : consumer' = [consumer EXCEPT ![c].heart = end]
      BY <1>1, <3>1 DEF ConsumerRecord
    <3> QED BY <1>5, <3>1 DEF Renew
  <2>3. /\ consumer'[c].beat = Interval /\ consumer'[c].cur = consumer[c].cur
        /\ consumer'[c].held = consumer[c].held
    BY <1>1, <2>2 DEF Renewed, ConsumerRecord
  <2>4. /\ row'[Cur(c)].left = Lease /\ row'[Cur(c)].state = row[Cur(c)].state
        /\ row'[Cur(c)].owner = row[Cur(c)].owner /\ row'[Cur(c)].gen = row[Cur(c)].gen
    BY <1>1, <2>1, <2>2 DEF RowRecord
  <2> QED BY <2>2, <2>3, <2>4, OutboxAssumption DEF Holds, Cur, Gen
<1>6. ASSUME Tick
      PROVE  /\ Holds(c, Cur(c))'
             /\ row'[Cur(c)'].left = (Lease - Interval) + consumer'[c].beat
  <2>1. /\ consumer'[c].at = consumer[c].at /\ consumer'[c].cur = consumer[c].cur
        /\ consumer'[c].heart = consumer[c].heart /\ consumer'[c].beat = Sooner(consumer[c].beat)
        /\ \A r \in Row : Gen(c, r)' = Gen(c, r)
    <3> DEFINE h == [r \in Row |-> IF Gen(c, r) = 0 THEN NoCopy
                      ELSE [gen |-> Gen(c, r), left |-> Older(consumer[c].held[r].left)]]
    <3>1. consumer'[c] = [consumer[c] EXCEPT !.beat = Sooner(@), !.held = h]
      BY <1>6 DEF Tick
    <3>2. \A r \in Row : h[r].gen = Gen(c, r) BY DEF NoCopy
    <3> HIDE DEF h
    <3>3. /\ consumer'[c].at = consumer[c].at /\ consumer'[c].cur = consumer[c].cur
          /\ consumer'[c].heart = consumer[c].heart
          /\ consumer'[c].beat = Sooner(consumer[c].beat) /\ consumer'[c].held = h
      BY <1>1, <3>1 DEF ConsumerRecord
    <3> QED BY <3>2, <3>3 DEF Gen
  <2>2. /\ Holds(c, Cur(c)) /\ Cur(c) \in Row /\ consumer[c].beat \in 0..Interval
        /\ row[Cur(c)].left = (Lease - Interval) + consumer[c].beat /\ row[Cur(c)].left > 0
        /\ At(c, "handle") /\ consumer[c].heart = "beating"
    BY <2>1, RenewedHasTime DEF At
  <2>3. consumer[c].beat > 0
    <3>1. Patient(c) BY <1>6 DEF Tick
    <3>2. consumer[c].beat # 0 BY <2>2, <3>1 DEF Patient, RenewalDue, HeartBeats, At
    <3> QED BY <2>2, <3>2, OutboxAssumption
  <2>4. row[Cur(c)].left \in Int /\ consumer[c].beat \in Int
    BY <1>1, <2>2, OutboxAssumption DEF RowRecord
  <2>5. row'[Cur(c)] = [row[Cur(c)] EXCEPT !.left = Older(@)]
    BY <1>6, <2>2 DEF Tick, Holds
  <2>6. /\ row'[Cur(c)].left = Older(row[Cur(c)].left)
        /\ row'[Cur(c)].state = row[Cur(c)].state
        /\ row'[Cur(c)].owner = row[Cur(c)].owner /\ row'[Cur(c)].gen = row[Cur(c)].gen
    <3>1. row[Cur(c)] \in RowRecord BY <1>1, <2>2
    <3> QED BY <2>5, <3>1 DEF RowRecord
  <2>7. Cur(c)' = Cur(c) BY <2>1 DEF Cur
  <2>8. Older(row[Cur(c)].left) = (Lease - Interval) + Sooner(consumer[c].beat)
    BY <2>2, <2>3, <2>4, OutboxAssumption DEF Older, Sooner
  <2>9. Holds(c, Cur(c))' BY <2>1, <2>2, <2>6, <2>7 DEF Holds
  <2> QED BY <2>1, <2>6, <2>7, <2>8, <2>9
<1>7. ASSUME UNCHANGED vars
      PROVE  /\ Holds(c, Cur(c))'
             /\ row'[Cur(c)'].left = (Lease - Interval) + consumer'[c].beat
  BY <1>7, UntouchedHolds DEF vars
<1> QED BY <1>2, <1>3, <1>4, <1>5, <1>6, <1>7 DEF Next

\* A handler whose heartbeat renewed the claim is the only one who can settle the row: by
\* the interval's being shorter than the lease the claim cannot lapse, and everybody else
\* at the row has an older generation; for every lease and interval.
THEOREM RenewedIsAlone == Spec => []HandledAlone
<1>1. Init => RenewedHolds BY DEF Init, RenewedHolds, At, Idle
<1>2. IInv /\ RenewedHolds /\ [Next]_vars => RenewedHolds' BY RenewedStep
<1>3. IInv /\ RenewedHolds => HandledAlone
  <2> SUFFICES ASSUME IInv, RenewedHolds, Prompt, NEW c \in Consumer,
                      At(c, "handle"), consumer[c].heart = "beating"
               PROVE  /\ Holds(c, Cur(c)) /\ row[Cur(c)].left > 0
                      /\ \A d \in Consumer : d # c /\ Cur(d) = Cur(c) => Superseded(d)
    BY DEF HandledAlone
  <2>1. Holds(c, Cur(c)) /\ row[Cur(c)].left > 0 /\ Cur(c) \in Row BY RenewedHasTime
  <2>2. ASSUME NEW d \in Consumer, d # c, Cur(d) = Cur(c) PROVE Superseded(d)
    <3>1. Gen(d, Cur(c)) <= row[Cur(c)].gen /\ Gen(c, Cur(c)) # Gen(d, Cur(c))
      BY <2>1, <2>2 DEF IInv, ClaimsExclusive, PlacesFit, At
    <3>2. Gen(d, Cur(c)) \in Nat /\ row[Cur(c)].gen \in Nat
      BY <2>1 DEF IInv, TypeOK, ConsumerRecord, Copy, RowRecord, Gen
    <3>3. Cur(d) # None BY <2>1, <2>2, OutboxAssumption
    <3> QED BY <2>1, <2>2, <3>1, <3>2, <3>3 DEF Superseded, Holds
  <2> QED BY <2>1, <2>2
<1> QED BY Invariant, <1>1, <1>2, <1>3, PTL DEF Spec
=============================================================================
