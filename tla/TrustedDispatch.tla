-------------------------- MODULE TrustedDispatch --------------------------
(***************************************************************************)
(* Trusted dispatch: an incident that needs a field intervention asks one  *)
(* engineer after another for a number verification, at Nokia, and         *)
(* dispatches the first who passes it and has no recent SIM swap.          *)
(* dispatch.py keeps the pending dispatches, the history and the one-time  *)
(* tokens of the console; nokia_clients.py the OAuth states, the receipts  *)
(* and the callback; agents.py continues the dispatch.                     *)
(*                                                                         *)
(* The process is one event loop: a handler runs up to its next await, and *)
(* the only await inside it is the making of an authorization link.  The   *)
(* stores are in its memory: a crash loses the whole state.                *)
(***************************************************************************)
EXTENDS Integers, FiniteSets

CONSTANTS
    Incident,
    Engineers,      \* how many are authorized, by rank: the first is asked first
    MaxAttempts,    \* trusted_dispatch_max_attempts
    None

DispatchAssumption == Engineers \in Nat /\ MaxAttempts \in Nat \ {0}

VARIABLES
    pending,    \* the pending dispatches of an incident, in the order of their creation
    attempted,  \* the engineers of an incident in the dispatch history
    receipts,   \* engineers with a fresh number verification
    latest,     \* _latest_dispatch, one for the process
    tokens,     \* consent tokens that were issued and not used
    result      \* what the incident has come to

vars == <<pending, attempted, receipts, latest, tokens, result>>

Engineer == 1..Engineers
Index == 1..(MaxAttempts + 1)
Key == Incident \X Index
\* The OAuth state is live from the moment it is bound until it is consumed.  The link
\* is asked for, ready, and held by the engineer once the console got it for a token.
NoPending == [status |-> "ABSENT", engineer |-> 0, late |-> FALSE, oauth |-> "none",
              link |-> "none"]
NoDispatch == [key |-> None, link |-> FALSE]

TypeOK ==
    /\ pending \in [Key -> [status : {"ABSENT", "PENDING", "COMPLETED", "BLOCKED", "EXPIRED"},
                            engineer : 0..Engineers, late : BOOLEAN,
                            oauth : {"none", "live", "used"},
                            link : {"none", "asked", "ready", "held"}]]
    /\ attempted \in [Incident -> SUBSET Engineer]
    /\ receipts \subseteq Engineer
    /\ latest \in [key : Key \cup {None}, link : BOOLEAN]
    /\ tokens \subseteq Key
    /\ result \in [Incident -> {"none", "waiting", "APPROVED", "BLOCKED", "MANUAL"}]

Init ==
    /\ pending = [k \in Key |-> NoPending]
    /\ attempted = [i \in Incident |-> {}]
    /\ receipts = {}
    /\ latest = NoDispatch
    /\ tokens = {}
    /\ result = [i \in Incident |-> "none"]

Created(i) == {n \in Index : pending[<<i, n>>].status # "ABSENT"}
Fresh(i) == <<i, Cardinality(Created(i)) + 1>>
First(S) == CHOOSE e \in S : \A other \in S : e <= other
\* eligible(): who is enabled and available now, and not attempted, by rank.
Candidates(i) == {available \ attempted[i] : available \in SUBSET Engineer}

\* create() and bind_oauth_state(), before the await of the link.
Asked(e) == [NoPending EXCEPT !.status = "PENDING", !.engineer = e, !.oauth = "live",
                              !.link = "asked"]
\* An isolated demo makes no link: its pending dispatch is only shown.
Shown(e) == [NoPending EXCEPT !.status = "PENDING", !.engineer = e]
\* Whatever closes a pending dispatch, its OAuth state is used up with it.
Ended(t, status) == [t EXCEPT !.status = status, !.oauth = "used"]

(***************************************************************************)
(* _evaluate_field_intervention: once for an incident.                     *)
(***************************************************************************)
Trust == {"APPROVED", "BLOCKED"}

Evaluate(i) ==
    /\ result[i] = "none"
    /\ \E candidates \in Candidates(i) :
          IF candidates = {}
          THEN /\ result' = [result EXCEPT ![i] = "BLOCKED"]
               /\ UNCHANGED <<pending, attempted, latest>>
          ELSE LET e == First(candidates) IN
               /\ attempted' = [attempted EXCEPT ![i] = @ \cup {e}]
               /\ IF e \in receipts
                  THEN /\ \E trust \in Trust : result' = [result EXCEPT ![i] = trust]
                       /\ UNCHANGED <<pending, latest>>
                  ELSE /\ \/ /\ pending' = [pending EXCEPT ![Fresh(i)] = Asked(e)]
                             /\ UNCHANGED latest
                          \/ /\ pending' = [pending EXCEPT ![Fresh(i)] = Shown(e)]
                             /\ latest' = [key |-> Fresh(i), link |-> FALSE]
                       /\ result' = [result EXCEPT ![i] = "waiting"]
    /\ UNCHANGED <<receipts, tokens>>

\* The link is made, or it is not and the pending dispatch is blocked.
Link(k, made) ==
    /\ pending[k].link = "asked"
    /\ IF made
       THEN /\ pending' = [pending EXCEPT ![k].link = "ready"]
            /\ latest' = [key |-> k, link |-> TRUE]
       ELSE /\ pending' = [pending EXCEPT ![k] = [Ended(@, "BLOCKED") EXCEPT !.link = "none"]]
            /\ latest' = IF k[2] = 1 THEN [key |-> k, link |-> FALSE] ELSE latest
    /\ UNCHANGED <<attempted, receipts, tokens, result>>

(***************************************************************************)
(* The console exchanges a one-time token for the link.                    *)
(***************************************************************************)
Issue ==
    /\ latest.link
    /\ tokens' = tokens \cup {latest.key}
    /\ UNCHANGED <<pending, attempted, receipts, latest, result>>

\* A token whose dispatch is no longer the active one is used up for nothing.
Consume(k) ==
    /\ k \in tokens
    /\ tokens' = tokens \ {k}
    /\ pending' = IF latest = [key |-> k, link |-> TRUE]
                  THEN [pending EXCEPT ![k].link = "held"] ELSE pending
    /\ UNCHANGED <<attempted, receipts, latest, result>>

\* The pending dispatch is past its time.
Expire(k) ==
    /\ pending[k].status # "ABSENT" /\ ~pending[k].late
    /\ pending' = [pending EXCEPT ![k].late = TRUE]
    /\ UNCHANGED <<attempted, receipts, latest, tokens, result>>

\* A receipt lapses; an engineer is verified without a dispatch, or for another one.
Receipt(e) ==
    /\ receipts' \in {receipts \ {e}, receipts \cup {e}}
    /\ UNCHANGED <<pending, attempted, latest, tokens, result>>

(***************************************************************************)
(* The callback of the number verification, possibly a repeated one.       *)
(***************************************************************************)
\* NumberVerificationStateStore.consume(): a state is used once.
Usable(k) == pending[k].oauth = "live"

\* _start_fallback: the next engineer, unless enough were attempted.
Fallback(k) ==
    LET i == k[1]
        closed == [pending EXCEPT ![k] = Ended(@, "BLOCKED")]
    IN  /\ tokens' = tokens \ {k}
        /\ \E available \in SUBSET Engineer :
              LET left == available \ attempted'[i]
              IN  IF Cardinality(attempted'[i]) >= MaxAttempts \/ left = {}
                  THEN /\ pending' = closed
                       /\ result' = [result EXCEPT ![i] = "MANUAL"]
                  ELSE /\ pending' = [closed EXCEPT ![Fresh(i)] = Asked(First(left))]
                       /\ UNCHANGED result

Noted(k) == [attempted EXCEPT ![k[1]] = @ \cup {pending[k].engineer}]

\* Wrong: an engineer who was not verified is not noted as attempted.
FailUnnoted(k) ==
    /\ UNCHANGED attempted
    /\ latest' = [key |-> k, link |-> FALSE]
    /\ Fallback(k)

\* _handle_number_verification_failure, or a trust gate that blocks.
Fail(k) ==
    /\ attempted' = Noted(k)
    /\ latest' = [key |-> k, link |-> FALSE]
    /\ Fallback(k)

\* _resume_pending_dispatch, with a fresh receipt and no recent SIM swap.
Approve(k) ==
    /\ attempted' = Noted(k)
    /\ latest' = [key |-> k, link |-> FALSE]
    /\ pending' = [pending EXCEPT ![k] = Ended(@, "COMPLETED")]
    /\ result' = [result EXCEPT ![k[1]] = "APPROVED"]
    /\ UNCHANGED tokens

\* The state is used up though it has expired or Nokia does not answer.
CallbackFails(k) ==
    /\ pending[k].link = "held" /\ Usable(k)
    /\ pending' = [pending EXCEPT ![k].oauth = "used"]
    /\ UNCHANGED <<attempted, receipts, latest, tokens, result>>

\* consume_for_resume() looks at the time first, then at the status; the handler it
\* lets through runs in the same step.
Callback(k, verified) ==
    /\ pending[k].link = "held" /\ Usable(k)
    /\ receipts' = IF verified THEN receipts \cup {pending[k].engineer} ELSE receipts
    /\ IF ~pending[k].late /\ pending[k].status = "PENDING"
       THEN (verified /\ Approve(k)) \/ Fail(k)
       ELSE /\ pending' = [pending EXCEPT ![k] = Ended(@, IF @.late THEN "EXPIRED" ELSE @.status)]
            /\ UNCHANGED <<attempted, latest, tokens, result>>

Next ==
    \/ \E i \in Incident : Evaluate(i)
    \/ \E k \in Key, yes \in BOOLEAN : Link(k, yes) \/ Callback(k, yes)
    \/ \E k \in Key : Consume(k) \/ Expire(k) \/ CallbackFails(k)
    \/ Issue
    \/ \E e \in Engineer : Receipt(e)

Spec == Init /\ [][Next]_vars

(***************************************************************************)
(* Properties.                                                             *)
(***************************************************************************)
\* Consents that fail, expire or are never given do not make an incident ask an engineer
\* twice, two engineers at once, or more engineers than it may.
AskedOnce ==
    \A i \in Incident :
        /\ Cardinality(Created(i)) <= MaxAttempts
        /\ Cardinality({n \in Index : pending[<<i, n>>].status = "PENDING"}) <= 1
        /\ \A m, n \in Created(i) :
              m # n => pending[<<i, m>>].engineer # pending[<<i, n>>].engineer
=============================================================================
