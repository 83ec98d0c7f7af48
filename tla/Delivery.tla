------------------------------ MODULE Delivery ------------------------------
(***************************************************************************)
(* What the outbox promises to the services that write to it and to the    *)
(* handlers behind it: a row that was offered stays open until a handler   *)
(* has completed it, it is closed once and for all, and it may be handled  *)
(* any number of times, even after it is closed.                           *)
(***************************************************************************)
CONSTANT Row

VARIABLES
    work,       \* what the writers see of each row
    handled     \* rows a handler has completed at least once

vars == <<work, handled>>

TypeOK ==
    /\ work \in [Row -> {"none", "open", "closed"}]
    /\ handled \in SUBSET Row

Init ==
    /\ work = [r \in Row |-> "none"]
    /\ handled = {}

Offer(r) ==
    /\ work[r] = "none"
    /\ work' = [work EXCEPT ![r] = "open"]
    /\ UNCHANGED handled

Complete(r) ==
    /\ work[r] # "none"
    /\ handled' = handled \cup {r}
    /\ UNCHANGED work

Close(r) ==
    /\ work[r] = "open"
    /\ r \in handled
    /\ work' = [work EXCEPT ![r] = "closed"]
    /\ UNCHANGED handled

Next == \E r \in Row : Offer(r) \/ Complete(r) \/ Close(r)

Spec == Init /\ [][Next]_vars
=============================================================================
