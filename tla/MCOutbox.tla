------------------------------ MODULE MCOutbox ------------------------------
(***************************************************************************)
(* Instances of Outbox for TLC.                                            *)
(***************************************************************************)
EXTENDS Outbox, TLC

CONSTANTS c1, c2

TwoRows == {1, 2}
TwoConsumers == {c1, c2}
ConsumerSymmetry == Permutations(TwoConsumers)
=============================================================================
