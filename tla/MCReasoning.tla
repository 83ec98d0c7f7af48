---------------------------- MODULE MCReasoning ----------------------------
(***************************************************************************)
(* Reasoning for TLC: one process and a plan of one candidate.             *)
(***************************************************************************)
EXTENDS Reasoning

CONSTANTS h1, c1

OneHandler == {h1}
OneCandidate == {c1}
=============================================================================
