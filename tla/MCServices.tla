----------------------------- MODULE MCServices -----------------------------
(***************************************************************************)
(* An instance of Services for TLC.                                        *)
(***************************************************************************)
EXTENDS Services, TLC

CONSTANTS h1, h2, c1, c2, p1, p2, r1, r2, r3, k1, k2, crit, bulk, t1

\* Two processes review one incident, or one process a replanned one that fails.
MCDeployment == {"pair", "solo"}
MCHandlersOf == "pair" :> {h1, h2} @@ "solo" :> {h1}
MCCandidatesOf == "pair" :> {c1} @@ "solo" :> {c1, c2}
MCRowsOf == "pair" :> 1 @@ "solo" :> 2
MCPlansOf == "pair" :> 2 @@ "solo" :> 2
MCFaultsOf == "pair" :> 0 @@ "solo" :> 1

\* A High reading, a later one, and a reachability reading that comes late.
MCTimeOf == r1 :> 1 @@ r2 :> 2 @@ r3 :> 1
MCKindOf == r1 :> "congestion" @@ r2 :> "congestion" @@ r3 :> "reachability"
MCHighOf == r1 :> TRUE @@ r2 :> TRUE @@ r3 :> FALSE

MCCheckpoint == {"a", "b", "c", "d"}
MCWriterOf == "a" :> p1 @@ "b" :> p1 @@ "c" :> p2 @@ "d" :> p2

\* The scheduler's cycle beside a demo or a durable one; one cell with a critical
\* and a bulk device, of which a cycle may reconfigure one.
MCKindsOf == k1 :> {"standard"} @@ k2 :> {"demo", "field", "unisolated_field", "durable"}
MCTier == crit :> 1 @@ bulk :> 3
MCCellOf == crit :> t1 @@ bulk :> t1
MCFixtureLevel == t1 :> 3
=============================================================================
