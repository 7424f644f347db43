------------------------------- MODULE MCPlanRun -------------------------------
(***************************************************************************)
(* Small instances of PlanRun for TLC.                                     *)
(***************************************************************************)
EXTENDS PlanRun, TLC

CONSTANTS a, b, c, absent, c1, c2

Symmetry == Permutations(Calls) \cup Permutations({b, c})

\* Three independent steps: more than one batch, with the budget used up between them.
Wide == a :> {} @@ b :> {} @@ c :> {}

\* Two steps that need a first one: the budget cuts their batch.
Tree == a :> {} @@ b :> {a} @@ c :> {a}

\* Two steps waiting for each other beside one that waits for nothing.
Cycle == a :> {} @@ b :> {c} @@ c :> {b}

\* A step that needs one that is not there.
Lack == a :> {absent}

BroadGraphs == {Tree, Cycle, Lack}

FlatGraphs == {Wide}
=============================================================================
