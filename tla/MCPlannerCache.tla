--------------------------- MODULE MCPlannerCache ---------------------------
(***************************************************************************)
(* Small instances of module PlannerCache for TLC: threads and keys are    *)
(* interchangeable.                                                        *)
(***************************************************************************)
EXTENDS PlannerCache, TLC

Symmetry == Permutations(Threads) \cup Permutations(Keys)
=============================================================================
