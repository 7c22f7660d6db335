----------------------------- MODULE MCToolLoop -----------------------------
(***************************************************************************)
(* Values for the constants of ToolLoop.                                   *)
(***************************************************************************)
EXTENDS ToolLoop, TLC

\* Calls, suspensions and approvals are interchangeable.
Symmetry == Permutations(Calls) \cup Permutations(Suspensions) \cup Permutations(Approvals)
=============================================================================
