---------------------------- MODULE MCSupervisor ----------------------------
(***************************************************************************)
(* Supervisor instantiated for TLC.  Ids are model values; any two         *)
(* sessions and any two events are alike.                                  *)
(***************************************************************************)
EXTENDS Supervisor, TLC

Symmetry == Permutations(Sessions) \cup Permutations(Events)
=============================================================================
