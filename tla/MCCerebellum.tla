---------------------------- MODULE MCCerebellum ----------------------------
(* Cerebellum with values for its constants.  Sessions and the ticks of    *)
(* one layer are interchangeable; the runs with liveness use no symmetry.  *)
EXTENDS Cerebellum, TLC

Symmetry == Permutations(L1Ticks) \cup Permutations(L2Ticks) \cup Permutations(Sessions)

=============================================================================
