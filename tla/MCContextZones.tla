--------------------------- MODULE MCContextZones ---------------------------
(* Instances of ContextZones: histories that give stage 2 a short block,   *)
(* one behind a front, two behind a window that layer 1 holds open, and    *)
(* three.                                                                  *)
EXTENDS ContextZones, TLC

History(t, r, n) == [turns |-> t, rows |-> r, cursor |-> n]

Histories == {History(4, 8, 0), History(7, 15, 2), History(12, 25, 3),
              History(20, 40, 20)}

CallSymmetry == Permutations(Calls)

=============================================================================
