---------------------------- MODULE MCCheckCycle ----------------------------
(* Instances of CheckCycle for TLC. *)
EXTENDS CheckCycle, TLC

CONSTANTS a, b

Two == {a, b}
Symmetry == Permutations(Two)
=============================================================================
