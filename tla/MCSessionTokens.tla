-------------------------- MODULE MCSessionTokens --------------------------
(* Instances of SessionTokens for TLC. *)
EXTENDS SessionTokens, TLC

CONSTANTS a, b

Symmetry == Permutations(Procs)
=============================================================================
