------------------------ MODULE MCWorkspaceDeletion ------------------------
(* Instances of WorkspaceDeletion for TLC. *)
EXTENDS WorkspaceDeletion, TLC

CONSTANTS a, b, h1, h2, u1

Symmetry == Permutations({a, b}) \cup Permutations({h1, h2})
=============================================================================
