------------------------ MODULE MCAttemptRefinement ------------------------
(* An instance of AttemptRefinement for TLC. *)
EXTENDS AttemptRefinement

CONSTANTS r1, r2, d1
=============================================================================
