--------------------------- MODULE MCQueueOutbox ---------------------------
(* Instances of QueueOutbox for TLC. *)
EXTENDS QueueOutbox, TLC

CONSTANTS a, b

Two == {a, b}
Symmetry == Permutations(Two)
=============================================================================
