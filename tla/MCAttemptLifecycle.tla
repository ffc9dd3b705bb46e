------------------------- MODULE MCAttemptLifecycle -------------------------
(* Instances of AttemptLifecycle for TLC: two invocations that serve       *)
(* requests, one that runs maintenance (in the safety runs one of the two  *)
(* invocations may do both), and two runner deliveries.                    *)
EXTENDS AttemptLifecycle

CONSTANTS r1, r2, c1, d1, d2
=============================================================================
