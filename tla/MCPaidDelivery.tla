--------------------------- MODULE MCPaidDelivery ---------------------------
(* Instances of PaidDelivery and its refinement for TLC. *)
EXTENDS DeliveryRefinement, TLC

CONSTANTS a, b, d1, d2

Symmetry == Permutations({a, b}) \cup Permutations({d1, d2})
=============================================================================
