------------------------- MODULE DeliveryRefinement -------------------------
(* PaidDelivery implements DeliveryContract: however consumers overlap,    *)
(* outlive their leases and stop, the workspace sees alerts that are       *)
(* charged, sent and refunded one step at a time.                          *)
EXTENDS PaidDelivery

(* The row of a delivery, as DeliveryContract sees it.                     *)
Outcome == [d \in Deliveries |->
  CASE rows[d].status # "PENDING" -> rows[d].status
    [] rows[d].status = "PENDING" /\ rows[d].dispatch = "AMBIGUOUS"
         -> "UNCLEAR"
    [] OTHER -> "WAITING"]

Contract == INSTANCE DeliveryContract WITH
  MaxCalls <- MaxAttempts,
  open     <- operational,
  outcome  <- Outcome,
  today    <- recent,
  told     <- events

(* The consumers keep the promise of DeliveryContract: each of their       *)
(* statements and calls is one step of a delivery, or none                 *)
(* (send_queued_notification.ts and charge_paid_delivery.ts as a whole).   *)
ImplementsDelivery == Contract!Spec
=============================================================================
