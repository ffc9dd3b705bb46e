------------------------- MODULE AttemptRefinement -------------------------
(* AttemptLifecycle implements RunContract: whatever the invocations do to *)
(* one another, the rows of the run change as if a single actor moved it.  *)
EXTENDS AttemptLifecycle

(* The rows, as RunContract sees them.                                     *)
Tries == [i \in Index |-> attempt[i].status]
Verdict == IF Terminal THEN run.status ELSE "NONE"
Silent == final.status # "NONE" /\ ~final.handle
Closed == final.status = "COMPLETED"

Contract == INSTANCE RunContract WITH
  tries    <- Tries,
  current  <- Last,
  aborted  <- run.infra,
  verdict  <- Verdict,
  charge   <- usage,
  refund   <- final.reverse,
  silent   <- Silent,
  reported <- handled,
  settled  <- Closed

(* The concurrent handlers keep the promise of RunContract: each of their  *)
(* database calls is one step of the sequential run, or none               *)
(* (attempt_lifecycle.ts and external_runner.ts as a whole).               *)
ImplementsContract == Contract!Spec
=============================================================================
