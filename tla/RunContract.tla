---------------------------- MODULE RunContract ----------------------------
(***************************************************************************)
(* What the execution of a browser-test run promises, seen from outside:   *)
(* one attempt at a time, each ended once, a decision that follows from    *)
(* the outcomes alone, a charge at the first start that no verdict loses,  *)
(* and a settlement that comes after the refund and the report.  There     *)
(* are no invocations here, no messages, no jobs and no crashes:           *)
(* AttemptLifecycle shows how a stateless server keeps this promise.       *)
(***************************************************************************)
EXTENDS Integers

CONSTANTS
  MaxRetries,       (* functional retries of the run                       *)
  MaxInfraRetries   (* infrastructure retries of the run                   *)

VARIABLES
  tries,     (* the status of each attempt                                 *)
  current,   (* the index of the last attempt                              *)
  aborted,   (* infrastructure retries used                                *)
  verdict,   (* the verdict of the run, or NONE                            *)
  charge,    (* the usage of the run                                       *)
  refund,    (* the decision takes the charge back                         *)
  silent,    (* the run was cancelled: nothing is reported                 *)
  reported,
  settled,
  deleted    (* the browser test is deleted                               *)

vars == <<tries, current, aborted, verdict, charge, refund, silent, reported,
          settled, deleted>>

Functional == {"FAILED", "TIMEOUT"}
Verdicts == {"PASSED"} \cup Functional
Final == Verdicts \cup {"SYSTEM_ERROR"}
Open == {"QUEUED", "STARTING", "RUNNING"}

Init ==
  /\ tries = [i \in 0..MaxRetries |-> IF i = 0 THEN "QUEUED" ELSE "NONE"]
  /\ current = 0
  /\ aborted = 0
  /\ verdict = "NONE"
  /\ charge = "NONE"
  /\ refund = FALSE
  /\ silent = FALSE
  /\ reported = FALSE
  /\ settled = FALSE
  /\ deleted = FALSE

-----------------------------------------------------------------------------
(* The attempts. *)

Become(status) == tries' = [tries EXCEPT ![current] = status]

Claim ==
  /\ verdict = "NONE"
  /\ tries[current] = "QUEUED"
  /\ Become("STARTING")
  /\ UNCHANGED <<current, aborted, verdict, charge, refund, silent, reported,
                 settled, deleted>>

(* The first start of a run charges it; a run that only ever completes     *)
(* without a start is not charged.                                         *)
Start ==
  /\ verdict = "NONE"
  /\ tries[current] = "STARTING"
  /\ Become("RUNNING")
  /\ charge' = IF charge = "NONE" THEN "CHARGED" ELSE charge
  /\ UNCHANGED <<current, aborted, verdict, refund, silent, reported, settled,
                 deleted>>

(* An attempt that a runner holds takes the runner's word about the test,  *)
(* started or not; any open one can be lost.                               *)
End(outcome) ==
  /\ verdict = "NONE"
  /\ \/ tries[current] \in {"STARTING", "RUNNING"} /\ outcome \in Verdicts
     \/ tries[current] \in Open /\ outcome = "SYSTEM_ERROR"
  /\ Become(outcome)
  /\ UNCHANGED <<current, aborted, verdict, charge, refund, silent, reported,
                 settled, deleted>>

Retry ==
  /\ verdict = "NONE"
  /\ tries[current] \in Functional
  /\ current < MaxRetries
  /\ current' = current + 1
  /\ tries' = [tries EXCEPT ![current + 1] = "QUEUED"]
  /\ UNCHANGED <<aborted, verdict, charge, refund, silent, reported, settled,
                 deleted>>

Again ==
  /\ verdict = "NONE"
  /\ tries[current] = "SYSTEM_ERROR"
  /\ aborted < MaxInfraRetries
  /\ aborted' = aborted + 1
  /\ Become("QUEUED")
  /\ UNCHANGED <<current, verdict, charge, refund, silent, reported, settled,
                 deleted>>

-----------------------------------------------------------------------------
(* The decision. *)

(* An attempt lost for good leaves the word to the one before it, if any.  *)
Decision ==
  IF tries[current] = "SYSTEM_ERROR" /\ current > 0
  THEN tries[current - 1]
  ELSE tries[current]

Decide ==
  /\ verdict = "NONE"
  /\ \/ tries[current] = "PASSED"
     \/ tries[current] \in Functional /\ current = MaxRetries
     \/ tries[current] = "SYSTEM_ERROR" /\ aborted = MaxInfraRetries
  /\ verdict' = Decision
  /\ refund' = (Decision = "SYSTEM_ERROR" /\ charge = "NONE")
  /\ UNCHANGED <<tries, current, aborted, charge, silent, reported, settled,
                 deleted>>

(* A deleted test's run ends as a system error the customer does not pay. *)
Cancel ==
  /\ verdict = "NONE"
  /\ deleted
  /\ tries[current] \in Final
  /\ verdict' = "SYSTEM_ERROR"
  /\ refund' = TRUE
  /\ silent' = TRUE
  /\ UNCHANGED <<tries, current, aborted, charge, reported, settled, deleted>>

-----------------------------------------------------------------------------
(* The settlement. *)

Refund ==
  /\ refund
  /\ charge = "CHARGED"
  /\ charge' = "REVERSED"
  /\ UNCHANGED <<tries, current, aborted, verdict, refund, silent, reported,
                 settled, deleted>>

Report ==
  /\ verdict # "NONE"
  /\ ~silent
  /\ refund => charge # "CHARGED"
  /\ reported' = TRUE
  /\ UNCHANGED <<tries, current, aborted, verdict, charge, refund, silent,
                 settled, deleted>>

Settle ==
  /\ verdict # "NONE"
  /\ refund => charge # "CHARGED"
  /\ silent \/ reported
  /\ settled' = TRUE
  /\ UNCHANGED <<tries, current, aborted, verdict, charge, refund, silent,
                 reported, deleted>>

Delete ==
  /\ deleted' = TRUE
  /\ UNCHANGED <<tries, current, aborted, verdict, charge, refund, silent,
                 reported, settled>>

-----------------------------------------------------------------------------

Next ==
  \/ Claim \/ Start \/ Retry \/ Again
  \/ \E outcome \in Final : End(outcome)
  \/ Decide \/ Cancel
  \/ Refund \/ Report \/ Settle
  \/ Delete

Spec == Init /\ [][Next]_vars
=============================================================================
