-------------------------- MODULE DeliveryContract --------------------------
(***************************************************************************)
(* What the delivery of paid alerts promises, seen from outside: credit is *)
(* taken once and before the provider is called, a call follows only calls *)
(* that were rejected, an outcome is final unless it was unclear, credit   *)
(* comes back only for what the provider rejected or was not asked, and    *)
(* the incident is told no outcome that is not there.  There are no        *)
(* workers here, no leases, no messages and no faults: PaidDelivery shows  *)
(* how overlapping consumers keep this promise.                            *)
(***************************************************************************)
EXTENDS Integers, FiniteSets

CONSTANTS
  Deliveries,  (* alerts of one workspace, each to the paid channel        *)
  Credit,      (* prepaid credit at first, in alerts                       *)
  DailyLimit,  (* alerts a day                                             *)
  MaxCalls     (* calls of the provider for an alert                       *)

VARIABLES
  open,        (* the workspace is not under deletion                      *)
  outcome,     (* of each delivery                                         *)
  balance,
  charged,     (* deliveries credit was taken for                          *)
  refunded,    (* deliveries it was given back for                         *)
  today,       (* deliveries charged in the last twenty-four hours         *)
  calls,       (* calls of the provider                                    *)
  rejections,  (* calls it has rejected                                    *)
  accepted,    (* deliveries it has accepted                               *)
  told         (* what the incidents say                                   *)

vars == <<open, outcome, balance, charged, refunded, today, calls, rejections,
          accepted, told>>

Init ==
  /\ open = TRUE
  /\ outcome = [d \in Deliveries |-> "WAITING"]
  /\ balance = Credit
  /\ charged = {}
  /\ refunded = {}
  /\ today = {}
  /\ calls = [d \in Deliveries |-> 0]
  /\ rejections = [d \in Deliveries |-> 0]
  /\ accepted = {}
  /\ told = {}

-----------------------------------------------------------------------------
(* An unclear delivery may still turn out to be sent. *)
Undecided(d) == outcome[d] \in {"WAITING", "UNCLEAR"}

(* Every call so far has been rejected. *)
Refused(d) == calls[d] = rejections[d]

Decide(d, result) == outcome' = [outcome EXCEPT ![d] = result]

(* A charge that was on its way when the workspace closed still counts. *)
Take(d) ==
  /\ open => Undecided(d)
  /\ d \notin charged
  /\ balance >= 1
  /\ Cardinality(today \ refunded) < DailyLimit
  /\ balance' = balance - 1
  /\ charged' = charged \cup {d}
  /\ today' = today \cup {d}
  /\ UNCHANGED <<open, outcome, refunded, calls, rejections, accepted, told>>

(* A call that was on its way when the workspace closed is made, although  *)
(* its delivery has failed with the workspace.                             *)
Ask(d, accepts) ==
  /\ open => Undecided(d)
  /\ d \in charged \ refunded
  /\ Refused(d)
  /\ calls[d] < MaxCalls
  /\ calls' = [calls EXCEPT ![d] = @ + 1]
  /\ accepted' = IF accepts THEN accepted \cup {d} ELSE accepted
  /\ UNCHANGED <<open, outcome, balance, charged, refunded, today, rejections,
                 told>>

Reject(d) ==
  /\ d \notin accepted
  /\ rejections[d] < calls[d]
  /\ rejections' = [rejections EXCEPT ![d] = @ + 1]
  /\ UNCHANGED <<open, outcome, balance, charged, refunded, today, calls,
                 accepted, told>>

Succeed(d) ==
  /\ Undecided(d)
  /\ d \in accepted
  /\ Decide(d, "SENT")
  /\ UNCHANGED <<open, balance, charged, refunded, today, calls, rejections,
                 accepted, told>>

GiveUp(d) ==
  /\ outcome[d] = "WAITING"
  /\ Refused(d)
  /\ Decide(d, "FAILED")
  /\ UNCHANGED <<open, balance, charged, refunded, today, calls, rejections,
                 accepted, told>>

Doubt(d) ==
  /\ outcome[d] = "WAITING"
  /\ Decide(d, "UNCLEAR")
  /\ UNCHANGED <<open, balance, charged, refunded, today, calls, rejections,
                 accepted, told>>

GiveBack(d) ==
  /\ open
  /\ outcome[d] \in {"FAILED", "UNCLEAR"}
  /\ d \in charged \ refunded
  /\ Refused(d)
  /\ balance' = balance + 1
  /\ refunded' = refunded \cup {d}
  /\ UNCHANGED <<open, outcome, charged, today, calls, rejections, accepted,
                 told>>

(* An unclear delivery is told as failed. *)
Tell(d, result) ==
  /\ result = "SENT" => outcome[d] = "SENT"
  /\ result = "FAILED" => outcome[d] # "WAITING"
  /\ told' = told \cup {<<d, result>>}
  /\ UNCHANGED <<open, outcome, balance, charged, refunded, today, calls,
                 rejections, accepted>>

(* The deletion of the workspace ends what is undecided. *)
Close ==
  /\ open
  /\ open' = FALSE
  /\ outcome' = [d \in Deliveries |->
                   IF Undecided(d) THEN "FAILED" ELSE outcome[d]]
  /\ UNCHANGED <<balance, charged, refunded, today, calls, rejections,
                 accepted, told>>

NextDay ==
  /\ today' = {}
  /\ UNCHANGED <<open, outcome, balance, charged, refunded, calls, rejections,
                 accepted, told>>

-----------------------------------------------------------------------------

Next ==
  \/ \E d \in Deliveries :
       \/ Take(d) \/ Reject(d) \/ Succeed(d) \/ GiveUp(d) \/ Doubt(d)
       \/ GiveBack(d)
       \/ \E accepts \in BOOLEAN : Ask(d, accepts)
       \/ \E result \in {"SENT", "FAILED"} : Tell(d, result)
  \/ Close \/ NextDay

Spec == Init /\ [][Next]_vars
=============================================================================
