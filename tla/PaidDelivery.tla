---------------------------- MODULE PaidDelivery ----------------------------
(***************************************************************************)
(* Deliveries of alerts over a paid channel: queue consumers claim a       *)
(* delivery, charge the prepaid credit of the workspace, call the provider *)
(* and record what it answered, while leases end, workers are evicted, the *)
(* channel is disabled, paid alerts are turned off and the workspace is    *)
(* tombstoned.                                                             *)
(*                                                                         *)
(* Invocations stop at every await.  A message is delivered until it is    *)
(* acknowledged, to overlapping invocations too (QueueOutbox models how).  *)
(***************************************************************************)
EXTENDS Integers, FiniteSets

CONSTANTS
  Procs,       (* invocations of the notify consumer                     *)
  Nobody,      (* no invocation                                          *)
  Deliveries,  (* deliveries of one workspace, each to the paid channel  *)
  Credit,      (* prepaid credit at first, in alerts: all cost the same  *)
  DailyLimit,  (* dailyPaidAlertLimit                                    *)
  MaxFaults,   (* bound: evictions and failed calls                      *)
  MaxChanges   (* bound: changes of the workspace, and days that pass    *)

ASSUME PaidAssumption ==
  /\ Nobody \notin Procs
  /\ IsFiniteSet(Deliveries)
  /\ Credit \in Nat
  /\ DailyLimit \in Nat
  /\ MaxFaults \in Nat
  /\ MaxChanges \in Nat

VARIABLES
  rows,       (* notification_deliveries                                 *)
  queue,      (* deliveries whose message is not acknowledged            *)
  operational,(* the workspace is ACTIVE                                 *)
  enabled,    (* the channel is enabled                                  *)
  paidOn,     (* paidChannelsEnabled of the workspace                    *)
  balance,    (* alert_credit_balances                                   *)
  charged,    (* deliveries with a CHARGE entry                          *)
  keyed,      (* deliveries whose charge is found by its idempotency key *)
  refunded,   (* deliveries with a REFUND entry                          *)
  recent,     (* deliveries charged in the last twenty-four hours        *)
  events,     (* incident_events of the deliveries                       *)
  calls,      (* history: provider calls made for a delivery             *)
  rejections, (* history: calls the provider has rejected                *)
  accepted,   (* history: deliveries the provider has accepted           *)
  proc,       (* local state of every invocation                         *)
  faults,
  changes

vars == <<rows, queue, operational, enabled, paidOn, balance, charged, keyed,
          refunded, recent, events, calls, rejections, accepted, proc, faults,
          changes>>

MaxAttempts == 3

(* A running lease ends five minutes after the claim.                      *)
Row == [status : {"PENDING", "SENT", "FAILED"},
        dispatch : {"READY", "DISPATCHING", "AMBIGUOUS", "CONFIRMED"},
        owner : Procs \cup {Nobody}, leased : BOOLEAN,
        attempts : 0..MaxAttempts]
Fresh == [status |-> "PENDING", dispatch |-> "READY", owner |-> Nobody,
          leased |-> FALSE, attempts |-> 0]

Answer == {"accepted", "rejected", "unclear"}

(* attempt is the attempt count the claim returned, result what the        *)
(* invocation reports to the incident.                                     *)
Local == [pc : {"idle", "row", "channel", "remove", "removed", "operational",
                "begin", "stale", "recheck", "charge", "debit", "lastCheck",
                "stopRefund", "stopped", "call", "send", "skip", "conclude",
                "failed", "again", "refund", "ambiguous", "sent", "accept",
                "reconcile", "ack"},
          delivery : Deliveries \cup {Nobody}, attempt : 0..MaxAttempts,
          answer : Answer \cup {"none"}, result : {"none", "SENT", "FAILED"}]
Idle == [pc |-> "idle", delivery |-> Nobody, attempt |-> 0,
         answer |-> "none", result |-> "none"]

TypeOK ==
  /\ rows \in [Deliveries -> Row]
  /\ queue \subseteq Deliveries
  /\ operational \in BOOLEAN
  /\ enabled \in BOOLEAN
  /\ paidOn \in BOOLEAN
  /\ balance \in Int
  /\ charged \subseteq Deliveries
  /\ keyed \subseteq charged
  /\ refunded \subseteq charged
  /\ recent \subseteq charged
  /\ events \subseteq Deliveries \X {"SENT", "FAILED"}
  /\ calls \in [Deliveries -> Nat]
  /\ rejections \in [Deliveries -> Nat]
  /\ accepted \subseteq Deliveries
  /\ proc \in [Procs -> Local]
  /\ faults \in Nat
  /\ changes \in Nat

Init ==
  /\ rows = [d \in Deliveries |-> Fresh]
  /\ queue = Deliveries
  /\ operational = TRUE
  /\ enabled = TRUE
  /\ paidOn = TRUE
  /\ balance = Credit
  /\ charged = {}
  /\ keyed = {}
  /\ refunded = {}
  /\ recent = {}
  /\ events = {}
  /\ calls = [d \in Deliveries |-> 0]
  /\ rejections = [d \in Deliveries |-> 0]
  /\ accepted = {}
  /\ proc = [p \in Procs |-> Idle]
  /\ faults = 0
  /\ changes = 0

ledger == <<balance, charged, keyed, refunded, recent>>
workspace == <<operational, enabled, paidOn, changes>>
provider == <<calls, rejections, accepted>>

-----------------------------------------------------------------------------
(* Helpers. *)

At(p, step) == proc[p].pc = step
Become(p, local) == proc' = [proc EXCEPT ![p] = local]
Goto(p, step) == Become(p, [proc[p] EXCEPT !.pc = step])

(* Local effects that follow the terminal state of the delivery.           *)
Report(p, result) ==
  Become(p, [proc[p] EXCEPT !.pc = "reconcile", !.result = result])

(* The same inside the try block, where an error reaches the catch block.  *)
Conclude(p) ==
  Become(p, [proc[p] EXCEPT !.pc = "conclude", !.result = "FAILED"])

(* queueMessage.retry, or a throw the consumer turns into one.             *)
RetryLater(p) == Become(p, Idle)

ReadOnly == UNCHANGED <<rows, queue, workspace, ledger, events, provider, faults>>

(* Mutant: a delivery whose outcome is ambiguous is claimed again.         *)
ClaimableAmbiguous(d) ==
  /\ operational
  /\ rows[d].status = "PENDING"
  /\ rows[d].dispatch \in {"READY", "AMBIGUOUS"}
  /\ rows[d].attempts < MaxAttempts

(* The WHERE of beginDispatch.                                             *)
Claimable(d) ==
  /\ operational
  /\ rows[d].status = "PENDING"
  /\ rows[d].dispatch = "READY"

Dispatched(p) ==
  [rows[proc[p].delivery] EXCEPT !.dispatch = "DISPATCHING", !.owner = p,
                                 !.leased = TRUE, !.attempts = @ + 1]

(* beginDispatch.                                                          *)
BeginDispatch(p, step) ==
  LET d == proc[p].delivery IN
  /\ Claimable(d)
  /\ rows' = [rows EXCEPT ![d] = Dispatched(p)]
  /\ Become(p, [proc[p] EXCEPT !.pc = step,
                               !.attempt = rows[d].attempts + 1])

(* Mutant: the token of the row is not compared.                           *)
OwnsAnyPending(p) == rows[proc[p].delivery].status = "PENDING"

(* The WHERE of finishDispatch and markDispatchAmbiguous.                  *)
Owns(p) ==
  LET row == rows[proc[p].delivery] IN
  row.status = "PENDING" /\ row.dispatch = "DISPATCHING" /\ row.owner = p

Settled(row, status, dispatch) ==
  [row EXCEPT !.status = status, !.dispatch = dispatch, !.owner = Nobody,
              !.leased = FALSE]

(* The statement changes the row only if the invocation still owns it.     *)
FinishDispatch(p, status, dispatch) ==
  rows' = IF Owns(p)
          THEN [rows EXCEPT ![proc[p].delivery] = Settled(@, status, dispatch)]
          ELSE rows

-----------------------------------------------------------------------------
(* SendQueuedNotification.execute, up to the claim. *)

Deliver(p, d) ==
  /\ At(p, "idle")
  /\ d \in queue
  /\ Become(p, [Idle EXCEPT !.pc = "row", !.delivery = d])
  /\ ReadOnly

(* Mutant: the message of a terminal delivery is acknowledged at once.     *)
ReadRowSilent(p) ==
  LET row == rows[proc[p].delivery] IN
  /\ At(p, "row")
  /\ Goto(p, IF row.status # "PENDING" \/ row.dispatch = "AMBIGUOUS"
             THEN "ack" ELSE "channel")
  /\ ReadOnly

(* A terminal delivery is only reported, which completes local effects.    *)
ReadRow(p) ==
  LET row == rows[proc[p].delivery] IN
  /\ At(p, "row")
  /\ IF row.status # "PENDING" \/ row.dispatch = "AMBIGUOUS"
     THEN Report(p, IF row.status = "SENT" THEN "SENT" ELSE "FAILED")
     ELSE Goto(p, "channel")
  /\ ReadOnly

ReadChannel(p) ==
  /\ At(p, "channel")
  /\ Goto(p, IF enabled THEN "operational" ELSE "remove")
  /\ ReadOnly

(* markRemoved claims the delivery before it fails it.                     *)
ClaimRemoved(p) ==
  /\ At(p, "remove")
  /\ BeginDispatch(p, "removed")
  /\ UNCHANGED <<queue, workspace, ledger, events, provider, faults>>

NotRemovable(p) ==
  /\ At(p, "remove")
  /\ ~Claimable(proc[p].delivery)
  /\ Goto(p, "ack")
  /\ ReadOnly

(* markRemoved and finishRemovedClaim.                                     *)
FinishRemoved(p) ==
  /\ At(p, "removed")
  /\ FinishDispatch(p, "FAILED", "CONFIRMED")
  /\ IF Owns(p) THEN Report(p, "FAILED") ELSE Goto(p, "ack")
  /\ UNCHANGED <<queue, workspace, ledger, events, provider, faults>>

CheckOperational(p) ==
  /\ At(p, "operational")
  /\ Goto(p, IF operational THEN "begin" ELSE "ack")
  /\ ReadOnly

Begin(p) ==
  /\ At(p, "begin")
  /\ BeginDispatch(p, "recheck")
  /\ UNCHANGED <<queue, workspace, ledger, events, provider, faults>>

BeginRefused(p) ==
  /\ At(p, "begin")
  /\ ~Claimable(proc[p].delivery)
  /\ Goto(p, "stale")
  /\ ReadOnly

(* The WHERE of markStaleDispatchAmbiguous.                                *)
Stale(d) ==
  /\ rows[d].status = "PENDING"
  /\ rows[d].dispatch = "DISPATCHING"
  /\ ~rows[d].leased

MarkStale(p) ==
  LET d == proc[p].delivery IN
  /\ At(p, "stale")
  /\ Stale(d)
  /\ rows' = [rows EXCEPT ![d] = Settled(@, "PENDING", "AMBIGUOUS")]
  /\ Report(p, "FAILED")
  /\ UNCHANGED <<queue, workspace, ledger, events, provider, faults>>

NotStale(p) ==
  /\ At(p, "stale")
  /\ ~Stale(proc[p].delivery)
  /\ RetryLater(p)
  /\ ReadOnly

Recheck(p) ==
  /\ At(p, "recheck")
  /\ Goto(p, IF operational THEN "charge" ELSE "removed")
  /\ ReadOnly

-----------------------------------------------------------------------------
(* ChargePaidDelivery. *)

(* The entry of an earlier attempt, and the settings.                      *)
ReadCharge(p) ==
  /\ At(p, "charge")
  /\ Goto(p, CASE proc[p].delivery \in keyed -> "lastCheck"
               [] proc[p].delivery \notin keyed /\ ~paidOn -> "skip"
               [] OTHER -> "debit")
  /\ ReadOnly

Unrefunded == recent \ refunded

(* Mutant: the limit is off by one.                                        *)
AffordableOneMore == balance >= 1 /\ DailyLimit >= Cardinality(Unrefunded)

(* The WHERE of the balance update in debitWithinDailyLimit.               *)
Affordable == balance >= 1 /\ DailyLimit > Cardinality(Unrefunded)

(* debitWithinDailyLimit: balance and entry in one batch.  After the       *)
(* tombstone a trigger scrubs the idempotency key of the entry: the        *)
(* repository does not find what it wrote and reports a refusal.           *)
Debit(p) ==
  LET d == proc[p].delivery IN
  /\ At(p, "debit")
  /\ d \notin keyed
  /\ Affordable
  /\ balance' = balance - 1
  /\ charged' = charged \cup {d}
  /\ recent' = recent \cup {d}
  /\ keyed' = IF operational THEN keyed \cup {d} ELSE keyed
  /\ Goto(p, IF operational THEN "lastCheck" ELSE "skip")
  /\ UNCHANGED <<rows, queue, workspace, refunded, events, provider, faults>>

(* The entry is there already, or nothing could be taken.                  *)
NotDebited(p) ==
  LET d == proc[p].delivery IN
  /\ At(p, "debit")
  /\ d \in keyed \/ ~Affordable
  /\ Goto(p, IF d \in keyed THEN "lastCheck" ELSE "skip")
  /\ ReadOnly

(* Whoever owns the row now, the invocation reports a failure.             *)
Skip(p) ==
  /\ At(p, "skip")
  /\ FinishDispatch(p, "FAILED", "CONFIRMED")
  /\ Conclude(p)
  /\ UNCHANGED <<queue, workspace, ledger, events, provider, faults>>

(* credit: the balance row is upserted first, which a trigger aborts after *)
(* the tombstone; refundSafely swallows the error.                         *)
Refund(d) ==
  IF operational /\ d \in keyed \ refunded
  THEN /\ balance' = balance + 1
       /\ refunded' = refunded \cup {d}
       /\ UNCHANGED <<charged, keyed, recent>>
  ELSE UNCHANGED ledger

-----------------------------------------------------------------------------
(* The provider call and what is recorded of it. *)

LastCheck(p) ==
  /\ At(p, "lastCheck")
  /\ Goto(p, IF operational THEN "call" ELSE "stopRefund")
  /\ ReadOnly

StopRefund(p) ==
  /\ At(p, "stopRefund")
  /\ Refund(proc[p].delivery)
  /\ Goto(p, "stopped")
  /\ UNCHANGED <<rows, queue, workspace, events, provider, faults>>

(* finishRemovedClaim after the refund.                                    *)
FinishStopped(p) ==
  /\ At(p, "stopped")
  /\ FinishDispatch(p, "FAILED", "CONFIRMED")
  /\ IF Owns(p) THEN Conclude(p) ELSE Goto(p, "ack")
  /\ UNCHANGED <<queue, workspace, ledger, events, provider, faults>>

(* The provider takes the call and its answer is on the way: a timeout or  *)
(* a broken connection leaves open whether it has accepted.  The workspace *)
(* may have been tombstoned since the last check.                          *)
Send(p, answer, accepts) ==
  LET d == proc[p].delivery IN
  /\ At(p, "call")
  /\ answer = "accepted" => accepts
  /\ answer = "rejected" => ~accepts
  /\ calls' = [calls EXCEPT ![d] = @ + 1]
  /\ accepted' = IF accepts THEN accepted \cup {d} ELSE accepted
  /\ Become(p, [proc[p] EXCEPT !.pc = "send", !.answer = answer])
  /\ UNCHANGED <<rows, queue, workspace, ledger, events, rejections, faults>>

(* Mutant: an unclear answer is taken for a rejection.                     *)
AfterErrorRetrying(p, answer) ==
  IF proc[p].attempt < MaxAttempts THEN "again" ELSE "failed"

(* Mutant: one attempt too many.                                           *)
AfterErrorOnceMore(p, answer) ==
  IF answer = "unclear" THEN "ambiguous"
  ELSE IF proc[p].attempt <= MaxAttempts THEN "again" ELSE "failed"

(* The catch block.                                                        *)
AfterError(p, answer) ==
  IF answer = "unclear" THEN "ambiguous"
  ELSE IF proc[p].attempt < MaxAttempts THEN "again" ELSE "failed"

Answered(p) ==
  LET answer == proc[p].answer IN
  /\ At(p, "send")
  /\ rejections' = IF answer = "rejected"
                   THEN [rejections EXCEPT ![proc[p].delivery] = @ + 1]
                   ELSE rejections
  /\ Goto(p, IF answer = "accepted" THEN "sent" ELSE AfterError(p, answer))
  /\ UNCHANGED <<rows, queue, workspace, ledger, events, calls, accepted,
                 faults>>

TryAgain(p) ==
  /\ At(p, "again")
  /\ FinishDispatch(p, "PENDING", "READY")
  /\ RetryLater(p)
  /\ UNCHANGED <<queue, workspace, ledger, events, provider, faults>>

Failed(p) ==
  /\ At(p, "failed")
  /\ FinishDispatch(p, "FAILED", "CONFIRMED")
  /\ Goto(p, "refund")
  /\ UNCHANGED <<queue, workspace, ledger, events, provider, faults>>

RefundFailed(p) ==
  /\ At(p, "refund")
  /\ Refund(proc[p].delivery)
  /\ Report(p, "FAILED")
  /\ UNCHANGED <<rows, queue, workspace, events, provider, faults>>

MarkAmbiguous(p) ==
  /\ At(p, "ambiguous")
  /\ FinishDispatch(p, "PENDING", "AMBIGUOUS")
  /\ IF Owns(p) THEN Report(p, "FAILED") ELSE Goto(p, "ack")
  /\ UNCHANGED <<queue, workspace, ledger, events, provider, faults>>

Sent(p) ==
  /\ At(p, "sent")
  /\ FinishDispatch(p, "SENT", "CONFIRMED")
  /\ IF Owns(p) THEN Report(p, "SENT") ELSE Goto(p, "accept")
  /\ UNCHANGED <<queue, workspace, ledger, events, provider, faults>>

(* recordProviderAcceptance.                                               *)
Accept(p) ==
  LET d == proc[p].delivery IN
  /\ At(p, "accept")
  /\ rows[d].status = "PENDING"
  /\ rows[d].dispatch = "AMBIGUOUS"
  /\ rows' = [rows EXCEPT ![d] = Settled(@, "SENT", "CONFIRMED")]
  /\ Report(p, "SENT")
  /\ UNCHANGED <<queue, workspace, ledger, events, provider, faults>>

AcceptRefused(p) ==
  LET d == proc[p].delivery IN
  /\ At(p, "accept")
  /\ ~(rows[d].status = "PENDING" /\ rows[d].dispatch = "AMBIGUOUS")
  /\ RetryLater(p)
  /\ ReadOnly

(* reconcileTerminal: the event is written once per type.                  *)
Reconcile(p) ==
  /\ proc[p].pc \in {"reconcile", "conclude"}
  /\ events' = events \cup {<<proc[p].delivery, proc[p].result>>}
  /\ Goto(p, "ack")
  /\ UNCHANGED <<rows, queue, workspace, ledger, provider, faults>>

Ack(p) ==
  /\ At(p, "ack")
  /\ queue' = queue \ {proc[p].delivery}
  /\ Become(p, Idle)
  /\ UNCHANGED <<rows, workspace, ledger, events, provider, faults>>

-----------------------------------------------------------------------------
(* Faults and the surroundings. *)

(* A call of the try block other than the provider call throws: the catch  *)
(* block handles it, also when the row is FAILED already.                  *)
Throw(p) ==
  /\ proc[p].pc \in {"charge", "debit", "lastCheck", "skip", "stopped",
                     "conclude"}
  /\ faults < MaxFaults
  /\ faults' = faults + 1
  /\ Goto(p, AfterError(p, "none"))
  /\ UNCHANGED <<rows, queue, workspace, ledger, events, provider>>

(* refundSafely swallows the error of the refund.                          *)
RefundThrows(p) ==
  /\ proc[p].pc \in {"refund", "stopRefund"}
  /\ faults < MaxFaults
  /\ faults' = faults + 1
  /\ IF At(p, "refund") THEN Report(p, "FAILED") ELSE Goto(p, "stopped")
  /\ UNCHANGED <<rows, queue, workspace, ledger, events, provider>>

(* The token of an invocation that has ended is in no later invocation.    *)
Forget(p) == rows' = [d \in Deliveries |->
  IF rows[d].owner = p THEN [rows[d] EXCEPT !.owner = Nobody] ELSE rows[d]]

(* The invocation is evicted, or a call outside the try block throws.      *)
Stop(p) ==
  /\ ~At(p, "idle")
  /\ faults < MaxFaults
  /\ faults' = faults + 1
  /\ Become(p, Idle)
  /\ Forget(p)
  /\ UNCHANGED <<queue, workspace, ledger, events, provider>>

(* Five minutes pass since the claim.                                      *)
LeaseEnds(d) ==
  /\ rows[d].leased
  /\ rows' = [rows EXCEPT ![d].leased = FALSE]
  /\ UNCHANGED <<queue, workspace, ledger, events, provider, proc, faults>>

Change == changes < MaxChanges /\ changes' = changes + 1

(* Twenty-four hours pass.                                                 *)
DayPasses ==
  /\ Change
  /\ recent # {}
  /\ recent' = {}
  /\ UNCHANGED <<rows, queue, operational, enabled, paidOn, balance, charged,
                 keyed, refunded, events, provider, proc, faults>>

DisableChannel ==
  /\ Change
  /\ enabled
  /\ enabled' = FALSE
  /\ UNCHANGED <<rows, queue, operational, paidOn, ledger, events, provider,
                 proc, faults>>

TurnPaidOff ==
  /\ Change
  /\ paidOn
  /\ paidOn' = FALSE
  /\ UNCHANGED <<rows, queue, operational, enabled, ledger, events, provider,
                 proc, faults>>

(* requestTombstone: what it changes of deliveries and settings.           *)
Tombstone ==
  /\ Change
  /\ operational
  /\ operational' = FALSE
  /\ paidOn' = FALSE
  /\ rows' = [d \in Deliveries |->
                IF rows[d].status = "PENDING"
                THEN Settled(rows[d], "FAILED", "CONFIRMED") ELSE rows[d]]
  /\ UNCHANGED <<queue, enabled, ledger, events, provider, proc, faults>>

Step(p) ==
  \/ ReadRow(p) \/ ReadChannel(p) \/ ClaimRemoved(p) \/ NotRemovable(p)
  \/ FinishRemoved(p) \/ CheckOperational(p) \/ Begin(p) \/ BeginRefused(p)
  \/ MarkStale(p) \/ NotStale(p) \/ Recheck(p) \/ ReadCharge(p) \/ Debit(p)
  \/ NotDebited(p) \/ Skip(p) \/ LastCheck(p)
  \/ StopRefund(p) \/ FinishStopped(p) \/ Answered(p) \/ TryAgain(p) \/ Failed(p)
  \/ RefundFailed(p) \/ MarkAmbiguous(p) \/ Sent(p) \/ Accept(p)
  \/ AcceptRefused(p) \/ Reconcile(p) \/ Ack(p)

Next ==
  \/ \E p \in Procs : Step(p) \/ Throw(p) \/ RefundThrows(p) \/ Stop(p)
  \/ \E p \in Procs, d \in Deliveries : Deliver(p, d)
  \/ \E p \in Procs, answer \in Answer, accepts \in BOOLEAN :
       Send(p, answer, accepts)
  \/ \E d \in Deliveries : LeaseEnds(d)
  \/ DayPasses \/ DisableChannel \/ TurnPaidOff \/ Tombstone

Spec == Init /\ [][Next]_vars

-----------------------------------------------------------------------------
(* Properties. *)

(* A provider is called again for a delivery only after it has rejected    *)
(* every call before: not after an unclear answer, not when the worker was *)
(* evicted during the call or outlived its lease, and three times at most  *)
(* (beginDispatch, markDispatchAmbiguous, markStaleDispatchAmbiguous).     *)
CalledAgainOnlyIfRejected ==
  \A d \in Deliveries :
    calls[d] <= rejections[d] + 1 /\ calls[d] <= MaxAttempts

(* Concurrent charges neither overdraw the credit nor pass the daily       *)
(* limit, and every alert taken from the balance has an entry              *)
(* (debitWithinDailyLimit, credit).                                        *)
CreditKept ==
  /\ balance >= 0
  /\ balance = Credit - Cardinality(charged) + Cardinality(refunded)
  /\ Cardinality(Unrefunded) <= DailyLimit

(* A delivery the provider accepted was paid and stays paid, and only the  *)
(* tombstone of the workspace records it as failed: no worker that judges  *)
(* by a row or an answer it got earlier refunds it or gives it up.         *)
AcceptedIsPaid ==
  \A d \in accepted :
    /\ d \in charged
    /\ d \notin refunded
    /\ operational => rows[d].status # "FAILED"

(* When a message is gone its delivery has an outcome, and one that is     *)
(* sent or failed is in the events of its incident, in spite of evictions  *)
(* between the outcome and the event and of invocations that still work on *)
(* it; disabled channels and workspaces under deletion excepted.  The      *)
(* event of an ambiguous delivery accepted late may still say FAILED.      *)
AckedIsReported ==
  \A d \in Deliveries \ queue :
    enabled /\ operational
      => IF rows[d].status = "PENDING" THEN rows[d].dispatch = "AMBIGUOUS"
         ELSE \E result \in {rows[d].status, "FAILED"} : <<d, result>> \in events
=============================================================================
