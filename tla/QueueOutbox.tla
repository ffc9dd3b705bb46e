---------------------------- MODULE QueueOutbox ----------------------------
(***************************************************************************)
(* One piece of work on its way through the transactional outbox: its      *)
(* queue_outbox row, the invocations that publish the row to a Cloudflare  *)
(* queue, the consumer, and the dead-letter redrive that turns a message   *)
(* the consumer gave up into a new row.                                    *)
(*                                                                         *)
(* Rows and messages are numbered.  Row 0 is the one the producer          *)
(* inserted; row n is the row of dead letter n, as the dedupe key          *)
(* dlq:<queue>:<message id> makes it.  Invocations stop at every await.    *)
(***************************************************************************)
EXTENDS Naturals

CONSTANTS
  Procs,        (* invocations: producers, the cron flush, DLQ consumers   *)
  MaxRedrives,  (* MAX_REDRIVES, also the greatest count the schema admits *)
  MaxFailures,  (* publishing failures before a row is quarantined         *)
  Tombstones,   (* the workspace may be deleted                            *)
  MaxSends,     (* bound: messages the queue accepts                       *)
  MaxFaults     (* bound: evictions and failed database calls              *)

ASSUME OutboxAssumption ==
  /\ MaxRedrives \in Nat
  /\ MaxFailures \in Nat \ {0}
  /\ Tombstones \in BOOLEAN
  /\ MaxSends \in Nat
  /\ MaxFaults \in Nat

VARIABLES
  rows,      (* queue_outbox                                               *)
  messages,  (* what the queues hold                                       *)
  sends,     (* messages accepted so far                                   *)
  handled,   (* a consumer has executed the work                           *)
  purging,   (* the workspace is deleted                                   *)
  proc,      (* local state of every invocation                            *)
  faults

vars == <<rows, messages, sends, handled, purging, proc, faults>>

Ids == 1..MaxSends
Rows == 0..MaxSends

(* publishing_at is a lease: NULL, within it, or past it.  lapsed is history: *)
(* some claim of the row has outlived its lease.                              *)
Row == [there : BOOLEAN, count : Nat, claim : {"free", "held", "stale"},
        lapsed : BOOLEAN, failures : Nat, published : BOOLEAN,
        quarantined : BOOLEAN]
Absent == [there |-> FALSE, count |-> 0, claim |-> "free", lapsed |-> FALSE,
           failures |-> 0, published |-> FALSE, quarantined |-> FALSE]
Created(c) == [Absent EXCEPT !.there = TRUE, !.count = c]

(* Where a message is: not sent, in its queue, in the dead-letter queue, in   *)
(* the queue an operator inspects, acknowledged.                              *)
Message == [place : {"none", "queue", "dlq", "parked", "gone"},
            row : Rows, count : Nat]
Unsent == [place |-> "none", row |-> 0, count |-> 0]

(* msg is the dead letter to acknowledge, 0 for a publisher on its own.       *)
Local == [pc : {"idle", "publish", "send", "mark", "fail", "reject", "limit",
                "ack"},
          row : Rows, msg : Rows]
Idle == [pc |-> "idle", row |-> 0, msg |-> 0]

TypeOK ==
  /\ rows \in [Rows -> Row]
  /\ messages \in [Ids -> Message]
  /\ sends \in 0..MaxSends
  /\ handled \in BOOLEAN
  /\ purging \in BOOLEAN
  /\ proc \in [Procs -> Local]
  /\ faults \in Nat

Init ==
  /\ rows = [r \in Rows |-> IF r = 0 THEN Created(0) ELSE Absent]
  /\ messages = [m \in Ids |-> Unsent]
  /\ sends = 0
  /\ handled = FALSE
  /\ purging = FALSE
  /\ proc = [p \in Procs |-> Idle]
  /\ faults = 0

-----------------------------------------------------------------------------
(* Helpers. *)

(* Mutant: the schema does not bound the count. *)
ValidUnbounded(count) == count >= 0

(* The schema of a message bounds its redrive count. *)
Valid(count) == count <= MaxRedrives

Pending(r) == rows[r].there /\ ~rows[r].published /\ ~rows[r].quarantined

(* Mutant: a claim is taken over while its lease runs. *)
ClaimableAlways(r) == Pending(r)

(* Mutant: a claim whose lease has ended is not taken over. *)
ClaimableUnclaimed(r) == Pending(r) /\ rows[r].claim = "free"

Claimable(r) == Pending(r) /\ rows[r].claim # "held"

At(p, step) == proc[p].pc = step
Become(p, local) == proc' = [proc EXCEPT ![p] = local]
Goto(p, step) == Become(p, [proc[p] EXCEPT !.pc = step])

(* publishById returns or throws: a redrive swallows the exception and goes  *)
(* on to acknowledge its dead letter.                                        *)
Return(p) == IF proc[p].msg = 0 THEN Become(p, Idle) ELSE Goto(p, "ack")

(* UPDATE ... WHERE id = ? AND published_at IS NULL *)
Update(r, row) == rows' = IF rows[r].published THEN rows
                          ELSE [rows EXCEPT ![r] = row]

-----------------------------------------------------------------------------
(* PublishQueueOutbox. *)

(* claimById: one conditional update.  The payload is parsed at once. *)
Claim(p, r) ==
  /\ Claimable(r)
  /\ rows' = [rows EXCEPT ![r].claim = "held"]
  /\ Become(p, [proc[p] EXCEPT !.row = r,
                               !.pc = IF Valid(rows[r].count) THEN "send"
                                      ELSE "reject"])
  /\ UNCHANGED <<messages, sends, handled, purging, faults>>

(* A producer publishes the row it has inserted, or a flush one it listed. *)
Publish(p, r) == At(p, "idle") /\ Claim(p, r)

(* quarantineOutbox of a payload that does not match its schema. *)
Reject(p) ==
  /\ At(p, "reject")
  /\ LET r == proc[p].row IN
     Update(r, [rows[r] EXCEPT !.quarantined = TRUE, !.claim = "free"])
  /\ Return(p)
  /\ UNCHANGED <<messages, sends, handled, purging, faults>>

(* The queue accepts the message; the answer may still be an error. *)
Send(p) ==
  /\ At(p, "send")
  /\ sends < MaxSends
  /\ sends' = sends + 1
  /\ messages' = [messages EXCEPT
       ![sends + 1] = [place |-> "queue", row |-> proc[p].row,
                       count |-> rows[proc[p].row].count]]
  /\ \E answer \in {"mark", "fail"} : Goto(p, answer)
  /\ UNCHANGED <<rows, handled, purging, faults>>

(* Mutant: the promise of the queue is not awaited. *)
SendFailsUnnoticed(p) ==
  /\ At(p, "send")
  /\ Goto(p, "mark")
  /\ UNCHANGED <<rows, messages, sends, handled, purging, faults>>

SendFails(p) ==
  /\ At(p, "send")
  /\ Goto(p, "fail")
  /\ UNCHANGED <<rows, messages, sends, handled, purging, faults>>

MarkPublished(p) ==
  /\ At(p, "mark")
  /\ LET r == proc[p].row IN
     Update(r, [rows[r] EXCEPT !.published = TRUE, !.claim = "free"])
  /\ Return(p)
  /\ UNCHANGED <<messages, sends, handled, purging, faults>>

(* Mutant: the row counts down the failures it has left. *)
RecordFailureCountdown(p) ==
  /\ At(p, "fail")
  /\ LET r == proc[p].row
         failures == rows[r].failures - 1 IN
     Update(r, [rows[r] EXCEPT !.failures = failures, !.claim = "free",
                               !.quarantined = failures = 0])
  /\ Return(p)
  /\ UNCHANGED <<messages, sends, handled, purging, faults>>

(* Mutant: only the very failure that reaches the limit quarantines. *)
RecordFailureExact(p) ==
  /\ At(p, "fail")
  /\ LET r == proc[p].row
         failures == rows[r].failures + 1 IN
     Update(r, [rows[r] EXCEPT !.failures = failures, !.claim = "free",
                               !.quarantined = failures = MaxFailures])
  /\ Return(p)
  /\ UNCHANGED <<messages, sends, handled, purging, faults>>

(* recordOutboxFailure sets quarantined_at either way: to the time of the    *)
(* last failure allowed, or back to NULL.                                    *)
RecordFailure(p) ==
  /\ At(p, "fail")
  /\ LET r == proc[p].row
         failures == rows[r].failures + 1 IN
     Update(r, [rows[r] EXCEPT !.failures = failures, !.claim = "free",
                               !.quarantined = failures >= MaxFailures])
  /\ Return(p)
  /\ UNCHANGED <<messages, sends, handled, purging, faults>>

-----------------------------------------------------------------------------
(* RedriveDeadLetter, for any delivery of a dead letter. *)

(* Mutant: a message beyond the limit is acknowledged before it is inserted. *)
RedriveDropping(p, m) ==
  /\ At(p, "idle")
  /\ messages[m].place = "dlq"
  /\ LET count == messages[m].count
         again == Valid(count) /\ count < MaxRedrives IN
     /\ rows' = IF rows[m].there \/ ~again THEN rows
                ELSE [rows EXCEPT ![m] = Created(count + 1)]
     /\ Become(p, [pc |-> IF again THEN "publish" ELSE "ack",
                   row |-> m, msg |-> m])
  /\ UNCHANGED <<messages, sends, handled, purging, faults>>

(* insertOutbox ignores a dedupe key it knows and reads the row back. *)
Redrive(p, m) ==
  /\ At(p, "idle")
  /\ messages[m].place = "dlq"
  /\ LET count == messages[m].count IN
     /\ rows' = IF rows[m].there THEN rows
                ELSE [rows EXCEPT ![m] = Created(IF Valid(count) THEN count + 1
                                                 ELSE count)]
     /\ Become(p, [pc |-> IF Valid(count) /\ count < MaxRedrives THEN "publish"
                          ELSE "limit",
                   row |-> m, msg |-> m])
  /\ UNCHANGED <<messages, sends, handled, purging, faults>>

RedriveClaims(p) == At(p, "publish") /\ Claim(p, proc[p].row)

(* Another invocation holds, has published or has quarantined the row. *)
RedriveSkips(p) ==
  /\ At(p, "publish")
  /\ ~Claimable(proc[p].row)
  /\ Return(p)
  /\ UNCHANGED <<rows, messages, sends, handled, purging, faults>>

(* Too many redrives, or a body no schema knows. *)
RedriveLimit(p) ==
  /\ At(p, "limit")
  /\ LET r == proc[p].row IN
     Update(r, [rows[r] EXCEPT !.quarantined = TRUE, !.claim = "free"])
  /\ Return(p)
  /\ UNCHANGED <<messages, sends, handled, purging, faults>>

Ack(p) ==
  /\ At(p, "ack")
  /\ messages' = [messages EXCEPT ![proc[p].msg].place = "gone"]
  /\ Become(p, Idle)
  /\ UNCHANGED <<rows, sends, handled, purging, faults>>

-----------------------------------------------------------------------------
(* The queues and their consumers. *)

(* A body its schema refuses is acknowledged unread; any other is executed,  *)
(* and the worker may stop before it acknowledges.                           *)
Consume(m) ==
  /\ messages[m].place = "queue"
  /\ \/ /\ ~Valid(messages[m].count)
        /\ messages' = [messages EXCEPT ![m].place = "gone"]
        /\ UNCHANGED handled
     \/ /\ Valid(messages[m].count)
        /\ handled' = TRUE
        /\ messages' \in {messages, [messages EXCEPT ![m].place = "gone"]}
  /\ UNCHANGED <<rows, sends, purging, proc, faults>>

(* Delivered max_retries times and never acknowledged. *)
DeadLetter(m) ==
  /\ messages[m].place = "queue"
  /\ messages' = [messages EXCEPT ![m].place = "dlq"]
  /\ UNCHANGED <<rows, sends, handled, purging, proc, faults>>

(* The dead-letter queue has delivered it often enough as well. *)
Park(m) ==
  /\ messages[m].place = "dlq"
  /\ messages' = [messages EXCEPT ![m].place = "parked"]
  /\ UNCHANGED <<rows, sends, handled, purging, proc, faults>>

-----------------------------------------------------------------------------
(* The surroundings. *)

(* Five minutes pass since the row was claimed. *)
LeaseEnds(r) ==
  /\ rows[r].claim = "held"
  /\ rows' = [rows EXCEPT ![r].claim = "stale", ![r].lapsed = TRUE]
  /\ UNCHANGED <<messages, sends, handled, purging, proc, faults>>

(* requestTombstone quarantines what is pending. *)
Tombstone ==
  /\ Tombstones
  /\ ~purging
  /\ purging' = TRUE
  /\ rows' = [r \in Rows |->
       IF Pending(r) THEN [rows[r] EXCEPT !.quarantined = TRUE, !.claim = "free"]
       ELSE rows[r]]
  /\ UNCHANGED <<messages, sends, handled, proc, faults>>

(* A database call of publishById throws. *)
CallFails(p) ==
  /\ faults < MaxFaults
  /\ faults' = faults + 1
  /\ \/ At(p, "mark") /\ Goto(p, "fail")
     \/ proc[p].pc \in {"publish", "reject", "fail"} /\ Return(p)
  /\ UNCHANGED <<rows, messages, sends, handled, purging>>

(* The worker is evicted, or a redrive throws and asks for redelivery. *)
Evict(p) ==
  /\ ~At(p, "idle")
  /\ faults < MaxFaults
  /\ faults' = faults + 1
  /\ Become(p, Idle)
  /\ UNCHANGED <<rows, messages, sends, handled, purging>>

Step(p) ==
  \/ Reject(p) \/ Send(p) \/ SendFails(p) \/ MarkPublished(p)
  \/ RecordFailure(p) \/ RedriveClaims(p) \/ RedriveSkips(p)
  \/ RedriveLimit(p) \/ Ack(p)

Next ==
  \/ \E p \in Procs : Step(p) \/ CallFails(p) \/ Evict(p)
  \/ \E p \in Procs, r \in Rows : Publish(p, r)
  \/ \E p \in Procs, m \in Ids : Redrive(p, m)
  \/ \E m \in Ids : Consume(m) \/ DeadLetter(m) \/ Park(m)
  \/ \E r \in Rows : LeaseEnds(r)
  \/ Tombstone

Spec == Init /\ [][Next]_vars

(* Awaits return; the cron flush lists every claimable row; leases end; the  *)
(* platform delivers what a queue holds until it is acknowledged or moved.   *)
Fairness ==
  /\ \A p \in Procs : WF_vars(Step(p))
  /\ \A r \in Rows : /\ WF_vars(\E p \in Procs : Publish(p, r))
                     /\ WF_vars(LeaseEnds(r))
  /\ \A m \in Ids : /\ WF_vars(Consume(m) \/ DeadLetter(m))
                    /\ WF_vars(Park(m) \/ \E p \in Procs : Redrive(p, m))

FairSpec == Spec /\ Fairness

-----------------------------------------------------------------------------
(* Properties. *)

InFlight == {"queue", "dlq", "parked"}

(* Until a consumer has executed the work, a row that is not published or a  *)
(* message that is not acknowledged still stands for it: publishing before   *)
(* the mark, persisting before the acknowledgement and refusing a payload no *)
(* consumer would read leave no gap, whatever is evicted, lapses or races.   *)
NothingLost ==
  \/ handled
  \/ \E r \in Rows : rows[r].there /\ ~rows[r].published
  \/ \E m \in Ids : messages[m].place \in InFlight

(* What reaches a queue is within the limit of redrives, so consumers read   *)
(* it, also when the redrive that wrote a row above the limit was evicted    *)
(* before it quarantined the row and a flush found it first.                 *)
RedriveBounded ==
  \A m \in Ids : messages[m].place # "none" => messages[m].count <= MaxRedrives

(* A row is sent twice only after a claim outlived its lease or a publisher  *)
(* recorded a failure: racing flushes, producers and redrives do not         *)
(* duplicate by themselves.                                                  *)
DuplicateHasCause ==
  \A m, n \in Ids :
    /\ m # n
    /\ messages[m].place # "none"
    /\ messages[n].place # "none"
    /\ messages[m].row = messages[n].row
    => LET row == rows[messages[m].row] IN row.lapsed \/ row.failures > 0

(* A row quarantined for its failures or for its payload is never taken      *)
(* back, although the failure of a publisher whose lease has ended writes    *)
(* quarantined_at again.                                                     *)
QuarantineIsFinal ==
  [][\A r \in Rows :
       /\ rows[r].quarantined
       /\ rows[r].failures >= MaxFailures \/ ~Valid(rows[r].count)
       => rows'[r].quarantined]_vars

(* Every pending row is published or quarantined in the end, though its      *)
(* publisher is evicted holding the claim and the queue refuses it.          *)
RowsSettle == \A r \in Rows : Pending(r) ~> ~Pending(r)

(* The work is executed or ends where an operator finds it: redriving a      *)
(* message that no consumer can execute does not go on for ever.             *)
WorkSettles ==
  <>(\/ handled
     \/ \E r \in Rows : rows[r].quarantined
     \/ \E m \in Ids : messages[m].place = "parked")
=============================================================================
