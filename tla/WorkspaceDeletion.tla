------------------------- MODULE WorkspaceDeletion -------------------------
(***************************************************************************)
(* The deletion of a workspace: the tombstone, the saga that cancels the   *)
(* subscription and then purges objects and rows, and what still arrives   *)
(* meanwhile - webhooks of the billing provider, late and out of order,    *)
(* and screenshots whose upload began before the tombstone.                *)
(*                                                                         *)
(* Saga workers, webhook handlers and uploads stop at every await.         *)
(***************************************************************************)
EXTENDS Integers, FiniteSets

CONSTANTS
  Workers,     (* invocations of the saga                                *)
  Hooks,       (* invocations of the webhook                             *)
  Uploads,     (* screenshots that the runner may upload                 *)
  MaxChanges,  (* bound: changes of the subscription at the provider     *)
  MaxClock,    (* bound: seconds of the provider's clock                 *)
  MaxFaults    (* bound: evictions and failed calls                      *)

ASSUME DeletionAssumption ==
  /\ MaxChanges \in Nat
  /\ MaxClock \in Nat
  /\ MaxFaults \in Nat

VARIABLES
  state,     (* deletion_state of the workspace                          *)
  deleted,   (* deleted_at is set                                        *)
  due,       (* deletion_retry_at has passed                             *)
  leased,    (* deletion_processing_at is set and not stale              *)
  intent,    (* the checkout intent of the workspace                     *)
  row,       (* the subscriptions row                                    *)
  objects,   (* screenshots in the object store                          *)
  artifacts, (* screenshots with a run_artifacts row                     *)
  provider,  (* the subscription at the provider                         *)
  clock,     (* the provider's clock, in seconds                         *)
  events,    (* provider events not yet acknowledged                     *)
  newest,    (* history: time of the provider's newest event             *)
  tied,      (* history: two events had the same second                  *)
  worker,    (* local state of every saga worker                         *)
  hook,      (* local state of every webhook invocation                  *)
  upload,    (* progress of every upload                                 *)
  changes,
  faults

workspace == <<state, deleted, due, leased>>
billing == <<provider, clock, events, newest, tied, changes>>
storage == <<objects, artifacts, upload>>
vars == <<workspace, intent, row, storage, billing, worker, hook, faults>>

States == {"ACTIVE", "DELETION_PENDING", "CANCELLATION_PENDING",
           "PURGE_PENDING", "COMPLETED"}
Pending == {"DELETION_PENDING", "CANCELLATION_PENDING", "PURGE_PENDING"}

(* A row keeps the time of the newest event it was written from; ACTIVE    *)
(* stands for every status but CANCELED.                                   *)
Row == [status : {"NONE", "ACTIVE", "CANCELED"}, at : 0..MaxClock]
NoRow == [status |-> "NONE", at |-> 0]

Event == [kind : {"created", "changed"}, status : {"ACTIVE", "CANCELED"},
          at : 0..MaxClock]
NoEvent == [kind |-> "changed", status |-> "CANCELED", at |-> 0]

(* STOPPED: cancelled by the saga, whose idempotency key is answered       *)
(* again; ENDED: cancelled by the customer.                                *)
Provided == {"none", "ACTIVE", "PAUSED", "STOPPED", "ENDED"}
MapStatus(p) == IF p = "ACTIVE" THEN "ACTIVE" ELSE "CANCELED"

Worker == [pc : {"idle", "find", "cancel", "write", "mark", "objects",
                 "eligible", "purge", "fail"},
           stage : Pending, found : Row]
IdleWorker == [pc |-> "idle", stage |-> "CANCELLATION_PENDING",
               found |-> NoRow]
Hook == [pc : {"idle", "intent", "write", "done"}, event : Event,
         stored : Row]
IdleHook == [pc |-> "idle", event |-> NoEvent, stored |-> NoRow]

TypeOK ==
  /\ state \in States
  /\ deleted \in BOOLEAN
  /\ due \in BOOLEAN
  /\ leased \in BOOLEAN
  /\ intent \in {"none", "open", "consumed", "removed"}
  /\ row \in Row
  /\ objects \subseteq Uploads
  /\ artifacts \subseteq Uploads
  /\ provider \in Provided
  /\ clock \in 0..MaxClock
  /\ events \subseteq Event
  /\ newest \in 0..MaxClock
  /\ tied \in BOOLEAN
  /\ worker \in [Workers -> Worker]
  /\ hook \in [Hooks -> Hook]
  /\ upload \in [Uploads -> {"none", "put", "insert", "clean", "done", "lost"}]
  /\ changes \in Nat
  /\ faults \in Nat
  /\ due => state \in Pending
  /\ leased => state \in {"CANCELLATION_PENDING", "PURGE_PENDING"}

Init ==
  /\ state = "ACTIVE"
  /\ deleted = FALSE
  /\ due = FALSE
  /\ leased = FALSE
  /\ intent = "none"
  /\ row = NoRow
  /\ objects = {}
  /\ artifacts = {}
  /\ provider = "none"
  /\ clock = 0
  /\ events = {}
  /\ newest = 0
  /\ tied = FALSE
  /\ worker = [w \in Workers |-> IdleWorker]
  /\ hook = [h \in Hooks |-> IdleHook]
  /\ upload = [u \in Uploads |-> "none"]
  /\ changes = 0
  /\ faults = 0

-----------------------------------------------------------------------------
(* Helpers. *)

Go(w, pc) == worker' = [worker EXCEPT ![w].pc = pc]
Leave(w) == worker' = [worker EXCEPT ![w] = IdleWorker]
HookGo(h, pc) == hook' = [hook EXCEPT ![h].pc = pc]
HookLeave(h) == hook' = [hook EXCEPT ![h] = IdleHook]
Fault == faults < MaxFaults /\ faults' = faults + 1

(* Mutant: a claim leaves the tombstoned workspace where it is.            *)
ClaimedAsIs(s) == s

(* claimDue: the stage a claim leaves the workspace in.                    *)
Claimed(s) == IF s = "DELETION_PENDING" THEN "CANCELLATION_PENDING" ELSE s

(* Mutant: the upsert does not compare the times.                          *)
AcceptsAny(at) == TRUE

(* upsertByWorkspace accepts an event that is not older than the row's.    *)
Accepts(at) == row.status = "NONE" \/ at >= row.at

(* Mutant: a completed deletion stays completed.                           *)
ReopensPurge(status) == state = "PURGE_PENDING" /\ status # "CANCELED"

(* Trigger on subscriptions: a row that is not cancelled reopens the       *)
(* cancellation of a workspace that is past it.                            *)
Reopens(status) ==
  state \in {"PURGE_PENDING", "COMPLETED"} /\ status # "CANCELED"

(* Mutant: the trigger on run_artifacts is missing.                        *)
MayInsertAnyway == TRUE

(* Trigger on run_artifacts: no insert after the tombstone.                *)
MayInsert == state = "ACTIVE"

(* The provider changes the subscription and tells the webhook.            *)
Emit(kind, p) ==
  /\ provider' = p
  /\ events' = events \cup
       {[kind |-> kind, status |-> MapStatus(p), at |-> clock]}
  /\ newest' = clock
  /\ tied' = (tied \/ (provider # "none" /\ newest = clock))
  /\ UNCHANGED clock

-----------------------------------------------------------------------------
(* The tombstone and the saga. *)

RequestTombstone ==
  /\ state = "ACTIVE"
  /\ state' = "DELETION_PENDING"
  /\ due' = TRUE
  /\ leased' = FALSE
  /\ intent' = IF intent = "none" THEN "none" ELSE "removed"
  /\ UNCHANGED <<deleted, row, storage, billing, worker, hook, faults>>

ClaimDue(w) ==
  /\ worker[w].pc = "idle"
  /\ state \in Pending
  /\ due
  /\ ~leased
  /\ state' = Claimed(state)
  /\ leased' = TRUE
  /\ worker' = [worker EXCEPT ![w] =
       [IdleWorker EXCEPT !.stage = state',
          !.pc = IF state' = "PURGE_PENDING" THEN "objects" ELSE "find"]]
  /\ UNCHANGED <<deleted, due, intent, row, storage, billing, hook, faults>>

FindSubscription(w) ==
  /\ worker[w].pc = "find"
  /\ IF row.status = "ACTIVE"
     THEN worker' = [worker EXCEPT ![w].pc = "cancel", ![w].found = row]
     ELSE Go(w, "mark")
  /\ UNCHANGED <<workspace, intent, row, storage, billing, hook, faults>>

(* The provider refuses to cancel what the customer has cancelled.         *)
CancelSubscription(w) ==
  /\ worker[w].pc = "cancel"
  /\ \/ /\ provider \in {"ACTIVE", "PAUSED"}
        /\ Emit("changed", "STOPPED")
        /\ Go(w, "write")
        /\ UNCHANGED changes
     \/ /\ provider = "STOPPED"
        /\ Go(w, "write")
        /\ UNCHANGED billing
     \/ /\ provider = "ENDED"
        /\ worker' = [worker EXCEPT ![w].pc = "fail", ![w].found = NoRow]
        /\ UNCHANGED billing
  /\ UNCHANGED <<workspace, intent, row, storage, hook, faults>>

(* The canceller writes back the row it has read, as cancelled.            *)
WriteCanceled(w) ==
  /\ worker[w].pc = "write"
  /\ row' = IF Accepts(worker[w].found.at)
            THEN [status |-> "CANCELED", at |-> worker[w].found.at] ELSE row
  /\ worker' = [worker EXCEPT ![w].pc = "mark", ![w].found = NoRow]
  /\ UNCHANGED <<workspace, intent, storage, billing, hook, faults>>

MarkCancellationSucceeded(w) ==
  /\ worker[w].pc = "mark"
  /\ IF state = "CANCELLATION_PENDING"
     THEN /\ state' = "PURGE_PENDING"
          /\ deleted' = TRUE
          /\ due' = TRUE
          /\ leased' = FALSE
     ELSE UNCHANGED workspace
  /\ Leave(w)
  /\ UNCHANGED <<intent, row, storage, billing, hook, faults>>

DeleteObjects(w) ==
  /\ worker[w].pc = "objects"
  /\ objects' = {}
  /\ Go(w, "eligible")
  /\ UNCHANGED <<workspace, intent, row, artifacts, upload, billing, hook,
                 faults>>

CheckEligible(w) ==
  /\ worker[w].pc = "eligible"
  /\ IF state = "PURGE_PENDING" THEN Go(w, "purge") ELSE Leave(w)
  /\ UNCHANGED <<workspace, intent, row, storage, billing, hook, faults>>

(* One batch, of which only the last statement checks the state again.     *)
PurgeAndAnonymize(w) ==
  /\ worker[w].pc = "purge"
  /\ artifacts' = {}
  /\ intent' = IF intent = "none" THEN "none" ELSE "removed"
  /\ row' = IF row.status = "NONE" THEN row
            ELSE [row EXCEPT !.status = "CANCELED"]
  /\ IF state = "PURGE_PENDING"
     THEN state' = "COMPLETED" /\ due' = FALSE /\ leased' = FALSE
     ELSE UNCHANGED <<state, due, leased>>
  /\ Leave(w)
  /\ UNCHANGED <<deleted, objects, upload, billing, hook, faults>>

RecordFailure(w) ==
  /\ worker[w].pc = "fail"
  /\ IF state = worker[w].stage THEN due' = FALSE /\ leased' = FALSE
     ELSE UNCHANGED <<due, leased>>
  /\ Leave(w)
  /\ UNCHANGED <<state, deleted, intent, row, storage, billing, hook, faults>>

RetryDue ==
  /\ state \in Pending
  /\ ~due
  /\ due' = TRUE
  /\ UNCHANGED <<state, deleted, leased, intent, row, storage, billing, worker,
                 hook, faults>>

LeaseEnds ==
  /\ leased
  /\ leased' = FALSE
  /\ UNCHANGED <<state, deleted, due, intent, row, storage, billing, worker,
                 hook, faults>>

(* A call of the saga throws.                                              *)
CallFails(w) ==
  /\ worker[w].pc \notin {"idle", "fail"}
  /\ Fault
  /\ worker' = [worker EXCEPT ![w].pc = "fail", ![w].found = NoRow]
  /\ UNCHANGED <<workspace, intent, row, storage, billing, hook>>

WorkerEvicted(w) ==
  /\ worker[w].pc # "idle"
  /\ Fault
  /\ Leave(w)
  /\ UNCHANGED <<workspace, intent, row, storage, billing, hook>>

-----------------------------------------------------------------------------
(* The provider and its webhook. *)

(* The workspace was ACTIVE when the request was admitted; nothing stops   *)
(* the insert of the intent after a tombstone.                             *)
OpenCheckout ==
  /\ intent = "none"
  /\ intent' = "open"
  /\ UNCHANGED <<workspace, row, storage, billing, worker, hook, faults>>

Pay ==
  /\ intent # "none"
  /\ provider = "none"
  /\ Emit("created", "ACTIVE")
  /\ UNCHANGED <<workspace, intent, row, storage, worker, hook, changes, faults>>

(* Renewed, paused, resumed or ended by the customer.                      *)
Change ==
  /\ changes < MaxChanges
  /\ changes' = changes + 1
  /\ \/ provider = "ACTIVE" /\ \E p \in {"ACTIVE", "PAUSED", "ENDED"} :
          Emit("changed", p)
     \/ provider = "PAUSED" /\ \E p \in {"ACTIVE", "ENDED"} :
          Emit("changed", p)
  /\ UNCHANGED <<workspace, intent, row, storage, worker, hook, faults>>

Tick ==
  /\ clock < MaxClock
  /\ clock' = clock + 1
  /\ UNCHANGED <<workspace, intent, row, storage, provider, events, newest,
                 tied, worker, hook, changes, faults>>

(* An event older than the row that was read is acknowledged unwritten.    *)
Decide(e, stored) ==
  [pc |-> IF stored.status # "NONE" /\ e.at < stored.at THEN "done"
          ELSE "write",
   event |-> e, stored |-> NoRow]

(* An event reaches the webhook, which finds the row of its subscription.  *)
ReceiveEvent(h, e) ==
  /\ hook[h].pc = "idle"
  /\ \/ /\ e.kind = "created"
        /\ hook' = [hook EXCEPT ![h] =
             [pc |-> "intent", event |-> e, stored |-> row]]
     \/ /\ e.kind = "changed"
        /\ row.status # "NONE"
        /\ hook' = [hook EXCEPT ![h] = Decide(e, row)]
  /\ UNCHANGED <<workspace, intent, row, storage, billing, worker, faults>>

(* An intent can be consumed again for the same subscription.              *)
ConsumeIntent(h) ==
  /\ hook[h].pc = "intent"
  /\ IF intent \in {"open", "consumed"} /\ ~deleted
     THEN /\ intent' = "consumed"
          /\ hook' = [hook EXCEPT ![h] = Decide(@.event,
               IF @.stored.status = "NONE" THEN row ELSE @.stored)]
     ELSE HookLeave(h) /\ UNCHANGED intent
  /\ UNCHANGED <<workspace, row, storage, billing, worker, faults>>

WriteSubscription(h) ==
  /\ hook[h].pc = "write"
  /\ LET e == hook[h].event
     IN IF Accepts(e.at)
        THEN /\ row' = [status |-> e.status, at |-> e.at]
             /\ IF Reopens(e.status)
                THEN /\ state' = "CANCELLATION_PENDING"
                     /\ due' = TRUE
                     /\ leased' = FALSE
                ELSE UNCHANGED <<state, due, leased>>
        ELSE UNCHANGED <<row, state, due, leased>>
  /\ HookGo(h, "done")
  /\ UNCHANGED <<deleted, intent, storage, billing, worker, faults>>

Acknowledge(h) ==
  /\ hook[h].pc = "done"
  /\ events' = events \ {hook[h].event}
  /\ HookLeave(h)
  /\ UNCHANGED <<workspace, intent, row, storage, provider, clock, newest, tied,
                 changes, worker, faults>>

(* The handler throws or is evicted: the provider delivers again.          *)
HookFails(h) ==
  /\ hook[h].pc # "idle"
  /\ Fault
  /\ HookLeave(h)
  /\ UNCHANGED <<workspace, intent, row, storage, billing, worker>>

-----------------------------------------------------------------------------
(* Uploads. *)

(* The runner owns the delivery of a running attempt.                      *)
BeginUpload(u) ==
  /\ upload[u] = "none"
  /\ state = "ACTIVE"
  /\ upload' = [upload EXCEPT ![u] = "put"]
  /\ UNCHANGED <<workspace, intent, row, objects, artifacts, billing, worker,
                 hook, faults>>

PutObject(u) ==
  /\ upload[u] = "put"
  /\ objects' = objects \cup {u}
  /\ upload' = [upload EXCEPT ![u] = "insert"]
  /\ UNCHANGED <<workspace, intent, row, artifacts, billing, worker, hook,
                 faults>>

InsertArtifact(u) ==
  /\ upload[u] = "insert"
  /\ IF MayInsert
     THEN /\ artifacts' = artifacts \cup {u}
          /\ upload' = [upload EXCEPT ![u] = "done"]
     ELSE /\ upload' = [upload EXCEPT ![u] = "clean"]
          /\ UNCHANGED artifacts
  /\ UNCHANGED <<workspace, intent, row, objects, billing, worker, hook, faults>>

CleanObject(u) ==
  /\ upload[u] = "clean"
  /\ objects' = objects \ {u}
  /\ upload' = [upload EXCEPT ![u] = "done"]
  /\ UNCHANGED <<workspace, intent, row, artifacts, billing, worker, hook,
                 faults>>

(* The invocation is evicted, or its clean-up fails.                       *)
UploadFails(u) ==
  /\ upload[u] \in {"put", "insert", "clean"}
  /\ Fault
  /\ upload' = [upload EXCEPT ![u] = "lost"]
  /\ UNCHANGED <<workspace, intent, row, objects, artifacts, billing, worker,
                 hook>>

-----------------------------------------------------------------------------
WorkerStep(w) ==
  \/ ClaimDue(w) \/ FindSubscription(w) \/ CancelSubscription(w)
  \/ WriteCanceled(w) \/ MarkCancellationSucceeded(w) \/ DeleteObjects(w)
  \/ CheckEligible(w) \/ PurgeAndAnonymize(w) \/ RecordFailure(w)

HookStep(h) ==
  ConsumeIntent(h) \/ WriteSubscription(h) \/ Acknowledge(h)

UploadStep(u) == PutObject(u) \/ InsertArtifact(u) \/ CleanObject(u)

Next ==
  \/ RequestTombstone \/ RetryDue \/ LeaseEnds
  \/ OpenCheckout \/ Pay \/ Change \/ Tick
  \/ \E w \in Workers : WorkerStep(w) \/ CallFails(w) \/ WorkerEvicted(w)
  \/ \E h \in Hooks : \/ \E e \in events : ReceiveEvent(h, e)
                      \/ HookStep(h) \/ HookFails(h)
  \/ \E u \in Uploads : BeginUpload(u) \/ UploadStep(u) \/ UploadFails(u)

Spec == Init /\ [][Next]_vars

(* The saga runs from cron, retries and leases come to their time, and the *)
(* provider delivers the news of a cancellation until it is acknowledged.  *)
Fairness ==
  /\ WF_vars(RetryDue)
  /\ WF_vars(LeaseEnds)
  /\ \A w \in Workers : WF_vars(WorkerStep(w))
  /\ \A h \in Hooks :
       /\ WF_vars(HookStep(h))
       /\ SF_vars(\E e \in events :
                    e.status = "CANCELED" /\ ReceiveEvent(h, e))

FairSpec == Spec /\ Fairness

-----------------------------------------------------------------------------
(* Properties. *)

(* A workspace whose deletion is completed has no subscription row that    *)
(* still grants service: a row that arrives later reopens the deletion.    *)
CompletedIsCanceled == state = "COMPLETED" => row.status # "ACTIVE"

(* Completion leaves nothing of the workspace's screenshots: no row, and   *)
(* no object but that of an upload still under way or cut short.           *)
NothingLeftBehind ==
  state = "COMPLETED" =>
    /\ artifacts = {}
    /\ \A u \in Uploads : upload[u] \in {"none", "done"} => u \notin objects

(* Once every event of an active workspace's subscription is handled, the  *)
(* row says what the provider says, whatever the order and the overlap of  *)
(* the deliveries, unless two events had the same second.                  *)
RowFollowsProvider ==
  (/\ state = "ACTIVE"
   /\ events = {}
   /\ \A h \in Hooks : hook[h].pc = "idle"
   /\ provider # "none"
   /\ ~tied) => row.status = MapStatus(provider)

(* The customer has ended the subscription and an event of the same second *)
(* has put its row back: the provider refuses every cancellation.          *)
Stranded ==
  /\ tied
  /\ provider = "ENDED"
  /\ row = [status |-> "ACTIVE", at |-> newest]
  /\ state = "CANCELLATION_PENDING"

(* A workspace that is tombstoned is eventually deleted completely, with   *)
(* one exception: the upsert accepts the older of two events of the same   *)
(* second, and a deletion that is so left stranded is retried for ever.    *)
DeletionCompletes ==
  (state # "ACTIVE" ~> state = "COMPLETED") \/ <>[]Stranded

(* "local cancellation is written only after the provider confirms it":    *)
(* the saga never cancels the row of a subscription that the provider      *)
(* still bills.                                                            *)
LocalCancelConfirmed ==
  [][ (/\ row.status = "ACTIVE"
       /\ row'.status = "CANCELED"
       /\ UNCHANGED hook) => provider # "ACTIVE" ]_vars
=============================================================================
