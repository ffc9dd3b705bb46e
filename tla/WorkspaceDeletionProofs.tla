---------------------- MODULE WorkspaceDeletionProofs ----------------------
(***************************************************************************)
(* Proofs about WorkspaceDeletion for any number of saga workers, webhook  *)
(* invocations, uploads, changes of the subscription and faults.           *)
(***************************************************************************)
EXTENDS WorkspaceDeletion, TLAPS

LEMMA Constants ==
  /\ IdleWorker \in Worker
  /\ IdleHook \in Hook
  /\ NoRow \in Row
  /\ NoEvent \in Event
BY DeletionAssumption
   DEF DeletionAssumption, IdleWorker, Worker, IdleHook, Hook, NoRow, Row,
       NoEvent, Event, Pending

LEMMA GoTyped ==
  ASSUME TypeOK, NEW w \in Workers, NEW pc, Go(w, pc),
         pc \in {"idle", "find", "cancel", "write", "mark", "objects",
                 "eligible", "purge", "fail"}
  PROVE  worker' \in [Workers -> Worker]
BY DEF TypeOK, Go, Worker

LEMMA LeaveTyped ==
  ASSUME TypeOK, NEW w \in Workers, Leave(w)
  PROVE  worker' \in [Workers -> Worker]
BY Constants DEF TypeOK, Leave

LEMMA ForgetTyped ==
  ASSUME TypeOK, NEW w \in Workers, NEW pc \in {"mark", "fail"},
         worker' = [worker EXCEPT ![w].pc = pc, ![w].found = NoRow]
  PROVE  worker' \in [Workers -> Worker]
BY Constants DEF TypeOK, Worker

LEMMA HookLeaveTyped ==
  ASSUME TypeOK, NEW h \in Hooks, HookLeave(h)
  PROVE  hook' \in [Hooks -> Hook]
BY Constants DEF TypeOK, HookLeave

LEMMA DecideTyped ==
  ASSUME NEW e \in Event, NEW stored
  PROVE  Decide(e, stored) \in Hook
BY Constants DEF Decide, Hook

LEMMA EmitTyped ==
  ASSUME TypeOK, NEW kind \in {"created", "changed"}, NEW p \in Provided,
         Emit(kind, p)
  PROVE  /\ provider' \in Provided
         /\ clock' \in 0..MaxClock
         /\ events' \subseteq Event
         /\ newest' \in 0..MaxClock
         /\ tied' \in BOOLEAN
<1>1. MapStatus(p) \in {"ACTIVE", "CANCELED"}
  BY DEF MapStatus
<1>2. [kind |-> kind, status |-> MapStatus(p), at |-> clock] \in Event
  BY <1>1 DEF TypeOK, Event
<1> QED BY <1>2 DEF TypeOK, Emit

LEMMA TypeInit == ASSUME Init PROVE TypeOK
<1>1. /\ state \in States
      /\ intent \in {"none", "open", "consumed", "removed"}
      /\ provider \in Provided
      /\ row \in Row
  BY Constants DEF Init, States, Provided
<1>2. clock \in 0..MaxClock /\ newest \in 0..MaxClock
  BY DeletionAssumption DEF Init, DeletionAssumption
<1>3. worker \in [Workers -> Worker] /\ hook \in [Hooks -> Hook]
  BY Constants DEF Init
<1>4. upload \in [Uploads -> {"none", "put", "insert", "clean", "done", "lost"}]
  BY DEF Init
<1> QED BY <1>1, <1>2, <1>3, <1>4 DEF Init, TypeOK

LEMMA TypeNext == ASSUME TypeOK, [Next]_vars PROVE TypeOK'
<1> USE DEF workspace, billing, storage
<1>1. CASE RequestTombstone
  BY <1>1 DEF RequestTombstone, TypeOK, States, Pending
<1>2. ASSUME NEW w \in Workers, WorkerStep(w) PROVE TypeOK'
  <2>1. CASE ClaimDue(w)
    <3>1. state' \in {"CANCELLATION_PENDING", "PURGE_PENDING"}
      BY <2>1 DEF ClaimDue, Claimed, Pending
    <3>2. worker' \in [Workers -> Worker]
      BY <2>1, <3>1, Constants
         DEF ClaimDue, TypeOK, IdleWorker, Worker, Pending
    <3> QED BY <2>1, <3>1, <3>2 DEF ClaimDue, TypeOK, States, Pending
  <2>2. CASE FindSubscription(w)
    <3>1. worker' \in [Workers -> Worker]
      BY <2>2, GoTyped DEF FindSubscription, TypeOK, Worker
    <3> QED BY <2>2, <3>1 DEF FindSubscription, TypeOK
  <2>3. CASE CancelSubscription(w)
    <3>1. worker' \in [Workers -> Worker]
      BY <2>3, GoTyped, ForgetTyped DEF CancelSubscription
    <3>2. /\ provider' \in Provided
          /\ clock' \in 0..MaxClock
          /\ events' \subseteq Event
          /\ newest' \in 0..MaxClock
          /\ tied' \in BOOLEAN
          /\ changes' \in Nat
      BY <2>3, EmitTyped DEF CancelSubscription, TypeOK, Provided
    <3> QED BY <2>3, <3>1, <3>2 DEF CancelSubscription, TypeOK
  <2>4. CASE WriteCanceled(w)
    <3>1. worker' \in [Workers -> Worker]
      BY <2>4, ForgetTyped DEF WriteCanceled
    <3>2. row' \in Row
      BY <2>4 DEF WriteCanceled, TypeOK, Worker, Row
    <3> QED BY <2>4, <3>1, <3>2 DEF WriteCanceled, TypeOK
  <2>5. CASE MarkCancellationSucceeded(w)
    BY <2>5, LeaveTyped DEF MarkCancellationSucceeded, TypeOK, States, Pending
  <2>6. CASE DeleteObjects(w)
    BY <2>6, GoTyped DEF DeleteObjects, TypeOK
  <2>7. CASE CheckEligible(w)
    BY <2>7, GoTyped, LeaveTyped DEF CheckEligible, TypeOK
  <2>8. CASE PurgeAndAnonymize(w)
    <3>1. row' \in Row
      BY <2>8 DEF PurgeAndAnonymize, TypeOK, Row
    <3> QED BY <2>8, <3>1, LeaveTyped DEF PurgeAndAnonymize, TypeOK, States
  <2>9. CASE RecordFailure(w)
    BY <2>9, LeaveTyped DEF RecordFailure, TypeOK
  <2> QED BY <1>2, <2>1, <2>2, <2>3, <2>4, <2>5, <2>6, <2>7, <2>8, <2>9
          DEF WorkerStep
<1>3. ASSUME NEW w \in Workers, CallFails(w) \/ WorkerEvicted(w)
      PROVE  TypeOK'
  <2>1. worker' \in [Workers -> Worker]
    BY <1>3, ForgetTyped, LeaveTyped DEF CallFails, WorkerEvicted
  <2>2. faults' \in Nat
    BY <1>3 DEF CallFails, WorkerEvicted, Fault, TypeOK
  <2>3. UNCHANGED <<workspace, intent, row, storage, billing, hook>>
    BY <1>3 DEF CallFails, WorkerEvicted
  <2> QED BY <2>1, <2>2, <2>3 DEF TypeOK
<1>4. CASE RetryDue \/ LeaseEnds
  <2>1. CASE RetryDue
    BY <2>1 DEF RetryDue, TypeOK
  <2>2. CASE LeaseEnds
    BY <2>2 DEF LeaseEnds, TypeOK
  <2> QED BY <1>4, <2>1, <2>2
<1>5. CASE OpenCheckout
  BY <1>5 DEF OpenCheckout, TypeOK
<1>6. CASE Pay
  BY <1>6, EmitTyped DEF Pay, TypeOK, Provided
<1>7. CASE Change
  BY <1>7, EmitTyped DEF Change, TypeOK, Provided
<1>8. CASE Tick
  BY <1>8, DeletionAssumption DEF Tick, TypeOK, DeletionAssumption
<1>9. ASSUME NEW h \in Hooks, NEW e \in events, ReceiveEvent(h, e)
      PROVE  TypeOK'
  <2>1. e \in Event
    BY DEF TypeOK
  <2>2. hook' \in [Hooks -> Hook]
    BY <1>9, <2>1, DecideTyped DEF ReceiveEvent, TypeOK, Hook
  <2> QED BY <1>9, <2>2 DEF ReceiveEvent, TypeOK
<1>10. ASSUME NEW h \in Hooks, HookStep(h) PROVE TypeOK'
  <2>1. hook[h].event \in Event
    BY DEF TypeOK, Hook
  <2>2. CASE ConsumeIntent(h)
    <3>1. hook' \in [Hooks -> Hook]
      BY <2>1, <2>2, DecideTyped, HookLeaveTyped DEF ConsumeIntent, TypeOK
    <3> QED BY <2>2, <3>1 DEF ConsumeIntent, TypeOK
  <2>3. CASE WriteSubscription(h)
    <3>1. hook' \in [Hooks -> Hook]
      BY <2>3 DEF WriteSubscription, HookGo, TypeOK, Hook
    <3>2. row' \in Row
      BY <2>1, <2>3 DEF WriteSubscription, TypeOK, Event, Row
    <3> QED BY <2>3, <3>1, <3>2
            DEF WriteSubscription, TypeOK, States, Pending
  <2>4. CASE Acknowledge(h)
    BY <2>4, HookLeaveTyped DEF Acknowledge, TypeOK
  <2> QED BY <1>10, <2>2, <2>3, <2>4 DEF HookStep
<1>11. ASSUME NEW h \in Hooks, HookFails(h) PROVE TypeOK'
  BY <1>11, HookLeaveTyped DEF HookFails, Fault, TypeOK
<1>12. ASSUME NEW u \in Uploads,
              BeginUpload(u) \/ UploadStep(u) \/ UploadFails(u)
       PROVE  TypeOK'
  BY <1>12 DEF BeginUpload, UploadStep, PutObject, InsertArtifact, CleanObject,
               UploadFails, Fault, TypeOK
<1>13. CASE UNCHANGED vars
  BY <1>13 DEF vars, TypeOK
<1> QED BY <1>1, <1>2, <1>3, <1>4, <1>5, <1>6, <1>7, <1>8, <1>9, <1>10, <1>11,
           <1>12, <1>13 DEF Next

-----------------------------------------------------------------------------
(* The state variables always have their types; a lease is held and a retry *)
(* is due only while the deletion is pending.                              *)
THEOREM TypeCorrect == Spec => []TypeOK
<1>1. Init => TypeOK
  BY TypeInit
<1>2. TypeOK /\ [Next]_vars => TypeOK'
  BY TypeNext
<1> QED BY <1>1, <1>2, PTL DEF Spec

-----------------------------------------------------------------------------
(* Which steps touch what. *)

LEMMA StateSteps ==
  ASSUME [Next]_vars
  PROVE  \/ UNCHANGED <<state, row>>
         \/ RequestTombstone
         \/ \E w \in Workers : \/ ClaimDue(w)
                               \/ WriteCanceled(w)
                               \/ MarkCancellationSucceeded(w)
                               \/ PurgeAndAnonymize(w)
         \/ \E h \in Hooks : WriteSubscription(h)
<1> USE DEF workspace
<1>1. ASSUME NEW w \in Workers, WorkerStep(w) \/ CallFails(w) \/ WorkerEvicted(w)
      PROVE  \/ UNCHANGED <<state, row>>
             \/ ClaimDue(w) \/ WriteCanceled(w)
             \/ MarkCancellationSucceeded(w) \/ PurgeAndAnonymize(w)
  BY <1>1 DEF WorkerStep, FindSubscription, CancelSubscription, DeleteObjects,
              CheckEligible, RecordFailure, CallFails, WorkerEvicted
<1>2. ASSUME NEW h \in Hooks,
             \/ \E e \in events : ReceiveEvent(h, e)
             \/ HookStep(h) \/ HookFails(h)
      PROVE  UNCHANGED <<state, row>> \/ WriteSubscription(h)
  BY <1>2 DEF HookStep, ReceiveEvent, ConsumeIntent, Acknowledge, HookFails
<1>3. ASSUME NEW u \in Uploads, BeginUpload(u) \/ UploadStep(u) \/ UploadFails(u)
      PROVE  UNCHANGED <<state, row>>
  BY <1>3 DEF BeginUpload, UploadStep, PutObject, InsertArtifact, CleanObject,
              UploadFails
<1>4. ASSUME RetryDue \/ LeaseEnds \/ OpenCheckout \/ Pay \/ Change \/ Tick
      PROVE  UNCHANGED <<state, row>>
  BY <1>4 DEF RetryDue, LeaseEnds, OpenCheckout, Pay, Change, Tick
<1>5. ASSUME UNCHANGED vars PROVE UNCHANGED <<state, row>>
  BY <1>5 DEF vars
<1> QED BY <1>1, <1>2, <1>3, <1>4, <1>5 DEF Next

LEMMA CanceledNext ==
  ASSUME TypeOK, CompletedIsCanceled, [Next]_vars
  PROVE  CompletedIsCanceled'
<1> USE DEF CompletedIsCanceled
<1>1. CASE UNCHANGED <<state, row>>
  BY <1>1
<1>2. CASE RequestTombstone
  BY <1>2 DEF RequestTombstone
<1>3. ASSUME NEW w \in Workers, ClaimDue(w) \/ WriteCanceled(w)
      PROVE  CompletedIsCanceled'
  BY <1>3 DEF ClaimDue, Claimed, Pending, WriteCanceled, workspace
<1>4. ASSUME NEW w \in Workers, MarkCancellationSucceeded(w)
      PROVE  CompletedIsCanceled'
  BY <1>4 DEF MarkCancellationSucceeded, workspace
<1>5. ASSUME NEW w \in Workers, PurgeAndAnonymize(w)
      PROVE  CompletedIsCanceled'
  BY <1>5 DEF PurgeAndAnonymize, TypeOK, Row
<1>6. ASSUME NEW h \in Hooks, WriteSubscription(h)
      PROVE  CompletedIsCanceled'
  <2>1. hook[h].event.status \in {"ACTIVE", "CANCELED"}
    BY DEF TypeOK, Hook, Event
  <2> QED BY <1>6, <2>1 DEF WriteSubscription, Reopens
<1> QED BY <1>1, <1>2, <1>3, <1>4, <1>5, <1>6, StateSteps

(* Whatever the interleaving of saga workers with stale leases and of late *)
(* webhooks, a completed deletion leaves no subscription row that grants   *)
(* service.                                                                *)
THEOREM CompletedCanceled == Spec => []CompletedIsCanceled
<1>1. Init => TypeOK /\ CompletedIsCanceled
  BY TypeInit DEF Init, CompletedIsCanceled
<1>2. TypeOK /\ CompletedIsCanceled /\ [Next]_vars
        => TypeOK' /\ CompletedIsCanceled'
  BY TypeNext, CanceledNext
<1> QED BY <1>1, <1>2, PTL DEF Spec

-----------------------------------------------------------------------------
(* Storage.  A worker reaches the purge with the objects of finished       *)
(* uploads deleted, and no upload finishes with an object of its own after *)
(* the tombstone.                                                          *)

Emptied ==
  \A u \in Uploads : upload[u] \in {"none", "done"} => u \notin objects

StorageInv ==
  /\ \A u \in Uploads : upload[u] \in {"none", "put"} => u \notin objects
  /\ \A w \in Workers : worker[w].pc # "idle" => state # "ACTIVE"
  /\ \A w \in Workers : worker[w].pc \in {"eligible", "purge"} => Emptied
  /\ state = "COMPLETED" => Emptied /\ artifacts = {}

LEMMA StorageInit == ASSUME Init PROVE StorageInv
BY DEF Init, StorageInv, IdleWorker

LEMMA StorageWorker ==
  ASSUME TypeOK, StorageInv, NEW w \in Workers, WorkerStep(w)
  PROVE  StorageInv'
<1> USE DEF StorageInv, Emptied, workspace, storage
<1>0. /\ worker \in [Workers -> Worker]
      /\ worker[w] \in Worker
  BY DEF TypeOK
<1>1. CASE ClaimDue(w)
  <2>1. state' \notin {"ACTIVE", "COMPLETED"}
    BY <1>1 DEF ClaimDue, Claimed, Pending
  <2>2. \A x \in Workers : x # w => worker'[x] = worker[x]
    BY <1>0, <1>1 DEF ClaimDue
  <2>3. worker'[w].pc \notin {"eligible", "purge"}
    BY <1>0, <1>1 DEF ClaimDue, IdleWorker
  <2>4. UNCHANGED storage
    BY <1>1 DEF ClaimDue
  <2> QED BY <2>1, <2>2, <2>3, <2>4
<1>2. CASE FindSubscription(w) \/ CancelSubscription(w) \/ WriteCanceled(w)
  <2>1. \A x \in Workers : x # w => worker'[x] = worker[x]
    BY <1>0, <1>2 DEF FindSubscription, CancelSubscription, WriteCanceled, Go
  <2>2. worker'[w].pc \in {"cancel", "mark", "write", "fail"}
    BY <1>0, <1>2
       DEF FindSubscription, CancelSubscription, WriteCanceled, Go, Worker
  <2>3. UNCHANGED <<workspace, storage>> /\ worker[w].pc # "idle"
    BY <1>2 DEF FindSubscription, CancelSubscription, WriteCanceled
  <2> QED BY <2>1, <2>2, <2>3
<1>3. CASE MarkCancellationSucceeded(w) \/ RecordFailure(w)
  <2>1. \A x \in Workers : x # w => worker'[x] = worker[x]
    BY <1>0, <1>3 DEF MarkCancellationSucceeded, RecordFailure, Leave
  <2>2. worker'[w].pc = "idle"
    BY <1>0, <1>3
       DEF MarkCancellationSucceeded, RecordFailure, Leave, IdleWorker
  <2>3. UNCHANGED storage
    BY <1>3 DEF MarkCancellationSucceeded, RecordFailure
  <2>4. state' = state \/ state' = "PURGE_PENDING"
    BY <1>3 DEF MarkCancellationSucceeded, RecordFailure
  <2> QED BY <2>1, <2>2, <2>3, <2>4
<1>4. CASE DeleteObjects(w)
  <2>1. \A x \in Workers : x # w => worker'[x] = worker[x]
    BY <1>0, <1>4 DEF DeleteObjects, Go
  <2>2. objects' = {} /\ UNCHANGED <<state, artifacts, upload>>
    BY <1>4 DEF DeleteObjects
  <2>3. worker[w].pc # "idle"
    BY <1>4 DEF DeleteObjects
  <2> QED BY <2>1, <2>2, <2>3
<1>5. CASE CheckEligible(w)
  <2>1. \A x \in Workers : x # w => worker'[x] = worker[x]
    BY <1>0, <1>5 DEF CheckEligible, Go, Leave
  <2>2. worker[w].pc = "eligible" /\ UNCHANGED <<workspace, storage>>
    BY <1>5 DEF CheckEligible
  <2> QED BY <2>1, <2>2
<1>6. CASE PurgeAndAnonymize(w)
  <2>1. \A x \in Workers : x # w => worker'[x] = worker[x]
    BY <1>0, <1>6 DEF PurgeAndAnonymize, Leave
  <2>2. worker[w].pc = "purge" /\ UNCHANGED <<objects, upload>>
    BY <1>6 DEF PurgeAndAnonymize
  <2>3. worker'[w].pc = "idle"
    BY <1>0, <1>6 DEF PurgeAndAnonymize, Leave, IdleWorker
  <2>4. artifacts' = {} /\ (state' = state \/ state' = "COMPLETED")
    BY <1>6 DEF PurgeAndAnonymize
  <2> QED BY <2>1, <2>2, <2>3, <2>4
<1> QED BY <1>1, <1>2, <1>3, <1>4, <1>5, <1>6 DEF WorkerStep

LEMMA StorageNext ==
  ASSUME TypeOK, StorageInv, [Next]_vars
  PROVE  StorageInv'
<1> USE DEF StorageInv, Emptied, workspace, storage
<1>1. CASE RequestTombstone
  BY <1>1 DEF RequestTombstone
<1>2. ASSUME NEW w \in Workers, WorkerStep(w) PROVE StorageInv'
  BY <1>2, StorageWorker
<1>3. ASSUME NEW w \in Workers, CallFails(w) \/ WorkerEvicted(w)
      PROVE  StorageInv'
  <2>1. \A x \in Workers : x # w => worker'[x] = worker[x]
    BY <1>3 DEF CallFails, WorkerEvicted, Leave, TypeOK
  <2>2. worker'[w].pc \in {"idle", "fail"} /\ worker[w].pc # "idle"
    BY <1>3 DEF CallFails, WorkerEvicted, Leave, IdleWorker, TypeOK, Worker
  <2>3. UNCHANGED <<workspace, storage>>
    BY <1>3 DEF CallFails, WorkerEvicted
  <2> QED BY <2>1, <2>2, <2>3
<1>4. CASE RetryDue \/ LeaseEnds \/ OpenCheckout \/ Pay \/ Change \/ Tick
  <2>1. UNCHANGED <<state, storage, worker>>
    BY <1>4 DEF RetryDue, LeaseEnds, OpenCheckout, Pay, Change, Tick
  <2> QED BY <2>1
<1>5. ASSUME NEW h \in Hooks,
             \/ \E e \in events : ReceiveEvent(h, e)
             \/ HookStep(h) \/ HookFails(h)
      PROVE  StorageInv'
  <2>1. UNCHANGED <<storage, worker>>
    BY <1>5 DEF HookStep, ReceiveEvent, ConsumeIntent, WriteSubscription,
                Acknowledge, HookFails
  <2>2. state' = state \/ state' = "CANCELLATION_PENDING"
    BY <1>5 DEF HookStep, ReceiveEvent, ConsumeIntent, WriteSubscription,
                Acknowledge, HookFails
  <2> QED BY <2>1, <2>2
<1>6. ASSUME NEW u \in Uploads, BeginUpload(u) \/ UploadStep(u) \/ UploadFails(u)
      PROVE  StorageInv'
  <2>0. upload \in [Uploads -> {"none", "put", "insert", "clean", "done", "lost"}]
    BY DEF TypeOK
  <2>1. UNCHANGED <<state, worker>>
    BY <1>6 DEF BeginUpload, UploadStep, PutObject, InsertArtifact, CleanObject,
                UploadFails
  <2>2. \A x \in Uploads : x # u =>
          upload'[x] = upload[x] /\ (x \in objects' <=> x \in objects)
    BY <1>6, <2>0 DEF BeginUpload, UploadStep, PutObject, InsertArtifact,
                     CleanObject, UploadFails
  <2>3. CASE BeginUpload(u) \/ PutObject(u) \/ UploadFails(u)
    BY <2>0, <2>1, <2>2, <2>3 DEF BeginUpload, PutObject, UploadFails
  <2>4. CASE InsertArtifact(u)
    BY <2>0, <2>1, <2>2, <2>4 DEF InsertArtifact, MayInsert
  <2>5. CASE CleanObject(u)
    BY <2>0, <2>1, <2>2, <2>5 DEF CleanObject
  <2> QED BY <1>6, <2>3, <2>4, <2>5 DEF UploadStep
<1>7. CASE UNCHANGED vars
  BY <1>7 DEF vars
<1> QED BY <1>1, <1>2, <1>3, <1>4, <1>5, <1>6, <1>7 DEF Next

(* A completed deletion leaves no screenshot row, and no object but that   *)
(* of an upload under way or cut short, however uploads, the tombstone and *)
(* overlapping purges interleave.                                          *)
THEOREM CompletedEmpty == Spec => []NothingLeftBehind
<1>1. Init => TypeOK /\ StorageInv
  BY TypeInit, StorageInit
<1>2. TypeOK /\ StorageInv /\ [Next]_vars => TypeOK' /\ StorageInv'
  BY TypeNext, StorageNext
<1>3. StorageInv => NothingLeftBehind
  BY DEF StorageInv, Emptied, NothingLeftBehind
<1> QED BY <1>1, <1>2, <1>3, PTL DEF Spec

-----------------------------------------------------------------------------
(* Billing of an active workspace.  The newest event is still to come, or  *)
(* the row has it; nothing the handlers hold is newer, and what they hold  *)
(* of that time agrees with the provider.                                  *)

Agrees(e) == e.at = newest => e.status = MapStatus(provider)
Written(at) == row.status # "NONE" /\ at <= row.at

Timed ==
  /\ newest <= clock
  /\ \A e \in events : e.at <= newest
  /\ \A h \in Hooks : hook[h].pc # "idle" => hook[h].event.at <= newest
  /\ row.status # "NONE" => row.at <= newest

Followed ==
  /\ \A e \in events : Agrees(e)
  /\ \A h \in Hooks : hook[h].pc # "idle" => Agrees(hook[h].event)
  /\ row.status # "NONE" => Agrees(row)
  /\ provider # "none" => Written(newest) \/ \E e \in events : e.at = newest

Handled ==
  \A h \in Hooks :
    /\ hook[h].pc = "done" => Written(hook[h].event.at)
    /\ hook[h].pc = "intent" /\ hook[h].stored.status # "NONE"
         => Written(hook[h].stored.at)

Untouched ==
  provider = "none" =>
    /\ events = {}
    /\ row.status = "NONE"
    /\ \A h \in Hooks : hook[h].pc = "idle"

BillingInv ==
  state = "ACTIVE" => Timed /\ Handled /\ Untouched /\ (tied \/ Followed)

LEMMA BillingInit == ASSUME Init PROVE BillingInv
BY DeletionAssumption
   DEF DeletionAssumption, Init, BillingInv, Timed, Handled, Untouched, Followed,
       Agrees, Written, NoRow, IdleHook

LEMMA Numbers ==
  ASSUME TypeOK
  PROVE  /\ newest \in Int /\ clock \in Int
         /\ row.at \in Int
         /\ \A e \in events : e.at \in Int
         /\ \A h \in Hooks : hook[h].event.at \in Int /\ hook[h].stored.at \in Int
BY DeletionAssumption DEF DeletionAssumption, TypeOK, Row, Event, Hook

LEMMA EmitKeeps ==
  ASSUME TypeOK, Timed, Handled, Untouched, tied \/ Followed,
         NEW kind \in {"created", "changed"},
         NEW p \in {"ACTIVE", "PAUSED", "ENDED"},
         Emit(kind, p), UNCHANGED <<row, hook>>
  PROVE  Timed' /\ Handled' /\ Untouched' /\ (tied' \/ Followed')
<1> DEFINE new == [kind |-> kind, status |-> MapStatus(p), at |-> clock]
<1>1. /\ provider' = p /\ newest' = clock /\ clock' = clock
      /\ events' = events \cup {new}
      /\ tied' = (tied \/ (provider # "none" /\ newest = clock))
  BY DEF Emit
<1>2. new.at = clock /\ new.status = MapStatus(p)
  OBVIOUS
<1>3. Timed'
  BY <1>1, <1>2, Numbers DEF Timed
<1>4. Handled'
  BY DEF Handled, Written
<1>5. Untouched'
  BY <1>1 DEF Untouched
<1>6. CASE provider = "none"
  <2>1. Followed'
    BY <1>1, <1>2, <1>6 DEF Untouched, Followed, Agrees, Written, MapStatus
  <2> QED BY <1>3, <1>4, <1>5, <2>1
<1>7. CASE provider # "none" /\ newest # clock
  <2>1. newest < clock
    BY <1>7, Numbers DEF Timed
  <2>2. /\ \A e \in events : e.at < clock
        /\ \A h \in Hooks : hook[h].pc # "idle" => hook[h].event.at < clock
        /\ row.status # "NONE" => row.at < clock
    BY <2>1, Numbers DEF Timed
  <2>3. \A e \in events' : Agrees(e)'
    BY <1>1, <1>2, <2>2, Numbers DEF Agrees, MapStatus
  <2>4. \A h \in Hooks : hook'[h].pc # "idle" => Agrees(hook[h].event)'
    BY <1>1, <2>2, Numbers DEF Agrees
  <2>5. row'.status # "NONE" => Agrees(row)'
    BY <1>1, <2>2, Numbers DEF Agrees
  <2>6. Followed'
    BY <1>1, <1>2, <2>3, <2>4, <2>5 DEF Followed
  <2> QED BY <1>3, <1>4, <1>5, <2>6
<1>8. CASE provider # "none" /\ newest = clock
  BY <1>1, <1>3, <1>4, <1>5, <1>8
<1> QED BY <1>6, <1>7, <1>8

LEMMA HookOthers ==
  ASSUME TypeOK, NEW h \in Hooks, NEW local, hook' = [hook EXCEPT ![h] = local]
  PROVE  hook'[h] = local /\ \A x \in Hooks : x # h => hook'[x] = hook[x]
BY DEF TypeOK

(* A handler that ends, or that takes up or compares an event, writes no   *)
(* row: only what it holds matters.                                        *)
LEMMA HookKeeps ==
  ASSUME TypeOK, Timed, Handled, Untouched, tied \/ Followed,
         NEW h \in Hooks, NEW local, hook' = [hook EXCEPT ![h] = local],
         UNCHANGED <<row, billing>>,
         local.pc # "idle" =>
           /\ provider # "none"
           /\ local.event.at <= newest
           /\ tied \/ Agrees(local.event),
         local.pc = "done" => Written(local.event.at),
         local.pc = "intent" /\ local.stored.status # "NONE"
           => Written(local.stored.at)
  PROVE  Timed' /\ Handled' /\ Untouched' /\ (tied' \/ Followed')
<1> USE DEF billing
<1>1. hook'[h] = local /\ \A x \in Hooks : x # h => hook'[x] = hook[x]
  BY HookOthers
<1>2. Timed'
  BY <1>1 DEF Timed
<1>3. Handled'
  BY <1>1 DEF Handled, Written
<1>4. Untouched'
  BY <1>1 DEF Untouched
<1>5. tied' \/ Followed'
  BY <1>1 DEF Followed, Agrees, Written
<1> QED BY <1>2, <1>3, <1>4, <1>5

LEMMA DecideHolds ==
  ASSUME TypeOK, NEW e, e.at \in Int, NEW stored,
         stored.at \in Int, stored.status # "NONE" => Written(stored.at)
  PROVE  /\ Decide(e, stored).pc \in {"done", "write"}
         /\ Decide(e, stored).event = e
         /\ Decide(e, stored).pc = "done" => Written(e.at)
BY Numbers DEF Decide, Written

LEMMA BillingHook ==
  ASSUME TypeOK, state = "ACTIVE", BillingInv, NEW h \in Hooks,
         \/ \E e \in events : ReceiveEvent(h, e)
         \/ HookStep(h) \/ HookFails(h)
  PROVE  Timed' /\ Handled' /\ Untouched' /\ (tied' \/ Followed')
<1> USE DEF BillingInv
<1>0. Timed /\ Handled /\ Untouched /\ (tied \/ Followed)
  OBVIOUS
<1>1. ASSUME NEW e \in events, ReceiveEvent(h, e)
      PROVE  Timed' /\ Handled' /\ Untouched' /\ (tied' \/ Followed')
  <2>1. /\ provider # "none" /\ e.at <= newest /\ (tied \/ Agrees(e))
        /\ e.at \in Int
    BY <1>0, Numbers DEF Untouched, Timed, Followed
  <2>2. UNCHANGED <<row, billing>>
    BY <1>1 DEF ReceiveEvent
  <2>3. CASE e.kind = "created"
    <3> DEFINE local == [pc |-> "intent", event |-> e, stored |-> row]
    <3>1. hook' = [hook EXCEPT ![h] = local]
      BY <1>1, <2>3 DEF ReceiveEvent
    <3>2. /\ local.pc = "intent" /\ local.event = e /\ local.stored = row
      OBVIOUS
    <3>3. row.status # "NONE" => Written(row.at)
      BY Numbers DEF Written
    <3> HIDE DEF local
    <3> QED BY <1>0, <2>1, <2>2, <3>1, <3>2, <3>3, HookKeeps
  <2>4. CASE e.kind = "changed" /\ hook' = [hook EXCEPT ![h] = Decide(e, row)]
    <3>1. /\ Decide(e, row).pc \in {"done", "write"}
          /\ Decide(e, row).event = e
          /\ Decide(e, row).pc = "done" => Written(e.at)
      BY <2>1, DecideHolds, Numbers DEF Written
    <3> QED BY <1>0, <2>1, <2>2, <2>4, <3>1, HookKeeps
  <2> QED BY <1>1, <2>3, <2>4 DEF ReceiveEvent
<1>2. CASE HookFails(h)
  BY <1>0, <1>2, HookKeeps DEF HookFails, HookLeave, IdleHook
<1>3. CASE ConsumeIntent(h)
  <2> DEFINE stored == IF hook[h].stored.status = "NONE" THEN row
                       ELSE hook[h].stored
  <2>1. UNCHANGED <<row, billing>> /\ hook[h].pc = "intent"
    BY <1>3 DEF ConsumeIntent
  <2>2. CASE HookLeave(h)
    BY <1>0, <2>1, <2>2, HookKeeps DEF HookLeave, IdleHook
  <2>3. CASE hook' = [hook EXCEPT ![h] = Decide(hook[h].event, stored)]
    <3>1. stored.at \in Int /\ (stored.status # "NONE" => Written(stored.at))
      BY <1>0, <2>1, Numbers DEF Handled, Written
    <3>2. hook[h].event.at \in Int
      BY Numbers
    <3> HIDE DEF stored
    <3>3. /\ Decide(hook[h].event, stored).pc \in {"done", "write"}
          /\ Decide(hook[h].event, stored).event = hook[h].event
          /\ Decide(hook[h].event, stored).pc = "done"
               => Written(hook[h].event.at)
      BY <3>1, <3>2, DecideHolds
    <3>4. /\ provider # "none" /\ hook[h].event.at <= newest
          /\ tied \/ Agrees(hook[h].event)
      BY <1>0, <2>1 DEF Untouched, Timed, Followed
    <3> QED BY <1>0, <2>1, <2>3, <3>3, <3>4, HookKeeps
  <2>4. HookLeave(h)
        \/ hook' = [hook EXCEPT ![h] = Decide(hook[h].event, stored)]
    BY <1>3 DEF ConsumeIntent, TypeOK
  <2> QED BY <2>2, <2>3, <2>4
<1>4. CASE WriteSubscription(h)
  <2> DEFINE e == hook[h].event
  <2>1. /\ hook[h].pc = "write" /\ UNCHANGED billing
        /\ hook' = [hook EXCEPT ![h].pc = "done"]
    BY <1>4 DEF WriteSubscription, HookGo
  <2>2. /\ \A x \in Hooks : x # h => hook'[x] = hook[x]
        /\ hook'[h].pc = "done" /\ hook'[h].event = e
    BY <2>1 DEF TypeOK, Hook
  <2>3. /\ provider # "none" /\ e.at <= newest /\ (tied \/ Agrees(e))
        /\ e.at \in Int /\ e.status # "NONE"
    BY <1>0, <2>1, Numbers DEF Untouched, Timed, Followed, TypeOK, Hook, Event
  <2>4. \/ row' = [status |-> e.status, at |-> e.at] /\ Accepts(e.at)
        \/ row' = row /\ ~Accepts(e.at)
    BY <1>4 DEF WriteSubscription
  <2>5. /\ row'.status # "NONE" /\ row'.at \in Int
        /\ e.at <= row'.at /\ row'.at <= newest
        /\ tied \/ Agrees(row)'
        /\ row.status # "NONE" => row.at <= row'.at
    BY <1>0, <2>1, <2>3, <2>4, Numbers
       DEF Accepts, Timed, Followed, Agrees, billing
  <2>6. \A at \in Int : Written(at) => Written(at)'
    BY <2>5, Numbers DEF Written
  <2>7. Timed'
    BY <1>0, <2>1, <2>2, <2>3, <2>5 DEF Timed, billing
  <2>8. Handled'
    BY <1>0, <2>2, <2>3, <2>5, <2>6, Numbers DEF Handled, Written
  <2>9. Untouched'
    BY <2>1, <2>3 DEF Untouched, billing
  <2>10. ASSUME Followed, ~tied PROVE Followed'
    <3>1. \A x \in Hooks : hook'[x].pc # "idle" => Agrees(hook[x].event)'
      BY <2>1, <2>2, <2>3, <2>10 DEF Followed, Agrees, billing
    <3>2. Written(newest) => Written(newest)'
      BY <2>1, <2>6, Numbers DEF billing
    <3>3. \A x \in Hooks : hook'[x].event = hook[x].event
      BY <2>2
    <3> QED BY <2>1, <2>5, <2>10, <3>1, <3>2, <3>3
            DEF Followed, Agrees, billing
  <2> QED BY <1>0, <2>1, <2>7, <2>8, <2>9, <2>10 DEF billing
<1>5. CASE Acknowledge(h)
  <2>1. /\ hook[h].pc = "done" /\ events' = events \ {hook[h].event}
        /\ hook' = [hook EXCEPT ![h] = IdleHook]
        /\ UNCHANGED <<row, provider, clock, newest, tied>>
    BY <1>5 DEF Acknowledge, HookLeave
  <2>0. hook'[h] = IdleHook /\ \A x \in Hooks : x # h => hook'[x] = hook[x]
    BY <2>1 DEF TypeOK
  <2>2. hook'[h].pc = "idle" /\ \A x \in Hooks : x # h => hook'[x] = hook[x]
    BY <2>0 DEF IdleHook
  <2>3. Timed' /\ Handled' /\ Untouched'
    BY <1>0, <2>1, <2>2 DEF Timed, Handled, Untouched, Written
  <2>4. ASSUME Followed PROVE Followed'
    <3>1. Written(hook[h].event.at)
      BY <1>0, <2>1 DEF Handled
    <3>2. (\E e \in events : e.at = newest)
            => Written(newest) \/ \E e \in events' : e.at = newest
      BY <2>1, <3>1
    <3> QED BY <2>1, <2>2, <2>4, <3>2 DEF Followed, Agrees, Written
  <2> QED BY <1>0, <2>1, <2>3, <2>4
<1> QED BY <1>1, <1>2, <1>3, <1>4, <1>5 DEF HookStep

LEMMA BillingNext ==
  ASSUME TypeOK, StorageInv, BillingInv, [Next]_vars
  PROVE  BillingInv'
<1> SUFFICES ASSUME state' = "ACTIVE"
             PROVE  Timed' /\ Handled' /\ Untouched' /\ (tied' \/ Followed')
  BY DEF BillingInv
<1>0. state = "ACTIVE"
  BY StateSteps
     DEF RequestTombstone, ClaimDue, Claimed, Pending, WriteCanceled, workspace,
         MarkCancellationSucceeded, PurgeAndAnonymize, WriteSubscription
<1>1. Timed /\ Handled /\ Untouched /\ (tied \/ Followed)
  BY <1>0 DEF BillingInv
<1>2. CASE UNCHANGED <<row, hook, billing>>
  BY <1>1, <1>2 DEF billing, Timed, Handled, Untouched, Followed, Agrees, Written
<1>3. CASE Pay
  BY <1>1, <1>3, EmitKeeps DEF Pay
<1>4. CASE Change
  BY <1>1, <1>4, EmitKeeps DEF Change
<1>5. CASE Tick
  <2>1. newest <= clock + 1
    BY <1>1, Numbers DEF Timed
  <2> QED BY <1>1, <1>5, <2>1
          DEF Tick, Timed, Handled, Untouched, Followed, Agrees, Written
<1>6. ASSUME NEW h \in Hooks,
             \/ \E e \in events : ReceiveEvent(h, e)
             \/ HookStep(h) \/ HookFails(h)
      PROVE  Timed' /\ Handled' /\ Untouched' /\ (tied' \/ Followed')
  BY <1>0, <1>6, BillingHook
<1>7. ASSUME NEW w \in Workers, WorkerStep(w) \/ CallFails(w) \/ WorkerEvicted(w)
      PROVE  UNCHANGED <<row, hook, billing>>
  <2>1. worker[w].pc = "idle"
    BY <1>0 DEF StorageInv
  <2> QED BY <1>0, <1>7, <2>1
          DEF WorkerStep, ClaimDue, FindSubscription, CancelSubscription,
              WriteCanceled, MarkCancellationSucceeded, DeleteObjects,
              CheckEligible, PurgeAndAnonymize, RecordFailure, CallFails,
              WorkerEvicted
<1>8. ASSUME \/ RequestTombstone \/ RetryDue \/ LeaseEnds \/ OpenCheckout
             \/ \E u \in Uploads :
                  BeginUpload(u) \/ UploadStep(u) \/ UploadFails(u)
             \/ UNCHANGED vars
      PROVE  UNCHANGED <<row, hook, billing>>
  BY <1>8 DEF RequestTombstone, RetryDue, LeaseEnds, OpenCheckout, BeginUpload,
              UploadStep, PutObject, InsertArtifact, CleanObject, UploadFails,
              vars
<1> QED BY <1>2, <1>3, <1>4, <1>5, <1>6, <1>7, <1>8 DEF Next

(* Handlers that overlap, repeat and reorder the events of an active       *)
(* workspace's subscription end with the row that the provider's newest    *)
(* event describes.                                                        *)
THEOREM RowFollows == Spec => []RowFollowsProvider
<1>1. Init => TypeOK /\ StorageInv /\ BillingInv
  BY TypeInit, StorageInit, BillingInit
<1>2. TypeOK /\ StorageInv /\ BillingInv /\ [Next]_vars
        => TypeOK' /\ StorageInv' /\ BillingInv'
  BY TypeNext, StorageNext, BillingNext
<1>3. TypeOK /\ BillingInv => RowFollowsProvider
  BY Numbers DEF BillingInv, RowFollowsProvider, Followed, Timed, Agrees, Written
<1> QED BY <1>1, <1>2, <1>3, PTL DEF Spec
=============================================================================
