# Formal models of Zenguy

TLA+ specifications of the core of Zenguy (browser tests run by remote
runners, uptime checks, incidents and alerts), checked with TLC and proved
with TLAPS. The reference is the code under `src/`; every definition that
models code is listed with its lines in `PROJECT.json` ("map").

Paths below are relative to `src/apps/api/src/` unless they start with `src/`.

## 1. Inventory

The API is a Cloudflare Worker over one D1 (SQLite) database, a few queues, a
container per remote run and cron triggers. **No memory survives an
invocation**: all state is rows. A D1 `batch` is a transaction; two calls of
one handler are not. An invocation may be evicted between any two of its
awaits, and any number of invocations run at once. Everything hard in this
code follows from that.

| Component | State | Operations | Interacts with | Hard behaviour | What makes it correct |
|---|---|---|---|---|---|
| **Run execution** (`application/execution/attempt_lifecycle.ts`, `infrastructure/db/durable_workflow_repo.ts`, `attempt_repo.ts`, `domain/browser_tests/run_rules.ts`) | `test_runs`, `test_attempts`, `durable_jobs`, `usage_events` | claim, markRunning, onAttemptFinished, resume continuation, resume finalization, cancel | runners (HTTP), outbox, maintenance, incidents, billing | claims, results, sweeps and continuations of one attempt race; each may stop half-way | one open attempt or one pending continuation; verdict recorded once; charged at the first start, and no verdict loses the charge; it always settles |
| **Runner gateway** (`application/execution/external_runner.ts`) | `runner_delivery_id` of the attempt, action authorisations, steps | claim, start, recordStep, authorizeAction, complete | runner process, lifecycle | lost answers, repeated requests, two deliveries of one message | one owner per generation; secrets in one answer only; authorisations not overspent |
| **Maintenance** (`application/maintenance/hourly.ts`, cron table in `index.ts`) | none of its own | sweep lost and unclaimed attempts, stale cycles, resume pending jobs, flush the outbox | everything | acts on rows other invocations are using | only ever finishes abandoned work |
| **Run creation** (`application/browser_tests/create_run.ts`) | run, attempt 0, outbox row | create, schedule tick | subscriptions, outbox | check then insert | one active run per test, one run per scheduled occurrence |
| **Queue outbox** (`application/durability/*.ts`) | `queue_outbox` | insert, claim, send, mark, fail, quarantine, redrive | all queues | send then crash; expired lease; eight failures | a committed row is sent at least once or quarantined |
| **Uptime checks** (`application/uptime/handle_check_message.ts`, `infrastructure/db/monitor_repo.ts`) | monitor's current cycle, `uptime_checks`, execution lease | claim due, execute, persist, continue, clear stale cycle | outbox, incidents | worker lost after a non-idempotent request; cycle cleared under an in-flight check | one result per attempt; never re-send a mutable request; one closing per cycle |
| **Incidents** (`application/incidents/*.ts`, `infrastructure/db/incident_repo.ts`) | `incidents`, `incident_events` | open, append, resolve, close on deletion | runs, checks, notifications | results handled late, twice or out of order | one open incident per resource; no stale result reopens or resolves |
| **Notifications, paid alerts** (`application/channels/*.ts`, `application/alerts/*.ts`) | `notification_deliveries`, credit ledger | dispatch, charge, send, refund | providers | provider outcome unknown after a stop | called again only after a rejection; charged once, before the call; refunded only if not accepted |
| **Workspace deletion** (`application/workspaces/workspace_deletion_saga.ts`) | deletion stage, lease, retry time | tombstone, cancel subscription, purge | billing provider, storage | each stage may be repeated | purge only after cancellation; it eventually completes, unless events of one second leave it stranded |
| **Sessions** (`application/auth/refresh.ts`, `login.ts`, `logout.ts`, `reset_password.ts`, `infrastructure/db/refresh_token_repo.ts`) | chains of `refresh_tokens`, the user's password and `auth_version` | login, rotate, reuse detection, logout, reset | clients | two tabs race; lost answer; a reset in the middle of a login | one live head per chain; a race inside the grace never signs the user out; no session of an old password |
| **Billing** (`application/billing/*.ts`) | subscriptions, checkout intents, periods, grants, overage reports | webhooks, sweeps | Paddle, Stripe, workspace deletion | events repeated, out of order, after the tombstone | the row follows the provider; one report per period |
| HTTP interface, members, status pages, reports, analytics | single rows | CRUD | - | little interleaving | not modelled |
| Runner process (`src/runner`), container object | browser session | executes tests | gateway | - | external: any order of requests the API accepts |
| Web, mobile, marketing apps, scripts, docs | - | - | - | - | not modelled |

## 2. Plan

Each component that several invocations work on has a module of its own, and
the module keeps the rows, the handlers that write them and the other
components as far as they act on those rows.

1. **`AttemptLifecycle`**: one run from its first queued attempt to the
   settled verdict, with the runner gateway's claim, start and complete and
   the maintenance that serves it.
2. **`RunContract`**: the run executed by one actor in order, as an abstract
   specification; `AttemptRefinement` maps the rows of `AttemptLifecycle` onto
   it.
3. **`QueueOutbox`**: claim leases, send, failures, quarantine, the consumers
   and the dead-letter redrive: what stands behind the set of messages that
   (1), (4) and (5) assume.
4. **`CheckCycle`**: a monitor's cycle, execution lease and continuation,
   composed with the incident of the monitor and with its deletion.
5. **`PaidDelivery`**: dispatch lease, unclear answers, idempotent charge,
   limit and refund, the report to the incident. **`DeliveryContract`** is what
   a workspace may expect of it, without workers, leases and messages;
   `DeliveryRefinement` maps the rows onto it.
6. **`SessionTokens`**: racing rotations and the grace, logins, logouts and
   resets.
7. **`WorkspaceDeletion`**: the saga, composed with the billing webhook and
   with screenshots under way.

Each has an MC module with the symmetry and the sets of its instances, and
`.cfg` files. Open, in this order: the incident of a browser test (its
`RESOLVED` and `FAILURE` events are written by finalizations that may run
twice); the tombstone's closing of open runs and attempts under the handlers
of (1); the action authorisations of the gateway; the remaining billing
handlers (top-ups, disputes, overage reports).

## 3. `AttemptLifecycle`

### State

| Variable | Rows |
|---|---|
| `run` | `test_runs`: status, `infra_attempts`, whether `started_at` is set, `billable`, `attempt_count` |
| `attempt[i]` | `test_attempts` by `attempt_index`: status, generation, `runner_delivery_id`, whether `system_error_code` is the cancellation's |
| `conts[i, k]` | `durable_jobs` of kind `ATTEMPT_CONTINUATION`, keyed `attemptId:infraAttempts` |
| `final` | the `RUN_FINALIZATION` job with its payload |
| `usage` | the run's usage event |
| `deleted` | the browser test is soft-deleted |
| `msgs` | outbox messages of the run; a message may be delivered any number of times, or never |
| `leases`, `released` | what runners were answered: jobs, secrets |
| `handled` | the finalization's incident, report and activity handlers ran |
| `proc[p]` | an invocation: its place in the code and its local variables |

`leases`, `released` and `handled` record effects outside the database; no
guard of the server reads them except that a runner sends what a runner can
send: a start or an outcome for a job it was given. As in
`ExternalRunner.complete`, an outcome of any kind is taken from the owner of a
STARTING or RUNNING attempt: a runner need not ask to start first
(`external_runner.test.ts:680` claims and completes PASSED without it).

A **generation** is `queued_at`, which messages carry as
`executionGeneration`. Each infrastructure retry queues the same row again
under a later time, so the model counts generations by `infra_attempts`. A
functional retry is a new row of the current generation.

### Actions

| Code | Actions |
|---|---|
| `AttemptLifecycle.claim` | `ClaimRead`, `ClaimJob`, `ClaimTarget`, `ClaimCas` |
| `ExternalRunner.claimWithPolicy` without consent | `RefuseConsent`, then onAttemptFinished |
| `ExternalRunner.start`, `markRunning` | `StartRead`, `StartRun` |
| `ExternalRunner.complete` | `CompleteRead`, then onAttemptFinished |
| `onAttemptFinished` | `FinishRead`, `FinishJob`, `FinishRecord` |
| `resumeAttemptContinuation` | `ContinueRead` (with `NextAction` = `decideAfterAttempt`), `ApplyRetry`, `ApplyInfra`, `ApplyFinalize` |
| `resumeRunFinalization` | `FinalRead`, `FinalReverse`, `FinalHandle`, `FinalSettle`; `FinalComplete` for the caller's job |
| `cancelDeletedRun` | `CancelJob`, `CancelRecord`, `CancelRun` |
| `resumePendingJobs`, `HourlyMaintenance.execute` | `ResumeJob`, `Sweep` |
| `DeleteBrowserTest.execute` (deletion of the test) | `DeleteTest` |
| eviction, or an exception of a database call | `Crash` |

An action is one read or one batch; between two of them any other invocation
may run. Reads issued together by `Promise.all` are one read. A handler that
calls another becomes it (`Call`), and keeps only what the caller still needs.

### Abstractions

- Time is a choice. A sweep may find any open attempt overdue, and a retry
  may be delivered as soon as it is queued. Every interleaving the deadlines
  allow is included, and some they exclude.
- The claim of an owned attempt (`claimStale`) and the start's second read of
  its state are merged with the read before them when nothing in between
  depends on the difference; the second `findJob` of `onAttemptFinished`, the
  `listForRun` of `cancelDeletedRun` and the `findByRunAndIndex` of
  `scheduleFunctionalRetry` are merged with their batches, which test the
  pending job.
- A continuation whose attempt is unfinished throws; a job whose payload does
  not parse is quarantined. The first is modelled as returning, the second is
  left out: rows here are written by the code itself.
- Outcome payloads, steps, screenshots, durations and notifications are left
  out. `handle` stands for the incident, report and activity handlers.

## 4. `QueueOutbox`

Every message of the program leaves through a row of `queue_outbox`, written in
the transaction of the change it announces. The module follows one piece of
work: its row, the message sent from it, and, when consumers give the message
up, the row its dead letter is written to, and so on.

| Variable | Rows |
|---|---|
| `rows[r]` | `queue_outbox`: redrive count of the payload, `publishing_at` (free, within its lease, past it), `failure_count`, `published_at`, `quarantined_at`. Row 0 is the producer's; row `n` has the dedupe key of dead letter `n`. `lapsed` is history: some claim outlived its lease |
| `messages[m]` | a message: in its queue, dead-lettered, parked in the platform's quarantine queue, or acknowledged |
| `handled` | a consumer has executed the work |
| `purging` | the workspace has been tombstoned |
| `proc[p]` | an invocation of `publishById` or of `RedriveDeadLetter.execute`, with the dead letter it has still to acknowledge |

| Code | Actions |
|---|---|
| `PublishQueueOutbox.publishById`, called by a producer or by `flush` | `Publish`, `Reject`, `Send`, `SendFails`, `MarkPublished`, `RecordFailure` |
| `RedriveDeadLetter.execute` | `Redrive`, `RedriveClaims` or `RedriveSkips` and the steps above, `RedriveLimit`, `Ack` |
| `processCheckBatch`, `processNotifyBatch` and the queues' retry settings | `Consume`, `DeadLetter`, `Park` |
| five minutes pass; `requestTombstone`; an await that rejects; an eviction | `LeaseEnds`, `Tombstone`, `CallFails`, `Evict` |

The `queue_outbox` statements are single conditional updates, and each is one
action. A send may be accepted and still answer with an error. The claim and
the parse of the payload it returns are one step.

Abstractions. `available_at` and the limit of a flush only delay: a claimable
row may be claimed at any time. A failing call is taken as not applied. A
payload is its redrive count: a body no schema knows is one whose count is
above the limit, which is how the code can come to write one. Retention is
left out: rows are purged 30 days after they were published or quarantined,
longer than the queues keep a message. `releaseClaim` has no caller.

## 5. `CheckCycle`

One monitor, the cycles the sweep opens for it, and the incident they move. A
**try** is an attempt of a cycle.

| Variable | Rows |
|---|---|
| `monitor` | `uptime_monitors`: deleted, current cycle, status, `last_check_at` |
| `queue` | check messages that are not acknowledged |
| `claims[t]` | `check_execution_claims`: free, held within its lease, past it, completed; the token of its holder |
| `checks[t]` | `uptime_checks` with the `CHECK_CONTINUATION` job of each |
| `incidents`, `log` | `incidents` of the monitor; `incident_events` and dispatched notifications |
| `deletion` | how far `DeleteMonitor` has come |
| `requests`, `closers`, `overlapped` | history: requests sent, tries that closed their cycle, whether two continuations ran side by side |

| Code | Actions |
|---|---|
| `HandleCheckMessage.execute`, `claimCheckExecution` | `Deliver`, `Claim`, `ClaimRefused` |
| `executeClaimed`, `insertCheckWithJob`, `releaseCheckExecution` | `Request`, `Persist`, `Throw`, `Release` |
| `resumePersistedCheck`, the consumer's acknowledgement | `FindJob`, `Ack` |
| `resumeCheckContinuation`, `scheduleCheckRetry`, `closeCycle` | `CronResumes`, `Resume`, `Retry`, `Close` |
| `recordPass`, `recordFinalFailure`, `incident_repo.ts`, dispatch | `LookPass`, `LookFail`, `Resolve`, `Open`, `AppendFailure`, `InsertEvent`, `Dispatch`, `CompleteJob` |
| `sweepDueMonitors`, `clearStaleCycles`, `DeleteMonitor` | `OpenCycle`, `ClearCycle`, `Delete`, `DeletionResolves` |
| a lease ends; an eviction or an exception | `LeaseEnds`, `Stop` |

Abstractions. `clock` gives every persisted check a time of its own: two checks
of one millisecond are left out. The redelivery limit and the outbox are those
of `QueueOutbox`. Audit and activity entries, `last_event_at` and the
subscription test of the sweep are left out; one enabled channel wants
recovery alerts.

## 6. `PaidDelivery`

The deliveries of one workspace over one paid channel.

| Variable | Rows |
|---|---|
| `rows[d]` | `notification_deliveries`: status, dispatch state, token, whether its lease runs, attempts |
| `queue` | deliveries whose message is not acknowledged |
| `operational`, `enabled`, `paidOn` | the workspace is ACTIVE, the channel enabled, paid alerts turned on |
| `balance`, `charged`, `keyed`, `refunded`, `recent` | the credit ledger: balance, CHARGE entries, those whose idempotency key a trigger has not scrubbed, REFUND entries, the charges of the last 24 hours |
| `events` | events of the incident |
| `calls`, `rejections`, `accepted` | history: what the provider has seen and answered |

| Code | Actions |
|---|---|
| `SendQueuedNotification.execute` up to the claim | `Deliver`, `ReadRow`, `ReadChannel`, `CheckOperational`, `Begin`, `BeginRefused`, `MarkStale`, `NotStale`, `Recheck` |
| `markRemoved`; `finishRemovedClaim` before the charge | `ClaimRemoved`, `NotRemovable`, `FinishRemoved` |
| `ChargePaidDelivery`, `debitWithinDailyLimit`, `credit` | `ReadCharge`, `Debit`, `NotDebited`, `Skip`, `RefundFailed` |
| the last look at the workspace, and what follows a refusal | `LastCheck`, `StopRefund`, `FinishStopped` |
| the provider call and its outcome | `Send`, `Answered`, `TryAgain`, `Failed`, `MarkAmbiguous`, `Sent`, `Accept`, `AcceptRefused` |
| `reconcileTerminal`, acknowledgement | `Reconcile`, `Ack` |
| the catch block, `refundSafely`, evictions, the lease, the rest of the workspace | `Throw`, `RefundThrows`, `Stop`, `LeaseEnds`, `DayPasses`, `DisableChannel`, `TurnPaidOff`, `Tombstone` |

Abstractions. All alerts cost one unit. The search for an existing entry and
the read of the settings are one step. Top-ups, adjustments, free channels, the
consent of the recipient, the channel's last status and the activity entries
are left out. `Send` decides what the provider does, `Answered` what the worker
learns of it; the two differ when the answer is unclear.

The last look (`isOperational`, `send_queued_notification.ts:210`) and the call
(`:221`) are two awaits and two actions. A tombstone between them closes the
row as FAILED, and the provider is called all the same. The `try` block reaches
from `:165` to `:230`, so an error after `skip` or `finishRemovedClaim` has
closed the row (their `reconcileTerminal`, pc "conclude") goes to the catch
block like any other: it asks for a redelivery, or refunds and reports once
more. `Throw` has all these places.

## 7. `SessionTokens`

The sessions of one user. A token is named by its position in the order of
insertion, and `session` is the password and `auth_version` that the request
had read when the token was made.

| Variable | Rows |
|---|---|
| `user` | password, `auth_version` |
| `tokens` | `refresh_tokens`: `revoked_at`, `replaced_by`, whether the hash is still the token's; its chain, and whether a client has it |
| `clock` | time, in ticks |
| `excused`, `mistaken` | history: there was a reason to find a reuse; one was found without |

| Code | Actions |
|---|---|
| `Refresh.execute`, `liveHeadWithinGrace`, `rotate` | `Present`, `FindByHash`, `Walk`, `WalkEnds`, `ReadUser`, `Rotate`, `RotationLost`, `Return`, `Reuse` |
| `Login`, `VerifyEmail` with their confirming read | `VerifyPassword`, `InsertToken`, `Confirm`, `RevokeOwn` |
| `Logout`, `ResetPassword` (`session_security_repo.ts`) | `FindForLogout`, `Logout`, `ResetPassword` |
| a response is lost, a request cut off, time passes | `Stop`, `Tick` |

Abstractions. Tokens do not expire and are not purged. Rehashing, admin
sessions, push devices, registration, the login with Google and the single-use
e-mail tokens are left out.

## 8. `WorkspaceDeletion`

| Variable | Rows |
|---|---|
| `state`, `deleted`, `due`, `leased` | the workspace: `deletion_state`, `deleted_at`, its retry time has come, its lease runs |
| `intent` | `stripe_checkout_intents` |
| `row` | `subscriptions`: status and the time of its last event |
| `objects`, `artifacts` | screenshots in storage and in `run_artifacts` |
| `provider`, `events`, `clock`, `newest`, `tied` | external: the subscription at the provider, its undelivered events, the second of the last one, whether two events had the same second |
| `worker`, `hook`, `upload` | invocations of the saga and of the webhook; uploads |

| Code | Actions |
|---|---|
| `requestTombstone`, `claimDue` | `RequestTombstone`, `ClaimDue` |
| cancellation stage, `billing_canceller.ts` | `FindSubscription`, `CancelSubscription`, `WriteCanceled`, `MarkCancellationSucceeded` |
| purge stage | `DeleteObjects`, `CheckEligible`, `PurgeAndAnonymize` |
| `recordFailure`, backoff, lease | `RecordFailure`, `RetryDue`, `LeaseEnds` |
| `handle_stripe_webhook.ts`, `subscription_repo.ts`, the triggers of migration 0029 | `ReceiveEvent`, `ConsumeIntent`, `WriteSubscription`, `Acknowledge` |
| checkout and the customer at the provider | `OpenCheckout`, `Pay`, `Change`, `Tick` |
| upload of a screenshot | `BeginUpload`, `PutObject`, `InsertArtifact`, `CleanObject` |
| evictions and failing calls | `CallFails`, `WorkerEvicted`, `HookFails`, `UploadFails` |

Abstractions. One checkout and one subscription, with Stripe, the preferred
provider; ACTIVE stands for every status but CANCELED. The attempt count and
the backoff are `due`; the inline first pass of a request is an ordinary
claim. The saga's own cancellation can be replayed (its idempotency key is
`zenguy-cancel-<id>`), one of an ended subscription is refused. No trigger
protects `stripe_checkout_intents` from inserts after the tombstone, and the
model has them. Grants, internal subscriptions and all other rows that the
purge deletes are left out.

## 9. Runs

| Run | Instance | Shows |
|---|---|---|
| `attempt_safety` | two invocations (one may also be the maintenance), two deliveries, 1 functional and 1 infrastructure retry, deletion | the type invariant, safety and action properties of the run (1.6 million states) |
| `attempt_settles` | one request and one cron invocation, outcomes PASSED, FAILED and TIMEOUT, 1 functional and 1 infrastructure retry, one eviction | the verdict matches the attempts, every run settles, and every step is a step of `RunContract` or a stutter (0.7 million states) |
| `outbox_races` | two invocations, one redrive, one failure before quarantine, two messages, one fault, tombstone | `NothingLost`, `DuplicateHasCause`, `QuarantineIsFinal` (0.7 million states) |
| `outbox_settles` | one invocation at a time, one redrive, one failure, three messages, two faults | nothing above the redrive limit is sent; every row and the work settle |
| `check_races` | two invocations, two cycles, no retry, one fault | `MutableSentOnce`, `LateOutcomeTouchesNothing`, `StatusMovesForward` (1.3 million states) |
| `check_settles` | one invocation at a time, two cycles of two attempts, one fault, deletion | `StatusMatchesIncident`, `JobsComplete`, `CyclesGoOn` |
| `paid_delivery` | two invocations, two deliveries, credit 2, daily limit 1, one fault, one change of the workspace or one day | the four invariants of `PaidDelivery`, and every step is a step of `DeliveryContract` or a stutter (1.2 million states) |
| `session_tokens` | two requests, four tokens, grace of no whole tick, walk of two, one reset, one tick | the three properties of `SessionTokens` (3.5 million states) |
| `deletion_races` | two saga workers, two webhook deliveries, one change, two seconds, one fault | `CompletedIsCanceled`, `RowFollowsProvider` (2 million states) |
| `deletion_settles` | one worker, one webhook delivery, one upload, one change, three seconds, one fault | `NothingLeftBehind`, `DeletionCompletes` (0.9 million states) |
| `attempt_deletion` | two invocations, one delivery | **violated**: a deletion can close an attempt its runner owns |
| `deletion_cancel` | one saga worker, one webhook delivery | **violated**: the row of a subscription that is still billed is cancelled locally |

Why the bounds are enough to be interesting: two invocations are needed for
every race listed under "hazards", and each involves two (a third one only
repeats what one of the two could have done). In the run model two deliveries
compete for one message; one infrastructure retry separates an old generation
from a new one, and reaching its limit reaches the "no more retries" branches;
with two kinds of failure a functional retry makes the latest failure differ
from an earlier one. In the outbox one redrive is enough for a row above the limit, which
takes a third message to send; `MaxSends` bounds the messages a queue accepts,
after which sending fails. Two cycles make an outcome late for its own and in
time for another; the second attempt of a cycle exists in `check_settles`. A
daily limit below the credit lets either of the two stop a charge. Four tokens
are a chain longer than the walk, or two chains; with a grace of 0 ticks a
token is out of it after one tick. The events of a subscription are at most
three (created, changed, cancelled); in `deletion_races` in two seconds, which
gives ties and inversions, in `deletion_settles` in three, so that each of them
may have a second of its own and ties are one case among others.

The limits of the code are larger (5 redrives, 8 failures, walk of 8, ...) but
none is special: the theorems of section 11 hold for all values.

In the runs of `AttemptLifecycle` deadlock checking is on: maintenance and
redeliveries keep the model moving, and a state where no invocation could act
would be a modelling error. The others may stop when their bounded work is
done.

### Properties

`AttemptLifecycle`:

- `NeverStranded`: while a run has no verdict, exactly one attempt is open and
  nothing is pending, or none is open and exactly the continuation of the last
  attempt at the current `infra_attempts` is pending. It is what makes the
  sweeps and `resumePendingJobs` sufficient.
- `VerdictRecorded`, and `AttemptCount` (which `ImplementsContract` implies, and
  section 11 proves): what three batches write from earlier reads still
  describes the rows.
- `Billing`: charged iff started; reversed only for a non-billable decided run
  and by the time it is settled; a verdict about the test leaves the run
  billable, so that it never loses the charge of a start; a system error that
  stays billable was charged. It does not say that every verdict is charged,
  because that is not so: `complete` takes an outcome from STARTING
  (`external_runner.ts:512-522`), and the usage event is written by
  `markRunning` alone. A run whose runner completes without a start keeps its
  verdict and is never charged. No text of the repository rules this out.
- `SettledHandled`: no run is settled without its side effects except a
  cancelled one.
- `ExclusiveLease`, `SecretsOnce`: one runner per generation and one answer
  with secrets per generation, although `markRunning` tests no generation and
  a requeued row keeps its old `runner_delivery_id`.
- `StaleOutcomeIgnored`, `VerdictsAreFinal`: what no step may do.
- `RunSettles`: under `FairSpec`, every run is settled in the end.
- `ImplementsContract`: `RunContract` knows one attempt at a time, a word about
  the test only from an attempt that a runner holds, the decision as a function of the outcomes
  alone, one charge at the first start, refund and report before settlement.
  The mapping reads `tries` from the attempt rows, the verdict from the run
  once it is terminal, `refund` and `silent` from the finalization job.

`QueueOutbox`:

- `NothingLost`: work no consumer has executed has an unpublished row or a
  message that is not acknowledged. It relates four steps that each look safe
  alone: send before mark, insert before acknowledgement, refuse before send,
  and the acknowledgement of bodies no schema knows.
- `RedriveBounded`: the redrive of a message at its limit writes a row above
  it and quarantines the row in a second call. If it is evicted in between, it
  is the schema that keeps a flush from sending the row.
- `DuplicateHasCause`: producers, flushes and redrives race without sending a
  row twice, unless a lease has ended or a failure was recorded.
- `QuarantineIsFinal`: `recordOutboxFailure` writes `quarantined_at` back, but
  never to NULL on a row that failures or its payload have quarantined.
- `RowsSettle`, `WorkSettles`: under `FairSpec`, no row stays pending, and a
  message nobody can execute does not circulate for ever.

`CheckCycle`:

- `MutableSentOnce`: a request that changes its target is sent at most once
  for a try. Three mechanisms share the work: the lease, the report of a taken
  over claim as ambiguous, and the refusal to give a claim up after a mutable
  request has failed.
- `LateOutcomeTouchesNothing`: a request may outlive its cycle. Its outcome is
  stored, and neither opens nor resolves an incident, nor writes an event, nor
  alerts, although the monitor may be in a later cycle by then.
- `StatusMovesForward`: no step takes the status back to that of an older
  check.
- `StatusMatchesIncident`: closing the cycle, moving the incident and
  completing the job are separate calls; a continuation that was cut off
  between two of them is resumed, perhaps after newer checks, and in the end
  the monitor is DOWN iff it has an open incident. This is not claimed when
  two continuations of one monitor have run side by side: then a slow pass may
  resolve what a newer failure has just opened (see "hazards").
- `JobsComplete`, `CyclesGoOn`: under `FairSpec`, every continuation is
  completed, and a cycle whose worker is gone, or whose message was
  acknowledged while another worker held the claim, does not stop the monitor.

`PaidDelivery`:

- `CalledAgainOnlyIfRejected`: a provider that has accepted, or may have, is
  never called again for the delivery. The lease may end in the middle of a
  call; then the row becomes ambiguous, and stays so.
- `AcceptedIsPaid`: what was accepted stays charged, and is not given up as
  failed by a worker that judges by an old row.
- `CreditKept`: overlapping charges and refunds neither overdraw nor pass the
  limit, and the balance is what the entries say.
- `AckedIsReported`: when the message is gone, the delivery has an outcome and
  the incident tells it.
- `ImplementsDelivery`: `DeliveryContract` takes credit once and before the
  call, asks only when every call before was rejected and, while the workspace is
  open, only for a delivery that is undecided, fails a delivery only then or
  when the workspace closes, makes SENT only what was accepted, never
  changes an outcome unless it was unclear, refunds nothing whose call may have
  been accepted, and tells no outcome that is not there. The mapping reads the
  outcome from status and dispatch state (`PENDING` and `AMBIGUOUS` is
  "unclear") and `open` from the state of the workspace; claims, leases,
  tokens, evictions and messages are invisible. `Ask` is weaker than one might
  wish, as the code is: a call that is on its way when the workspace closes is
  made, though its delivery has just failed with the workspace. If the provider
  accepts, the alert is sent and its row stays FAILED; it stays paid
  (`AcceptedIsPaid`) and is not called again.

`SessionTokens`:

- `HeldIsCurrent`: a login verifies a password, reads no further and inserts
  its token after a reset; the confirming read and the revocation keep the
  token from its client. A refresh carries over the session of the user it has
  read, which a logout in between makes worthless.
- `OneHead`: racing and interrupted rotations neither fork a chain nor end it.
- `RaceIsNotReuse`: clients that race or repeat within the grace are not taken
  for thieves.

`WorkspaceDeletion`:

- `CompletedIsCanceled`: a row that is written after the cancellation stage
  reopens the deletion.
- `NothingLeftBehind`: the purge deletes objects before rows, an upload puts
  its object before its row; together nothing is left, except by an upload
  that is evicted after the purge.
- `RowFollowsProvider`: events that are late, repeated and reordered, and
  reads that precede the write, still leave the row as the provider has it,
  unless two events had the same second (`tied`).
- `DeletionCompletes`: under `FairSpec`, a tombstoned workspace is deleted in
  the end, whatever the webhook still writes, with one exception, `Stranded`.
  The upsert accepts an event of the same second as the row's (`>=`). When the
  customer ends the subscription in the second of its creation or of another
  change, the older event, redelivered after the newer, puts the row back to
  ACTIVE for good. The saga then asks the provider to cancel what has ended,
  is refused, and tries again for ever: such a workspace is never deleted. The
  exception is as narrow as it can be: the formula allows it only to a behaviour
  that ends in exactly this state and stays there (`<>[]Stranded`). A tie that
  the row survives, or that the saga's own cancellation takes part in, exempts
  nothing. Without the exception TLC finds the hang with two provider events.

Every property is violated by a mutant of the modelled code ("mutants" in
`PROJECT.json`; the mutated operators stand in the module just before the
definition they replace).

### Fairness

`FairSpec` of `AttemptLifecycle` assumes that an invocation that is not evicted
goes on (weak fairness of `Step(p)`: the runtime runs a promise chain to its
end) and that the cron triggers keep firing and keep working (weak fairness of
`Cron(p)`: `*/5` and hourly triggers). It assumes nothing of requests, queue
deliveries or runners: they may all stop. Evictions are bounded by
`MaxCrashes`; a platform that evicts every invocation for ever settles nothing.

`QueueOutbox` assumes the same of its invocations and of the flush (weak
fairness of publishing each row while it is claimable), that time passes
(`LeaseEnds`), and that the platform delivers a queue's messages until they are
acknowledged or moved on, in the main queue and in the dead-letter queue. It
does not assume that a send ever succeeds or that a consumer ever executes
anything.

`CheckCycle` assumes that awaits return, that a message is delivered until it
is acknowledged, that the cron resumes pending jobs, opens due cycles and
clears old ones, that leases end, and that the deletion of a monitor goes on.

`WorkspaceDeletion` assumes that the saga runs from the cron (weak fairness of
a worker's steps), that retry times and leases come to their end, that a
webhook handler goes on, and, strongly, that the provider repeats the news of
a cancellation until it is acknowledged (a handler may be busy with another
event in between). Without the last, a customer's own cancellation whose event
is lost keeps the saga asking the provider to cancel what has ended.

Faults are bounded in all of them.

## 10. Divergences found

Two comments state more than the code guarantees, and each has a run.

1. `attempt_lifecycle.ts:214` promises that a deletion never terminalises an
   attempt its worker owns. The promise is tested on the row read at the start
   of `claim`, not in the batch that records the cancellation. The run itself
   stays consistent (`NeverStranded`, `Billing` and the rest hold in the same
   model, deletions included): the owner's later result is ignored.
2. `workspace_deletion_saga.ts:84` says that local cancellation is written only
   after the provider confirms it. A webhook that consumed the checkout before
   the tombstone may insert its row after the cancellation stage found none.
   The trigger reopens the cancellation, but a purge that has passed its check
   cancels the row without asking anyone, and the reopened stage takes that
   for done.

Others were met on the way and have no run:

- `external_runner.ts:271` promises of a refusal for lack of consent what (1)
  promises of a deletion; the generation is rechecked later, the status is not.
- `attempt_lifecycle.ts:598` says cancellations record nothing. The
  cancellation is two batches, and a maintenance pass between them takes the
  pending continuation for an ordinary system error.
- `domain/workspaces/deletion.ts:76` says the tombstone "quiesces every
  producer/consumer". It quarantines the pending outbox rows, also one that is
  being sent; when that send fails, `recordOutboxFailure` sets
  `quarantined_at` back to NULL and the row is published after all.
- `src/docs/alerts-paid-channels.md:14` says a rejected alert is refunded. The
  refund is a call whose failure is swallowed, and it fails for good after the
  tombstone.

## 11. Proofs

The theorems of the first three modules are about `Spec` of
`AttemptLifecycle`, for every number of invocations, deliveries and
retries and every set of outcomes satisfying the three assumptions of
`AttemptLifecycle` (`RetriesAssumption`, `OutcomesAssumption`,
`DeliveriesAssumption`), with crashes.

**`AttemptLifecycleProofs`** - `Inv` is inductive (`Invariance`):

- `TypeOK`;
- `RowsOK`: the rows 0 .. `attempt_count` - 1 exist, and every one but the last
  ended FAILED or TIMEOUT;
- `GensOK`: no generation exceeds `infra_attempts`, and the last attempt's
  equals it;
- `JobsOK`: a continuation exists only for keys up to the current one (the
  last attempt at the current `infra_attempts`), only that one can be pending,
  and it is exactly while that attempt is finished and the run is not: its key
  is free exactly while the attempt is open;
- `ProcOK(q)`: what an invocation remembers (the verdict it has decided on is
  the one the present rows call for). `Fresh`: a handler about to insert
  a continuation either finds the key taken or acts on the current attempt.
  `Decided`: if the continuation it is about to apply is still pending, its
  decision and the count it read are those of the present rows.

The last is the heart of the argument. It is why batches guarded by nothing
but the pending job may write `attempt_count` and the verdict from an old
read, and why `infra_attempts` cannot pass its limit (without it not even
`TypeOK` is inductive). From it follow `TypeCorrect`, `RunNeverStranded`,
`CountIsExact`.

Its second part adds `LeaseInv`: a lease names the current generation
or an older one of its attempt, and in the first case its holder owns the row
and the row is no longer queued; secrets have gone out only for generations
that are past starting. It yields `LeaseIsExclusive` and
`SecretsReleasedOnce`.

**`AttemptOutcomeProofs`** strengthens it with `MoneyInv`: the finalization
job carries the reversal exactly for a non-billable run, a usage event exists
exactly for a started run, and an invocation past the reversal (or past the
handlers) of a finalization finds it done. It yields `BillingCorrect`,
`SettledMeansHandled`, `VerdictIsRecorded` and, as properties of steps,
`VerdictIsFinal` and `StaleOutcomesAreIgnored` (with `Matched`: an invocation
about to record read an attempt of its own generation, at the key it will
insert). `BillingCorrect` is about every order in which runners start and
complete, starts left out included.

**`AttemptContractProofs`** proves `RunKeepsContract`, that `Spec` implements
`RunContract`. `KeepInv` says what an invocation about to write knows: a
verdict is only reported for a generation that has been claimed (`Claimed`:
its attempt has left the queue or a later generation is current), a cancellation is
only under way for a deleted test, the handlers only run for a run that was
not cancelled. With it and the invariants above there is one simulation lemma
per action that writes: `ClaimCas` is `Claim`, `StartRun` is `Start`,
`FinishRecord` and `CancelRecord` are `End`, `ApplyRetry` is `Retry`,
`ApplyInfra` is `Again`, `ApplyFinalize` is `Decide`, `CancelRun` is `Cancel`,
the three writes of the finalization are `Refund`, `Report` and `Settle`; each
of them, and every other action, may also be a stutter.

**`QueueOutboxProofs`** is about `Spec` of `QueueOutbox`, for every set of
invocations and every value of the limits and bounds satisfying
`OutboxAssumption`. `Inv` is inductive:

- `TypeOK`;
- `Linked`: a message has a greater number than the row it was sent from, a
  published row has a message, and an acknowledged dead letter whose work was
  not executed has a row of its own number;
- `Working`: an invocation's row and dead letter are in the table, a valid
  payload is being sent, and what is about to be marked was sent;
- `Bounded`: what was sent is within the limit.

`NothingLost` is not inductive by itself: the row that stands for the work
moves along a chain of redrives of any length. `GreatestRowStands` takes the
greatest row there is (`GreatestRow`, from the well-foundedness of the
naturals): if it is published, its message is in flight, since an acknowledged
one would have a greater row. `RedriveBounded` is in `Inv`, and
`StepQuarantine` is `QuarantineIsFinal` for one step: the publisher that
records a failure holds a valid payload, so the row was quarantined for its
failures, and one more keeps it there. `DuplicateHasCause` needs `Sole`: a row
that no claim outlived and no failure was recorded for has at most one
publisher, cannot be claimed while it has one or has been sent, and was sent
at most once. One lemma (`QuietStep`) covers the steps that neither claim,
send nor insert.

**`PaidDeliveryProofs`** rests on one fact, `Alone`: at most one invocation is
past the claim of a delivery and not done with it. `beginDispatch` needs a
READY row, and the only step that makes a row READY again is the last of the
invocation that works on it. The ended lease does not break this: it makes the
row ambiguous, which nobody claims. `Owned` (the token in a row names the
invocation that works on it, at the attempt of the row) and `AttemptsLeft` give
`TypeCorrect`, with `MaxAttempts` inside the type. `Fits` (what an invocation
may rely on at each place) and `Counted` (calls, rejections and attempts of a
row) give `CalledAgain` and `AcceptedPaid`. `CreditSafe` counts the finite sets
of ledger entries; `Scrubbed` says that a charge without a key stems from after
the tombstone, so that it is never charged or refunded again. `AckedReported`
follows `Tells`: an invocation that is about to acknowledge finds the outcome
told, unless it was overtaken by one that will tell it, whose message is still
there.

Its last part proves `DeliveryKeepsContract`, that `Spec` implements
`DeliveryContract`. It needs the invariants above and `HeardInv`: a row is SENT
only if the provider accepted, and so is what an invocation about to record an
acceptance works on. There is one simulation lemma per action that shows:
`Debit` is `Take`, `Send` is `Ask`, `Answered` is `Reject`, `Sent` and `Accept`
are `Succeed`, `FinishRemoved`, `FinishStopped`, `Skip` and `Failed` are `GiveUp`,
`MarkAmbiguous` and `MarkStale` are `Doubt`, `RefundFailed` is `GiveBack`,
`Reconcile` is `Tell`, `Tombstone` is `Close`, `DayPasses` is `NextDay`; each
may also be a stutter, and claims (`SimulateClaim`), returned claims
(`SimulateAgain`) and all other steps (`SimulateQuiet`) always are.

**`WorkspaceDeletionProofs`**: `TypeCorrect`; `CompletedCanceled` from the table
of the state's steps (`StateSteps`); `CompletedEmpty` from `StorageInv`: a
worker that has deleted the objects finds none of a finished upload left
(`Emptied`), because no upload finishes with an object of its own after the
tombstone; `RowFollows` from `BillingInv`: no event is newer than the newest
(`Timed`), the newest event is undelivered, in a webhook's hands or written
(`Followed`), and a webhook that is done, or has read a row, has something at
least as new in the row (`Handled`).

**`SessionTokensProofs`** follows chains rather than tokens. A chain is what one
login has opened. It has at most one live token (`Headed`), and once it has
none it is dead for good, because a rotation needs a live token. Every session
in the model was the session of the user once, and a token that a client holds
is in a chain whose live token is of the present session (`Honoured`).
`Carries` says what one request relies on; in particular, a request that read
the user before a revocation is left with a dead chain, since a revocation
kills every chain and makes a new session in the same step (`InvRevoke`).
`Apart` keeps the token of a login to itself until it is returned. This gives
`TypeCorrect`, `HeldCurrent` and `SingleHead`. `RaceNotReuse` adds two facts
that hold while nothing excuses a reuse: a revoked token leads to one that is
live or was revoked no earlier (`Leading`), and every request began in the
present tick, with a token that is live or was revoked within the grace
(`Timely`).

**`CheckCycleProofs`** follows the checks in the order they were persisted. A
check that has closed its cycle is a closer. A cycle is opened after the
previous one is over, so a check that may still close its cycle was persisted
after every closer (`ClosesNewer`), and the monitor shows the latest closer
(`ShowsLatest`). `Inv` is inductive:

- `TypeOK` and `Cycled` (the monitor is in no cycle or in the latest);
- `Persisted`, `Distinct`: a check exists exactly when the claim of its try is
  completed, with its job, and no two have the same time; a completed job
  belongs to a check that is tried again or to a cycle that is over;
- `Closer`: a closer is not tried again, its cycle is over, and what was
  persisted for a later cycle is newer;
- `Placed(l)`: what an invocation may rely on at its place in the code; in
  particular, one that may touch the incident handles a closer, because the
  `lastCheckAt` it read is that of some closer.

`InvQuiet` and `Walks` cover the steps that leave the tables alone, `Grows`
says how the others may move what an invocation remembers (`PlacedStays`).
This gives `TypeCorrect`, `OnlyClosersTouch` and `ShownStateMovesForward`.
`MutableRequestSentOnce` adds `SentInv`: a mutable request that has not been
sent is the business of one invocation, which has claimed the try, and nobody
gives the claim of a mutable request up. `IncidentFollowsStatus` adds
`AgreeInv`, which holds while no two continuations have run side by side and
the monitor is not deleted: there is at most one continuation at the monitor
(`Alone`); it may touch the incident exactly when its check is the latest
closer (`Fits`); and the latest closer agrees with the incident once its job
is completed, once it has resolved an incident and once it has opened one
(`Settles`), which is what lets a resumed run find its own work and go on. The
run `check_settles` has one invocation; the theorem is for any number.

Every safety property of the passing runs is thus a theorem: the invariants,
the properties of steps and the two refinements.

Liveness under fairness and `ENABLED` are outside the prover: `RunSettles`,
`RowsSettle`, `WorkSettles`, `JobsComplete`, `CyclesGoOn` and
`DeletionCompletes` are only model-checked. No module declares a recursive
operator.

## 12. Not modelled

See "components" in `PROJECT.json` and the end of section 2.

- The rest of the workspace tombstone: it also closes open attempts and runs
  and quarantines their jobs in one batch
  (`infrastructure/db/workspace_deletion_repo.ts:40`). Outbox rows, deliveries,
  subscriptions and uploads have it in their modules, runs and checks do not;
  the deletion in the run model is that of the browser test, which leaves runs
  alone.
- The incident of a browser test; the run model records that its handlers ran.
- Run creation: one guarded insert decides. The unique active run and the
  unique occurrence are indexes.
- Of the gateway: steps and their budget, action authorisations, capability
  tokens, rate limits.
- Billing beyond the Stripe subscription: Paddle, top-ups, disputes, grants,
  overage reports, the usage of a period.
- HTTP routes, members, status pages, reports, analytics: reads and writes of
  single rows.
- The runner process, containers, providers and object storage are external:
  any behaviour the API accepts from them.
- Web, mobile and marketing applications, scripts, seeds and documentation.
