-------------------------- MODULE AttemptLifecycle --------------------------
(***************************************************************************)
(* One browser-test run, from its first queued attempt to the settled      *)
(* verdict: the rows of test_runs, test_attempts, usage_events and         *)
(* durable_jobs, and the Worker invocations that read and write them.      *)
(*                                                                         *)
(* An invocation may be evicted between any two of its database calls and  *)
(* any number of others run meanwhile, so every handler is split at its    *)
(* awaits: an action is one read of the database, or one D1 batch, which   *)
(* is a transaction.  Reads issued together by Promise.all are one read.   *)
(*                                                                         *)
(* Attempt rows are named by their index, unique per run.  A generation    *)
(* (the column queued_at, carried by messages as executionGeneration) is   *)
(* the number of infrastructure retries the run had seen when that attempt *)
(* was last queued.  A worker may be reported lost at any moment: the      *)
(* deadlines are abstracted to a choice.                                   *)
(***************************************************************************)
EXTENDS Integers, FiniteSets

CONSTANTS
  Requests,         (* invocations that serve runner requests              *)
  Crons,            (* invocations of the scheduled maintenance            *)
  Deliveries,       (* runner delivery ids                                 *)
  NoDelivery,
  Outcomes,         (* the outcomes a runner may report                    *)
  MaxRetries,       (* functional retries, frozen in the run's snapshot    *)
  MaxInfraRetries,  (* MAX_INFRA_RETRIES                                   *)
  MaxCrashes        (* bound: evictions of an invocation                   *)

Functional == {"FAILED", "TIMEOUT"}
Verdicts == {"PASSED"} \cup Functional
Final == Verdicts \cup {"SYSTEM_ERROR"}
Open == {"QUEUED", "STARTING", "RUNNING"}

ASSUME RetriesAssumption ==
  MaxRetries \in Nat /\ MaxInfraRetries \in Nat /\ MaxCrashes \in Nat

ASSUME OutcomesAssumption == Outcomes \subseteq Final

ASSUME DeliveriesAssumption == NoDelivery \notin Deliveries

Procs == Requests \cup Crons
Index == 0..MaxRetries
Infra == 0..MaxInfraRetries

VARIABLES
  run,       (* the test_runs row                                          *)
  attempt,   (* test_attempts rows, by attempt_index                       *)
  conts,     (* ATTEMPT_CONTINUATION jobs, by (attempt, infra attempts)    *)
  final,     (* the RUN_FINALIZATION job                                   *)
  usage,     (* the usage event                                            *)
  deleted,   (* the browser test is deleted                               *)
  msgs,      (* attempt messages in the outbox: delivered at least once    *)
  leases,    (* jobs handed to runners by a claim                          *)
  released,  (* secret leases released, by attempt and generation          *)
  handled,   (* the finalization side effects have run                     *)
  proc,      (* the invocations in progress                                *)
  crashes

db == <<run, attempt, conts, final, usage>>
runners == <<leases, released>>
vars == <<run, attempt, conts, final, usage, deleted, msgs, leases, released,
          handled, proc, crashes>>

-----------------------------------------------------------------------------
(* Types *)

Ref == [idx : Index, gen : Infra, dlv : Deliveries]

NoAct == [kind |-> "none", status |-> "NONE", reverse |-> FALSE, count |-> 0]

Act == [kind    : {"none", "retry", "infra", "finalize"},
        status  : Final \cup {"NONE"},
        reverse : BOOLEAN,
        count   : 0..(MaxRetries + 1)]

Labels == {"idle", "claimJob", "claimTarget", "claimCas", "start",
           "finish", "finishJob", "record", "cancelJob", "cancelRecord",
           "cancelRun", "continue", "apply", "final", "reverse", "handle",
           "settle", "complete"}

(* The local variables of an invocation: the request's reference, the     *)
(* attempt status it read (or the outcome it is recording) and why, the   *)
(* value of infraAttempts it read (the job key; in a claim about to write, *)
(* the clock: the generation that was due), its decision, and              *)
(* whether it must complete a continuation after the finalization.        *)
Local == [pc    : Labels,
          idx   : Index,
          gen   : Infra,
          dlv   : Deliveries \cup {NoDelivery},
          st    : Open \cup Final \cup {"NONE"},
          why   : {"NONE", "OUTCOME", "LOST", "UNCLAIMED", "NO_CONSENT"},
          infra : Infra,
          open  : BOOLEAN,
          act   : Act,
          back  : BOOLEAN]

Idle == [pc |-> "idle", idx |-> 0, gen |-> 0, dlv |-> NoDelivery,
         st |-> "NONE", why |-> "NONE", infra |-> 0, open |-> FALSE, act |-> NoAct,
         back |-> FALSE]

TypeOK ==
  /\ run \in [status  : {"QUEUED", "RUNNING"} \cup Final,
              infra   : Infra,
              started : BOOLEAN,
              billable : BOOLEAN,
              count   : 0..(MaxRetries + 1)]
  /\ attempt \in [Index -> [status    : {"NONE"} \cup Open \cup Final,
                            gen       : Infra,
                            owner     : Deliveries \cup {NoDelivery},
                            cancelled : BOOLEAN]]
  /\ conts \in [Index \X Infra -> {"NONE", "PENDING", "COMPLETED"}]
  /\ final \in [status  : {"NONE", "PENDING", "COMPLETED"},
                reverse : BOOLEAN,
                handle  : BOOLEAN]
  /\ usage \in {"NONE", "CHARGED", "REVERSED"}
  /\ deleted \in BOOLEAN
  /\ msgs \subseteq Index \X Infra
  /\ leases \subseteq Ref
  /\ released \in [Index \X Infra -> Nat]
  /\ handled \in BOOLEAN
  /\ proc \in [Procs -> Local]
  /\ crashes \in 0..MaxCrashes

-----------------------------------------------------------------------------
(* Helpers *)

Terminal == run.status \in Final

Rows == {i \in Index : attempt[i].status # "NONE"}

At(p, label) == proc[p].pc = label
Goto(p, label) == proc' = [proc EXCEPT ![p].pc = label]
Return(p) == proc' = [proc EXCEPT ![p] = Idle]
Key(p) == <<proc[p].idx, proc[p].infra>>

(* Calls: the callee starts with its arguments only. *)
Call(p, locals) == proc' = [proc EXCEPT ![p] = locals]
Finishing(i, g, outcome, why) ==
  [Idle EXCEPT !.pc = "finish", !.idx = i, !.gen = g, !.st = outcome,
               !.why = why]
Continuing(key) ==
  [Idle EXCEPT !.pc = "continue", !.idx = key[1], !.infra = key[2]]
Finalizing == [Idle EXCEPT !.pc = "final"]

(* The latest functional failure among the other attempts, if any. *)
PriorFunctional(i) ==
  {j \in Rows \ {i} : attempt[j].status \in Functional}

LatestFunctional(i) ==
  attempt[CHOOSE j \in PriorFunctional(i) :
            \A k \in PriorFunctional(i) : k <= j].status

Finalize(status, reverse) ==
  [kind |-> "finalize", status |-> status, reverse |-> reverse,
   count |-> Cardinality(Rows)]

Reschedule(kind) ==
  [kind |-> kind, status |-> "NONE", reverse |-> FALSE,
   count |-> Cardinality(Rows)]

(* Mutant: the verdict of a system error hides an earlier timeout. *)
NextActionForgetsTimeout(i) ==
  IF attempt[i].status = "SYSTEM_ERROR" /\ run.infra = MaxInfraRetries
     /\ PriorFunctional(i) # {}
  THEN Finalize("FAILED", FALSE)
  ELSE IF attempt[i].status = "PASSED" THEN Finalize("PASSED", FALSE)
  ELSE IF attempt[i].status \in Functional
  THEN IF i < MaxRetries THEN Reschedule("retry")
       ELSE Finalize(attempt[i].status, FALSE)
  ELSE IF run.infra < MaxInfraRetries THEN Reschedule("infra")
  ELSE Finalize("SYSTEM_ERROR", ~run.started)

(* Mutant: one infrastructure retry too many. *)
NextActionOffByOne(i) ==
  IF attempt[i].status = "SYSTEM_ERROR" THEN Reschedule("infra")
  ELSE IF attempt[i].status \in Functional /\ i < MaxRetries
  THEN Reschedule("retry")
  ELSE Finalize(attempt[i].status, FALSE)

(* decideAfterAttempt, on the rows read by a continuation. *)
NextAction(i) ==
  LET st == attempt[i].status IN
  CASE st = "PASSED" -> Finalize("PASSED", FALSE)
    [] st \in Functional /\ i < MaxRetries -> Reschedule("retry")
    [] st \in Functional /\ i = MaxRetries -> Finalize(st, FALSE)
    [] st = "SYSTEM_ERROR" /\ run.infra < MaxInfraRetries
         -> Reschedule("infra")
    [] st = "SYSTEM_ERROR" /\ run.infra = MaxInfraRetries
         -> IF PriorFunctional(i) # {}
            THEN Finalize(LatestFunctional(i), FALSE)
            ELSE Finalize("SYSTEM_ERROR", ~run.started)

-----------------------------------------------------------------------------
(* create_run leaves one queued run, its attempt 0 and an outbox message.  *)

Unborn == [status |-> "NONE", gen |-> 0, owner |-> NoDelivery,
           cancelled |-> FALSE]

Init ==
  /\ run = [status |-> "QUEUED", infra |-> 0, started |-> FALSE,
            billable |-> TRUE, count |-> 1]
  /\ attempt = [i \in Index |->
                  IF i = 0 THEN [Unborn EXCEPT !.status = "QUEUED"]
                  ELSE Unborn]
  /\ conts = [k \in Index \X Infra |-> "NONE"]
  /\ final = [status |-> "NONE", reverse |-> FALSE, handle |-> FALSE]
  /\ usage = "NONE"
  /\ deleted = FALSE
  /\ msgs = {<<0, 0>>}
  /\ leases = {}
  /\ released = [k \in Index \X Infra |-> 0]
  /\ handled = FALSE
  /\ proc = [p \in Procs |-> Idle]
  /\ crashes = 0

(* delete_browser_test.ts: the test is soft-deleted; its runs are left alone. *)
DeleteTest ==
  /\ ~deleted
  /\ deleted' = TRUE
  /\ UNCHANGED <<db, msgs, runners, handled, proc, crashes>>

-----------------------------------------------------------------------------
(* AttemptLifecycle.claim: read, look for a continuation, look at the      *)
(* test and the workspace, then compete for the queued attempt.            *)

(* A delivery of message <<i, g>> (queue, container watchdog or fallback   *)
(* polling) claims the attempt; one for an older generation is skipped.    *)
ClaimRead(p, d, i, g) ==
  /\ At(p, "idle")
  /\ <<i, g>> \in msgs
  /\ LET snapshot == [Idle EXCEPT !.idx = i, !.gen = g, !.dlv = d,
                                  !.st = attempt[i].status,
                                  !.infra = run.infra] IN
     \/ /\ Terminal
        /\ Call(p, Finalizing)
     \/ /\ ~Terminal
        /\ attempt[i].gen = g
        /\ Call(p, [snapshot EXCEPT !.pc = "claimJob"])
  /\ UNCHANGED <<db, deleted, msgs, runners, handled, crashes>>

ClaimJob(p) ==
  /\ At(p, "claimJob")
  /\ IF conts[Key(p)] = "PENDING"
     THEN Call(p, Continuing(Key(p)))
     ELSE Goto(p, "claimTarget")
  /\ UNCHANGED <<db, deleted, msgs, runners, handled, crashes>>

(* Only a delivery that already owns a STARTING attempt is handed the same *)
(* job again; for any other owner the attempt is busy, or its worker lost. *)
ClaimTarget(p) ==
  LET i == proc[p].idx IN
  /\ At(p, "claimTarget")
  /\ \/ /\ deleted
        /\ proc[p].st = "QUEUED"
        /\ Goto(p, "cancelJob")
        /\ UNCHANGED leases
     \/ /\ deleted
        /\ proc[p].st # "QUEUED"
        /\ Return(p)
        /\ UNCHANGED leases
     \/ /\ ~deleted
        /\ proc[p].st = "QUEUED"
        /\ proc' = [proc EXCEPT ![p].pc = "claimCas",
                                ![p].infra = attempt[i].gen]
        /\ UNCHANGED leases
     \/ /\ ~deleted
        /\ proc[p].st \in {"STARTING", "RUNNING"}
        /\ Call(p, Finishing(i, proc[p].gen, "SYSTEM_ERROR", "LOST"))
        /\ UNCHANGED leases
     \/ /\ ~deleted
        /\ proc[p].st = "STARTING"
        /\ attempt[i].owner = proc[p].dlv
        /\ attempt[i].gen = proc[p].gen
        /\ attempt[i].status = "STARTING"
        /\ leases' = leases \cup {[idx |-> i, gen |-> proc[p].gen,
                                   dlv |-> proc[p].dlv]}
        /\ Return(p)
     \/ /\ ~deleted
        /\ proc[p].st \notin {"QUEUED"}
        /\ Return(p)
        /\ UNCHANGED leases
  /\ UNCHANGED <<db, deleted, msgs, released, handled, crashes>>

(* Mutant: the claim does not test that the attempt is still queued. *)
ClaimCasBlind(p) ==
  LET i == proc[p].idx IN
  /\ At(p, "claimCas")
  /\ attempt' = [attempt EXCEPT ![i].owner = proc[p].dlv]
  /\ leases' = IF attempt[i].gen = proc[p].gen
               THEN leases \cup {[idx |-> i, gen |-> proc[p].gen,
                                 dlv |-> proc[p].dlv]}
               ELSE leases
  /\ Return(p)
  /\ UNCHANGED <<run, conts, final, usage, deleted, msgs, released, handled,
                 crashes>>

(* claimQueued: the row must still be QUEUED and due at the time the       *)
(* handler read its clock (here: its generation is no later than the one   *)
(* of that moment).  The runner gets the job only if the claimed row has   *)
(* the generation of its message.                                          *)
ClaimCas(p) ==
  LET i == proc[p].idx
      won == /\ attempt[i].status = "QUEUED"
             /\ attempt[i].gen <= proc[p].infra
  IN
  /\ At(p, "claimCas")
  /\ attempt' = IF won
                THEN [attempt EXCEPT ![i].status = "STARTING",
                                     ![i].owner = proc[p].dlv]
                ELSE attempt
  /\ leases' = IF won /\ attempt[i].gen = proc[p].gen
               THEN leases \cup {[idx |-> i, gen |-> proc[p].gen,
                                 dlv |-> proc[p].dlv]}
               ELSE leases
  /\ Return(p)
  /\ UNCHANGED <<run, conts, final, usage, deleted, msgs, released, handled,
                 crashes>>

(* claimWithPolicy without consent: a queued attempt of this generation is *)
(* closed as a system error.                                               *)
RefuseConsent(p, i, g) ==
  /\ At(p, "idle")
  /\ <<i, g>> \in msgs
  /\ attempt[i].gen = g
  /\ attempt[i].status = "QUEUED"
  /\ Call(p, Finishing(i, g, "SYSTEM_ERROR", "NO_CONSENT"))
  /\ UNCHANGED <<db, deleted, msgs, runners, handled, crashes>>

-----------------------------------------------------------------------------
(* ExternalRunner.start and complete, for a runner that holds a lease.     *)

Holds(lease) ==
  /\ attempt[lease.idx].owner = lease.dlv
  /\ attempt[lease.idx].gen = lease.gen

(* A start finds the attempt STARTING.  One that finds it RUNNING is       *)
(* answered without the secrets and changes nothing.                       *)
StartRead(p, lease) ==
  /\ At(p, "idle")
  /\ lease \in leases
  /\ Holds(lease)
  /\ ~Terminal
  /\ attempt[lease.idx].status = "STARTING"
  /\ Call(p, [Idle EXCEPT !.pc = "start", !.idx = lease.idx,
                          !.gen = lease.gen, !.dlv = lease.dlv])
  /\ UNCHANGED <<db, deleted, msgs, runners, handled, crashes>>

(* Mutant: a start that found the attempt already running is also new. *)
StartRunReplayed(p) ==
  LET i == proc[p].idx
      lease == [idx |-> i, gen |-> proc[p].gen, dlv |-> proc[p].dlv]
  IN
  /\ At(p, "start")
  /\ IF attempt[i].status \in {"STARTING", "RUNNING"} /\ ~Terminal
     THEN /\ usage' = IF usage = "NONE" THEN "CHARGED" ELSE usage
          /\ run' = [run EXCEPT !.status = "RUNNING", !.started = TRUE]
          /\ attempt' = [attempt EXCEPT ![i].status = "RUNNING"]
          /\ released' = [released EXCEPT ![<<i, lease.gen>>] = @ + 1]
     ELSE UNCHANGED <<usage, run, attempt, released>>
  /\ Return(p)
  /\ UNCHANGED <<conts, final, deleted, msgs, leases, handled, crashes>>

(* markRunning's batch: the usage event (once per run), the run and the    *)
(* attempt change together.  Its WHERE clauses test the attempt's status   *)
(* and not its generation; the secrets are released after a fresh check.   *)
StartRun(p) ==
  LET i == proc[p].idx
      lease == [idx |-> i, gen |-> proc[p].gen, dlv |-> proc[p].dlv]
  IN
  /\ At(p, "start")
  /\ IF attempt[i].status = "STARTING" /\ ~Terminal
     THEN /\ usage' = IF usage = "NONE" THEN "CHARGED" ELSE usage
          /\ run' = [run EXCEPT !.status = "RUNNING", !.started = TRUE]
          /\ attempt' = [attempt EXCEPT ![i].status = "RUNNING"]
          /\ released' = IF Holds(lease)
                         THEN [released EXCEPT ![<<i, lease.gen>>] = @ + 1]
                         ELSE released
     ELSE UNCHANGED <<usage, run, attempt, released>>
  /\ Return(p)
  /\ UNCHANGED <<conts, final, deleted, msgs, leases, handled, crashes>>

(* The runner reports an outcome, whether or not it ever asked to start: a *)
(* claimed attempt that is still STARTING takes any outcome.               *)
CompleteRead(p, lease, outcome) ==
  /\ At(p, "idle")
  /\ lease \in leases
  /\ Holds(lease)
  /\ ~Terminal
  /\ attempt[lease.idx].status \in {"STARTING", "RUNNING"}
  /\ Call(p, Finishing(lease.idx, lease.gen, outcome, "OUTCOME"))
  /\ UNCHANGED <<db, deleted, msgs, runners, handled, crashes>>

-----------------------------------------------------------------------------
(* AttemptLifecycle.onAttemptFinished: read, look for the continuation,    *)
(* record the outcome with a new one.                                      *)

FinishRead(p) ==
  LET i == proc[p].idx IN
  /\ At(p, "finish")
  /\ \/ /\ attempt[i].gen # proc[p].gen
        /\ Return(p)
     \/ /\ attempt[i].gen = proc[p].gen
        /\ Terminal
        /\ Call(p, Finalizing)
     \/ /\ attempt[i].gen = proc[p].gen
        /\ ~Terminal
        /\ proc' = [proc EXCEPT ![p].pc = "finishJob",
                                ![p].infra = run.infra,
                                ![p].open = attempt[i].status \in Open]
  /\ UNCHANGED <<db, deleted, msgs, runners, handled, crashes>>

FinishJob(p) ==
  /\ At(p, "finishJob")
  /\ \/ /\ conts[Key(p)] = "PENDING"
        /\ Call(p, Continuing(Key(p)))
     \/ /\ conts[Key(p)] = "NONE"
        /\ proc[p].open
        /\ Goto(p, "record")
     \/ /\ \/ conts[Key(p)] = "COMPLETED"
           \/ conts[Key(p)] = "NONE" /\ ~proc[p].open
        /\ Return(p)
  /\ UNCHANGED <<db, deleted, msgs, runners, handled, crashes>>

(* Mutant: an existing continuation of the key is reopened (an upsert). *)
RecordCompletionUpsert(i, key, status, cancelled) ==
  IF attempt[i].status \in Open
  THEN /\ conts' = [conts EXCEPT ![key] = "PENDING"]
       /\ attempt' = [attempt EXCEPT ![i].status = status,
                                     ![i].cancelled = cancelled]
  ELSE UNCHANGED <<conts, attempt>>

(* recordAttemptCompletion: the continuation and the outcome are one       *)
(* batch.  An existing job of the same key makes the insertion fail and    *)
(* the whole batch with it.                                                *)
RecordCompletion(i, key, status, cancelled) ==
  IF attempt[i].status \in Open /\ conts[key] = "NONE"
  THEN /\ conts' = [conts EXCEPT ![key] = "PENDING"]
       /\ attempt' = [attempt EXCEPT ![i].status = status,
                                     ![i].cancelled = cancelled]
  ELSE UNCHANGED <<conts, attempt>>

FinishRecord(p) ==
  /\ At(p, "record")
  /\ RecordCompletion(proc[p].idx, Key(p), proc[p].st, FALSE)
  /\ IF conts'[Key(p)] = "PENDING"
     THEN Call(p, Continuing(Key(p)))
     ELSE Return(p)
  /\ UNCHANGED <<run, final, usage, deleted, msgs, runners, handled, crashes>>

-----------------------------------------------------------------------------
(* AttemptLifecycle.cancelDeletedRun.                                      *)

CancelJob(p) ==
  /\ At(p, "cancelJob")
  /\ CASE conts[Key(p)] = "NONE"      -> Goto(p, "cancelRecord")
       [] conts[Key(p)] = "PENDING"   -> Goto(p, "cancelRun")
       [] conts[Key(p)] = "COMPLETED" -> Call(p, Finalizing)
  /\ UNCHANGED <<db, deleted, msgs, runners, handled, crashes>>

CancelRecord(p) ==
  /\ At(p, "cancelRecord")
  /\ RecordCompletion(proc[p].idx, Key(p), "SYSTEM_ERROR", TRUE)
  /\ CASE conts'[Key(p)] = "PENDING"   -> Goto(p, "cancelRun")
       [] conts'[Key(p)] = "COMPLETED" -> Call(p, Finalizing)
       [] conts'[Key(p)] = "NONE"      -> Return(p)
  /\ UNCHANGED <<run, final, usage, deleted, msgs, runners, handled, crashes>>

(* Mutant: the batch is not guarded by the pending continuation. *)
FinalizeRunUnguarded(key, status, reverse, handle, count) ==
  /\ run' = [run EXCEPT !.status = status, !.billable = ~reverse,
                        !.count = count]
  /\ final' = IF final.status = "NONE"
              THEN [status |-> "PENDING", reverse |-> reverse,
                    handle |-> handle]
              ELSE final
  /\ conts' = [conts EXCEPT ![key] = "COMPLETED"]

(* Mutant: the finalization job does not carry the reversal. *)
FinalizeRunKeepingCharge(key, status, reverse, handle, count) ==
  IF conts[key] = "PENDING"
  THEN /\ run' = [run EXCEPT !.status = status, !.billable = ~reverse,
                             !.count = count]
       /\ final' = IF final.status = "NONE"
                   THEN [status |-> "PENDING", reverse |-> FALSE,
                         handle |-> handle]
                   ELSE final
       /\ conts' = [conts EXCEPT ![key] = "COMPLETED"]
  ELSE UNCHANGED <<run, final, conts>>

(* finalizeRun: the run's verdict and the finalization job replace the     *)
(* continuation in one batch; without a pending continuation, nothing.     *)
FinalizeRun(key, status, reverse, handle, count) ==
  IF conts[key] = "PENDING"
  THEN /\ run' = [run EXCEPT !.status = status, !.billable = ~reverse,
                             !.count = count]
       /\ final' = IF final.status = "NONE"
                   THEN [status |-> "PENDING", reverse |-> reverse,
                         handle |-> handle]
                   ELSE final
       /\ conts' = [conts EXCEPT ![key] = "COMPLETED"]
  ELSE UNCHANGED <<run, final, conts>>

CancelRun(p) ==
  /\ At(p, "cancelRun")
  /\ FinalizeRun(Key(p), "SYSTEM_ERROR", TRUE, FALSE, Cardinality(Rows))
  /\ Call(p, Finalizing)
  /\ UNCHANGED <<attempt, usage, deleted, msgs, runners, handled, crashes>>

-----------------------------------------------------------------------------
(* AttemptLifecycle.resumeAttemptContinuation: decide on what was read,    *)
(* then apply the decision in one batch guarded by the pending job.        *)

ContinueRead(p) ==
  LET i == proc[p].idx IN
  /\ At(p, "continue")
  /\ \/ /\ Terminal
        /\ proc' = [proc EXCEPT ![p].pc = "final", ![p].back = TRUE]
     \/ /\ ~Terminal
        /\ attempt[i].status \notin Final
        /\ Return(p)
     \/ /\ ~Terminal
        /\ attempt[i].status \in Final
        /\ proc' = [proc EXCEPT ![p].pc = "apply",
                                ![p].act = NextAction(i)]
  /\ UNCHANGED <<db, deleted, msgs, runners, handled, crashes>>

ApplyRetry(p) ==
  LET i == proc[p].idx + 1 IN
  /\ At(p, "apply")
  /\ proc[p].act.kind = "retry"
  /\ IF conts[Key(p)] = "PENDING"
     THEN /\ attempt' = IF attempt[i].status = "NONE"
                        THEN [attempt EXCEPT
                                ![i].status = "QUEUED",
                                ![i].gen = run.infra]
                        ELSE attempt
          /\ run' = [run EXCEPT !.count =
                        Cardinality(Rows \cup {i})]
          /\ msgs' = msgs \cup {<<i, attempt'[i].gen>>}
          /\ conts' = [conts EXCEPT ![Key(p)] = "COMPLETED"]
     ELSE UNCHANGED <<attempt, run, msgs, conts>>
  /\ Return(p)
  /\ UNCHANGED <<final, usage, deleted, runners, handled, crashes>>

(* Mutant: the attempt is queued again whatever became of the job. *)
ApplyInfraUnguarded(p) ==
  LET i == proc[p].idx IN
  /\ At(p, "apply")
  /\ proc[p].act.kind = "infra"
  /\ run.infra < MaxInfraRetries
  /\ run' = [run EXCEPT !.infra = @ + 1, !.count = proc[p].act.count]
  /\ attempt' = [attempt EXCEPT ![i].status = "QUEUED",
                                ![i].gen = run.infra + 1,
                                ![i].cancelled = FALSE]
  /\ msgs' = msgs \cup {<<i, run.infra + 1>>}
  /\ conts' = [conts EXCEPT ![Key(p)] = "COMPLETED"]
  /\ Return(p)
  /\ UNCHANGED <<final, usage, deleted, runners, handled, crashes>>

(* The aborted attempt is queued again under a later generation; its       *)
(* previous owner stays in the row.                                        *)
ApplyInfra(p) ==
  LET i == proc[p].idx IN
  /\ At(p, "apply")
  /\ proc[p].act.kind = "infra"
  /\ IF conts[Key(p)] = "PENDING"
     THEN /\ run' = [run EXCEPT !.infra = @ + 1,
                                !.count = proc[p].act.count]
          /\ attempt' = [attempt EXCEPT ![i].status = "QUEUED",
                                        ![i].gen = run.infra + 1,
                                        ![i].cancelled = FALSE]
          /\ msgs' = msgs \cup {<<i, run.infra + 1>>}
          /\ conts' = [conts EXCEPT ![Key(p)] = "COMPLETED"]
     ELSE UNCHANGED <<attempt, run, msgs, conts>>
  /\ Return(p)
  /\ UNCHANGED <<final, usage, deleted, runners, handled, crashes>>

ApplyFinalize(p) ==
  LET act == proc[p].act IN
  /\ At(p, "apply")
  /\ act.kind = "finalize"
  /\ FinalizeRun(Key(p), act.status, act.reverse, TRUE, act.count)
  /\ Call(p, Finalizing)
  /\ UNCHANGED <<attempt, usage, deleted, msgs, runners, handled, crashes>>

-----------------------------------------------------------------------------
(* AttemptLifecycle.resumeRunFinalization.                                 *)

FinalRead(p) ==
  /\ At(p, "final")
  /\ \/ /\ final.status = "PENDING"
        /\ Terminal
        /\ Goto(p, IF final.reverse THEN "reverse"
                   ELSE IF final.handle THEN "handle" ELSE "settle")
     \/ /\ final.status = "PENDING"
        /\ ~Terminal
        /\ Return(p)
     \/ /\ final.status # "PENDING"
        /\ IF proc[p].back THEN Goto(p, "complete") ELSE Return(p)
  /\ UNCHANGED <<db, deleted, msgs, runners, handled, crashes>>

(* Mutant: a reversed run is settled at once. *)
FinalReverseOnly(p) ==
  /\ At(p, "reverse")
  /\ usage' = IF usage = "CHARGED" THEN "REVERSED" ELSE usage
  /\ Goto(p, "settle")
  /\ UNCHANGED <<run, attempt, conts, final, deleted, msgs, runners, handled,
                 crashes>>

FinalReverse(p) ==
  /\ At(p, "reverse")
  /\ usage' = IF usage = "CHARGED" THEN "REVERSED" ELSE usage
  /\ Goto(p, IF final.handle THEN "handle" ELSE "settle")
  /\ UNCHANGED <<run, attempt, conts, final, deleted, msgs, runners, handled,
                 crashes>>

(* The incident, report and activity handlers, safe to run again.          *)
FinalHandle(p) ==
  /\ At(p, "handle")
  /\ handled' = TRUE
  /\ Goto(p, "settle")
  /\ UNCHANGED <<db, deleted, msgs, runners, crashes>>

FinalSettle(p) ==
  /\ At(p, "settle")
  /\ final' = [final EXCEPT !.status = "COMPLETED"]
  /\ IF proc[p].back THEN Goto(p, "complete") ELSE Return(p)
  /\ UNCHANGED <<run, attempt, conts, usage, deleted, msgs, runners, handled,
                 crashes>>

(* The continuation of a run that had already ended is closed.             *)
FinalComplete(p) ==
  /\ At(p, "complete")
  /\ conts' = [conts EXCEPT ![Key(p)] = "COMPLETED"]
  /\ Return(p)
  /\ UNCHANGED <<run, attempt, final, usage, deleted, msgs, runners, handled,
                 crashes>>

-----------------------------------------------------------------------------
(* Scheduled maintenance.                                                  *)

(* resumePendingJobs: each job that is still pending is resumed.           *)
ResumeJob(p) ==
  /\ At(p, "idle")
  /\ \/ \E k \in DOMAIN conts :
          /\ conts[k] = "PENDING"
          /\ Call(p, Continuing(k))
     \/ /\ final.status = "PENDING"
        /\ Call(p, Finalizing)
  /\ UNCHANGED <<db, deleted, msgs, runners, handled, crashes>>

(* Mutant: attempts that nobody ever claimed are not swept. *)
SweepLostOnly(p) ==
  /\ At(p, "idle")
  /\ \E i \in Rows :
       /\ attempt[i].status \in {"STARTING", "RUNNING"}
       /\ Call(p, Finishing(i, attempt[i].gen, "SYSTEM_ERROR", "LOST"))
  /\ UNCHANGED <<db, deleted, msgs, runners, handled, crashes>>

(* HourlyMaintenance: an attempt nobody claimed in time, or whose worker   *)
(* stopped answering, is finished as a system error.                       *)
Sweep(p) ==
  /\ At(p, "idle")
  /\ \E i \in Rows :
       /\ attempt[i].status \in Open
       /\ attempt[i].status = "QUEUED" => ~Terminal
       /\ Call(p, Finishing(i, attempt[i].gen, "SYSTEM_ERROR",
                           IF attempt[i].status = "QUEUED"
                           THEN "UNCLAIMED" ELSE "LOST"))
  /\ UNCHANGED <<db, deleted, msgs, runners, handled, crashes>>

(* An invocation is evicted, or a database call of it throws.              *)
Crash(p) ==
  /\ ~At(p, "idle")
  /\ crashes < MaxCrashes
  /\ crashes' = crashes + 1
  /\ Return(p)
  /\ UNCHANGED <<db, deleted, msgs, runners, handled>>

-----------------------------------------------------------------------------

Request(p) ==
  \/ \E d \in Deliveries, i \in Index, g \in Infra : ClaimRead(p, d, i, g)
  \/ \E i \in Index, g \in Infra : RefuseConsent(p, i, g)
  \/ \E lease \in leases : StartRead(p, lease)
  \/ \E lease \in leases, outcome \in Outcomes :
       CompleteRead(p, lease, outcome)

Cron(p) == ResumeJob(p) \/ Sweep(p)

Step(p) ==
  \/ ClaimJob(p) \/ ClaimTarget(p) \/ ClaimCas(p)
  \/ StartRun(p)
  \/ FinishRead(p) \/ FinishJob(p) \/ FinishRecord(p)
  \/ CancelJob(p) \/ CancelRecord(p) \/ CancelRun(p)
  \/ ContinueRead(p) \/ ApplyRetry(p) \/ ApplyInfra(p) \/ ApplyFinalize(p)
  \/ FinalRead(p) \/ FinalReverse(p) \/ FinalHandle(p) \/ FinalSettle(p)
  \/ FinalComplete(p)

Next ==
  \/ DeleteTest
  \/ \E p \in Requests : Request(p)
  \/ \E p \in Crons : Cron(p)
  \/ \E p \in Procs : Step(p) \/ Crash(p)

Spec == Init /\ [][Next]_vars

(* An invocation that is not evicted runs on, and the cron trigger fires   *)
(* again and again; requests, deliveries and runners owe nothing.          *)
FairSpec ==
  /\ Spec
  /\ \A p \in Procs : WF_vars(Step(p))
  /\ \A p \in Crons : WF_vars(Cron(p))

-----------------------------------------------------------------------------
(* Properties.                                                             *)

(* A run is never stranded and never runs twice: while it has no verdict,  *)
(* either its last attempt is open and no continuation is pending, or that *)
(* attempt is finished and exactly its continuation is pending.  Whatever  *)
(* the continuations and cancellations of a run do to one another, the     *)
(* maintenance always finds the one row to pick up (attempt_lifecycle.ts,  *)
(* onAttemptFinished and resumeAttemptContinuation).                       *)
Pending == {k \in DOMAIN conts : conts[k] = "PENDING"}
OpenRows == {i \in Rows : attempt[i].status \in Open}
Last == run.count - 1

NeverStranded ==
  /\ Terminal => OpenRows = {} /\ Pending = {}
  /\ ~Terminal => \/ OpenRows = {Last} /\ Pending = {}
                  \/ OpenRows = {} /\ Pending = {<<Last, run.infra>>}

(* attempt_count, written from an earlier read by three different batches, *)
(* is the number of attempt rows, and their indexes have no gap.           *)
AttemptCount == Rows = 0..(run.count - 1)

(* A run has a verdict exactly when its finalization job exists, and a     *)
(* PASSED, FAILED or TIMEOUT verdict is the recorded outcome of one of its *)
(* attempts: no stale decision overwrites it (finalizeRun is guarded by    *)
(* the pending job only).                                                  *)
VerdictRecorded ==
  /\ Terminal <=> final.status # "NONE"
  /\ run.status \in Verdicts =>
       \E i \in Rows : attempt[i].status = run.status
  /\ \A i \in Rows : attempt[i].status = "PASSED" => i = Last

(* Billing: the usage event exists exactly when the run ever started, is   *)
(* reversed only for a run finalized as not billable, and is reversed by   *)
(* the time such a run is settled.  A verdict keeps the charge of its run, *)
(* if there was a start to charge, and a system error that stays billable  *)
(* was charged.  (A runner that completes without a start gets its verdict *)
(* recorded, and nothing is charged: external_runner.ts, complete.)        *)
Billing ==
  /\ usage # "NONE" <=> run.started
  /\ usage = "REVERSED" => Terminal /\ ~run.billable
  /\ final.status = "COMPLETED" /\ ~run.billable => usage # "CHARGED"
  /\ run.status \in Verdicts => run.billable
  /\ run.status = "SYSTEM_ERROR" /\ run.billable => usage = "CHARGED"

(* A settled run had its side effects (incident, report, activity), unless *)
(* it was cancelled by a deletion, and no other run is dropped silently.   *)
SettledHandled ==
  final.status = "COMPLETED" => handled \/ ~final.handle

(* Two deliveries never both hold the job of one generation of an attempt  *)
(* ("another delivery cannot run the same attempt concurrently",           *)
(* runner/browser_worker.py).                                              *)
ExclusiveLease ==
  \A l, m \in leases : l.idx = m.idx /\ l.gen = m.gen => l.dlv = m.dlv

(* The secrets of a run are released at most once per generation: a        *)
(* replayed or racing start never gets them again (external_runner.ts,     *)
(* start).                                                                 *)
SecretsOnce == \A k \in DOMAIN released : released[k] <= 1

(* An outcome is recorded only for the generation it was produced for: a   *)
(* late result of an abandoned generation leaves the attempt alone even    *)
(* if it was read before the attempt was queued again.                     *)
StaleOutcomeIgnored ==
  [][\A p \in Procs :
       At(p, "record") /\ ~At(p, "record")' /\ attempt' # attempt
         => attempt[proc[p].idx].gen = proc[p].gen]_vars

(* A verdict is final, and so is the outcome of an attempt unless that     *)
(* very attempt is queued again.                                           *)
VerdictsAreFinal ==
  [][/\ Terminal => run' = run
     /\ \A i \in Rows :
          attempt[i].status \in Final =>
            \/ attempt'[i] = attempt[i]
            \/ /\ attempt[i].status = "SYSTEM_ERROR"
               /\ attempt'[i].gen > attempt[i].gen]_vars

(* "Once STARTING/RUNNING, deletion must not let a redelivery terminalise  *)
(* work owned by the active worker" (attempt_lifecycle.ts:214): a          *)
(* cancellation only ever closes an attempt that is still queued.          *)
DeletionSparesOwnedWork ==
  [][\A p \in Procs :
       At(p, "cancelRecord") /\ ~At(p, "cancelRecord")' /\ attempt' # attempt
         => attempt[proc[p].idx].status = "QUEUED"]_vars

(* Every run is settled in the end, although invocations are evicted and   *)
(* runners, deliveries and requests may all stop.                          *)
RunSettles == <>(final.status = "COMPLETED")
=============================================================================
