----------------------------- MODULE CheckCycle -----------------------------
(***************************************************************************)
(* The check cycles of one uptime monitor: the sweep opens a cycle, queue  *)
(* consumers claim and execute its attempts, the outcome of an attempt is  *)
(* persisted with a continuation job, and the continuation schedules the   *)
(* next attempt or closes the cycle and moves the incident of the monitor. *)
(*                                                                         *)
(* A try is an attempt of a cycle.  Invocations stop at every await; the   *)
(* outbox and the queue are one set of messages, delivered until they are  *)
(* acknowledged (QueueOutbox models how).                                  *)
(***************************************************************************)
EXTENDS Naturals, Sequences

CONSTANTS
  Procs,       (* invocations: queue consumers and the cron              *)
  Nobody,      (* no invocation: the token of one that is gone           *)
  MaxRetries,  (* maxRetries of the monitor                              *)
  Deletable,   (* the monitor may be deleted                             *)
  MaxCycles,   (* bound: cycles the sweep opens                          *)
  MaxFaults    (* bound: evictions and failed calls                      *)

ASSUME CycleAssumption ==
  /\ Nobody \notin Procs
  /\ MaxRetries \in Nat
  /\ Deletable \in BOOLEAN
  /\ MaxCycles \in Nat
  /\ MaxFaults \in Nat

VARIABLES
  mutable,    (* the method of the monitor is one that changes its target *)
  monitor,    (* uptime_monitors                                          *)
  opened,     (* cycles opened so far                                     *)
  queue,      (* messages that are not acknowledged                       *)
  claims,     (* check_execution_claims                                   *)
  checks,     (* uptime_checks, each with its CHECK_CONTINUATION job      *)
  incidents,  (* incidents of the monitor                                 *)
  log,        (* incident_events and dispatched notifications             *)
  deletion,   (* how far DeleteMonitor has come                           *)
  requests,   (* history: requests sent for a try                         *)
  closers,    (* history: tries whose check closed its cycle              *)
  overlapped, (* history: two continuations have moved the monitor at once *)
  clock,      (* checks persisted so far, the time of the latest          *)
  proc,       (* local state of every invocation                          *)
  faults

vars == <<mutable, monitor, opened, queue, claims, checks, incidents, log,
          deletion, requests, closers, overlapped, clock, proc, faults>>

Cycles == 1..MaxCycles
Tries == Cycles \X (0..MaxRetries)
None == <<0, 0>>
Cycle(t) == t[1]
Attempt(t) == t[2]

Monitor == [deleted : BOOLEAN, cycle : {0} \cup Cycles,
            status : {"UNKNOWN", "UP", "DOWN"}, lastCheckAt : Nat]

(* The lease of a claim is running, or has ended.                          *)
ClaimRow == [state : {"free", "held", "stale", "completed"},
             owner : Procs \cup {Nobody}]
Unclaimed == [state |-> "free", owner |-> Nobody]

(* AMBIGUOUS stands for the failures that are not retried.                 *)
Outcome == {"PASSED", "FAILED", "AMBIGUOUS"}
Check == [result : Outcome \cup {"none"}, at : Nat,
          job : {"none", "PENDING", "COMPLETED"}]
NotChecked == [result |-> "none", at |-> 0, job |-> "none"]

(* An incident is named by its position; resolved by no check when the     *)
(* deletion of the monitor did it.                                         *)
Incident == [openedBy : Tries, open : BOOLEAN, resolvedBy : Tries \cup {None}]

Entry == [incident : Nat, type : {"OPENED", "FAILURE_RECORDED", "RESOLVED",
                                  "FAILURE", "RECOVERY"}, check : Tries]

(* seen is lastCheckAt of the monitor the continuation has read, touch      *)
(* whether it may touch the current incident, incident the one it handles.  *)
Local == [pc : {"idle", "claim", "request", "persist", "release", "findJob",
                "resume", "retry", "close", "look", "resolve", "open",
                "append", "event", "dispatch", "complete", "ack"},
          try : Tries \cup {None}, message : BOOLEAN,
          outcome : Outcome \cup {"none"}, seen : Nat, touch : BOOLEAN,
          incident : Nat]
Idle == [pc |-> "idle", try |-> None, message |-> FALSE, outcome |-> "none",
         seen |-> 0, touch |-> FALSE, incident |-> 0]

TypeOK ==
  /\ mutable \in BOOLEAN
  /\ monitor \in Monitor
  /\ opened \in {0} \cup Cycles
  /\ queue \subseteq Tries
  /\ claims \in [Tries -> ClaimRow]
  /\ checks \in [Tries -> Check]
  /\ incidents \in Seq(Incident)
  /\ log \subseteq Entry
  /\ deletion \in {"none", "resolving", "done"}
  /\ requests \in [Tries -> Nat]
  /\ closers \subseteq Tries
  /\ overlapped \in BOOLEAN
  /\ clock \in Nat
  /\ proc \in [Procs -> Local]
  /\ faults \in Nat

Init ==
  /\ mutable \in BOOLEAN
  /\ monitor = [deleted |-> FALSE, cycle |-> 0, status |-> "UNKNOWN",
                lastCheckAt |-> 0]
  /\ opened = 0
  /\ queue = {}
  /\ claims = [t \in Tries |-> Unclaimed]
  /\ checks = [t \in Tries |-> NotChecked]
  /\ incidents = << >>
  /\ log = {}
  /\ deletion = "none"
  /\ requests = [t \in Tries |-> 0]
  /\ closers = {}
  /\ overlapped = FALSE
  /\ clock = 0
  /\ proc = [p \in Procs |-> Idle]
  /\ faults = 0

-----------------------------------------------------------------------------
(* Helpers. *)

At(p, step) == proc[p].pc = step
Become(p, local) == proc' = [proc EXCEPT ![p] = local]
Goto(p, step) == Become(p, [proc[p] EXCEPT !.pc = step])
Begin(p, t, message, step) ==
  Become(p, [Idle EXCEPT !.pc = step, !.try = t, !.message = message])

(* A consumer acknowledges when execute returns; the cron goes on.         *)
Return(p) ==
  IF proc[p].message
  THEN Become(p, [Idle EXCEPT !.pc = "ack", !.try = proc[p].try,
                              !.message = TRUE])
  ELSE Become(p, Idle)

OpenOnes == {i \in DOMAIN incidents : incidents[i].open}

(* The part of a continuation that moves the monitor and its incident.     *)
Moving == {"close", "look", "resolve", "open", "append", "event", "dispatch",
           "complete"}

(* The token of an invocation that has ended is in no later invocation.    *)
Forget(p) == claims' = [t \in Tries |->
  IF claims[t].owner = p THEN [claims[t] EXCEPT !.owner = Nobody]
  ELSE claims[t]]

exec == <<claims, checks, requests, clock>>
alerts == <<incidents, log>>
history == <<closers, overlapped>>
surroundings == <<mutable, opened, deletion>>

-----------------------------------------------------------------------------
(* A delivery of a message. *)

(* execute reads the monitor and the check of the try together.            *)
Deliver(p, t) ==
  /\ At(p, "idle")
  /\ t \in queue
  /\ Begin(p, t, TRUE,
       CASE monitor.deleted            -> "ack"
         [] checks[t].result # "none"  -> "findJob"
         [] monitor.cycle # Cycle(t)   -> "ack"
         [] OTHER                      -> "claim")
  /\ UNCHANGED <<monitor, queue, exec, alerts, history, surroundings, faults>>

(* Mutant: a lease that has ended is taken over as if it were a new one.   *)
ClaimForgetful(p) ==
  LET t == proc[p].try IN
  /\ At(p, "claim")
  /\ claims[t].state \in {"free", "stale"}
  /\ claims' = [claims EXCEPT ![t] = [state |-> "held", owner |-> p]]
  /\ Goto(p, "request")
  /\ UNCHANGED <<monitor, queue, checks, requests, clock, alerts, history,
                 surroundings, faults>>

(* claimCheckExecution: one upsert.  A mutable request an earlier worker   *)
(* may have sent is not sent again.                                        *)
Claim(p) ==
  LET t == proc[p].try
      again == claims[t].state = "stale" /\ mutable IN
  /\ At(p, "claim")
  /\ claims[t].state \in {"free", "stale"}
  /\ claims' = [claims EXCEPT ![t] = [state |-> "held", owner |-> p]]
  /\ Become(p, [proc[p] EXCEPT
       !.pc = IF again THEN "persist" ELSE "request",
       !.outcome = IF again THEN "AMBIGUOUS" ELSE "none"])
  /\ UNCHANGED <<monitor, queue, checks, requests, clock, alerts, history,
                 surroundings, faults>>

(* Another execution holds the try, or has completed it.                   *)
ClaimRefused(p) ==
  LET t == proc[p].try IN
  /\ At(p, "claim")
  /\ \/ claims[t].state = "held" /\ Return(p)
     \/ claims[t].state = "completed" /\ Goto(p, "findJob")
  /\ UNCHANGED <<monitor, queue, exec, alerts, history, surroundings, faults>>

(* executeCheck.  A mutable request whose fate is unknown is ambiguous.    *)
Request(p) ==
  /\ At(p, "request")
  /\ requests' = [requests EXCEPT ![proc[p].try] = @ + 1]
  /\ \E outcome \in Outcome :
       /\ outcome = "AMBIGUOUS" => mutable
       /\ Become(p, [proc[p] EXCEPT !.pc = "persist", !.outcome = outcome])
  /\ UNCHANGED <<monitor, queue, claims, checks, clock, alerts, history,
                 surroundings, faults>>

(* insertCheckWithJob: one batch, guarded by the token of the claim.       *)
Persist(p) ==
  LET t == proc[p].try
      own == claims[t].owner = p /\ claims[t].state \in {"held", "stale"} IN
  /\ At(p, "persist")
  /\ \/ /\ own
        /\ clock' = clock + 1
        /\ checks' = [checks EXCEPT ![t] = [result |-> proc[p].outcome,
                                            at |-> clock + 1,
                                            job |-> "PENDING"]]
        /\ claims' = [claims EXCEPT ![t] = [state |-> "completed",
                                            owner |-> Nobody]]
        /\ Begin(p, t, TRUE, "resume")
     \/ /\ ~own
        /\ Begin(p, t, TRUE, "findJob")
        /\ UNCHANGED <<checks, claims, clock>>
  /\ UNCHANGED <<monitor, queue, requests, alerts, history, surroundings,
                 faults>>

(* An exception while the claim is held gives it up, unless the request is *)
(* mutable: then the invocation ends as any other that throws (Stop).      *)
Throw(p) ==
  /\ proc[p].pc \in {"request", "persist"}
  /\ ~mutable
  /\ faults < MaxFaults
  /\ faults' = faults + 1
  /\ Goto(p, "release")
  /\ UNCHANGED <<monitor, queue, exec, alerts, history, surroundings>>

(* releaseCheckExecution; the exception then asks for redelivery.          *)
Release(p) ==
  LET t == proc[p].try IN
  /\ At(p, "release")
  /\ claims' = IF claims[t].owner = p
               THEN [claims EXCEPT ![t] = Unclaimed] ELSE claims
  /\ Become(p, Idle)
  /\ UNCHANGED <<monitor, queue, checks, requests, clock, alerts, history,
                 surroundings, faults>>

(* resumePersistedCheck, and execute when the check exists.                *)
FindJob(p) ==
  /\ At(p, "findJob")
  /\ IF checks[proc[p].try].job = "PENDING" THEN Goto(p, "resume")
                                            ELSE Return(p)
  /\ UNCHANGED <<monitor, queue, exec, alerts, history, surroundings, faults>>

Ack(p) ==
  /\ At(p, "ack")
  /\ queue' = queue \ {proc[p].try}
  /\ Become(p, Idle)
  /\ UNCHANGED <<monitor, exec, alerts, history, surroundings, faults>>

-----------------------------------------------------------------------------
(* resumeCheckContinuation, from a delivery or from the cron. *)

CronResumes(p, t) ==
  /\ At(p, "idle")
  /\ checks[t].job = "PENDING"
  /\ Begin(p, t, FALSE, "resume")
  /\ UNCHANGED <<monitor, queue, exec, alerts, history, surroundings, faults>>

(* Mutant: an attempt too many.                                            *)
ResumeOffByOne(p) ==
  LET t == proc[p].try
      again == checks[t].result = "FAILED" /\ Attempt(t) <= MaxRetries IN
  /\ At(p, "resume")
  /\ Become(p, [proc[p] EXCEPT !.seen = monitor.lastCheckAt,
       !.pc = CASE monitor.deleted -> "complete"
                [] again           -> "retry"
                [] OTHER           -> "close"])
  /\ UNCHANGED <<monitor, queue, exec, alerts, history, surroundings, faults>>

Resume(p) ==
  LET t == proc[p].try
      again == checks[t].result = "FAILED" /\ Attempt(t) < MaxRetries IN
  /\ At(p, "resume")
  /\ Become(p, [proc[p] EXCEPT !.seen = monitor.lastCheckAt,
       !.pc = CASE monitor.deleted -> "complete"
                [] again           -> "retry"
                [] OTHER           -> "close"])
  /\ overlapped' = \/ overlapped
                   \/ \E q \in Procs \ {p} : proc[q].pc \in Moving
  /\ UNCHANGED <<monitor, queue, exec, alerts, closers, surroundings, faults>>

(* Mutant: the job of a check that is tried again stays.                   *)
RetryPending(p) ==
  LET t == proc[p].try IN
  /\ At(p, "retry")
  /\ queue' = queue \cup {<<Cycle(t), Attempt(t) + 1>>}
  /\ Return(p)
  /\ UNCHANGED <<monitor, exec, alerts, history, surroundings, faults>>

(* scheduleCheckRetry: the message of the next attempt goes in with the    *)
(* end of the job, or not at all.                                          *)
Retry(p) ==
  LET t == proc[p].try IN
  /\ At(p, "retry")
  /\ queue' = IF checks[t].job = "PENDING"
              THEN queue \cup {<<Cycle(t), Attempt(t) + 1>>} ELSE queue
  /\ checks' = [checks EXCEPT ![t].job = "COMPLETED"]
  /\ Return(p)
  /\ UNCHANGED <<monitor, claims, requests, clock, alerts, history,
                 surroundings, faults>>

(* Mutant: the outcome of a check always counts.                           *)
CanCloseAny(t) == ~monitor.deleted

(* closeCycle, for the cycle of the check only.                            *)
CanClose(t) == ~monitor.deleted /\ monitor.cycle = Cycle(t)

(* Mutant: only the run that has closed the cycle goes on.                 *)
MayTouchOnce(p, t) == CanClose(t) /\ proc[p].seen <= checks[t].at

(* Mutant: any outcome that is not older may touch the incident.           *)
MayTouchNewer(p, t) == proc[p].seen <= checks[t].at

(* The continuation may touch the current incident when it has closed the  *)
(* cycle or an earlier run of it had when the monitor was read.            *)
MayTouch(p, t) ==
  /\ CanClose(t) \/ proc[p].seen = checks[t].at
  /\ proc[p].seen <= checks[t].at

Close(p) ==
  LET t == proc[p].try IN
  /\ At(p, "close")
  /\ monitor' = IF CanClose(t)
       THEN [monitor EXCEPT !.cycle = 0, !.lastCheckAt = checks[t].at,
               !.status = IF checks[t].result = "PASSED" THEN "UP" ELSE "DOWN"]
       ELSE monitor
  /\ closers' = IF CanClose(t) THEN closers \cup {t} ELSE closers
  /\ Become(p, [proc[p] EXCEPT !.pc = "look", !.touch = MayTouch(p, t)])
  /\ UNCHANGED <<queue, exec, alerts, overlapped, surroundings, faults>>

Handle(p, i, step) ==
  Become(p, [proc[p] EXCEPT !.pc = step, !.incident = i])

(* recordPass: the incident this check has resolved, else the open one.    *)
LookPass(p) ==
  LET t == proc[p].try
      mine == {i \in DOMAIN incidents : incidents[i].resolvedBy = t} IN
  /\ At(p, "look")
  /\ checks[t].result = "PASSED"
  /\ \/ \E i \in mine : Handle(p, i, "event")
     \/ /\ mine = {}
        /\ proc[p].touch
        /\ \E i \in OpenOnes : Handle(p, i, "resolve")
     \/ /\ mine = {}
        /\ proc[p].touch => OpenOnes = {}
        /\ Goto(p, "complete")
  /\ UNCHANGED <<monitor, queue, exec, alerts, history, surroundings, faults>>

(* recordFinalFailure: the incident this check has opened, else the open   *)
(* one, else a new one.                                                    *)
LookFail(p) ==
  LET t == proc[p].try
      mine == {i \in DOMAIN incidents : incidents[i].openedBy = t} IN
  /\ At(p, "look")
  /\ checks[t].result # "PASSED"
  /\ \/ \E i \in mine : Handle(p, i, "event")
     \/ /\ mine = {}
        /\ ~proc[p].touch
        /\ Goto(p, "complete")
     \/ /\ mine = {}
        /\ proc[p].touch
        /\ \/ \E i \in OpenOnes : Handle(p, i, "append")
           \/ OpenOnes = {} /\ Goto(p, "open")
  /\ UNCHANGED <<monitor, queue, exec, alerts, history, surroundings, faults>>

(* UPDATE incidents ... WHERE id = ? AND status = 'OPEN'                    *)
Resolve(p) ==
  LET i == proc[p].incident IN
  /\ At(p, "resolve")
  /\ incidents' = IF incidents[i].open
       THEN [incidents EXCEPT ![i].open = FALSE,
                              ![i].resolvedBy = proc[p].try]
       ELSE incidents
  /\ Goto(p, "event")
  /\ UNCHANGED <<monitor, queue, exec, log, history, surroundings, faults>>

(* insertOpen: the unique index of open incidents answers with the one     *)
(* there is.                                                               *)
Open(p) ==
  LET t == proc[p].try IN
  /\ At(p, "open")
  /\ \/ /\ OpenOnes = {}
        /\ incidents' = Append(incidents, [openedBy |-> t, open |-> TRUE,
                                           resolvedBy |-> None])
        /\ Handle(p, Len(incidents) + 1, "event")
     \/ \E i \in OpenOnes :
          /\ Handle(p, i, IF incidents[i].openedBy = t THEN "event"
                                                       ELSE "append")
          /\ UNCHANGED incidents
  /\ UNCHANGED <<monitor, queue, exec, log, history, surroundings, faults>>

(* An event is inserted once for its incident, type and check.             *)
Write(p, type) ==
  log' = log \cup {[incident |-> proc[p].incident, type |-> type,
                    check |-> proc[p].try]}

AppendFailure(p) ==
  /\ At(p, "append")
  /\ Write(p, "FAILURE_RECORDED")
  /\ Goto(p, "complete")
  /\ UNCHANGED <<monitor, queue, exec, incidents, history, surroundings,
                 faults>>

InsertEvent(p) ==
  /\ At(p, "event")
  /\ Write(p, IF checks[proc[p].try].result = "PASSED" THEN "RESOLVED"
                                                       ELSE "OPENED")
  /\ Goto(p, "dispatch")
  /\ UNCHANGED <<monitor, queue, exec, incidents, history, surroundings,
                 faults>>

(* The dispatch is deduplicated by its check and type.                     *)
Dispatch(p) ==
  LET t == proc[p].try
      type == IF checks[t].result = "PASSED" THEN "RECOVERY" ELSE "FAILURE" IN
  /\ At(p, "dispatch")
  /\ IF \E e \in log : e.check = t /\ e.type = type THEN UNCHANGED log
                                                    ELSE Write(p, type)
  /\ Goto(p, "complete")
  /\ UNCHANGED <<monitor, queue, exec, incidents, history, surroundings,
                 faults>>

CompleteJob(p) ==
  /\ At(p, "complete")
  /\ checks' = [checks EXCEPT ![proc[p].try].job = "COMPLETED"]
  /\ Return(p)
  /\ UNCHANGED <<monitor, queue, claims, requests, clock, alerts, history,
                 surroundings, faults>>

-----------------------------------------------------------------------------
(* The surroundings. *)

(* SweepDueMonitors: openMonitorCycleWithOutbox.                           *)
OpenCycle ==
  /\ ~monitor.deleted
  /\ monitor.cycle = 0
  /\ opened < MaxCycles
  /\ opened' = opened + 1
  /\ monitor' = [monitor EXCEPT !.cycle = opened + 1]
  /\ queue' = queue \cup {<<opened + 1, 0>>}
  /\ UNCHANGED <<mutable, deletion, exec, alerts, history, proc, faults>>

(* Mutant: a cycle with an execution under way is left alone.              *)
ClearCycleUnclaimed ==
  /\ monitor.cycle # 0
  /\ \A t \in Tries : claims[t].state \notin {"held", "stale"}
  /\ monitor' = [monitor EXCEPT !.cycle = 0]
  /\ UNCHANGED <<queue, exec, alerts, history, surroundings, proc, faults>>

(* The hourly maintenance finds the cycle older than fifteen minutes.      *)
ClearCycle ==
  /\ monitor.cycle # 0
  /\ monitor' = [monitor EXCEPT !.cycle = 0]
  /\ UNCHANGED <<queue, exec, alerts, history, surroundings, proc, faults>>

(* Fifteen minutes pass since the try was claimed.                         *)
LeaseEnds(t) ==
  /\ claims[t].state = "held"
  /\ claims' = [claims EXCEPT ![t].state = "stale"]
  /\ UNCHANGED <<monitor, queue, checks, requests, clock, alerts, history,
                 surroundings, proc, faults>>

(* DeleteMonitor: softDelete.                                              *)
Delete ==
  /\ Deletable
  /\ ~monitor.deleted
  /\ deletion' = "resolving"
  /\ monitor' = [monitor EXCEPT !.deleted = TRUE, !.cycle = 0]
  /\ UNCHANGED <<mutable, opened, queue, exec, alerts, history, proc, faults>>

(* DeleteMonitor: findOpenForMonitor and resolve.                          *)
DeletionResolves ==
  /\ deletion = "resolving"
  /\ deletion' = "done"
  /\ incidents' = [i \in DOMAIN incidents |->
                     [incidents[i] EXCEPT !.open = FALSE]]
  /\ UNCHANGED <<mutable, opened, monitor, queue, exec, log, history, proc,
                 faults>>

(* The invocation is evicted, or a call of it throws: its message is       *)
(* delivered again.                                                        *)
Stop(p) ==
  /\ ~At(p, "idle")
  /\ faults < MaxFaults
  /\ faults' = faults + 1
  /\ Become(p, Idle)
  /\ Forget(p)
  /\ UNCHANGED <<monitor, queue, checks, requests, clock, alerts, history,
                 surroundings>>

Step(p) ==
  \/ Claim(p) \/ ClaimRefused(p) \/ Request(p) \/ Persist(p) \/ Release(p)
  \/ FindJob(p) \/ Ack(p) \/ Resume(p) \/ Retry(p) \/ Close(p) \/ LookPass(p)
  \/ LookFail(p) \/ Resolve(p) \/ Open(p) \/ AppendFailure(p)
  \/ InsertEvent(p) \/ Dispatch(p) \/ CompleteJob(p)

Next ==
  \/ \E p \in Procs : Step(p) \/ Throw(p) \/ Stop(p)
  \/ \E p \in Procs, t \in Tries : Deliver(p, t) \/ CronResumes(p, t)
  \/ \E t \in Tries : LeaseEnds(t)
  \/ OpenCycle \/ ClearCycle \/ Delete \/ DeletionResolves

Spec == Init /\ [][Next]_vars

(* Awaits return; the queue delivers what is not acknowledged; the cron    *)
(* resumes pending jobs, opens due cycles and clears old ones; time passes. *)
Fairness ==
  /\ \A p \in Procs : WF_vars(Step(p))
  /\ \A t \in Tries :
       /\ WF_vars(\E p \in Procs : Deliver(p, t))
       /\ WF_vars(\E p \in Procs : CronResumes(p, t))
       /\ WF_vars(LeaseEnds(t))
  /\ WF_vars(OpenCycle)
  /\ WF_vars(ClearCycle)
  /\ WF_vars(DeletionResolves)

FairSpec == Spec /\ Fairness

-----------------------------------------------------------------------------
(* Properties. *)

(* A request that changes its target is sent at most once for a try,       *)
(* although deliveries overlap, leases end under a live worker, workers    *)
(* are evicted after sending and calls fail (handle_check_message.ts,      *)
(* execute and executeClaimed).                                            *)
MutableSentOnce == mutable => \A t \in Tries : requests[t] <= 1

(* The outcome of a cycle that maintenance or a deletion has cleared opens *)
(* and resolves no incident, writes no event and sends no alert, however   *)
(* late it comes and whatever the monitor does meanwhile.                  *)
LateOutcomeTouchesNothing ==
  /\ \A i \in DOMAIN incidents : /\ incidents[i].openedBy \in closers
                                 /\ incidents[i].resolvedBy \in closers \cup {None}
  /\ \A e \in log : e.check \in closers

(* The state a monitor shows never goes back to that of an older check.    *)
StatusMovesForward ==
  [][monitor'.lastCheckAt >= monitor.lastCheckAt
     /\ (monitor'.lastCheckAt = monitor.lastCheckAt
           => monitor'.status = monitor.status)]_vars

Quiet ==
  /\ \A t \in Tries : checks[t].job # "PENDING"
  /\ \A p \in Procs : proc[p].pc \notin Moving

(* Unless two continuations have run side by side, the monitor is DOWN     *)
(* exactly when it has an open incident once its jobs are done: an         *)
(* eviction between closing the cycle, moving the incident and completing  *)
(* the job, and cycles that overtake a resumed job, lose neither an        *)
(* incident nor a recovery.                                                *)
StatusMatchesIncident ==
  Quiet /\ ~overlapped /\ ~monitor.deleted
    => (monitor.status = "DOWN" <=> OpenOnes # {})

(* The continuation of a persisted check is completed in the end.          *)
JobsComplete ==
  \A t \in Tries : checks[t].job = "PENDING" ~> checks[t].job = "COMPLETED"

(* The monitor does not stay in a cycle whose worker is gone or whose      *)
(* message was acknowledged unexecuted: it is checked again.               *)
CyclesGoOn == <>(monitor.deleted \/ (opened = MaxCycles /\ monitor.cycle = 0))
=============================================================================
