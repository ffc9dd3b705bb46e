-------------------------- MODULE CheckCycleProofs --------------------------
(***************************************************************************)
(* Proofs about CheckCycle, for any number of invocations, cycles, retries *)
(* and faults.                                                             *)
(*                                                                         *)
(* The argument follows the checks in the order they were persisted.  A    *)
(* cycle is opened after the last one was closed, so a check that closes   *)
(* its cycle is newer than every check that has closed one: the monitor    *)
(* shows the latest closer.  Only the latest closer may touch the incident *)
(* while no continuation overlaps another, and it leaves the incident open *)
(* exactly when it has failed.                                             *)
(***************************************************************************)
EXTENDS CheckCycle, TLAPS

USE DEF At, Become

Done(t) == checks[t].result # "none"

(* The check of the try is followed by another attempt.                    *)
Again(t) == checks[t].result = "FAILED" /\ Attempt(t) < MaxRetries

Places == {"idle", "claim", "request", "persist", "release", "findJob",
           "resume", "retry", "close", "look", "resolve", "open", "append",
           "event", "dispatch", "complete", "ack"}
Resumed == {"resume", "retry"} \cup Moving
Closing == Moving \ {"close"}
Touching == {"resolve", "open", "append", "event", "dispatch"}

-----------------------------------------------------------------------------
(* The invariant. *)

Cycled ==
  /\ monitor.cycle \in {0, opened}
  /\ monitor.deleted => monitor.cycle = 0
  /\ monitor.deleted <=> deletion # "none"
  /\ \A t \in queue : Cycle(t) <= opened

(* A check is persisted once, with its job, by the claim it completes; a   *)
(* job whose check ends its cycle is completed when the cycle is closed.   *)
Persisted(t) ==
  /\ Done(t) <=> claims[t].state = "completed"
  /\ Done(t) => claims[t].owner = Nobody
  /\ Done(t) <=> checks[t].job # "none"
  /\ Done(t) => checks[t].at \in 1..clock /\ Cycle(t) <= opened
  /\ checks[t].job = "COMPLETED" => Again(t) \/ monitor.cycle # Cycle(t)

Distinct ==
  \A t, u \in Tries :
    Done(t) /\ Done(u) /\ checks[t].at = checks[u].at => t = u

Shown(u) == IF checks[u].result = "PASSED" THEN "UP" ELSE "DOWN"

(* What is newer than a check that has closed its cycle.                   *)
Closer(u) ==
  /\ Done(u) /\ ~Again(u)
  /\ Cycle(u) # monitor.cycle
  /\ checks[u].at <= monitor.lastCheckAt
  /\ \A t \in Tries :
       Done(t) /\ Cycle(t) > Cycle(u) => checks[t].at > checks[u].at

(* The monitor shows the latest closer.                                    *)
ShowsLatest ==
  \/ closers = {} /\ monitor.lastCheckAt = 0 /\ monitor.status = "UNKNOWN"
  \/ \E u \in closers : /\ monitor.lastCheckAt = checks[u].at
                        /\ monitor.status = Shown(u)

ChecksInv ==
  /\ Cycled /\ Distinct /\ ShowsLatest
  /\ \A t \in Tries : Persisted(t)
  /\ \A u \in closers : Closer(u)

IncidentsInv ==
  /\ LateOutcomeTouchesNothing
  /\ \A i \in DOMAIN incidents : checks[incidents[i].openedBy].result # "PASSED"

(* What an invocation with local state l relies on.                        *)
Placed(l) ==
  /\ l.pc # "idle" => l.try \in Tries /\ Cycle(l.try) <= opened
  /\ l.pc = "persist" => l.outcome # "none"
  /\ l.pc \in Resumed => Done(l.try)
  /\ l.pc = "retry" => Again(l.try)
  /\ l.pc = "close" => ~Again(l.try)
  /\ l.pc \in Closing => monitor.cycle # Cycle(l.try)
  /\ l.pc = "resolve" => /\ checks[l.try].result = "PASSED"
                         /\ l.incident \in DOMAIN incidents
  /\ l.pc \in {"open", "append"} => checks[l.try].result # "PASSED"
  /\ l.pc \in Touching => l.try \in closers
  /\ l.touch => l.pc \in Moving /\ l.try \in closers
  /\ l.pc \in {"resolve", "open", "append"} => l.touch
  /\ l.seen <= monitor.lastCheckAt
  /\ l.seen = 0 \/ \E u \in closers : l.seen = checks[u].at

Inv == /\ TypeOK /\ ChecksInv /\ IncidentsInv
       /\ \A p \in Procs : Placed(proc[p])

-----------------------------------------------------------------------------
(* Tries and local states. *)

LEMMA TryParts ==
  /\ \A t \in Tries : /\ Cycle(t) \in Cycles /\ Attempt(t) \in 0..MaxRetries
                      /\ Cycle(t) \in Nat /\ Cycle(t) # 0
                      /\ Attempt(t) \in Nat
  /\ None \notin Tries
<1>1. Cycles \subseteq Nat \ {0}
  BY CycleAssumption DEF Cycles
<1>2. ASSUME NEW t \in Tries
      PROVE  t[1] \in Cycles /\ t[2] \in 0..MaxRetries
  BY DEF Tries
<1>3. None \notin Tries
  <2>1. None[1] = 0
    BY DEF None
  <2> QED BY <1>1, <1>2, <2>1
<1>4. \A n \in 0..MaxRetries : n \in Nat
  BY CycleAssumption
<1> QED BY <1>1, <1>2, <1>3, <1>4 DEF Cycle, Attempt

LEMMA NextTry ==
  ASSUME NEW t \in Tries, Attempt(t) < MaxRetries
  PROVE  /\ <<Cycle(t), Attempt(t) + 1>> \in Tries
         /\ Cycle(<<Cycle(t), Attempt(t) + 1>>) = Cycle(t)
<1>1. Cycle(t) \in Cycles /\ Attempt(t) + 1 \in 0..MaxRetries
  BY TryParts, CycleAssumption
<1> QED BY <1>1 DEF Tries, Cycle

LEMMA FirstTry ==
  ASSUME NEW c \in Cycles
  PROVE  <<c, 0>> \in Tries /\ Cycle(<<c, 0>>) = c
BY CycleAssumption DEF Tries, Cycle

LEMMA IdleLocal ==
  /\ Idle \in Local /\ Idle.pc = "idle" /\ Idle.try = None
  /\ ~Idle.touch /\ Idle.seen = 0 /\ Idle.outcome = "none"
  /\ Idle.incident = 0 /\ ~Idle.message
BY DEF Idle, Local

LEMMA Moves ==
  ASSUME TypeOK, NEW p \in Procs, NEW l \in Local,
         proc' = [proc EXCEPT ![p] = l]
  PROVE  /\ proc' \in [Procs -> Local] /\ proc'[p] = l
         /\ \A q \in Procs \ {p} : proc'[q] = proc[q]
BY DEF TypeOK

(* What returns goes idle or acknowledges the message of its try.          *)
LEMMA ReturnGives ==
  ASSUME TypeOK, NEW p \in Procs, Return(p)
  PROVE  \E l \in Local :
           /\ proc' = [proc EXCEPT ![p] = l]
           /\ l.pc \in {"idle", "ack"}
           /\ l.pc = "ack" => l.try = proc[p].try
           /\ ~l.touch /\ l.seen = 0
<1>1. proc[p] \in Local /\ proc[p].try \in Tries \cup {None}
  BY DEF TypeOK, Local
<1>2. CASE proc[p].message
  <2>1. PICK l : l = [Idle EXCEPT !.pc = "ack", !.try = proc[p].try,
                                  !.message = TRUE]
    OBVIOUS
  <2>2. /\ l \in Local /\ l.pc = "ack" /\ l.try = proc[p].try
        /\ ~l.touch /\ l.seen = 0
    BY <1>1, <2>1, IdleLocal DEF Local
  <2> QED BY <1>2, <2>1, <2>2 DEF Return
<1>3. CASE ~proc[p].message
  BY <1>3, IdleLocal DEF Return
<1> QED BY <1>2, <1>3

-----------------------------------------------------------------------------
(* How the steps may move what the invocations rely on. *)

Grows ==
  /\ opened <= opened'
  /\ closers \subseteq closers'
  /\ \A t \in Tries : Done(t) => /\ checks'[t].result = checks[t].result
                                 /\ checks'[t].at = checks[t].at
  /\ monitor.lastCheckAt <= monitor'.lastCheckAt
  /\ \A t \in Tries : Cycle(t) <= opened /\ monitor.cycle # Cycle(t)
                        => monitor'.cycle # Cycle(t)
  /\ DOMAIN incidents \subseteq DOMAIN incidents'

LEMMA Numbers ==
  ASSUME TypeOK
  PROVE  /\ opened \in Nat /\ monitor.lastCheckAt \in Nat /\ clock \in Nat
         /\ monitor.cycle \in Nat /\ monitor \in Monitor
         /\ \A t \in Tries : checks[t] \in Check /\ checks[t].at \in Nat
         /\ closers \subseteq Tries
         /\ DOMAIN incidents = 1..Len(incidents) /\ Len(incidents) \in Nat
         /\ \A i \in DOMAIN incidents : incidents[i] \in Incident
<1>1. opened \in Nat /\ monitor.cycle \in Nat
  BY CycleAssumption DEF TypeOK, Monitor, Cycles
<1>2. \A t \in Tries : checks[t] \in Check /\ checks[t].at \in Nat
  BY DEF TypeOK, Check
<1> QED BY <1>1, <1>2 DEF TypeOK, Monitor

LEMMA PlacedStays ==
  ASSUME Inv, TypeOK', Grows, NEW l \in Local, Placed(l)
  PROVE  Placed(l)'
<1>1. /\ opened \in Nat /\ opened' \in Nat /\ l.seen \in Nat
      /\ monitor.lastCheckAt \in Nat /\ monitor'.lastCheckAt \in Nat
      /\ closers \subseteq Tries /\ \A u \in closers : Done(u)
  BY Numbers, CycleAssumption
     DEF Inv, TypeOK, Cycles, Monitor, Local, ChecksInv, Closer
<1>2. /\ l.pc # "idle" => l.try \in Tries /\ Cycle(l.try) <= opened'
      /\ l.pc = "persist" => l.outcome # "none"
      /\ l.pc \in Resumed => Done(l.try)'
      /\ l.pc = "retry" => Again(l.try)'
      /\ l.pc = "close" => ~Again(l.try)'
  BY <1>1, TryParts DEF Placed, Grows, Resumed, Moving, Done, Again
<1>3. l.pc \in Closing => monitor'.cycle # Cycle(l.try)
  BY DEF Placed, Grows, Closing, Moving
<1>4. /\ l.pc = "resolve" => /\ checks'[l.try].result = "PASSED"
                             /\ l.incident \in DOMAIN incidents'
      /\ l.pc \in {"open", "append"} => checks'[l.try].result # "PASSED"
      /\ l.pc \in Touching => l.try \in closers'
      /\ l.touch => l.pc \in Moving /\ l.try \in closers'
  BY <1>1 DEF Placed, Grows, Resumed, Moving, Touching
<1>5. l.seen <= monitor'.lastCheckAt
  BY <1>1 DEF Placed, Grows
<1>6. l.seen = 0 \/ \E u \in closers' : l.seen = checks'[u].at
  BY <1>1 DEF Placed, Grows
<1> QED BY <1>2, <1>3, <1>4, <1>5, <1>6 DEF Placed

LEMMA InvFrom ==
  ASSUME Inv, TypeOK', ChecksInv', IncidentsInv', Grows,
         \A q \in Procs : proc'[q] = proc[q] \/ Placed(proc[q])'
  PROVE  Inv'
<1>1. ASSUME NEW q \in Procs, proc'[q] = proc[q] PROVE Placed(proc[q])'
  <2>1. PICK l \in Local : l = proc[q] /\ Placed(l)
    BY DEF Inv, TypeOK
  <2>2. Placed(l)'
    BY <2>1, PlacedStays
  <2> QED BY <1>1, <2>1, <2>2 DEF Placed
<1> QED BY <1>1 DEF Inv

(* Steps that leave the checks, the monitor and the incidents alone.       *)
store == <<mutable, monitor, opened, checks, incidents, deletion, closers,
           clock>>

(* They complete no claim and change no completed one.                     *)
ClaimsKept ==
  /\ claims' \in [Tries -> ClaimRow]
  /\ \A t \in Tries :
       /\ claims'[t].state = "completed" <=> claims[t].state = "completed"
       /\ claims'[t].state = "completed" /\ claims[t].owner = Nobody
            => claims'[t].owner = Nobody

LEMMA ChecksStay ==
  ASSUME Inv, UNCHANGED store,
         ClaimsKept, \A t \in queue' : Cycle(t) <= opened,
         \A e \in log' : e.check \in closers
  PROVE  ChecksInv' /\ IncidentsInv' /\ Grows
<1>1. Cycled' /\ Distinct' /\ ShowsLatest'
  BY DEF store, Inv, ChecksInv, Cycled, Distinct, ShowsLatest, Shown, Done
<1>2. ASSUME NEW t \in Tries PROVE Persisted(t)'
  <2>1. Persisted(t) /\ (Done(t)' <=> Done(t)) /\ (Again(t)' <=> Again(t))
    BY DEF Inv, ChecksInv, store, Done, Again
  <2> QED BY <2>1 DEF Persisted, store, ClaimsKept
<1>3. ASSUME NEW u \in closers' PROVE Closer(u)'
  <2>1. /\ Closer(u) /\ (Done(u)' <=> Done(u)) /\ (Again(u)' <=> Again(u))
        /\ \A t \in Tries : Done(t)' <=> Done(t)
    BY <1>3 DEF Inv, ChecksInv, store, Done, Again
  <2> QED BY <2>1 DEF Closer, store
<1>4. IncidentsInv'
  BY DEF Inv, IncidentsInv, LateOutcomeTouchesNothing, store
<1>5. Grows
  <2>1. opened \in Nat /\ monitor.lastCheckAt \in Nat
    BY Numbers DEF Inv
  <2> QED BY <2>1 DEF Grows, store
<1> QED BY <1>1, <1>2, <1>3, <1>4, <1>5 DEF ChecksInv

LEMMA InvQuiet ==
  ASSUME Inv, UNCHANGED store, ClaimsKept,
         queue' \subseteq Tries, \A t \in queue' : Cycle(t) <= opened,
         log' \subseteq Entry, \A e \in log' : e.check \in closers,
         requests' \in [Tries -> Nat], overlapped' \in BOOLEAN, faults' \in Nat,
         NEW p \in Procs, NEW l \in Local, proc' = [proc EXCEPT ![p] = l],
         Placed(l)
  PROVE  Inv'
<1>1. /\ proc' \in [Procs -> Local] /\ proc'[p] = l
      /\ \A q \in Procs \ {p} : proc'[q] = proc[q]
  BY Moves DEF Inv
<1>2. TypeOK'
  BY <1>1 DEF Inv, TypeOK, store, ClaimsKept
<1>3. Placed(proc[p])'
  <2>1. Placed(l)'
    BY <1>2, ChecksStay, PlacedStays
  <2> QED BY <1>1, <2>1 DEF Placed
<1> QED BY <1>1, <1>2, <1>3, ChecksStay, InvFrom

(* The same, for the steps that only move the invocation.                  *)
still == <<store, claims, queue, log, requests>>

LEMMA Walks ==
  ASSUME Inv, UNCHANGED still, overlapped' \in BOOLEAN, faults' \in Nat,
         NEW p \in Procs, NEW l \in Local, proc' = [proc EXCEPT ![p] = l],
         Placed(l)
  PROVE  Inv'
<1>1. /\ UNCHANGED store /\ claims' = claims /\ queue' = queue /\ log' = log
      /\ requests' = requests
  BY DEF still
<1>2. /\ queue' \subseteq Tries /\ log' \subseteq Entry
      /\ requests' \in [Tries -> Nat]
      /\ \A t \in queue' : Cycle(t) <= opened
      /\ \A e \in log' : e.check \in closers
  BY <1>1 DEF Inv, TypeOK, ChecksInv, Cycled, IncidentsInv,
              LateOutcomeTouchesNothing
<1>3. ClaimsKept
  BY <1>1 DEF Inv, TypeOK, ClaimsKept
<1> QED BY <1>1, <1>2, <1>3, InvQuiet

-----------------------------------------------------------------------------
(* Steps that leave the checks, the monitor and the incidents alone. *)

LEMMA Here ==
  ASSUME Inv, NEW p \in Procs
  PROVE  /\ proc[p] \in Local /\ Placed(proc[p])
         /\ ~At(p, "idle") => /\ proc[p].try \in Tries
                              /\ Cycle(proc[p].try) <= opened
BY DEF Inv, TypeOK, Placed

(* An invocation that has read nothing it relies on.                       *)
LEMMA Bare ==
  ASSUME Inv, NEW l \in Local, ~l.touch, l.seen = 0,
         l.pc \in {"idle", "claim", "request", "release", "findJob", "ack",
                   "resume"},
         l.pc # "idle" => l.try \in Tries /\ Cycle(l.try) <= opened,
         l.pc = "resume" => Done(l.try)
  PROVE  Placed(l)
<1>1. l.seen <= monitor.lastCheckAt
  BY Numbers DEF Inv
<1> QED BY <1>1 DEF Placed, Resumed, Moving, Closing, Touching

LEMMA IdlePlaced == ASSUME Inv PROVE Idle \in Local /\ Placed(Idle)
BY IdleLocal, Bare

LEMMA ReturnPlaced ==
  ASSUME Inv, NEW p \in Procs, ~At(p, "idle"), Return(p)
  PROVE  \E l \in Local : /\ proc' = [proc EXCEPT ![p] = l] /\ Placed(l)
                          /\ l.pc \in {"idle", "ack"}
<1>1. TypeOK /\ proc[p].try \in Tries /\ Cycle(proc[p].try) <= opened
  BY Here DEF Inv
<1>2. PICK l \in Local :
        /\ proc' = [proc EXCEPT ![p] = l]
        /\ l.pc \in {"idle", "ack"} /\ ~l.touch /\ l.seen = 0
        /\ l.pc = "ack" => l.try = proc[p].try
  BY <1>1, ReturnGives
<1> QED BY <1>1, <1>2, Bare

LEMMA GotoPlaced ==
  ASSUME Inv, NEW p \in Procs, NEW step \in Places, Goto(p, step),
         ~At(p, "idle"),
         \/ /\ proc[p].pc \notin Moving
            /\ step \in {"claim", "request", "release", "findJob", "ack"}
         \/ At(p, "findJob") /\ step = "resume" /\ Done(proc[p].try)
         \/ /\ proc[p].pc \in Closing
            /\ step \in {"event", "dispatch"} => proc[p].try \in closers
            /\ step \in {"event", "dispatch", "complete"}
         \/ At(p, "look") /\ step = "open" /\ proc[p].touch
              /\ checks[proc[p].try].result # "PASSED"
  PROVE  \E l \in Local : /\ proc' = [proc EXCEPT ![p] = l] /\ Placed(l)
                          /\ l.pc = step
<1>1. PICK l : l = [proc[p] EXCEPT !.pc = step]
  OBVIOUS
<1>2. /\ l \in Local /\ l.pc = step /\ l.try = proc[p].try
      /\ l.touch = proc[p].touch /\ l.seen = proc[p].seen
  BY <1>1, Here DEF Local, Places
<1>3. Placed(l)
  BY <1>2, Here DEF Placed, Resumed, Moving, Closing, Touching
<1> QED BY <1>1, <1>2, <1>3 DEF Goto

LEMMA InvDeliver ==
  ASSUME Inv, NEW p \in Procs, NEW t \in Tries, Deliver(p, t)
  PROVE  Inv'
<1>1. PICK l : /\ proc' = [proc EXCEPT ![p] = l]
               /\ \E step \in {"ack", "findJob", "claim"} :
                    l = [Idle EXCEPT !.pc = step, !.try = t, !.message = TRUE]
  <2> DEFINE step == CASE monitor.deleted            -> "ack"
                       [] checks[t].result # "none"  -> "findJob"
                       [] monitor.cycle # Cycle(t)   -> "ack"
                       [] OTHER                      -> "claim"
  <2>1. step \in {"ack", "findJob", "claim"}
    OBVIOUS
  <2>2. Begin(p, t, TRUE, step)
    BY DEF Deliver
  <2> HIDE DEF step
  <2> QED BY <2>1, <2>2 DEF Begin
<1>2. /\ l \in Local /\ l.pc \in {"ack", "findJob", "claim"} /\ l.try = t
      /\ ~l.touch /\ l.seen = 0
  BY <1>1, IdleLocal DEF Local
<1>3. Cycle(t) <= opened
  BY DEF Deliver, Inv, ChecksInv, Cycled
<1>4. Placed(l)
  BY <1>2, <1>3, Bare
<1>5. UNCHANGED still /\ overlapped' \in BOOLEAN /\ faults' \in Nat
  BY DEF Deliver, still, store, exec, alerts, history, surroundings, Inv,
         TypeOK
<1> QED BY <1>1, <1>2, <1>4, <1>5, Walks

LEMMA InvCronResumes ==
  ASSUME Inv, NEW p \in Procs, NEW t \in Tries, CronResumes(p, t)
  PROVE  Inv'
<1>1. PICK l : /\ proc' = [proc EXCEPT ![p] = l]
               /\ l = [Idle EXCEPT !.pc = "resume", !.try = t,
                                   !.message = FALSE]
  BY DEF CronResumes, Begin
<1>2. /\ l \in Local /\ l.pc = "resume" /\ l.try = t
      /\ ~l.touch /\ l.seen = 0
  BY <1>1, IdleLocal DEF Local
<1>3. Done(t) /\ Cycle(t) <= opened
  BY DEF CronResumes, Inv, ChecksInv, Persisted
<1>4. Placed(l)
  BY <1>2, <1>3, Bare
<1>5. UNCHANGED still /\ overlapped' \in BOOLEAN /\ faults' \in Nat
  BY DEF CronResumes, still, store, exec, alerts, history, surroundings, Inv,
         TypeOK
<1> QED BY <1>1, <1>2, <1>4, <1>5, Walks

LEMMA InvClaimRefused ==
  ASSUME Inv, NEW p \in Procs, ClaimRefused(p) PROVE Inv'
<1>1. UNCHANGED still /\ overlapped' \in BOOLEAN /\ faults' \in Nat
  BY DEF ClaimRefused, still, store, exec, alerts, history, surroundings, Inv,
         TypeOK
<1>2. CASE Return(p)
  <2>1. ~At(p, "idle")
    BY DEF ClaimRefused
  <2> QED BY <1>1, <1>2, <2>1, ReturnPlaced, Walks
<1>3. CASE Goto(p, "findJob")
  <2>1. /\ ~At(p, "idle") /\ "findJob" \in Places /\ proc[p].pc \notin Moving
    BY DEF ClaimRefused, Places, Moving
  <2>2. \E l \in Local : proc' = [proc EXCEPT ![p] = l] /\ Placed(l)
    BY <1>3, <2>1, GotoPlaced
  <2> QED BY <1>1, <2>2, Walks
<1> QED BY <1>2, <1>3 DEF ClaimRefused

LEMMA InvThrow ==
  ASSUME Inv, NEW p \in Procs, Throw(p) PROVE Inv'
<1>1. UNCHANGED still /\ overlapped' \in BOOLEAN /\ faults' \in Nat
  BY DEF Throw, still, store, exec, alerts, history, surroundings, Inv, TypeOK
<1>2. /\ ~At(p, "idle") /\ "release" \in Places /\ proc[p].pc \notin Moving
      /\ Goto(p, "release")
  BY DEF Throw, Places, Moving
<1>3. \E l \in Local : proc' = [proc EXCEPT ![p] = l] /\ Placed(l)
  BY <1>2, GotoPlaced
<1> QED BY <1>1, <1>3, Walks

LEMMA InvFindJob ==
  ASSUME Inv, NEW p \in Procs, FindJob(p) PROVE Inv'
<1>1. UNCHANGED still /\ overlapped' \in BOOLEAN /\ faults' \in Nat
  BY DEF FindJob, still, store, exec, alerts, history, surroundings, Inv,
         TypeOK
<1>2. ~At(p, "idle") /\ proc[p].try \in Tries
  BY Here DEF FindJob
<1>3. CASE Return(p)
  BY <1>1, <1>2, <1>3, ReturnPlaced, Walks
<1>4. CASE checks[proc[p].try].job = "PENDING" /\ Goto(p, "resume")
  <2>1. Done(proc[p].try) /\ "resume" \in Places /\ At(p, "findJob")
    BY <1>2, <1>4 DEF Inv, ChecksInv, Persisted, Places, FindJob
  <2>2. \E l \in Local : proc' = [proc EXCEPT ![p] = l] /\ Placed(l)
    BY <1>2, <1>4, <2>1, GotoPlaced
  <2> QED BY <1>1, <2>2, Walks
<1> QED BY <1>3, <1>4 DEF FindJob

LEMMA InvAck ==
  ASSUME Inv, NEW p \in Procs, Ack(p) PROVE Inv'
<1>1. /\ UNCHANGED <<store, claims, log, requests>> /\ UNCHANGED store
      /\ overlapped' \in BOOLEAN /\ faults' \in Nat
      /\ queue' \subseteq queue /\ proc' = [proc EXCEPT ![p] = Idle]
  BY DEF Ack, store, exec, alerts, history, surroundings, Inv, TypeOK
<1>2. /\ queue' \subseteq Tries /\ log' \subseteq Entry
      /\ requests' \in [Tries -> Nat] /\ ClaimsKept
      /\ \A t \in queue' : Cycle(t) <= opened
      /\ \A e \in log' : e.check \in closers
  BY <1>1 DEF Inv, TypeOK, ChecksInv, Cycled, IncidentsInv, ClaimsKept,
              LateOutcomeTouchesNothing
<1> QED BY <1>1, <1>2, IdlePlaced, InvQuiet

(* recordPass and recordFinalFailure.                                      *)
LEMMA InvLook ==
  ASSUME Inv, NEW p \in Procs, LookPass(p) \/ LookFail(p) PROVE Inv'
<1> DEFINE t == proc[p].try
<1>1. UNCHANGED still /\ overlapped' \in BOOLEAN /\ faults' \in Nat
  BY DEF LookPass, LookFail, still, store, exec, alerts, history,
         surroundings, Inv, TypeOK
<1>2. /\ At(p, "look") /\ ~At(p, "idle") /\ proc[p].pc \in Closing
      /\ proc[p] \in Local /\ Placed(proc[p]) /\ t \in Tries
  BY Here DEF LookPass, LookFail, Closing, Moving
<1>3. CASE Goto(p, "complete")
  <2>1. \E l \in Local : proc' = [proc EXCEPT ![p] = l] /\ Placed(l)
    BY <1>2, <1>3, GotoPlaced DEF Places
  <2> QED BY <1>1, <2>1, Walks
<1>4. CASE Goto(p, "open") /\ proc[p].touch /\ checks[t].result # "PASSED"
  <2>1. \E l \in Local : proc' = [proc EXCEPT ![p] = l] /\ Placed(l)
    BY <1>2, <1>4, GotoPlaced DEF Places
  <2> QED BY <1>1, <2>1, Walks
<1>5. ASSUME NEW i \in DOMAIN incidents,
             NEW step \in {"event", "resolve", "append"},
             Handle(p, i, step), t \in closers,
             step \in {"resolve", "append"} => proc[p].touch,
             step = "resolve" => checks[t].result = "PASSED",
             step = "append" => checks[t].result # "PASSED"
      PROVE  Inv'
  <2>1. PICK l : /\ l = [proc[p] EXCEPT !.pc = step, !.incident = i]
                 /\ proc' = [proc EXCEPT ![p] = l]
    BY <1>5 DEF Handle
  <2>2. i \in Nat
    BY Numbers DEF Inv
  <2>3. /\ l \in Local /\ l.pc = step /\ l.try = t /\ l.incident = i
        /\ l.touch = proc[p].touch /\ l.seen = proc[p].seen
    BY <1>2, <2>1, <2>2 DEF Local
  <2>4. Placed(l)
    BY <1>2, <1>5, <2>3 DEF Placed, Resumed, Moving, Closing, Touching
  <2> QED BY <1>1, <2>1, <2>3, <2>4, Walks
<1>6. /\ \A i \in DOMAIN incidents :
           incidents[i].openedBy = t \/ incidents[i].resolvedBy = t
             => t \in closers
      /\ proc[p].touch => t \in closers
      /\ OpenOnes \subseteq DOMAIN incidents
  <2>1. \A i \in DOMAIN incidents :
          /\ incidents[i].openedBy \in closers
          /\ incidents[i].resolvedBy \in closers \/ incidents[i].resolvedBy = None
    BY DEF Inv, IncidentsInv, LateOutcomeTouchesNothing
  <2>2. t # None
    BY <1>2, TryParts
  <2> QED BY <1>2, <2>1, <2>2 DEF Placed, OpenOnes
<1>7. CASE LookPass(p)
  <2>1. \/ Goto(p, "complete")
        \/ \E i \in DOMAIN incidents : /\ Handle(p, i, "event")
                                       /\ incidents[i].resolvedBy = t
        \/ \E i \in OpenOnes : Handle(p, i, "resolve") /\ proc[p].touch
    BY <1>7 DEF LookPass
  <2>2. checks[t].result = "PASSED"
    BY <1>7 DEF LookPass
  <2> QED BY <1>3, <1>5, <1>6, <2>1, <2>2
<1>8. CASE LookFail(p)
  <2>1. \/ Goto(p, "complete")
        \/ \E i \in DOMAIN incidents : /\ Handle(p, i, "event")
                                       /\ incidents[i].openedBy = t
        \/ \E i \in OpenOnes : Handle(p, i, "append") /\ proc[p].touch
        \/ Goto(p, "open") /\ proc[p].touch
    BY <1>8 DEF LookFail
  <2>2. checks[t].result # "PASSED"
    BY <1>8 DEF LookFail
  <2> QED BY <1>3, <1>4, <1>5, <1>6, <2>1, <2>2
<1> QED BY <1>7, <1>8

(* The events and the alert of an incident.                                *)
LEMMA InvWrites ==
  ASSUME Inv, NEW p \in Procs,
         AppendFailure(p) \/ InsertEvent(p) \/ Dispatch(p)
  PROVE  Inv'
<1>1. /\ UNCHANGED store /\ overlapped' \in BOOLEAN /\ faults' \in Nat
      /\ UNCHANGED <<queue, claims, requests>>
  BY DEF AppendFailure, InsertEvent, Dispatch, store, exec, history,
         surroundings, Inv, TypeOK
<1>2. /\ proc[p].pc \in {"append", "event", "dispatch"}
      /\ \E step \in {"complete", "dispatch"} : Goto(p, step)
  BY DEF AppendFailure, InsertEvent, Dispatch
<1>3. /\ proc[p] \in Local /\ proc[p].try \in closers /\ proc[p].try \in Tries
      /\ ~At(p, "idle") /\ proc[p].pc \in Closing
  BY <1>2, Here DEF Placed, Touching, Closing, Moving
<1>4. \E l \in Local : proc' = [proc EXCEPT ![p] = l] /\ Placed(l)
  BY <1>2, <1>3, GotoPlaced DEF Places
<1>5. \/ log' = log
      \/ \E type \in {"FAILURE_RECORDED", "RESOLVED", "OPENED", "RECOVERY",
                      "FAILURE"} : Write(p, type)
  BY DEF AppendFailure, InsertEvent, Dispatch
<1>6. log' \subseteq Entry /\ \A e \in log' : e.check \in closers
  <2>1. log \subseteq Entry /\ \A e \in log : e.check \in closers
    BY DEF Inv, TypeOK, IncidentsInv, LateOutcomeTouchesNothing
  <2>2. ASSUME NEW type \in {"FAILURE_RECORDED", "RESOLVED", "OPENED",
                             "RECOVERY", "FAILURE"}, Write(p, type)
        PROVE  log' \subseteq Entry /\ \A e \in log' : e.check \in closers
    <3>1. PICK e : /\ log' = log \cup {e}
                   /\ e = [incident |-> proc[p].incident, type |-> type,
                           check |-> proc[p].try]
      BY <2>2 DEF Write
    <3>2. e \in Entry /\ e.check \in closers
      BY <1>3, <3>1 DEF Entry, Local
    <3> QED BY <2>1, <3>1, <3>2
  <2> QED BY <1>5, <2>1, <2>2
<1>7. /\ queue' \subseteq Tries /\ requests' \in [Tries -> Nat]
      /\ ClaimsKept /\ \A t \in queue' : Cycle(t) <= opened
  BY <1>1 DEF Inv, TypeOK, ChecksInv, Cycled, ClaimsKept
<1> QED BY <1>1, <1>4, <1>6, <1>7, InvQuiet

LEMMA InvResume ==
  ASSUME Inv, NEW p \in Procs, Resume(p) PROVE Inv'
<1> DEFINE t == proc[p].try
<1>1. UNCHANGED still /\ faults' \in Nat
  BY DEF Resume, still, store, exec, alerts, history, surroundings, Inv, TypeOK
<1>2. overlapped' \in BOOLEAN
  <2>1. overlapped' = (overlapped \/ \E q \in Procs \ {p} : proc[q].pc \in Moving)
    BY DEF Resume
  <2> QED BY <2>1
<1>3. /\ At(p, "resume") /\ proc[p] \in Local /\ Placed(proc[p]) /\ t \in Tries
      /\ Cycle(t) <= opened
  BY Here DEF Resume
<1>4. PICK step, l :
        /\ proc' = [proc EXCEPT ![p] = l]
        /\ l = [proc[p] EXCEPT !.seen = monitor.lastCheckAt, !.pc = step]
        /\ \/ step = "complete" /\ monitor.deleted
           \/ step = "retry" /\ Again(t)
           \/ step = "close" /\ ~Again(t)
  <2> DEFINE step == CASE monitor.deleted -> "complete"
                       [] Again(t)        -> "retry"
                       [] OTHER           -> "close"
  <2>1. \/ step = "complete" /\ monitor.deleted
        \/ step = "retry" /\ Again(t)
        \/ step = "close" /\ ~Again(t)
    OBVIOUS
  <2>2. proc' = [proc EXCEPT ![p] = [proc[p] EXCEPT !.seen = monitor.lastCheckAt,
                                                    !.pc = step]]
    BY DEF Resume, Again
  <2> HIDE DEF step
  <2> QED BY <2>1, <2>2
<1>5. /\ l \in Local /\ l.pc = step /\ l.try = t /\ l.touch = proc[p].touch
      /\ l.seen = monitor.lastCheckAt
  BY <1>3, <1>4, Numbers DEF Inv, Local
<1>6. /\ monitor.deleted => monitor.cycle # Cycle(t)
      /\ l.seen = 0 \/ \E u \in closers : l.seen = checks[u].at
  BY <1>3, <1>5, TryParts DEF Inv, ChecksInv, Cycled, ShowsLatest
<1>7. Placed(l)
  <2>1. monitor.lastCheckAt <= monitor.lastCheckAt
    BY Numbers DEF Inv
  <2> QED BY <1>3, <1>4, <1>5, <1>6, <2>1
          DEF Placed, Resumed, Moving, Closing, Touching
<1> QED BY <1>1, <1>2, <1>4, <1>5, <1>7, Walks

(* Steps that change claims or count requests.                             *)
LEMMA ClaimsStay ==
  ASSUME Inv, UNCHANGED <<store, queue, log>>
  PROVE  /\ UNCHANGED store
         /\ queue' \subseteq Tries /\ log' \subseteq Entry
         /\ \A t \in queue' : Cycle(t) <= opened
         /\ \A e \in log' : e.check \in closers
BY DEF Inv, TypeOK, ChecksInv, Cycled, IncidentsInv, LateOutcomeTouchesNothing

LEMMA InvClaim ==
  ASSUME Inv, NEW p \in Procs, Claim(p) PROVE Inv'
<1> DEFINE t == proc[p].try
<1>1. /\ UNCHANGED <<store, queue, log>> /\ requests' \in [Tries -> Nat]
      /\ overlapped' \in BOOLEAN /\ faults' \in Nat
  BY DEF Claim, store, alerts, history, surroundings, Inv, TypeOK
<1>2. /\ At(p, "claim") /\ ~At(p, "idle") /\ proc[p] \in Local
      /\ Placed(proc[p]) /\ t \in Tries
  BY Here DEF Claim
<1>3. /\ claims[t].state \in {"free", "stale"}
      /\ claims' = [claims EXCEPT ![t] = [state |-> "held", owner |-> p]]
  BY DEF Claim
<1>4. /\ claims' \in [Tries -> ClaimRow] /\ claims'[t].state = "held"
      /\ \A u \in Tries \ {t} : claims'[u] = claims[u]
  BY <1>2, <1>3 DEF Inv, TypeOK, ClaimRow
<1>5. ClaimsKept
  BY <1>3, <1>4 DEF ClaimsKept
<1>6. PICK l, step, outcome :
        /\ proc' = [proc EXCEPT ![p] = l]
        /\ l = [proc[p] EXCEPT !.pc = step, !.outcome = outcome]
        /\ \/ step = "persist" /\ outcome = "AMBIGUOUS"
           \/ step = "request" /\ outcome = "none"
  <2> DEFINE again == claims[t].state = "stale" /\ mutable
             step == IF again THEN "persist" ELSE "request"
             outcome == IF again THEN "AMBIGUOUS" ELSE "none"
  <2>1. Become(p, [proc[p] EXCEPT !.pc = step, !.outcome = outcome])
    BY DEF Claim
  <2>2. \/ step = "persist" /\ outcome = "AMBIGUOUS"
        \/ step = "request" /\ outcome = "none"
    OBVIOUS
  <2> HIDE DEF step, outcome
  <2> QED BY <2>1, <2>2
<1>7. /\ l \in Local /\ l.pc = step /\ l.outcome = outcome /\ l.try = t
      /\ l.touch = proc[p].touch /\ l.seen = proc[p].seen
  BY <1>2, <1>6 DEF Local, Outcome
<1>8. Placed(l)
  BY <1>2, <1>6, <1>7 DEF Placed, Resumed, Moving, Closing, Touching
<1> QED BY <1>1, <1>5, <1>6, <1>7, <1>8, ClaimsStay, InvQuiet

LEMMA InvRequest ==
  ASSUME Inv, NEW p \in Procs, Request(p) PROVE Inv'
<1> DEFINE t == proc[p].try
<1>1. /\ UNCHANGED <<store, queue, log>> /\ claims' = claims
      /\ overlapped' \in BOOLEAN /\ faults' \in Nat
  BY DEF Request, store, alerts, history, surroundings, Inv, TypeOK
<1>2. /\ At(p, "request") /\ proc[p] \in Local /\ Placed(proc[p]) /\ t \in Tries
  BY Here DEF Request
<1>3. requests' \in [Tries -> Nat]
  BY <1>2 DEF Request, Inv, TypeOK
<1>4. PICK outcome, l :
        /\ outcome \in Outcome
        /\ proc' = [proc EXCEPT ![p] = l]
        /\ l = [proc[p] EXCEPT !.pc = "persist", !.outcome = outcome]
  BY DEF Request
<1>5. /\ l \in Local /\ l.pc = "persist" /\ l.outcome = outcome /\ l.try = t
      /\ l.touch = proc[p].touch /\ l.seen = proc[p].seen
  BY <1>2, <1>4 DEF Local
<1>6. Placed(l)
  BY <1>2, <1>4, <1>5 DEF Placed, Resumed, Moving, Closing, Touching, Outcome
<1>7. ClaimsKept
  BY <1>1 DEF Inv, TypeOK, ClaimsKept
<1> QED BY <1>1, <1>3, <1>4, <1>5, <1>6, <1>7, ClaimsStay, InvQuiet

(* A completed claim has no owner, so nobody gives it up.                  *)
LEMMA InvRelease ==
  ASSUME Inv, NEW p \in Procs, Release(p) PROVE Inv'
<1> DEFINE t == proc[p].try
<1>1. /\ UNCHANGED <<store, queue, log>> /\ requests' \in [Tries -> Nat]
      /\ overlapped' \in BOOLEAN /\ faults' \in Nat
      /\ proc' = [proc EXCEPT ![p] = Idle]
  BY DEF Release, store, alerts, history, surroundings, Inv, TypeOK
<1>2. t \in Tries /\ p # Nobody
  BY Here, CycleAssumption DEF Release
<1>3. ClaimsKept
  <2>1. CASE claims[t].owner = p
    <3>1. claims' = [claims EXCEPT ![t] = Unclaimed]
      BY <2>1 DEF Release
    <3>2. claims[t].state # "completed"
      BY <1>2, <2>1 DEF Inv, ChecksInv, Persisted
    <3> QED BY <1>2, <3>1, <3>2 DEF Inv, TypeOK, ClaimRow, Unclaimed, ClaimsKept
  <2>2. CASE claims[t].owner # p
    BY <2>2 DEF Release, Inv, TypeOK, ClaimsKept
  <2> QED BY <2>1, <2>2
<1> QED BY <1>1, <1>3, ClaimsStay, IdlePlaced, InvQuiet

LEMMA ForgetGives ==
  ASSUME TypeOK, NEW p \in Procs, Forget(p)
  PROVE  /\ claims' \in [Tries -> ClaimRow]
         /\ \A t \in Tries :
              /\ claims'[t].state = claims[t].state
              /\ claims'[t].owner = IF claims[t].owner = p THEN Nobody
                                                           ELSE claims[t].owner
<1>1. ASSUME NEW t \in Tries
      PROVE  /\ claims'[t] \in ClaimRow /\ claims'[t].state = claims[t].state
             /\ claims'[t].owner = IF claims[t].owner = p THEN Nobody
                                                          ELSE claims[t].owner
  <2>1. /\ claims[t] \in ClaimRow
        /\ claims'[t] = IF claims[t].owner = p
                        THEN [claims[t] EXCEPT !.owner = Nobody] ELSE claims[t]
    BY DEF Forget, TypeOK
  <2> QED BY <2>1 DEF ClaimRow
<1>2. claims' = [t \in Tries |-> claims'[t]]
  BY DEF Forget
<1> QED BY <1>1, <1>2

LEMMA InvStop ==
  ASSUME Inv, NEW p \in Procs, Stop(p) PROVE Inv'
<1>1. /\ UNCHANGED <<store, queue, log>> /\ requests' \in [Tries -> Nat]
      /\ overlapped' \in BOOLEAN /\ faults' \in Nat
      /\ proc' = [proc EXCEPT ![p] = Idle]
  BY DEF Stop, store, alerts, history, surroundings, Inv, TypeOK
<1>2. ClaimsKept
  BY ForgetGives DEF Stop, Inv, ClaimsKept
<1> QED BY <1>1, <1>2, ClaimsStay, IdlePlaced, InvQuiet

LEMMA InvLeaseEnds ==
  ASSUME Inv, NEW t \in Tries, LeaseEnds(t) PROVE Inv'
<1>1. /\ UNCHANGED <<store, queue, log>> /\ requests' \in [Tries -> Nat]
      /\ overlapped' \in BOOLEAN /\ faults' \in Nat /\ proc' = proc
      /\ proc \in [Procs -> Local]
  BY DEF LeaseEnds, store, alerts, history, surroundings, Inv, TypeOK
<1>2. ClaimsKept
  BY DEF LeaseEnds, Inv, TypeOK, ClaimRow, ClaimsKept
<1>3. TypeOK'
  BY <1>1, <1>2, ClaimsStay DEF Inv, TypeOK, store, ClaimsKept
<1> QED BY <1>1, <1>2, <1>3, ClaimsStay, ChecksStay, InvFrom

-----------------------------------------------------------------------------
(* Steps that persist a check or complete its job. *)

LEMMA PersistGives ==
  ASSUME Inv, NEW p \in Procs, Persist(p), NEW t, t = proc[p].try,
         claims[t].owner = p, claims[t].state \in {"held", "stale"}
  PROVE  /\ t \in Tries /\ ~Done(t) /\ proc[p].outcome \in Outcome
         /\ checks' \in [Tries -> Check] /\ claims' \in [Tries -> ClaimRow]
         /\ checks'[t].result = proc[p].outcome /\ checks'[t].at = clock + 1
         /\ checks'[t].job = "PENDING"
         /\ claims'[t].state = "completed" /\ claims'[t].owner = Nobody
         /\ \A u \in Tries \ {t} : /\ checks'[u] = checks[u]
                                   /\ claims'[u] = claims[u]
         /\ clock' = clock + 1 /\ clock \in Nat
         /\ UNCHANGED <<mutable, monitor, opened, queue, incidents, log,
                        deletion, requests, closers, overlapped, faults>>
<1>1. /\ At(p, "persist") /\ t \in Tries /\ Cycle(t) <= opened
      /\ proc[p].outcome \in Outcome /\ p # Nobody
  BY Here, CycleAssumption DEF Persist, Placed, Local
<1>2. ~Done(t) /\ clock \in Nat
  BY <1>1, Numbers DEF Inv, ChecksInv, Persisted
<1>3. /\ clock' = clock + 1
      /\ checks' = [checks EXCEPT ![t] = [result |-> proc[p].outcome,
                                          at |-> clock + 1, job |-> "PENDING"]]
      /\ claims' = [claims EXCEPT ![t] = [state |-> "completed",
                                          owner |-> Nobody]]
      /\ UNCHANGED <<mutable, monitor, opened, queue, incidents, log,
                     deletion, requests, closers, overlapped, faults>>
  BY DEF Persist, alerts, history, surroundings
<1>4. [result |-> proc[p].outcome, at |-> clock + 1, job |-> "PENDING"] \in Check
  BY <1>1, <1>2 DEF Check
<1>5. checks' \in [Tries -> Check] /\ claims' \in [Tries -> ClaimRow]
  BY <1>1, <1>3, <1>4 DEF Inv, TypeOK, ClaimRow
<1> QED BY <1>1, <1>2, <1>3, <1>5 DEF Inv, TypeOK

LEMMA InvPersist ==
  ASSUME Inv, NEW p \in Procs, Persist(p) PROVE Inv'
<1>1. PICK t : t = proc[p].try
  OBVIOUS
<1>2. /\ At(p, "persist") /\ ~At(p, "idle") /\ t \in Tries
      /\ Cycle(t) <= opened /\ opened \in Nat
  BY <1>1, Here, Numbers DEF Persist, Inv
<1>3. CASE ~(claims[t].owner = p /\ claims[t].state \in {"held", "stale"})
  <2>1. PICK l : /\ proc' = [proc EXCEPT ![p] = l]
                 /\ l = [Idle EXCEPT !.pc = "findJob", !.try = t,
                                     !.message = TRUE]
    BY <1>1, <1>3 DEF Persist, Begin
  <2>2. l \in Local /\ l.pc = "findJob" /\ l.try = t /\ ~l.touch /\ l.seen = 0
    BY <1>2, <2>1, IdleLocal DEF Local
  <2>3. UNCHANGED still /\ overlapped' \in BOOLEAN /\ faults' \in Nat
    BY <1>1, <1>3 DEF Persist, still, store, exec, alerts, history,
                      surroundings, Inv, TypeOK
  <2> QED BY <1>2, <2>1, <2>2, <2>3, Bare, Walks
<1>4. CASE claims[t].owner = p /\ claims[t].state \in {"held", "stale"}
  <2>1. /\ ~Done(t) /\ proc[p].outcome \in Outcome
        /\ checks' \in [Tries -> Check] /\ claims' \in [Tries -> ClaimRow]
        /\ checks'[t].result = proc[p].outcome /\ checks'[t].at = clock + 1
        /\ checks'[t].job = "PENDING"
        /\ claims'[t].state = "completed" /\ claims'[t].owner = Nobody
        /\ \A u \in Tries \ {t} : checks'[u] = checks[u] /\ claims'[u] = claims[u]
        /\ clock' = clock + 1 /\ clock \in Nat
        /\ UNCHANGED <<mutable, monitor, opened, queue, incidents, log,
                       deletion, requests, closers, overlapped, faults>>
    BY <1>1, <1>4, PersistGives
  <2>2. PICK l : /\ proc' = [proc EXCEPT ![p] = l]
                 /\ l = [Idle EXCEPT !.pc = "resume", !.try = t,
                                     !.message = TRUE]
    BY <1>1, <1>4 DEF Persist, Begin
  <2>3. l \in Local /\ l.pc = "resume" /\ l.try = t /\ ~l.touch /\ l.seen = 0
    BY <1>2, <2>2, IdleLocal DEF Local
  <2>4. /\ proc' \in [Procs -> Local] /\ proc'[p] = l
        /\ \A q \in Procs \ {p} : proc'[q] = proc[q]
    BY <2>2, <2>3, Moves DEF Inv
  <2>5. TypeOK'
    BY <2>1, <2>4 DEF Inv, TypeOK
  <2>6. \A u \in closers : u \in Tries /\ u # t /\ Done(u)
    BY <2>1 DEF Inv, ChecksInv, Closer, TypeOK
  <2>7. /\ Done(t)'
        /\ \A u \in Tries \ {t} : /\ Done(u)' <=> Done(u)
                                  /\ Again(u)' <=> Again(u)
    BY <2>1 DEF Done, Again, Outcome
  <2>8. \A u \in Tries : Done(u) => checks[u].at \in Nat /\ checks[u].at <= clock
    BY <2>1 DEF Inv, ChecksInv, Persisted
  <2>9. ChecksInv'
    <3>1. Cycled'
      BY <2>1 DEF Inv, ChecksInv, Cycled
    <3>2. Distinct'
      BY <2>1, <2>7, <2>8 DEF Inv, ChecksInv, Distinct
    <3>3. ShowsLatest'
      BY <2>1, <2>6 DEF Inv, ChecksInv, ShowsLatest, Shown
    <3>4. ASSUME NEW u \in Tries PROVE Persisted(u)'
      <4>1. CASE u = t
        BY <1>2, <2>1, <2>7, <4>1 DEF Persisted
      <4>2. CASE u # t
        BY <2>1, <2>7, <4>2 DEF Persisted, Inv, ChecksInv
      <4> QED BY <4>1, <4>2
    <3>5. ASSUME NEW u \in closers' PROVE Closer(u)'
      <4>1. u \in closers /\ u \in Tries /\ u # t /\ Closer(u)
        BY <2>1, <2>6 DEF Inv, ChecksInv
      <4> QED BY <2>1, <2>7, <2>8, <4>1 DEF Closer
    <3> QED BY <3>1, <3>2, <3>3, <3>4, <3>5 DEF ChecksInv
  <2>10. IncidentsInv'
    BY <2>1, <2>6 DEF Inv, IncidentsInv, LateOutcomeTouchesNothing
  <2>11. Grows
    BY <1>2, <2>1, Numbers DEF Grows, Inv
  <2>12. Placed(proc[p])'
    <3>1. monitor.lastCheckAt \in Nat
      BY Numbers DEF Inv
    <3> QED BY <1>2, <2>1, <2>3, <2>4, <2>7, <3>1
            DEF Placed, Resumed, Moving, Closing, Touching
  <2> QED BY <2>4, <2>5, <2>9, <2>10, <2>11, <2>12, InvFrom
<1> QED BY <1>3, <1>4

(* The job of a check that is followed by another attempt, or whose cycle  *)
(* is over, is completed.                                                  *)
LEMMA JobEnds ==
  ASSUME Inv, NEW t \in Tries, Done(t), Again(t) \/ monitor.cycle # Cycle(t),
         checks' = [checks EXCEPT ![t].job = "COMPLETED"],
         queue' \subseteq Tries, \A u \in queue' : Cycle(u) <= opened,
         UNCHANGED <<mutable, monitor, opened, claims, incidents, log,
                     deletion, requests, closers, overlapped, clock, faults>>,
         NEW p \in Procs, NEW l \in Local, proc' = [proc EXCEPT ![p] = l],
         Placed(l)
  PROVE  Inv'
<1>1. /\ proc' \in [Procs -> Local] /\ proc'[p] = l
      /\ \A q \in Procs \ {p} : proc'[q] = proc[q]
  BY Moves DEF Inv
<1>2. /\ checks' \in [Tries -> Check]
      /\ \A u \in Tries : /\ checks'[u].result = checks[u].result
                          /\ checks'[u].at = checks[u].at
                          /\ checks'[u].job = IF u = t THEN "COMPLETED"
                                                       ELSE checks[u].job
  BY DEF Inv, TypeOK, Check
<1>3. TypeOK'
  BY <1>1, <1>2 DEF Inv, TypeOK
<1>4. closers \subseteq Tries /\ closers' = closers
  BY DEF Inv, TypeOK
<1>5. \A u \in Tries : (Done(u)' <=> Done(u)) /\ (Again(u)' <=> Again(u))
  BY <1>2 DEF Done, Again
<1>6. ChecksInv'
  <2>1. Cycled' /\ Distinct' /\ ShowsLatest'
    BY <1>2, <1>4, <1>5
       DEF Inv, ChecksInv, Cycled, Distinct, ShowsLatest, Shown
  <2>2. ASSUME NEW u \in Tries PROVE Persisted(u)'
    <3>1. Persisted(u)
      BY DEF Inv, ChecksInv
    <3> QED BY <1>2, <1>5, <3>1 DEF Persisted
  <2>3. ASSUME NEW u \in closers' PROVE Closer(u)'
    BY <1>2, <1>4, <1>5, <2>3 DEF Inv, ChecksInv, Closer
  <2> QED BY <2>1, <2>2, <2>3 DEF ChecksInv
<1>7. IncidentsInv'
  BY <1>2, <1>4 DEF Inv, IncidentsInv, LateOutcomeTouchesNothing
<1>8. Grows
  BY <1>2, Numbers DEF Grows, Inv
<1>9. Placed(proc[p])'
  <2>1. Placed(l)'
    BY <1>3, <1>8, PlacedStays
  <2> QED BY <1>1, <2>1 DEF Placed
<1> QED BY <1>1, <1>3, <1>6, <1>7, <1>8, <1>9, InvFrom

LEMMA InvRetry ==
  ASSUME Inv, NEW p \in Procs, Retry(p) PROVE Inv'
<1> DEFINE t == proc[p].try
<1>1. /\ At(p, "retry") /\ ~At(p, "idle") /\ t \in Tries /\ Cycle(t) <= opened
      /\ Done(t) /\ Again(t)
  BY Here DEF Retry, Placed, Resumed
<1>2. /\ queue' \subseteq queue \cup {<<Cycle(t), Attempt(t) + 1>>}
      /\ checks' = [checks EXCEPT ![t].job = "COMPLETED"] /\ Return(p)
      /\ UNCHANGED <<mutable, monitor, opened, claims, incidents, log,
                     deletion, requests, closers, overlapped, clock, faults>>
  BY DEF Retry, alerts, history, surroundings
<1>3. queue' \subseteq Tries /\ \A u \in queue' : Cycle(u) <= opened
  <2>1. /\ <<Cycle(t), Attempt(t) + 1>> \in Tries
        /\ Cycle(<<Cycle(t), Attempt(t) + 1>>) = Cycle(t)
    BY <1>1, NextTry DEF Again
  <2> QED BY <1>1, <1>2, <2>1 DEF Inv, TypeOK, ChecksInv, Cycled
<1>4. \E l \in Local : proc' = [proc EXCEPT ![p] = l] /\ Placed(l)
  BY <1>1, <1>2, ReturnPlaced
<1> QED BY <1>1, <1>2, <1>3, <1>4, JobEnds

LEMMA InvCompleteJob ==
  ASSUME Inv, NEW p \in Procs, CompleteJob(p) PROVE Inv'
<1> DEFINE t == proc[p].try
<1>1. /\ At(p, "complete") /\ ~At(p, "idle") /\ t \in Tries
      /\ Done(t) /\ monitor.cycle # Cycle(t)
  BY Here DEF CompleteJob, Placed, Resumed, Closing, Moving
<1>2. /\ checks' = [checks EXCEPT ![t].job = "COMPLETED"] /\ Return(p)
      /\ queue' = queue
      /\ UNCHANGED <<mutable, monitor, opened, claims, incidents, log,
                     deletion, requests, closers, overlapped, clock, faults>>
  BY DEF CompleteJob, alerts, history, surroundings
<1>3. queue' \subseteq Tries /\ \A u \in queue' : Cycle(u) <= opened
  BY <1>2 DEF Inv, TypeOK, ChecksInv, Cycled
<1>4. \E l \in Local : proc' = [proc EXCEPT ![p] = l] /\ Placed(l)
  BY <1>1, <1>2, ReturnPlaced
<1> QED BY <1>1, <1>2, <1>3, <1>4, JobEnds

-----------------------------------------------------------------------------
(* Steps that move the monitor. *)

(* A check that may close the cycle is newer than all that have closed one. *)
LEMMA ClosesNewer ==
  ASSUME Inv, NEW t \in Tries, Done(t), CanClose(t)
  PROVE  /\ t \notin closers /\ Cycle(t) = opened
         /\ checks[t].at \in Nat /\ checks[t].at > monitor.lastCheckAt
         /\ \A u \in closers : /\ checks[u].at \in Nat
                               /\ checks[t].at > checks[u].at
<1>1. Cycle(t) = opened /\ opened \in Nat /\ monitor.cycle = opened
  BY TryParts, Numbers DEF CanClose, Inv, ChecksInv, Cycled
<1>2. checks[t].at \in 1..clock /\ clock \in Nat
  BY Numbers DEF Inv, ChecksInv, Persisted
<1>3. ASSUME NEW u \in closers
      PROVE  checks[u].at \in Nat /\ checks[t].at > checks[u].at
  <2>1. u \in Tries /\ Closer(u) /\ Persisted(u) /\ Cycle(u) \in Nat
    BY TryParts DEF Inv, TypeOK, ChecksInv
  <2>2. Cycle(u) <= opened /\ Cycle(u) # opened
    BY <1>1, <2>1 DEF Persisted, Closer
  <2>3. Cycle(t) > Cycle(u)
    BY <1>1, <2>1, <2>2
  <2> QED BY <2>1, <2>3, Numbers DEF Closer, Inv
<1>4. checks[t].at > monitor.lastCheckAt
  BY <1>2, <1>3 DEF Inv, ChecksInv, ShowsLatest
<1>5. t \notin closers
  BY <1>1 DEF Inv, ChecksInv, Closer
<1> QED BY <1>1, <1>2, <1>3, <1>4, <1>5

LEMMA CloseGives ==
  ASSUME Inv, NEW p \in Procs, Close(p), NEW t, t = proc[p].try
  PROVE  /\ t \in Tries /\ Done(t) /\ ~Again(t) /\ Cycle(t) <= opened
         /\ proc[p].seen \in Nat /\ proc[p].seen <= monitor.lastCheckAt
         /\ UNCHANGED <<mutable, opened, queue, claims, checks, incidents, log,
                        deletion, requests, overlapped, clock, faults>>
         /\ \E l \in Local :
              /\ proc' = [proc EXCEPT ![p] = l]
              /\ l.pc = "look" /\ l.try = t /\ l.seen = proc[p].seen
              /\ l.touch <=> MayTouch(p, t)
<1>1. /\ At(p, "close") /\ proc[p] \in Local /\ Placed(proc[p]) /\ t \in Tries
      /\ Cycle(t) <= opened
  BY Here DEF Close
<1>2. PICK touch \in BOOLEAN : touch = MayTouch(p, t)
  BY DEF MayTouch
<1>3. PICK l : l = [proc[p] EXCEPT !.pc = "look", !.touch = touch]
  OBVIOUS
<1>4. proc' = [proc EXCEPT ![p] = l]
  BY <1>2, <1>3 DEF Close
<1>5. /\ l \in Local /\ l.pc = "look" /\ l.try = t /\ l.seen = proc[p].seen
      /\ l.touch = touch
  BY <1>1, <1>3 DEF Local
<1>6. Done(t) /\ ~Again(t)
  BY <1>1 DEF Placed, Resumed, Moving
<1>7. proc[p].seen \in Nat /\ proc[p].seen <= monitor.lastCheckAt
  BY <1>1 DEF Placed, Local
<1> QED BY <1>1, <1>2, <1>4, <1>5, <1>6, <1>7
        DEF Close, exec, alerts, surroundings

(* closeCycle does nothing: the continuation may touch the incident only   *)
(* if an earlier run of it has closed the cycle.                           *)
LEMMA TouchesClosed ==
  ASSUME Inv, NEW p \in Procs, NEW t \in Tries, Done(t), ~CanClose(t),
         Placed(proc[p]), MayTouch(p, t)
  PROVE  t \in closers
<1>1. checks[t].at \in 1..clock /\ clock \in Nat /\ proc[p].seen = checks[t].at
  BY Numbers DEF Inv, ChecksInv, Persisted, MayTouch
<1>2. PICK u \in closers : checks[u].at = checks[t].at
  BY <1>1 DEF Placed
<1>3. u \in Tries /\ Done(u)
  BY DEF Inv, TypeOK, ChecksInv, Closer
<1> QED BY <1>2, <1>3 DEF Inv, ChecksInv, Distinct

LEMMA InvClose ==
  ASSUME Inv, NEW p \in Procs, Close(p) PROVE Inv'
<1>1. PICK t : t = proc[p].try
  OBVIOUS
<1>2. /\ t \in Tries /\ Done(t) /\ ~Again(t) /\ Cycle(t) <= opened
      /\ proc[p].seen \in Nat /\ proc[p].seen <= monitor.lastCheckAt
      /\ UNCHANGED <<mutable, opened, queue, claims, checks, incidents, log,
                     deletion, requests, overlapped, clock, faults>>
  BY <1>1, CloseGives
<1>3. PICK l \in Local : /\ proc' = [proc EXCEPT ![p] = l]
                         /\ l.pc = "look" /\ l.try = t
                         /\ l.seen = proc[p].seen
                         /\ l.touch <=> MayTouch(p, t)
  BY <1>1, CloseGives
<1>4. /\ proc' \in [Procs -> Local] /\ proc'[p] = l
      /\ \A q \in Procs \ {p} : proc'[q] = proc[q]
  BY <1>3, Moves DEF Inv
<1>5. Placed(proc[p])
  BY Here
<1>6. CASE ~CanClose(t)
  <2>1. UNCHANGED still /\ overlapped' \in BOOLEAN /\ faults' \in Nat
    BY <1>1, <1>2, <1>6 DEF Close, still, store, Inv, TypeOK
  <2>2. l.touch => t \in closers
    BY <1>2, <1>3, <1>5, <1>6, TouchesClosed
  <2>3. monitor.cycle # Cycle(t)
    BY <1>2, <1>6, TryParts DEF CanClose, Inv, ChecksInv, Cycled
  <2>4. l.seen = 0 \/ \E u \in closers : l.seen = checks[u].at
    BY <1>3, <1>5 DEF Placed
  <2>5. Placed(l)
    BY <1>2, <1>3, <2>2, <2>3, <2>4
       DEF Placed, Resumed, Moving, Closing, Touching
  <2> QED BY <1>3, <2>1, <2>5, Walks
<1>7. CASE CanClose(t)
  <2>1. /\ monitor' = [monitor EXCEPT !.cycle = 0,
                         !.lastCheckAt = checks[t].at, !.status = Shown(t)]
        /\ closers' = closers \cup {t}
    BY <1>1, <1>7 DEF Close, Shown
  <2>2. /\ t \notin closers /\ Cycle(t) = opened
        /\ checks[t].at \in Nat /\ checks[t].at > monitor.lastCheckAt
        /\ monitor.lastCheckAt \in Nat
        /\ \A u \in closers : /\ checks[u].at \in Nat
                              /\ checks[t].at > checks[u].at
    BY <1>2, <1>7, ClosesNewer, Numbers DEF Inv
  <2>3. /\ monitor' \in Monitor /\ monitor'.cycle = 0
        /\ monitor'.lastCheckAt = checks[t].at /\ monitor'.status = Shown(t)
        /\ monitor'.deleted = monitor.deleted
    BY <2>1, <2>2 DEF Inv, TypeOK, Monitor, Shown
  <2>4. TypeOK'
    BY <1>2, <1>4, <2>1, <2>3 DEF Inv, TypeOK
  <2>5. \A u \in Tries : (Done(u)' <=> Done(u)) /\ (Again(u)' <=> Again(u))
    BY <1>2 DEF Done, Again
  <2>6. ChecksInv'
    <3>1. Cycled' /\ Distinct'
      BY <1>2, <2>3, <2>5 DEF Inv, ChecksInv, Cycled, Distinct
    <3>2. ShowsLatest'
      BY <1>2, <2>1, <2>3 DEF ShowsLatest, Shown
    <3>3. ASSUME NEW u \in Tries PROVE Persisted(u)'
      <4>1. Persisted(u) /\ Cycle(u) # 0
        BY TryParts DEF Inv, ChecksInv
      <4> QED BY <1>2, <2>3, <2>5, <4>1 DEF Persisted
    <3>4. ASSUME NEW u \in closers' PROVE Closer(u)'
      <4>1. u \in Tries /\ Cycle(u) # 0
        BY <1>2, <2>1, TryParts DEF Inv, TypeOK
      <4>2. CASE u \in closers
        BY <1>2, <2>2, <2>3, <2>5, <4>1, <4>2 DEF Inv, ChecksInv, Closer
      <4>3. CASE u = t
        <5>1. \A w \in Tries : Done(w) => ~(Cycle(w) > Cycle(t))
          BY <2>2, TryParts, Numbers DEF Inv, ChecksInv, Persisted
        <5> QED BY <1>2, <2>2, <2>3, <2>5, <4>1, <4>3, <5>1 DEF Closer
      <4> QED BY <2>1, <4>2, <4>3
    <3> QED BY <3>1, <3>2, <3>3, <3>4 DEF ChecksInv
  <2>7. IncidentsInv'
    BY <1>2, <2>1 DEF Inv, IncidentsInv, LateOutcomeTouchesNothing
  <2>8. Grows
    BY <1>2, <2>1, <2>2, <2>3, TryParts, Numbers DEF Grows, Inv
  <2>9. Placed(proc[p])'
    <3>1. l.seen = 0 \/ \E u \in closers' : l.seen = checks'[u].at
      BY <1>2, <1>3, <1>5, <2>1 DEF Placed
    <3>2. l.seen <= monitor'.lastCheckAt
      BY <1>2, <1>3, <2>2, <2>3
    <3>3. Cycle(t) # 0
      BY <1>2, TryParts
    <3> QED BY <1>2, <1>3, <1>4, <2>1, <2>3, <2>5, <3>1, <3>2, <3>3
            DEF Placed, Resumed, Moving, Closing, Touching
  <2> QED BY <1>4, <2>4, <2>6, <2>7, <2>8, <2>9, InvFrom
<1> QED BY <1>6, <1>7

(* The sweep, the maintenance and the deletion.                            *)
LEMMA MonitorMoves ==
  ASSUME Inv, UNCHANGED <<mutable, claims, checks, incidents, log, requests,
                          closers, overlapped, clock, proc, faults>>,
         monitor' \in Monitor, monitor'.lastCheckAt = monitor.lastCheckAt,
         monitor'.status = monitor.status,
         opened' \in {0} \cup Cycles, opened <= opened',
         monitor'.cycle # 0 => opened' = opened + 1 /\ monitor'.cycle = opened',
         deletion' \in {"none", "resolving", "done"}, queue' \subseteq Tries,
         Cycled'
  PROVE  Inv'
<1>1. /\ opened \in Nat /\ opened' \in Nat /\ monitor.lastCheckAt \in Nat
      /\ closers \subseteq Tries /\ closers' = closers
  BY Numbers, CycleAssumption DEF Inv, Cycles, TypeOK
<1>2. TypeOK'
  BY DEF Inv, TypeOK
<1>3. \A u \in Tries : (Done(u)' <=> Done(u)) /\ (Again(u)' <=> Again(u))
  BY DEF Done, Again
<1>4. \A u \in Tries : Cycle(u) <= opened => monitor'.cycle # Cycle(u)
  BY <1>1, TryParts
<1>5. Distinct' /\ ShowsLatest'
  BY <1>3 DEF Inv, ChecksInv, Distinct, ShowsLatest, Shown
<1>6. ASSUME NEW u \in Tries PROVE Persisted(u)'
  <2>1. Persisted(u) /\ Cycle(u) \in Nat
    BY TryParts DEF Inv, ChecksInv
  <2> QED BY <1>1, <1>3, <1>4, <2>1 DEF Persisted
<1>7. ASSUME NEW u \in closers PROVE Closer(u)'
  <2>1. Closer(u) /\ u \in Tries /\ Persisted(u)
    BY <1>1 DEF Inv, ChecksInv
  <2>2. monitor'.cycle # Cycle(u)
    BY <1>4, <2>1 DEF Closer, Persisted
  <2> QED BY <1>3, <2>1, <2>2 DEF Closer
<1>8. IncidentsInv'
  BY DEF Inv, IncidentsInv, LateOutcomeTouchesNothing
<1>9. Grows
  BY <1>1, <1>4 DEF Grows
<1> QED BY <1>1, <1>2, <1>5, <1>6, <1>7, <1>8, <1>9, InvFrom DEF ChecksInv

LEMMA InvMonitor ==
  ASSUME Inv, OpenCycle \/ ClearCycle \/ Delete PROVE Inv'
<1>1. /\ monitor \in Monitor /\ opened \in Nat /\ opened \in {0} \cup Cycles
      /\ opened <= opened /\ Cycled /\ queue \subseteq Tries
      /\ deletion \in {"none", "resolving", "done"}
  BY Numbers DEF Inv, TypeOK, ChecksInv
<1>2. UNCHANGED <<mutable, claims, checks, incidents, log, requests,
                  closers, overlapped, clock, proc, faults>>
  BY DEF OpenCycle, ClearCycle, Delete, exec, alerts, history, surroundings
<1>3. CASE OpenCycle
  <2>1. /\ opened' = opened + 1 /\ opened' \in Cycles /\ opened < opened'
        /\ monitor' = [monitor EXCEPT !.cycle = opened']
        /\ queue' = queue \cup {<<opened', 0>>} /\ deletion' = deletion
        /\ ~monitor.deleted
    BY <1>1, <1>3, CycleAssumption DEF OpenCycle, Cycles
  <2>2. <<opened', 0>> \in Tries /\ Cycle(<<opened', 0>>) = opened'
    BY <2>1, FirstTry
  <2>3. /\ monitor' \in Monitor /\ monitor'.cycle = opened'
        /\ monitor'.lastCheckAt = monitor.lastCheckAt
        /\ monitor'.status = monitor.status /\ ~monitor'.deleted
    BY <1>1, <2>1 DEF Monitor
  <2>4. Cycled'
    <3>1. \A t \in queue : Cycle(t) \in Nat
      BY <1>1, TryParts
    <3> QED BY <1>1, <2>1, <2>2, <2>3, <3>1 DEF Cycled
  <2> QED BY <1>1, <1>2, <2>1, <2>2, <2>3, <2>4, MonitorMoves
<1>4. CASE ClearCycle
  <2>1. /\ monitor' = [monitor EXCEPT !.cycle = 0]
        /\ opened' = opened /\ queue' = queue /\ deletion' = deletion
    BY <1>4 DEF ClearCycle, surroundings
  <2>2. /\ monitor' \in Monitor /\ monitor'.cycle = 0
        /\ monitor'.lastCheckAt = monitor.lastCheckAt
        /\ monitor'.status = monitor.status
        /\ monitor'.deleted = monitor.deleted
    BY <1>1, <2>1 DEF Monitor
  <2>3. Cycled'
    BY <1>1, <2>1, <2>2 DEF Cycled
  <2>4. /\ opened' \in {0} \cup Cycles /\ opened <= opened'
        /\ deletion' \in {"none", "resolving", "done"}
        /\ queue' \subseteq Tries
    BY <1>1, <2>1
  <2> QED BY <1>2, <2>2, <2>3, <2>4, MonitorMoves
<1>5. CASE Delete
  <2>1. /\ monitor' = [monitor EXCEPT !.deleted = TRUE, !.cycle = 0]
        /\ opened' = opened /\ queue' = queue /\ deletion' = "resolving"
    BY <1>5 DEF Delete
  <2>2. /\ monitor' \in Monitor /\ monitor'.cycle = 0
        /\ monitor'.lastCheckAt = monitor.lastCheckAt
        /\ monitor'.status = monitor.status
        /\ monitor'.deleted
    BY <1>1, <2>1 DEF Monitor
  <2>3. Cycled'
    BY <1>1, <2>1, <2>2 DEF Cycled
  <2>4. /\ opened' \in {0} \cup Cycles /\ opened <= opened'
        /\ deletion' \in {"none", "resolving", "done"}
        /\ queue' \subseteq Tries
    BY <1>1, <2>1
  <2> QED BY <1>2, <2>2, <2>3, <2>4, MonitorMoves
<1> QED BY <1>3, <1>4, <1>5

-----------------------------------------------------------------------------
(* Steps that move the incidents. *)

LEMMA IncidentsMove ==
  ASSUME Inv, UNCHANGED <<mutable, monitor, opened, queue, claims, checks, log,
                          requests, closers, overlapped, clock, faults>>,
         deletion' \in {"none", "resolving", "done"},
         monitor.deleted <=> deletion' # "none",
         incidents' \in Seq(Incident),
         DOMAIN incidents \subseteq DOMAIN incidents',
         \A i \in DOMAIN incidents' :
           /\ incidents'[i].openedBy \in closers
           /\ checks[incidents'[i].openedBy].result # "PASSED"
           /\ incidents'[i].resolvedBy \in closers \cup {None},
         proc' \in [Procs -> Local],
         \A q \in Procs : proc'[q] = proc[q] \/ Placed(proc[q])'
  PROVE  Inv'
<1>1. TypeOK'
  BY DEF Inv, TypeOK
<1>2. Cycled' /\ Distinct' /\ ShowsLatest'
  BY DEF Inv, ChecksInv, Cycled, Distinct, ShowsLatest, Shown, Done
<1>3. \A u \in Tries : (Done(u)' <=> Done(u)) /\ (Again(u)' <=> Again(u))
  BY DEF Done, Again
<1>4. ASSUME NEW u \in Tries PROVE Persisted(u)'
  BY <1>3 DEF Inv, ChecksInv, Persisted
<1>5. ASSUME NEW u \in closers PROVE Closer(u)'
  <2>1. Closer(u) /\ u \in Tries
    BY DEF Inv, ChecksInv, TypeOK
  <2> QED BY <1>3, <2>1 DEF Closer
<1>6. IncidentsInv'
  BY DEF Inv, IncidentsInv, LateOutcomeTouchesNothing
<1>7. Grows
  BY Numbers DEF Grows, Inv
<1> QED BY <1>1, <1>2, <1>4, <1>5, <1>6, <1>7, InvFrom DEF ChecksInv

LEMMA Old ==
  ASSUME Inv
  PROVE  \A i \in DOMAIN incidents :
           /\ incidents[i] \in Incident
           /\ incidents[i].openedBy \in closers
           /\ checks[incidents[i].openedBy].result # "PASSED"
           /\ incidents[i].resolvedBy \in closers \cup {None}
BY Numbers DEF Inv, IncidentsInv, LateOutcomeTouchesNothing

LEMMA ResolveGives ==
  ASSUME Inv, NEW p \in Procs, Resolve(p)
  PROVE  /\ proc[p].try \in closers /\ checks[proc[p].try].result = "PASSED"
         /\ proc[p].incident \in DOMAIN incidents /\ proc[p].touch
         /\ incidents' \in Seq(Incident) /\ DOMAIN incidents' = DOMAIN incidents
         /\ \A i \in DOMAIN incidents \ {proc[p].incident} :
              incidents'[i] = incidents[i]
         /\ \A i \in DOMAIN incidents :
              /\ incidents'[i].openedBy = incidents[i].openedBy
              /\ i = proc[p].incident => ~incidents'[i].open
              /\ \/ incidents'[i].resolvedBy = incidents[i].resolvedBy
                 \/ incidents'[i].resolvedBy = proc[p].try
<1>1. PICK t, j : t = proc[p].try /\ j = proc[p].incident
  OBVIOUS
<1>2. /\ At(p, "resolve") /\ t \in closers /\ t \in Tries
      /\ checks[t].result = "PASSED" /\ j \in DOMAIN incidents /\ proc[p].touch
  BY <1>1, Here DEF Resolve, Placed, Touching
<1>3. incidents[j] \in Incident /\ incidents \in Seq(Incident)
  BY <1>2, Numbers DEF Inv, TypeOK
<1>4. CASE ~incidents[j].open
  BY <1>1, <1>2, <1>3, <1>4 DEF Resolve
<1>5. CASE incidents[j].open
  <2>1. PICK row : row = [incidents[j] EXCEPT !.open = FALSE, !.resolvedBy = t]
    OBVIOUS
  <2>2. /\ row \in Incident /\ ~row.open /\ row.resolvedBy = t
        /\ row.openedBy = incidents[j].openedBy
    BY <1>2, <1>3, <2>1 DEF Incident
  <2>3. incidents' = [incidents EXCEPT ![j] = row]
    BY <1>1, <1>5, <2>1 DEF Resolve
  <2>4. /\ incidents' \in Seq(Incident) /\ DOMAIN incidents' = DOMAIN incidents
        /\ incidents'[j] = row
        /\ \A i \in DOMAIN incidents \ {j} : incidents'[i] = incidents[i]
    BY <1>2, <1>3, <2>2, <2>3
  <2> QED BY <1>1, <1>2, <2>2, <2>4
<1> QED BY <1>4, <1>5

LEMMA InvResolve ==
  ASSUME Inv, NEW p \in Procs, Resolve(p) PROVE Inv'
<1>1. /\ At(p, "resolve") /\ ~At(p, "idle") /\ proc[p].pc \in Closing
      /\ Goto(p, "event") /\ proc[p].try \in closers
      /\ UNCHANGED <<mutable, monitor, opened, queue, claims, checks, log,
                     requests, closers, overlapped, clock, faults>>
      /\ deletion' = deletion
  BY ResolveGives
     DEF Resolve, Closing, Moving, exec, history, surroundings
<1>2. PICK l \in Local : proc' = [proc EXCEPT ![p] = l] /\ Placed(l)
                         /\ l.pc = "event"
  BY <1>1, GotoPlaced DEF Places
<1>3. /\ proc' \in [Procs -> Local] /\ proc'[p] = l
      /\ \A q \in Procs \ {p} : proc'[q] = proc[q]
  BY <1>2, Moves DEF Inv
<1>4. /\ incidents' \in Seq(Incident) /\ DOMAIN incidents' = DOMAIN incidents
      /\ \A i \in DOMAIN incidents' :
           /\ incidents'[i].openedBy \in closers
           /\ checks[incidents'[i].openedBy].result # "PASSED"
           /\ incidents'[i].resolvedBy \in closers \cup {None}
  BY <1>1, ResolveGives, Old
<1>5. Placed(proc[p])'
  BY <1>1, <1>2, <1>3, <1>4 DEF Placed, Done, Again
<1>6. /\ deletion' \in {"none", "resolving", "done"}
      /\ monitor.deleted <=> deletion' # "none"
  BY <1>1 DEF Inv, TypeOK, ChecksInv, Cycled
<1> QED BY <1>1, <1>3, <1>4, <1>5, <1>6, IncidentsMove

(* insertOpen: a new incident, or the open one there is.                   *)
LEMMA OpenGives ==
  ASSUME Inv, NEW p \in Procs, Open(p), NEW t, t = proc[p].try
  PROVE  /\ t \in closers /\ checks[t].result # "PASSED" /\ proc[p].touch
         /\ incidents' \in Seq(Incident)
         /\ \/ /\ incidents' = incidents
               /\ \E i \in OpenOnes, step \in {"event", "append"} :
                    Handle(p, i, step)
            \/ \E i \in Nat :
                  /\ OpenOnes = {} /\ i \notin DOMAIN incidents
                  /\ DOMAIN incidents' = DOMAIN incidents \cup {i}
                  /\ incidents'[i].openedBy = t /\ incidents'[i].open
                  /\ incidents'[i].resolvedBy = None
                  /\ \A j \in DOMAIN incidents : incidents'[j] = incidents[j]
                  /\ Handle(p, i, "event")
<1>1. /\ At(p, "open") /\ t \in closers /\ t \in Tries
      /\ checks[t].result # "PASSED" /\ proc[p].touch
      /\ incidents \in Seq(Incident)
  BY Here DEF Open, Placed, Touching, Inv, TypeOK
<1>2. CASE \E i \in OpenOnes :
             /\ Handle(p, i, IF incidents[i].openedBy = t THEN "event"
                                                          ELSE "append")
             /\ UNCHANGED incidents
  <2>1. PICK i \in OpenOnes, step \in {"event", "append"} : Handle(p, i, step)
    BY <1>2
  <2> QED BY <1>1, <1>2, <2>1
<1>3. CASE /\ OpenOnes = {}
           /\ incidents' = Append(incidents, [openedBy |-> t, open |-> TRUE,
                                              resolvedBy |-> None])
           /\ Handle(p, Len(incidents) + 1, "event")
  <2>1. PICK row, i :
          /\ row = [openedBy |-> t, open |-> TRUE, resolvedBy |-> None]
          /\ i = Len(incidents) + 1
    OBVIOUS
  <2>2. /\ row \in Incident /\ row.openedBy = t /\ row.open
        /\ row.resolvedBy = None
    BY <1>1, <2>1 DEF Incident
  <2>3. /\ incidents' \in Seq(Incident) /\ Len(incidents') = i
        /\ incidents'[i] = row /\ Len(incidents) \in Nat
        /\ \A j \in 1..Len(incidents) : incidents'[j] = incidents[j]
    BY <1>1, <1>3, <2>1, <2>2
  <2>4. /\ DOMAIN incidents = 1..Len(incidents) /\ i \in Nat
        /\ DOMAIN incidents' = 1..i
    BY <1>1, <2>1, <2>3
  <2>5. i \notin DOMAIN incidents /\ DOMAIN incidents' = DOMAIN incidents \cup {i}
    BY <2>1, <2>3, <2>4
  <2> QED BY <1>1, <1>3, <2>1, <2>2, <2>3, <2>4, <2>5
<1> QED BY <1>2, <1>3 DEF Open

LEMMA InvOpen ==
  ASSUME Inv, NEW p \in Procs, Open(p) PROVE Inv'
<1>1. PICK t : t = proc[p].try
  OBVIOUS
<1>2. /\ At(p, "open") /\ proc[p] \in Local /\ Placed(proc[p])
      /\ UNCHANGED <<mutable, monitor, opened, queue, claims, checks, log,
                     requests, closers, overlapped, clock, faults>>
      /\ deletion' = deletion
  BY Here DEF Open, exec, history, surroundings
<1>3. /\ t \in closers /\ checks[t].result # "PASSED" /\ proc[p].touch
      /\ incidents' \in Seq(Incident)
  BY <1>1, OpenGives
<1>4. /\ DOMAIN incidents \subseteq DOMAIN incidents'
      /\ \A i \in DOMAIN incidents' :
           /\ incidents'[i].openedBy \in closers
           /\ checks[incidents'[i].openedBy].result # "PASSED"
           /\ incidents'[i].resolvedBy \in closers \cup {None}
  <2>1. CASE incidents' = incidents
    BY <2>1, Old
  <2>2. CASE \E i \in Nat :
               /\ DOMAIN incidents' = DOMAIN incidents \cup {i}
               /\ incidents'[i].openedBy = t
               /\ incidents'[i].resolvedBy = None
               /\ \A j \in DOMAIN incidents : incidents'[j] = incidents[j]
    BY <1>3, <2>2, Old
  <2> QED BY <1>1, <2>1, <2>2, OpenGives
<1>5. PICK i \in Nat, step \in {"event", "append"} : Handle(p, i, step)
  <2>1. \A i \in OpenOnes : i \in Nat
    BY Numbers DEF OpenOnes, Inv
  <2> QED BY <1>1, <2>1, OpenGives
<1>6. PICK l : /\ l = [proc[p] EXCEPT !.pc = step, !.incident = i]
               /\ proc' = [proc EXCEPT ![p] = l]
  BY <1>5 DEF Handle
<1>7. /\ l \in Local /\ l.pc = step /\ l.try = t /\ l.incident = i
      /\ l.touch /\ l.seen = proc[p].seen
  BY <1>1, <1>2, <1>3, <1>6 DEF Local
<1>8. Placed(l)
  BY <1>1, <1>2, <1>3, <1>7 DEF Placed, Resumed, Moving, Closing, Touching
<1>9. /\ proc' \in [Procs -> Local] /\ proc'[p] = l
      /\ \A q \in Procs \ {p} : proc'[q] = proc[q]
  BY <1>6, <1>7, Moves DEF Inv
<1>10. Placed(proc[p])'
  BY <1>2, <1>4, <1>8, <1>9 DEF Placed, Done, Again
<1>11. /\ deletion' \in {"none", "resolving", "done"}
       /\ monitor.deleted <=> deletion' # "none"
  BY <1>2 DEF Inv, TypeOK, ChecksInv, Cycled
<1> QED BY <1>2, <1>3, <1>4, <1>9, <1>10, <1>11, IncidentsMove

LEMMA InvDeletionResolves ==
  ASSUME Inv, DeletionResolves PROVE Inv'
<1>1. /\ UNCHANGED <<mutable, monitor, opened, queue, claims, checks, log,
                     requests, closers, overlapped, clock, faults>>
      /\ proc' = proc /\ deletion = "resolving" /\ deletion' = "done"
  BY DEF DeletionResolves, exec, history
<1>2. ASSUME NEW i \in DOMAIN incidents
      PROVE  /\ [incidents[i] EXCEPT !.open = FALSE] \in Incident
             /\ [incidents[i] EXCEPT !.open = FALSE].openedBy
                  = incidents[i].openedBy
             /\ [incidents[i] EXCEPT !.open = FALSE].resolvedBy
                  = incidents[i].resolvedBy
  BY Old DEF Incident
<1>3. PICK n \in Nat : DOMAIN incidents = 1..n
  BY Numbers DEF Inv
<1>4. /\ incidents' \in [1..n -> Incident]
      /\ \A i \in DOMAIN incidents :
           /\ incidents'[i].openedBy = incidents[i].openedBy
           /\ incidents'[i].resolvedBy = incidents[i].resolvedBy
  BY <1>2, <1>3 DEF DeletionResolves
<1>5. incidents' \in Seq(Incident) /\ DOMAIN incidents' = DOMAIN incidents
  BY <1>3, <1>4
<1>6. \A i \in DOMAIN incidents' :
        /\ incidents'[i].openedBy \in closers
        /\ checks[incidents'[i].openedBy].result # "PASSED"
        /\ incidents'[i].resolvedBy \in closers \cup {None}
  BY <1>4, <1>5, Old
<1>7. /\ proc' \in [Procs -> Local]
      /\ monitor.deleted <=> deletion' # "none"
  BY <1>1 DEF Inv, TypeOK, ChecksInv, Cycled
<1> QED BY <1>1, <1>5, <1>6, <1>7, IncidentsMove

-----------------------------------------------------------------------------
(* The invariant holds. *)

LEMMA InvInit == Init => Inv
<1> SUFFICES ASSUME Init PROVE Inv
  OBVIOUS
<1>1. /\ monitor.cycle = 0 /\ ~monitor.deleted /\ monitor.lastCheckAt = 0
      /\ monitor.status = "UNKNOWN" /\ monitor \in Monitor
  BY DEF Init, Monitor
<1>2. NotChecked \in Check /\ Unclaimed \in ClaimRow
  BY DEF NotChecked, Check, Unclaimed, ClaimRow
<1>3. incidents \in Seq(Incident) /\ DOMAIN incidents = {}
  BY DEF Init
<1>4. TypeOK
  BY <1>1, <1>2, <1>3, IdleLocal DEF Init, TypeOK
<1>5. ASSUME NEW t \in Tries PROVE ~Done(t) /\ Persisted(t)
  BY DEF Init, Done, Persisted, NotChecked, Unclaimed
<1>6. ChecksInv
  BY <1>1, <1>5 DEF Init, ChecksInv, Cycled, Distinct, ShowsLatest
<1>7. IncidentsInv
  BY <1>3 DEF Init, IncidentsInv, LateOutcomeTouchesNothing
<1>8. \A p \in Procs : Placed(proc[p])
  <2>1. \A p \in Procs : proc[p] = Idle
    BY DEF Init
  <2>2. Placed(Idle)
    BY <1>1, IdleLocal DEF Placed, Resumed, Moving, Closing, Touching
  <2> QED BY <2>1, <2>2
<1> QED BY <1>4, <1>6, <1>7, <1>8 DEF Inv

LEMMA InvNext == Inv /\ [Next]_vars => Inv'
<1> SUFFICES ASSUME Inv, [Next]_vars PROVE Inv'
  OBVIOUS
<1>1. CASE UNCHANGED vars
  <2>1. /\ UNCHANGED <<mutable, monitor, opened, queue, claims, checks,
                       incidents, log, deletion, requests, closers,
                       overlapped, clock, faults>>
        /\ proc' = proc
    BY <1>1 DEF vars
  <2>2. TypeOK' /\ UNCHANGED store
    BY <2>1 DEF Inv, TypeOK, store
  <2>3. /\ ClaimsKept /\ \A t \in queue' : Cycle(t) <= opened
        /\ \A e \in log' : e.check \in closers
    BY <2>1 DEF Inv, TypeOK, ChecksInv, Cycled, IncidentsInv, ClaimsKept,
                LateOutcomeTouchesNothing
  <2> QED BY <2>1, <2>2, <2>3, ChecksStay, InvFrom
<1>2. ASSUME NEW p \in Procs, Step(p) PROVE Inv'
  BY <1>2, InvClaim, InvClaimRefused, InvRequest, InvPersist, InvRelease,
     InvFindJob, InvAck, InvResume, InvRetry, InvClose, InvLook, InvResolve,
     InvOpen, InvWrites, InvCompleteJob DEF Step
<1>3. ASSUME NEW p \in Procs, Throw(p) \/ Stop(p) PROVE Inv'
  BY <1>3, InvThrow, InvStop
<1>4. ASSUME NEW p \in Procs, NEW t \in Tries, Deliver(p, t) \/ CronResumes(p, t)
      PROVE  Inv'
  BY <1>4, InvDeliver, InvCronResumes
<1>5. CASE \E t \in Tries : LeaseEnds(t)
  BY <1>5, InvLeaseEnds
<1>6. CASE OpenCycle \/ ClearCycle \/ Delete
  BY <1>6, InvMonitor
<1>7. CASE DeletionResolves
  BY <1>7, InvDeletionResolves
<1> QED BY <1>1, <1>2, <1>3, <1>4, <1>5, <1>6, <1>7 DEF Next

LEMMA Invariance == Spec => []Inv
BY InvInit, InvNext, PTL DEF Spec

(* The tables, the queue and every invocation hold values of their types.  *)
THEOREM TypeCorrect == Spec => []TypeOK
<1>1. Inv => TypeOK
  BY DEF Inv
<1> QED BY <1>1, Invariance, PTL

(* Only a check whose continuation has closed its cycle opens or resolves  *)
(* an incident, writes an event or sends an alert: the outcome of a cycle  *)
(* that maintenance or a deletion has cleared moves nothing, however many  *)
(* invocations handle it and however late.                                 *)
THEOREM OnlyClosersTouch == Spec => []LateOutcomeTouchesNothing
<1>1. Inv => LateOutcomeTouchesNothing
  BY DEF Inv, IncidentsInv
<1> QED BY <1>1, Invariance, PTL

-----------------------------------------------------------------------------
(* The state the monitor shows. *)

Forward ==
  /\ monitor'.lastCheckAt >= monitor.lastCheckAt
  /\ monitor'.lastCheckAt = monitor.lastCheckAt
       => monitor'.status = monitor.status

LEMMA ForwardNext == Inv /\ [Next]_vars => Forward
<1> SUFFICES ASSUME Inv, [Next]_vars PROVE Forward
  OBVIOUS
<1>1. monitor.lastCheckAt \in Nat /\ monitor \in Monitor
  BY Numbers DEF Inv
<1>2. CASE monitor' = monitor
  BY <1>1, <1>2 DEF Forward
<1>3. ASSUME NEW p \in Procs, Close(p) PROVE Forward
  <2>1. PICK t : t = proc[p].try
    OBVIOUS
  <2>2. t \in Tries /\ Done(t)
    BY <1>3, <2>1, CloseGives
  <2>3. CASE ~CanClose(t)
    BY <1>2, <1>3, <2>1, <2>3 DEF Close
  <2>4. CASE CanClose(t)
    <3>1. checks[t].at \in Nat /\ checks[t].at > monitor.lastCheckAt
      BY <2>2, <2>4, ClosesNewer
    <3>2. monitor'.lastCheckAt = checks[t].at
      BY <1>1, <1>3, <2>1, <2>4 DEF Close, Monitor
    <3> QED BY <1>1, <3>1, <3>2 DEF Forward
  <2> QED BY <2>3, <2>4
<1>4. CASE OpenCycle \/ ClearCycle \/ Delete
  <2>1. /\ monitor'.lastCheckAt = monitor.lastCheckAt
        /\ monitor'.status = monitor.status
    BY <1>1, <1>4 DEF OpenCycle, ClearCycle, Delete, Monitor
  <2> QED BY <1>1, <2>1 DEF Forward
<1>5. ASSUME NEW p \in Procs, Step(p) PROVE Forward
  BY <1>2, <1>3, <1>5
     DEF Step, Claim, ClaimRefused, Request, Persist, Release, FindJob, Ack,
         Resume, Retry, LookPass, LookFail, Resolve, Open, AppendFailure,
         InsertEvent, Dispatch, CompleteJob
<1>6. ASSUME NEW p \in Procs, Throw(p) \/ Stop(p) PROVE Forward
  BY <1>2, <1>6 DEF Throw, Stop
<1>7. ASSUME NEW p \in Procs, NEW t \in Tries, Deliver(p, t) \/ CronResumes(p, t)
      PROVE  Forward
  BY <1>2, <1>7 DEF Deliver, CronResumes
<1>8. CASE (\E t \in Tries : LeaseEnds(t)) \/ DeletionResolves
  BY <1>2, <1>8 DEF LeaseEnds, DeletionResolves
<1>9. CASE UNCHANGED vars
  BY <1>2, <1>9 DEF vars
<1> QED BY <1>4, <1>5, <1>6, <1>7, <1>8, <1>9 DEF Next

(* The monitor never goes back to the state of an older check, and does    *)
(* not change state without a newer one: a continuation that is resumed    *)
(* late, a second run of one and a cleared cycle leave it alone.           *)
THEOREM ShownStateMovesForward == Spec => StatusMovesForward
<1>1. Inv /\ [Next]_vars
        => [monitor'.lastCheckAt >= monitor.lastCheckAt
             /\ (monitor'.lastCheckAt = monitor.lastCheckAt
                   => monitor'.status = monitor.status)]_vars
  BY ForwardNext DEF Forward
<1> QED BY <1>1, Invariance, PTL DEF Spec, StatusMovesForward

-----------------------------------------------------------------------------
(* Requests. *)

Others(p) == \A q \in Procs \ {p} : proc'[q] = proc[q]

LEMMA GotoLands ==
  ASSUME TypeOK, NEW p \in Procs, NEW step \in Places, Goto(p, step)
  PROVE  /\ Others(p) /\ proc'[p].pc = step /\ proc'[p].try = proc[p].try
         /\ proc'[p].touch = proc[p].touch /\ proc'[p].seen = proc[p].seen
         /\ proc'[p].incident = proc[p].incident
<1>1. PICK l : l = [proc[p] EXCEPT !.pc = step]
  OBVIOUS
<1>2. /\ l \in Local /\ l.pc = step /\ l.try = proc[p].try
      /\ l.touch = proc[p].touch /\ l.seen = proc[p].seen
      /\ l.incident = proc[p].incident
  BY <1>1 DEF TypeOK, Local, Places
<1>3. proc' = [proc EXCEPT ![p] = l]
  BY <1>1 DEF Goto
<1> QED BY <1>2, <1>3, Moves DEF Others

LEMMA HandleLands ==
  ASSUME TypeOK, NEW p \in Procs, NEW step \in Places, NEW i \in Nat,
         Handle(p, i, step)
  PROVE  /\ Others(p) /\ proc'[p].pc = step /\ proc'[p].try = proc[p].try
         /\ proc'[p].touch = proc[p].touch /\ proc'[p].seen = proc[p].seen
         /\ proc'[p].incident = i
<1>1. PICK l : l = [proc[p] EXCEPT !.pc = step, !.incident = i]
  OBVIOUS
<1>2. /\ l \in Local /\ l.pc = step /\ l.try = proc[p].try
      /\ l.touch = proc[p].touch /\ l.seen = proc[p].seen /\ l.incident = i
  BY <1>1 DEF TypeOK, Local, Places
<1>3. proc' = [proc EXCEPT ![p] = l]
  BY <1>1 DEF Handle
<1> QED BY <1>2, <1>3, Moves DEF Others

LEMMA BeginLands ==
  ASSUME TypeOK, NEW p \in Procs, NEW t \in Tries, NEW message \in BOOLEAN,
         NEW step \in Places, Begin(p, t, message, step)
  PROVE  /\ Others(p) /\ proc'[p].pc = step /\ proc'[p].try = t
         /\ ~proc'[p].touch
<1>1. PICK l : l = [Idle EXCEPT !.pc = step, !.try = t, !.message = message]
  OBVIOUS
<1>2. l \in Local /\ l.pc = step /\ l.try = t /\ ~l.touch
  BY <1>1, IdleLocal DEF Local, Places
<1>3. proc' = [proc EXCEPT ![p] = l]
  BY <1>1 DEF Begin
<1> QED BY <1>2, <1>3, Moves DEF Others

LEMMA ReturnLands ==
  ASSUME TypeOK, NEW p \in Procs, Return(p) \/ Become(p, Idle)
  PROVE  Others(p) /\ proc'[p].pc \in {"idle", "ack"}
<1>1. CASE Return(p)
  BY <1>1, ReturnGives, Moves DEF Others
<1>2. CASE Become(p, Idle)
  BY <1>2, IdleLocal, Moves DEF Others
<1> QED BY <1>1, <1>2

LEMMA ResumeLands ==
  ASSUME Inv, NEW p \in Procs, Resume(p)
  PROVE  /\ Others(p) /\ proc'[p].try = proc[p].try
         /\ proc'[p].touch = proc[p].touch
         /\ proc'[p].seen = monitor.lastCheckAt
         /\ \/ proc'[p].pc = "complete" /\ monitor.deleted
            \/ proc'[p].pc = "retry"
            \/ proc'[p].pc = "close"
<1>1. PICK step, l :
        /\ proc' = [proc EXCEPT ![p] = l]
        /\ l = [proc[p] EXCEPT !.seen = monitor.lastCheckAt, !.pc = step]
        /\ \/ step = "complete" /\ monitor.deleted
           \/ step = "retry"
           \/ step = "close"
  <2> DEFINE step == CASE monitor.deleted       -> "complete"
                       [] Again(proc[p].try)    -> "retry"
                       [] OTHER                 -> "close"
  <2>1. \/ step = "complete" /\ monitor.deleted
        \/ step = "retry"
        \/ step = "close"
    OBVIOUS
  <2>2. proc' = [proc EXCEPT ![p] = [proc[p] EXCEPT !.seen = monitor.lastCheckAt,
                                                    !.pc = step]]
    BY DEF Resume, Again
  <2> HIDE DEF step
  <2> QED BY <2>1, <2>2
<1>2. /\ l \in Local /\ l.pc = step /\ l.try = proc[p].try
      /\ l.touch = proc[p].touch /\ l.seen = monitor.lastCheckAt
  BY <1>1, Here, Numbers DEF Inv, Local
<1> QED BY <1>1, <1>2, Moves DEF Inv, Others

LEMMA DeliverLands ==
  ASSUME TypeOK, NEW p \in Procs, NEW t \in Tries, Deliver(p, t)
  PROVE  Others(p) /\ proc'[p].pc \in {"ack", "findJob", "claim"}
<1> DEFINE step == CASE monitor.deleted            -> "ack"
                     [] checks[t].result # "none"  -> "findJob"
                     [] monitor.cycle # Cycle(t)   -> "ack"
                     [] OTHER                      -> "claim"
<1>1. step \in {"ack", "findJob", "claim"} /\ step \in Places
  BY DEF Places
<1>2. Begin(p, t, TRUE, step)
  BY DEF Deliver
<1> HIDE DEF step
<1> QED BY <1>1, <1>2, BeginLands

(* A mutable request that has not been sent is the business of one          *)
(* invocation, which has claimed the try.                                  *)
SentInv ==
  mutable =>
    /\ \A t \in Tries : /\ requests[t] <= 1
                        /\ claims[t].state = "free" => requests[t] = 0
    /\ \A p \in Procs :
         /\ At(p, "request") => /\ requests[proc[p].try] = 0
                                /\ claims[proc[p].try].state # "free"
         /\ ~At(p, "release")
    /\ \A p, q \in Procs :
         At(p, "request") /\ At(q, "request") /\ proc[p].try = proc[q].try
           => p = q

LEMMA SentStays ==
  ASSUME Inv, SentInv, mutable' = mutable, requests' = requests,
         \A t \in Tries : claims'[t].state = "free" => claims[t].state = "free",
         \A q \in Procs : \/ proc'[q] = proc[q]
                          \/ proc'[q].pc \notin {"request", "release"}
  PROVE  SentInv'
<1>1. ASSUME mutable, NEW q \in Procs, proc'[q].pc \in {"request", "release"}
      PROVE  /\ proc'[q] = proc[q] /\ At(q, "request") /\ proc[q].try \in Tries
             /\ requests[proc[q].try] = 0 /\ claims[proc[q].try].state # "free"
  BY <1>1, Here DEF SentInv
<1> QED BY <1>1 DEF SentInv

(* Steps that send nothing and claim nothing.                              *)
LEMMA SentSteps ==
  ASSUME Inv, NEW p \in Procs,
         \/ ClaimRefused(p) \/ Persist(p) \/ FindJob(p) \/ Ack(p) \/ Resume(p)
         \/ Retry(p) \/ Close(p) \/ LookPass(p) \/ LookFail(p) \/ Resolve(p)
         \/ Open(p) \/ AppendFailure(p) \/ InsertEvent(p) \/ Dispatch(p)
         \/ CompleteJob(p) \/ Stop(p)
         \/ \E t \in Tries : Deliver(p, t) \/ CronResumes(p, t)
  PROVE  /\ Others(p) /\ proc'[p].pc \notin {"request", "release"}
         /\ requests' = requests /\ mutable' = mutable
         /\ \A t \in Tries :
              claims'[t].state = "free" => claims[t].state = "free"
<1>1. TypeOK
  BY DEF Inv
<1>2. CASE \/ ClaimRefused(p) \/ FindJob(p) \/ Ack(p) \/ Retry(p)
           \/ CompleteJob(p)
  <2>1. Return(p) \/ Become(p, Idle) \/ \E step \in {"findJob", "resume"} :
                                          Goto(p, step)
    BY <1>2 DEF ClaimRefused, FindJob, Ack, Retry, CompleteJob
  <2>2. Others(p) /\ proc'[p].pc \notin {"request", "release"}
    BY <1>1, <2>1, ReturnLands, GotoLands DEF Places
  <2> QED BY <1>2, <2>2 DEF ClaimRefused, FindJob, Ack, Retry, CompleteJob,
                            exec, surroundings
<1>3. CASE Persist(p)
  <2>1. proc[p].try \in Tries
    BY <1>3, Here DEF Persist
  <2>2. PICK step \in {"resume", "findJob"} : Begin(p, proc[p].try, TRUE, step)
    BY <1>3 DEF Persist
  <2>3. Others(p) /\ proc'[p].pc = step
    <3>1. step \in Places /\ TRUE \in BOOLEAN
      BY DEF Places
    <3> QED BY <1>1, <2>1, <2>2, <3>1, BeginLands
  <2>4. \/ claims' = claims
        \/ claims' = [claims EXCEPT ![proc[p].try] =
                        [state |-> "completed", owner |-> Nobody]]
    BY <1>3 DEF Persist
  <2>5. \A t \in Tries : claims'[t].state = "free" => claims[t].state = "free"
    BY <1>1, <2>1, <2>4 DEF TypeOK
  <2>6. requests' = requests /\ mutable' = mutable
    BY <1>3 DEF Persist, surroundings
  <2> QED BY <2>3, <2>5, <2>6
<1>4. CASE \/ LookPass(p) \/ LookFail(p) \/ Resolve(p) \/ Open(p)
           \/ AppendFailure(p) \/ InsertEvent(p) \/ Dispatch(p)
  <2>1. Len(incidents) + 1 \in Nat /\ \A i \in DOMAIN incidents : i \in Nat
    BY <1>1, Numbers
  <2>2. \E step \in Places \ {"request", "release"} :
          Goto(p, step) \/ \E i \in Nat : Handle(p, i, step)
    BY <1>4, <2>1 DEF LookPass, LookFail, Resolve, Open, AppendFailure,
                      InsertEvent, Dispatch, Places, OpenOnes
  <2>3. Others(p) /\ proc'[p].pc \notin {"request", "release"}
    BY <1>1, <2>2, GotoLands, HandleLands
  <2> QED BY <1>4, <2>3
          DEF LookPass, LookFail, Resolve, Open, AppendFailure, InsertEvent,
              Dispatch, exec, surroundings
<1>5. CASE Resume(p)
  BY <1>5, ResumeLands DEF Resume, exec, surroundings
<1>6. CASE Close(p)
  <2>1. PICK l \in Local : proc' = [proc EXCEPT ![p] = l] /\ l.pc = "look"
    BY <1>6, CloseGives
  <2> QED BY <1>1, <1>6, <2>1, Moves DEF Close, exec, surroundings, Others
<1>7. CASE Stop(p)
  BY <1>1, <1>7, ReturnLands, ForgetGives DEF Stop, surroundings
<1>8. ASSUME NEW t \in Tries, Deliver(p, t)
      PROVE  /\ Others(p) /\ proc'[p].pc \notin {"request", "release"}
             /\ requests' = requests /\ mutable' = mutable /\ claims' = claims
  BY <1>1, <1>8, DeliverLands DEF Deliver, exec, surroundings
<1>9. ASSUME NEW t \in Tries, CronResumes(p, t)
      PROVE  /\ Others(p) /\ proc'[p].pc \notin {"request", "release"}
             /\ requests' = requests /\ mutable' = mutable /\ claims' = claims
  BY <1>1, <1>9, BeginLands DEF CronResumes, exec, surroundings, Places
<1> QED BY <1>2, <1>3, <1>4, <1>5, <1>6, <1>7, <1>8, <1>9

LEMMA SentClaim ==
  ASSUME Inv, SentInv, NEW p \in Procs, Claim(p) PROVE SentInv'
<1>1. PICK t : t = proc[p].try
  OBVIOUS
<1>2. /\ t \in Tries /\ mutable' = mutable /\ requests' = requests
      /\ claims' = [claims EXCEPT ![t] = [state |-> "held", owner |-> p]]
      /\ claims[t].state \in {"free", "stale"} /\ proc[p] \in Local
  BY <1>1, Here DEF Claim, surroundings
<1>3. /\ claims'[t].state = "held"
      /\ \A u \in Tries \ {t} : claims'[u] = claims[u]
  BY <1>2 DEF Inv, TypeOK
<1>4. PICK l, step, outcome :
        /\ proc' = [proc EXCEPT ![p] = l]
        /\ l = [proc[p] EXCEPT !.pc = step, !.outcome = outcome]
        /\ outcome \in {"AMBIGUOUS", "none"}
        /\ \/ step = "persist"
           \/ step = "request" /\ (mutable => claims[t].state = "free")
  <2> DEFINE again == claims[t].state = "stale" /\ mutable
             step == IF again THEN "persist" ELSE "request"
             outcome == IF again THEN "AMBIGUOUS" ELSE "none"
  <2>1. Become(p, [proc[p] EXCEPT !.pc = step, !.outcome = outcome])
    BY <1>1 DEF Claim
  <2>2. /\ outcome \in {"AMBIGUOUS", "none"}
        /\ \/ step = "persist"
           \/ step = "request" /\ (mutable => claims[t].state = "free")
    BY <1>2
  <2> HIDE DEF step, outcome
  <2> QED BY <2>1, <2>2
<1>5. l \in Local /\ l.pc = step /\ l.try = t
  BY <1>1, <1>2, <1>4 DEF Local, Outcome
<1>6. proc'[p] = l /\ Others(p)
  BY <1>4, <1>5, Moves DEF Inv, Others
<1>7. CASE step = "persist" \/ ~mutable
  <2>1. CASE ~mutable
    BY <1>2, <2>1 DEF SentInv
  <2>2. CASE step = "persist"
    <3>1. \A q \in Procs : \/ proc'[q] = proc[q]
                           \/ proc'[q].pc \notin {"request", "release"}
      BY <1>5, <1>6, <2>2 DEF Others
    <3> QED BY <1>2, <1>3, <3>1, SentStays
  <2> QED BY <1>7, <2>1, <2>2
<1>8. CASE step = "request" /\ mutable
  <2>1. claims[t].state = "free" /\ requests[t] = 0
    BY <1>2, <1>4, <1>8 DEF SentInv
  <2>2. \A q \in Procs : At(q, "request") => proc[q].try # t
    BY <1>8, <2>1 DEF SentInv
  <2>3. \A q \in Procs \ {p} : At(q, "request") => proc[q].try \in Tries
    BY Here
  <2> QED BY <1>2, <1>3, <1>5, <1>6, <1>8, <2>1, <2>2, <2>3 DEF SentInv, Others
<1> QED BY <1>4, <1>7, <1>8

LEMMA SentRequest ==
  ASSUME Inv, SentInv, NEW p \in Procs, Request(p) PROVE SentInv'
<1>1. PICK t : t = proc[p].try
  OBVIOUS
<1>2. /\ t \in Tries /\ mutable' = mutable /\ claims' = claims
      /\ requests' = [requests EXCEPT ![t] = @ + 1] /\ At(p, "request")
  BY <1>1, Here DEF Request, surroundings
<1>3. PICK outcome, l :
        /\ outcome \in Outcome
        /\ proc' = [proc EXCEPT ![p] = l]
        /\ l = [proc[p] EXCEPT !.pc = "persist", !.outcome = outcome]
  BY DEF Request
<1>4. l \in Local /\ l.pc = "persist"
  BY <1>3, Here DEF Local
<1>5. proc'[p] = l /\ Others(p)
  BY <1>3, <1>4, Moves DEF Inv, Others
<1>6. ASSUME mutable
      PROVE  /\ requests'[t] = 1
             /\ \A u \in Tries \ {t} : requests'[u] = requests[u]
             /\ \A q \in Procs \ {p} : At(q, "request") =>
                  proc[q].try \in Tries /\ proc[q].try # t
             /\ claims[t].state # "free"
  BY <1>1, <1>2, <1>6, Here DEF SentInv, Inv, TypeOK
<1> QED BY <1>2, <1>4, <1>5, <1>6 DEF SentInv, Others

LEMMA SentNext == Inv /\ SentInv /\ [Next]_vars => SentInv'
<1> SUFFICES ASSUME Inv, SentInv, [Next]_vars PROVE SentInv'
  OBVIOUS
<1>1. CASE UNCHANGED vars
  BY <1>1 DEF vars, SentInv
<1>2. ASSUME NEW p \in Procs,
             /\ Others(p) /\ proc'[p].pc \notin {"request", "release"}
             /\ requests' = requests /\ mutable' = mutable
             /\ \A t \in Tries :
                  claims'[t].state = "free" => claims[t].state = "free"
      PROVE  SentInv'
  BY <1>2, SentStays DEF Others
<1>3. ASSUME NEW p \in Procs, Throw(p) \/ Release(p) PROVE SentInv'
  <2>1. ~mutable /\ mutable' = mutable
    BY <1>3 DEF Throw, Release, SentInv, surroundings
  <2> QED BY <2>1 DEF SentInv
<1>4. ASSUME NEW p \in Procs, Step(p) PROVE SentInv'
  BY <1>2, <1>3, <1>4, SentSteps, SentClaim, SentRequest DEF Step
<1>5. ASSUME NEW p \in Procs, Stop(p) PROVE SentInv'
  BY <1>2, <1>5, SentSteps
<1>6. ASSUME NEW p \in Procs, NEW t \in Tries, Deliver(p, t) \/ CronResumes(p, t)
      PROVE  SentInv'
  BY <1>2, <1>6, SentSteps
<1>7. ASSUME NEW t \in Tries, LeaseEnds(t) PROVE SentInv'
  <2>1. /\ claims' = [claims EXCEPT ![t].state = "stale"]
        /\ requests' = requests /\ mutable' = mutable /\ proc' = proc
    BY <1>7 DEF LeaseEnds, surroundings
  <2>2. \A u \in Tries : claims'[u].state = "free" => claims[u].state = "free"
    BY <2>1 DEF Inv, TypeOK, ClaimRow
  <2> QED BY <2>1, <2>2, SentStays
<1>8. CASE OpenCycle \/ ClearCycle \/ Delete \/ DeletionResolves
  <2>1. /\ claims' = claims /\ requests' = requests /\ mutable' = mutable
        /\ proc' = proc
    BY <1>8 DEF OpenCycle, ClearCycle, Delete, DeletionResolves, exec,
                surroundings
  <2> QED BY <2>1, SentStays
<1> QED BY <1>1, <1>3, <1>4, <1>5, <1>6, <1>7, <1>8 DEF Next

(* A request that changes its target is sent at most once for a try, for   *)
(* any number of overlapping deliveries, ended leases and evictions: an    *)
(* invocation that takes over a lease reports an ambiguous outcome instead *)
(* of sending, and a failed call does not give the claim up.               *)
THEOREM MutableRequestSentOnce == Spec => []MutableSentOnce
<1>1. Init => SentInv
  BY IdleLocal DEF Init, SentInv
<1>2. SentInv => MutableSentOnce
  BY DEF SentInv, MutableSentOnce
<1> QED BY <1>1, <1>2, Invariance, SentNext, PTL DEF Spec

-----------------------------------------------------------------------------
(* The status and the incident. *)

Latest(u) == checks[u].at = monitor.lastCheckAt

(* There is an open incident exactly when the check has failed.            *)
Agrees(u) == checks[u].result # "PASSED" <=> OpenOnes # {}

Unopposed == ~overlapped /\ ~monitor.deleted

Alone ==
  \A p, q \in Procs : proc[p].pc \in Moving /\ proc[q].pc \in Moving => p = q

Settled == {"append", "event", "dispatch", "complete"}

(* What the latest closer has done when its job is completed, when it has  *)
(* resolved an incident and when it has opened one.                        *)
Settles(u) ==
  Latest(u) =>
    /\ checks[u].job # "PENDING" => Agrees(u)
    /\ \A i \in DOMAIN incidents :
         /\ checks[u].result = "PASSED" /\ incidents[i].resolvedBy = u
              => OpenOnes = {}
         /\ incidents[i].openedBy = u => incidents[i].open

(* The continuation may touch the incident exactly when its check is the   *)
(* latest closer, and moves it to where it belongs.                        *)
Fits(l) ==
  /\ l.pc = "close" => l.seen = monitor.lastCheckAt
  /\ l.pc \in Closing => (l.touch <=> Latest(l.try))
  /\ l.pc = "resolve" => l.incident \in OpenOnes
  /\ l.pc \in Settled /\ l.touch => Agrees(l.try)

AgreeInv ==
  Unopposed =>
    /\ Alone
    /\ \A i, j \in OpenOnes : i = j
    /\ \A u \in closers : Settles(u)
    /\ \A p \in Procs : Fits(proc[p])

LEMMA AgreeStays ==
  ASSUME Inv, AgreeInv, Unopposed' => Unopposed /\ Alone',
         monitor'.lastCheckAt = monitor.lastCheckAt,
         incidents' = incidents, closers' = closers,
         \A t \in Tries : Done(t) => /\ checks'[t].result = checks[t].result
                                     /\ checks'[t].at = checks[t].at,
         \A u \in closers : Unopposed /\ Latest(u) /\ checks'[u].job # "PENDING"
                              => checks[u].job # "PENDING" \/ Agrees(u),
         \A q \in Procs :
           \/ proc'[q] = proc[q]
           \/ proc'[q].pc \notin Moving
           \/ Done(proc[q].try) /\ proc[q].try = proc'[q].try
              /\ proc[q].try \in Tries /\ (Unopposed' => Fits(proc'[q]))
  PROVE  AgreeInv'
<1> SUFFICES ASSUME Unopposed' PROVE AgreeInv'
  BY DEF AgreeInv
<1>1. /\ Unopposed /\ Alone' /\ \A i, j \in OpenOnes : i = j
      /\ \A u \in closers : Settles(u)
      /\ \A p \in Procs : Fits(proc[p])
  BY DEF AgreeInv
<1>2. OpenOnes' = OpenOnes
  BY DEF OpenOnes
<1>3. ASSUME NEW u \in closers PROVE Settles(u)'
  <2>1. u \in Tries /\ Done(u)
    BY DEF Inv, TypeOK, ChecksInv, Closer
  <2>2. /\ checks'[u].result = checks[u].result /\ (Latest(u)' <=> Latest(u))
        /\ Agrees(u)' <=> Agrees(u)
    BY <1>2, <2>1 DEF Latest, Agrees
  <2> QED BY <1>1, <1>2, <2>2 DEF Settles
<1>4. ASSUME NEW t \in Tries, Done(t)
      PROVE  (Latest(t)' <=> Latest(t)) /\ (Agrees(t)' <=> Agrees(t))
  BY <1>2, <1>4 DEF Latest, Agrees
<1>5. ASSUME NEW q \in Procs PROVE Fits(proc[q])'
  <2>1. CASE proc'[q].pc \notin Moving
    BY <2>1 DEF Fits, Moving, Closing, Settled
  <2>2. CASE proc'[q].pc \in Moving
    <3>1. CASE proc'[q] = proc[q]
      <4>1. Placed(proc[q]) /\ proc[q].pc \in Resumed /\ proc[q].pc # "idle"
        BY <2>2, <3>1, Here DEF Resumed, Moving
      <4> QED BY <1>1, <1>2, <1>4, <3>1, <4>1 DEF Placed, Fits
    <3>2. CASE proc'[q] # proc[q]
      BY <1>2, <1>4, <2>2, <3>2 DEF Fits
    <3> QED BY <3>1, <3>2
  <2> QED BY <2>1, <2>2
<1> QED BY <1>1, <1>2, <1>3, <1>5 DEF AgreeInv

LEMMA AloneStays ==
  ASSUME Alone, NEW p \in Procs, Others(p),
         proc'[p].pc \in Moving => proc[p].pc \in Moving
  PROVE  Alone'
BY DEF Alone, Others

(* Steps of an invocation that change neither what the monitor shows nor   *)
(* the incidents.                                                          *)
LEMMA AgreeWalks ==
  ASSUME Inv, AgreeInv, NEW p \in Procs, Others(p),
         UNCHANGED <<monitor, incidents, closers, overlapped>>,
         \A t \in Tries : Done(t) => /\ checks'[t].result = checks[t].result
                                     /\ checks'[t].at = checks[t].at,
         \A u \in closers : Unopposed /\ Latest(u) /\ checks'[u].job # "PENDING"
                              => checks[u].job # "PENDING" \/ Agrees(u),
         \/ proc'[p].pc \notin Moving
         \/ proc[p].pc \in Moving /\ proc'[p].try = proc[p].try
            /\ (Unopposed => Fits(proc'[p]))
  PROVE  AgreeInv'
<1>1. Unopposed' => Unopposed /\ Alone'
  BY AloneStays DEF Unopposed, AgreeInv
<1>2. proc[p].pc \in Moving => proc[p].try \in Tries /\ Done(proc[p].try)
  BY Here DEF Placed, Resumed, Moving
<1>3. \A q \in Procs :
        \/ proc'[q] = proc[q]
        \/ proc'[q].pc \notin Moving
        \/ Done(proc[q].try) /\ proc[q].try = proc'[q].try
           /\ proc[q].try \in Tries /\ (Unopposed' => Fits(proc'[q]))
  BY <1>1, <1>2 DEF Others
<1> QED BY <1>1, <1>3, AgreeStays

(* Steps that leave no continuation at the incident.                       *)
LEMMA AgreeLeaves ==
  ASSUME Inv, AgreeInv, NEW p \in Procs,
         \/ Claim(p) \/ ClaimRefused(p) \/ Request(p) \/ Persist(p)
         \/ Release(p) \/ FindJob(p) \/ Ack(p) \/ Throw(p) \/ Stop(p)
         \/ \E t \in Tries : Deliver(p, t) \/ CronResumes(p, t)
  PROVE  AgreeInv'
<1>1. TypeOK
  BY DEF Inv
<1>2. /\ UNCHANGED <<monitor, incidents, closers, overlapped>>
      /\ \A t \in Tries : Done(t) => checks'[t] = checks[t]
  <2>1. CASE Persist(p)
    <3>1. CASE /\ claims[proc[p].try].owner = p
               /\ claims[proc[p].try].state \in {"held", "stale"}
      BY <2>1, <3>1, PersistGives
    <3> QED BY <2>1, <3>1 DEF Persist, alerts, history
  <2> QED BY <2>1 DEF Claim, ClaimRefused, Request, Release, FindJob, Ack,
                      Throw, Stop, Deliver, CronResumes, exec, alerts, history
<1>3. ASSUME NEW step \in {"persist", "request"},
             NEW outcome \in Outcome \cup {"none"},
             Become(p, [proc[p] EXCEPT !.pc = step, !.outcome = outcome])
      PROVE  Others(p) /\ proc'[p].pc = step
  <2>1. PICK l : l = [proc[p] EXCEPT !.pc = step, !.outcome = outcome]
    OBVIOUS
  <2>2. l \in Local /\ l.pc = step
    BY <2>1, Here DEF Local
  <2>3. proc' = [proc EXCEPT ![p] = l]
    BY <1>3, <2>1
  <2> QED BY <1>1, <2>2, <2>3, Moves DEF Others
<1>4. Others(p) /\ proc'[p].pc \notin Moving
  <2>1. CASE Claim(p)
    <3> DEFINE again == claims[proc[p].try].state = "stale" /\ mutable
               step == IF again THEN "persist" ELSE "request"
               outcome == IF again THEN "AMBIGUOUS" ELSE "none"
    <3>1. Become(p, [proc[p] EXCEPT !.pc = step, !.outcome = outcome])
      BY <2>1 DEF Claim
    <3>2. step \in {"persist", "request"} /\ outcome \in Outcome \cup {"none"}
      BY DEF Outcome
    <3> HIDE DEF step, outcome
    <3>3. Others(p) /\ proc'[p].pc = step
      BY <1>3, <3>1, <3>2
    <3> QED BY <3>2, <3>3 DEF Moving
  <2>2. CASE Request(p)
    <3>1. PICK outcome \in Outcome :
            Become(p, [proc[p] EXCEPT !.pc = "persist", !.outcome = outcome])
      BY <2>2 DEF Request
    <3>2. outcome \in Outcome \cup {"none"} /\ "persist" \in {"persist", "request"}
      OBVIOUS
    <3> QED BY <1>3, <3>1, <3>2 DEF Moving
  <2>3. CASE Persist(p)
    <3>1. proc[p].try \in Tries
      BY <2>3, Here DEF Persist
    <3>2. PICK step \in {"resume", "findJob"} :
            Begin(p, proc[p].try, TRUE, step)
      BY <2>3 DEF Persist
    <3>3. step \in Places /\ TRUE \in BOOLEAN
      BY DEF Places
    <3>4. Others(p) /\ proc'[p].pc = step
      BY <1>1, <3>1, <3>2, <3>3, BeginLands
    <3> QED BY <3>4 DEF Moving
  <2>4. CASE ClaimRefused(p) \/ FindJob(p) \/ Ack(p) \/ Release(p) \/ Throw(p)
             \/ Stop(p)
    <3>1. \/ Return(p) \/ Become(p, Idle)
          \/ \E step \in {"findJob", "resume", "release"} : Goto(p, step)
      BY <2>4 DEF ClaimRefused, FindJob, Ack, Release, Throw, Stop
    <3> QED BY <1>1, <3>1, ReturnLands, GotoLands DEF Places, Moving
  <2>5. ASSUME NEW t \in Tries, Deliver(p, t)
        PROVE  Others(p) /\ proc'[p].pc \notin Moving
    BY <1>1, <2>5, DeliverLands DEF Moving
  <2>6. ASSUME NEW t \in Tries, CronResumes(p, t)
        PROVE  Others(p) /\ proc'[p].pc \notin Moving
    BY <1>1, <2>6, BeginLands DEF CronResumes, Places, Moving
  <2> QED BY <2>1, <2>2, <2>3, <2>4, <2>5, <2>6
<1>5. \A u \in closers : u \in Tries /\ Done(u)
  BY DEF Inv, TypeOK, ChecksInv, Closer
<1> QED BY <1>2, <1>4, <1>5, AgreeWalks

(* The continuation reads the monitor; another one under way is recorded.  *)
LEMMA AgreeResume ==
  ASSUME Inv, AgreeInv, NEW p \in Procs, Resume(p) PROVE AgreeInv'
<1>1. /\ At(p, "resume") /\ proc[p].try \in Tries /\ Done(proc[p].try)
      /\ UNCHANGED <<monitor, incidents, closers, checks>>
      /\ overlapped' = (overlapped \/ \E q \in Procs \ {p} : proc[q].pc \in Moving)
  BY Here DEF Resume, Placed, Resumed, exec, alerts
<1>2. /\ Others(p) /\ proc'[p].try = proc[p].try
      /\ proc'[p].seen = monitor.lastCheckAt
      /\ \/ proc'[p].pc = "complete" /\ monitor.deleted
         \/ proc'[p].pc = "retry"
         \/ proc'[p].pc = "close"
  BY ResumeLands
<1>3. ASSUME Unopposed' PROVE Unopposed /\ Alone'
  <2>1. Unopposed /\ \A q \in Procs \ {p} : proc[q].pc \notin Moving
    BY <1>1, <1>3 DEF Unopposed
  <2> QED BY <1>2, <2>1 DEF Alone, Others
<1>4. Unopposed' /\ proc'[p].pc \in Moving => Fits(proc'[p])
  BY <1>1, <1>2 DEF Fits, Moving, Closing, Settled, Unopposed
<1>5. \A q \in Procs :
        \/ proc'[q] = proc[q]
        \/ proc'[q].pc \notin Moving
        \/ Done(proc[q].try) /\ proc[q].try = proc'[q].try
           /\ proc[q].try \in Tries /\ (Unopposed' => Fits(proc'[q]))
  BY <1>1, <1>2, <1>4 DEF Others
<1> QED BY <1>1, <1>3, <1>5, AgreeStays

(* The end of a job: that of the latest closer has moved the incident.     *)
LEMMA AgreeJobEnds ==
  ASSUME Inv, AgreeInv, NEW p \in Procs, Retry(p) \/ CompleteJob(p)
  PROVE  AgreeInv'
<1>1. PICK t : t = proc[p].try
  OBVIOUS
<1>2. /\ t \in Tries /\ checks' = [checks EXCEPT ![t].job = "COMPLETED"]
      /\ Return(p) /\ UNCHANGED <<monitor, incidents, closers, overlapped>>
  BY <1>1, Here DEF Retry, CompleteJob, alerts, history
<1>3. \A u \in Tries : /\ checks'[u].result = checks[u].result
                       /\ checks'[u].at = checks[u].at
                       /\ u # t => checks'[u].job = checks[u].job
  BY <1>2 DEF Inv, TypeOK, Check
<1>4. Others(p) /\ proc'[p].pc \notin Moving
  BY <1>2, ReturnLands DEF Inv, Moving
<1>5. ASSUME Unopposed, t \in closers, Latest(t) PROVE Agrees(t)
  <2>1. At(p, "complete")
    BY <1>1, <1>5, Here DEF Retry, CompleteJob, Placed, Inv, ChecksInv, Closer
  <2> QED BY <1>1, <1>5, <2>1 DEF AgreeInv, Fits, Closing, Moving, Settled
<1>6. closers \subseteq Tries
  BY DEF Inv, TypeOK
<1> QED BY <1>2, <1>3, <1>4, <1>5, <1>6, AgreeWalks

LEMMA AgreeClose ==
  ASSUME Inv, AgreeInv, NEW p \in Procs, Close(p) PROVE AgreeInv'
<1>1. PICK t : t = proc[p].try
  OBVIOUS
<1>2. /\ At(p, "close") /\ t \in Tries /\ Done(t) /\ ~Again(t)
      /\ proc[p].seen \in Nat /\ proc[p].seen <= monitor.lastCheckAt
      /\ UNCHANGED <<incidents, checks, overlapped>>
  BY <1>1, CloseGives DEF Close
<1>3. /\ Others(p) /\ proc'[p].pc = "look" /\ proc'[p].try = t
      /\ proc'[p].touch <=> MayTouch(p, t)
  BY <1>1, CloseGives, Moves DEF Inv, Others
<1>4. CASE ~CanClose(t)
  <2>1. UNCHANGED <<monitor, closers>>
    BY <1>1, <1>4 DEF Close
  <2>2. checks[t].at \in Nat
    BY <1>2, Numbers DEF Inv
  <2>3. Unopposed => (proc'[p].touch <=> Latest(t))
    BY <1>2, <1>3, <1>4, <2>2 DEF MayTouch, AgreeInv, Fits, Latest
  <2>4. Unopposed => Fits(proc'[p])
    BY <1>3, <2>3 DEF Fits, Settled
  <2>5. proc[p].pc \in Moving
    BY <1>2 DEF Moving
  <2> QED BY <1>1, <1>2, <1>3, <2>1, <2>4, <2>5, AgreeWalks
<1>5. CASE CanClose(t)
  <2> SUFFICES ASSUME Unopposed' PROVE AgreeInv'
    BY DEF AgreeInv
  <2>1. /\ monitor'.lastCheckAt = checks[t].at /\ closers' = closers \cup {t}
        /\ monitor'.deleted = monitor.deleted
    BY <1>1, <1>5, Numbers DEF Close, Monitor, Inv
  <2>2. /\ t \notin closers /\ checks[t].at > monitor.lastCheckAt
        /\ checks[t].at \in Nat /\ monitor.lastCheckAt \in Nat
        /\ \A u \in closers : checks[u].at \in Nat /\ checks[t].at > checks[u].at
    BY <1>2, <1>5, ClosesNewer, Numbers DEF Inv
  <2>3. /\ Unopposed /\ Alone /\ \A i, j \in OpenOnes : i = j
        /\ Fits(proc[p])
    BY <1>2, <2>1 DEF AgreeInv, Unopposed
  <2>4. OpenOnes' = OpenOnes /\ Alone'
    BY <1>2, <1>3, <2>3, AloneStays DEF OpenOnes, Moving
  <2>5. \A q \in Procs \ {p} : proc'[q].pc \notin Moving
    BY <1>2, <1>3, <2>3 DEF Alone, Others, Moving
  <2>6. Fits(proc[p])'
    <3>1. MayTouch(p, t)
      BY <1>2, <1>5, <2>2, <2>3 DEF MayTouch, Fits
    <3>2. Latest(t)'
      BY <1>2, <2>1 DEF Latest
    <3>3. proc'[p].touch <=> Latest(proc[p].try)'
      BY <1>3, <3>1, <3>2
    <3> QED BY <1>3, <3>3 DEF Fits, Settled
  <2>7. ASSUME NEW u \in closers', Latest(u)'
        PROVE  Settles(u)'
    <3>1. u = t
      BY <1>2, <2>1, <2>2, <2>7 DEF Latest
    <3>2. checks[t].job = "PENDING"
      BY <1>2, <1>5, Numbers
         DEF Inv, ChecksInv, Persisted, CanClose, Check
    <3>3. \A i \in DOMAIN incidents :
            incidents[i].openedBy # t /\ incidents[i].resolvedBy # t
      BY <1>2, <2>2, Old, TryParts
    <3> QED BY <1>2, <3>1, <3>2, <3>3 DEF Settles
  <2>8. \A u \in closers' : Settles(u)'
    BY <2>7 DEF Settles
  <2>9. \A q \in Procs : Fits(proc[q])'
    BY <2>5, <2>6 DEF Fits, Moving, Closing, Settled
  <2> QED BY <2>3, <2>4, <2>8, <2>9 DEF AgreeInv
<1> QED BY <1>4, <1>5

LEMMA AgreeLook ==
  ASSUME Inv, AgreeInv, NEW p \in Procs, LookPass(p) \/ LookFail(p)
  PROVE  AgreeInv'
<1>1. PICK t : t = proc[p].try
  OBVIOUS
<1>2. /\ At(p, "look") /\ t \in Tries /\ Done(t)
      /\ proc[p].touch => t \in closers
      /\ UNCHANGED <<monitor, incidents, closers, overlapped, checks>>
  BY <1>1, Here DEF LookPass, LookFail, Placed, Resumed, Moving, exec, alerts,
                    history
<1>3. \A i \in DOMAIN incidents : i \in Nat
  BY Numbers DEF Inv
<1>4. Unopposed => /\ \A u \in closers : Settles(u)
                   /\ proc[p].touch <=> Latest(t)
  BY <1>1, <1>2 DEF AgreeInv, Fits, Closing, Moving
<1>5. Unopposed /\ proc[p].touch => t \in closers /\ Latest(t) /\ Settles(t)
  BY <1>2, <1>4
<1>6. ASSUME NEW step \in {"event", "resolve", "append", "open", "complete"},
             Others(p), proc'[p].pc = step, proc'[p].try = t,
             proc'[p].touch = proc[p].touch,
             step = "resolve" => proc'[p].incident \in OpenOnes,
             Unopposed /\ proc[p].touch /\ step \in Settled => Agrees(t)
      PROVE  AgreeInv'
  <2>1. Unopposed => Fits(proc'[p])
    BY <1>4, <1>6 DEF Fits
  <2>2. proc[p].pc \in Moving
    BY <1>2 DEF Moving
  <2> QED BY <1>1, <1>2, <1>6, <2>1, <2>2, AgreeWalks
<1>7. ASSUME NEW step \in {"event", "resolve", "append", "open", "complete"},
             NEW i \in DOMAIN incidents, Handle(p, i, step),
             step = "resolve" => i \in OpenOnes,
             Unopposed /\ proc[p].touch /\ step \in Settled => Agrees(t)
      PROVE  AgreeInv'
  <2>1. step \in Places /\ i \in Nat /\ TypeOK
    BY <1>3, <1>7 DEF Places, Inv
  <2>2. /\ Others(p) /\ proc'[p].pc = step /\ proc'[p].try = proc[p].try
        /\ proc'[p].touch = proc[p].touch /\ proc'[p].incident = i
    BY <1>7, <2>1, HandleLands
  <2> QED BY <1>1, <1>6, <1>7, <2>2
<1>8. ASSUME NEW step \in {"open", "complete"}, Goto(p, step),
             Unopposed /\ proc[p].touch /\ step \in Settled => Agrees(t)
      PROVE  AgreeInv'
  <2>1. step \in Places /\ TypeOK
    BY <1>8 DEF Places, Inv
  <2>2. /\ Others(p) /\ proc'[p].pc = step /\ proc'[p].try = proc[p].try
        /\ proc'[p].touch = proc[p].touch
    BY <1>8, <2>1, GotoLands
  <2> QED BY <1>1, <1>6, <1>8, <2>2
<1>9. OpenOnes \subseteq DOMAIN incidents
  BY DEF OpenOnes
<1>10. CASE LookPass(p)
  <2>1. checks[t].result = "PASSED"
    BY <1>1, <1>10 DEF LookPass
  <2>2. CASE \E i \in DOMAIN incidents :
               incidents[i].resolvedBy = t /\ Handle(p, i, "event")
    <3>1. PICK i \in DOMAIN incidents :
            incidents[i].resolvedBy = t /\ Handle(p, i, "event")
      BY <2>2
    <3>2. Unopposed /\ proc[p].touch => Agrees(t)
      BY <1>5, <2>1, <3>1 DEF Settles, Agrees
    <3> QED BY <1>7, <3>1, <3>2
  <2>3. CASE \E i \in OpenOnes : Handle(p, i, "resolve")
    BY <1>7, <1>9, <2>3 DEF Settled
  <2>4. CASE Goto(p, "complete") /\ (proc[p].touch => OpenOnes = {})
    BY <1>8, <2>1, <2>4 DEF Agrees
  <2> QED BY <1>1, <1>10, <2>2, <2>3, <2>4 DEF LookPass
<1>11. CASE LookFail(p)
  <2>1. checks[t].result # "PASSED"
    BY <1>1, <1>11 DEF LookFail
  <2>2. CASE \E i \in DOMAIN incidents :
               incidents[i].openedBy = t /\ Handle(p, i, "event")
    <3>1. PICK i \in DOMAIN incidents :
            incidents[i].openedBy = t /\ Handle(p, i, "event")
      BY <2>2
    <3>2. Unopposed /\ proc[p].touch => i \in OpenOnes
      BY <1>5, <3>1 DEF Settles, OpenOnes
    <3>3. Unopposed /\ proc[p].touch => Agrees(t)
      BY <2>1, <3>2 DEF Agrees
    <3> QED BY <1>7, <3>1, <3>3
  <2>3. CASE \E i \in OpenOnes : Handle(p, i, "append")
    <3>1. OpenOnes # {}
      BY <2>3
    <3>2. Agrees(t)
      BY <2>1, <3>1 DEF Agrees
    <3> QED BY <1>7, <1>9, <2>3, <3>2
  <2>4. CASE Goto(p, "complete") /\ ~proc[p].touch
    BY <1>8, <2>4
  <2>5. CASE Goto(p, "open")
    BY <1>8, <2>5 DEF Settled
  <2> QED BY <1>1, <1>11, <2>2, <2>3, <2>4, <2>5 DEF LookFail
<1> QED BY <1>10, <1>11

LEMMA AgreeWrites ==
  ASSUME Inv, AgreeInv, NEW p \in Procs,
         AppendFailure(p) \/ InsertEvent(p) \/ Dispatch(p)
  PROVE  AgreeInv'
<1>1. /\ UNCHANGED <<monitor, incidents, closers, overlapped, checks>>
      /\ proc[p].pc \in Settled /\ proc[p].pc \in Moving /\ proc[p].pc \in Closing
  BY DEF AppendFailure, InsertEvent, Dispatch, exec, history, Settled, Moving,
         Closing
<1>2. PICK step \in {"complete", "dispatch"} : Goto(p, step)
  BY DEF AppendFailure, InsertEvent, Dispatch
<1>3. step \in Places /\ TypeOK
  BY DEF Places, Inv
<1>4. /\ Others(p) /\ proc'[p].pc = step /\ proc'[p].try = proc[p].try
      /\ proc'[p].touch = proc[p].touch
  BY <1>2, <1>3, GotoLands
<1>5. Unopposed => Fits(proc'[p])
  BY <1>1, <1>4 DEF AgreeInv, Fits
<1> QED BY <1>1, <1>4, <1>5, AgreeWalks

(* The latest closer moves the incident; nobody else is under way.         *)
LEMMA AgreeTouches ==
  ASSUME Inv, AgreeInv, NEW p \in Procs, Others(p),
         UNCHANGED <<monitor, closers, overlapped, checks>>,
         NEW t, t = proc[p].try, t \in closers,
         proc[p].pc \in {"resolve", "open"}, proc[p].touch,
         proc'[p].try = t, proc'[p].touch, proc'[p].pc = "event",
         Unopposed /\ Latest(t) =>
           /\ Agrees(t)'
           /\ \A i, j \in OpenOnes' : i = j
           /\ \A i \in DOMAIN incidents' :
                /\ checks[t].result = "PASSED" /\ incidents'[i].resolvedBy = t
                     => OpenOnes' = {}
                /\ incidents'[i].openedBy = t => incidents'[i].open
  PROVE  AgreeInv'
<1> SUFFICES ASSUME Unopposed' PROVE AgreeInv'
  BY DEF AgreeInv
<1>1. Unopposed /\ Alone /\ Fits(proc[p])
  BY DEF AgreeInv, Unopposed
<1>2. Latest(t)
  BY <1>1 DEF Fits, Closing, Moving
<1>3. Alone' /\ \A q \in Procs \ {p} : proc'[q].pc \notin Moving
  BY <1>1, AloneStays DEF Alone, Others, Moving
<1>4. Fits(proc[p])'
  BY <1>1, <1>2 DEF Fits, Latest
<1>5. \A q \in Procs : Fits(proc[q])'
  BY <1>3, <1>4 DEF Fits, Moving, Closing, Settled
<1>6. ASSUME NEW u \in closers, Latest(u) PROVE u = t
  <2>1. u \in Tries /\ t \in Tries /\ Done(u) /\ Done(t)
    BY DEF Inv, TypeOK, ChecksInv, Closer
  <2> QED BY <1>2, <1>6, <2>1 DEF Inv, ChecksInv, Distinct, Latest
<1>7. \A u \in closers : Settles(u)'
  BY <1>1, <1>2, <1>6 DEF Settles, Latest
<1> QED BY <1>1, <1>2, <1>3, <1>5, <1>7 DEF AgreeInv

LEMMA AgreeResolve ==
  ASSUME Inv, AgreeInv, NEW p \in Procs, Resolve(p) PROVE AgreeInv'
<1>1. PICK t, n : t = proc[p].try /\ n = proc[p].incident
  OBVIOUS
<1>2. /\ At(p, "resolve") /\ t \in closers /\ checks[t].result = "PASSED"
      /\ n \in DOMAIN incidents /\ proc[p].touch
      /\ DOMAIN incidents' = DOMAIN incidents
      /\ \A i \in DOMAIN incidents \ {n} : incidents'[i] = incidents[i]
      /\ \A i \in DOMAIN incidents :
           /\ incidents'[i].openedBy = incidents[i].openedBy
           /\ i = n => ~incidents'[i].open
      /\ UNCHANGED <<monitor, closers, overlapped, checks>>
  BY <1>1, ResolveGives DEF Resolve, exec, history
<1>3. /\ Others(p) /\ proc'[p].pc = "event" /\ proc'[p].try = t
      /\ proc'[p].touch
  BY <1>1, <1>2, GotoLands DEF Resolve, Inv, Places
<1>4. ASSUME Unopposed PROVE OpenOnes' = {}
  <2>1. n \in OpenOnes /\ \A i, j \in OpenOnes : i = j
    BY <1>1, <1>2, <1>4 DEF AgreeInv, Fits
  <2> QED BY <1>2, <2>1 DEF OpenOnes
<1>5. \A i \in DOMAIN incidents' : incidents'[i].openedBy # t
  BY <1>2, Old
<1>6. Unopposed => Agrees(t)'
  BY <1>2, <1>4 DEF Agrees
<1> QED BY <1>1, <1>2, <1>3, <1>4, <1>5, <1>6, AgreeTouches

LEMMA AgreeOpen ==
  ASSUME Inv, AgreeInv, NEW p \in Procs, Open(p) PROVE AgreeInv'
<1>1. PICK t : t = proc[p].try
  OBVIOUS
<1>2. /\ At(p, "open") /\ t \in closers /\ checks[t].result # "PASSED"
      /\ proc[p].touch /\ TypeOK /\ proc[p].pc \in Moving
      /\ UNCHANGED <<monitor, closers, overlapped, checks>>
  BY <1>1, OpenGives DEF Open, exec, history, Inv, Moving
<1>3. CASE /\ incidents' = incidents
           /\ \E i \in OpenOnes, step \in {"event", "append"} :
                Handle(p, i, step)
  <2>1. PICK i \in OpenOnes, step \in {"event", "append"} : Handle(p, i, step)
    BY <1>3
  <2>2. i \in Nat /\ step \in Places
    BY <1>2, Numbers DEF OpenOnes, Places
  <2>3. /\ Others(p) /\ proc'[p].pc = step /\ proc'[p].try = t
        /\ proc'[p].touch = proc[p].touch
    BY <1>1, <1>2, <2>1, <2>2, HandleLands
  <2>4. Agrees(t)
    BY <1>2, <2>1 DEF Agrees
  <2>5. Unopposed => (proc[p].touch <=> Latest(t))
    BY <1>1, <1>2 DEF AgreeInv, Fits, Closing, Moving
  <2>6. Unopposed => Fits(proc'[p])
    BY <2>3, <2>4, <2>5 DEF Fits
  <2> QED BY <1>1, <1>2, <1>3, <2>3, <2>6, AgreeWalks
<1>4. CASE \E i \in Nat :
             /\ OpenOnes = {} /\ i \notin DOMAIN incidents
             /\ DOMAIN incidents' = DOMAIN incidents \cup {i}
             /\ incidents'[i].openedBy = t /\ incidents'[i].open
             /\ incidents'[i].resolvedBy = None
             /\ \A j \in DOMAIN incidents : incidents'[j] = incidents[j]
             /\ Handle(p, i, "event")
  <2>1. PICK i \in Nat :
          /\ OpenOnes = {} /\ i \notin DOMAIN incidents
          /\ DOMAIN incidents' = DOMAIN incidents \cup {i}
          /\ incidents'[i].openedBy = t /\ incidents'[i].open
          /\ incidents'[i].resolvedBy = None
          /\ \A j \in DOMAIN incidents : incidents'[j] = incidents[j]
          /\ Handle(p, i, "event")
    BY <1>4
  <2>2. /\ Others(p) /\ proc'[p].pc = "event" /\ proc'[p].try = t
        /\ proc'[p].touch
    BY <1>1, <1>2, <2>1, HandleLands DEF Places
  <2>3. OpenOnes' = {i}
    BY <2>1 DEF OpenOnes
  <2>4. Agrees(t)'
    BY <1>2, <2>3 DEF Agrees
  <2>5. ASSUME Unopposed, Latest(t), NEW j \in DOMAIN incidents',
               incidents'[j].openedBy = t
        PROVE  incidents'[j].open
    <3>1. CASE j \in DOMAIN incidents
      BY <1>2, <2>1, <2>5, <3>1 DEF AgreeInv, Settles
    <3> QED BY <2>1, <3>1
  <2> QED BY <1>1, <1>2, <2>2, <2>3, <2>4, <2>5, AgreeTouches
<1> QED BY <1>1, <1>3, <1>4, OpenGives

LEMMA AgreeNext == Inv /\ AgreeInv /\ [Next]_vars => AgreeInv'
<1> SUFFICES ASSUME Inv, AgreeInv, [Next]_vars PROVE AgreeInv'
  OBVIOUS
<1>1. ASSUME UNCHANGED <<incidents, closers, overlapped, checks, proc>>,
             monitor'.lastCheckAt = monitor.lastCheckAt,
             monitor'.deleted = monitor.deleted
      PROVE  AgreeInv'
  <2>1. Unopposed' => Unopposed /\ Alone'
    BY <1>1 DEF Unopposed, AgreeInv, Alone
  <2> QED BY <1>1, <2>1, AgreeStays
<1>2. ASSUME NEW p \in Procs, Step(p) PROVE AgreeInv'
  BY <1>2, AgreeLeaves, AgreeResume, AgreeJobEnds, AgreeClose, AgreeLook,
     AgreeWrites, AgreeResolve, AgreeOpen DEF Step
<1>3. ASSUME NEW p \in Procs, Throw(p) \/ Stop(p) PROVE AgreeInv'
  BY <1>3, AgreeLeaves
<1>4. ASSUME NEW p \in Procs, NEW t \in Tries, Deliver(p, t) \/ CronResumes(p, t)
      PROVE  AgreeInv'
  BY <1>4, AgreeLeaves
<1>5. CASE (\E t \in Tries : LeaseEnds(t)) \/ UNCHANGED vars
  BY <1>1, <1>5 DEF LeaseEnds, alerts, history, vars
<1>6. CASE OpenCycle \/ ClearCycle
  <2>1. /\ monitor'.lastCheckAt = monitor.lastCheckAt
        /\ monitor'.deleted = monitor.deleted
    BY <1>6, Numbers DEF OpenCycle, ClearCycle, Monitor, Inv
  <2> QED BY <1>1, <1>6, <2>1 DEF OpenCycle, ClearCycle, exec, alerts, history
<1>7. CASE Delete \/ DeletionResolves
  <2>1. monitor'.deleted
    BY <1>7, Numbers
       DEF Delete, DeletionResolves, Monitor, Inv, ChecksInv, Cycled
  <2> QED BY <2>1 DEF AgreeInv, Unopposed
<1> QED BY <1>2, <1>3, <1>4, <1>5, <1>6, <1>7 DEF Next

LEMMA AgreeInit == Init => AgreeInv
<1> SUFFICES ASSUME Init PROVE AgreeInv
  OBVIOUS
<1>1. OpenOnes = {} /\ closers = {}
  BY DEF Init, OpenOnes
<1>2. \A p \in Procs : proc[p].pc = "idle"
  BY IdleLocal DEF Init
<1> QED BY <1>1, <1>2 DEF AgreeInv, Alone, Fits, Moving, Closing, Settled

LEMMA AgreeMatches == Inv /\ AgreeInv => StatusMatchesIncident
<1> SUFFICES ASSUME Inv, AgreeInv, Quiet, ~overlapped, ~monitor.deleted
             PROVE  monitor.status = "DOWN" <=> OpenOnes # {}
  BY DEF StatusMatchesIncident
<1>1. CASE closers = {} /\ monitor.status = "UNKNOWN"
  BY <1>1, Old DEF OpenOnes
<1>2. CASE \E u \in closers : /\ monitor.lastCheckAt = checks[u].at
                              /\ monitor.status = Shown(u)
  <2>1. PICK u \in closers : /\ monitor.lastCheckAt = checks[u].at
                             /\ monitor.status = Shown(u)
    BY <1>2
  <2>2. checks[u].job # "PENDING"
    BY DEF Quiet, Inv, TypeOK
  <2>3. Agrees(u)
    BY <2>1, <2>2 DEF AgreeInv, Unopposed, Settles, Latest
  <2> QED BY <2>1, <2>3 DEF Agrees, Shown
<1> QED BY <1>1, <1>2 DEF Inv, ChecksInv, ShowsLatest

(* Once the jobs are done, a monitor that is not deleted is DOWN exactly   *)
(* when it has an open incident, unless two continuations have run side by *)
(* side: the check that closed last has been settled, whatever evictions,  *)
(* repeated runs, late results and cleared cycles came in between.         *)
THEOREM IncidentFollowsStatus == Spec => []StatusMatchesIncident
<1> QED BY AgreeInit, AgreeNext, AgreeMatches, Invariance, PTL DEF Spec

=============================================================================
