----------------------- MODULE AttemptContractProofs -----------------------
(* AttemptLifecycle implements RunContract: every step of an invocation is *)
(* a step of the sequential run, or leaves what RunContract sees alone.    *)
EXTENDS AttemptOutcomeProofs, AttemptRefinement

-----------------------------------------------------------------------------
(* How the steps move an attempt.                                          *)

LEMMA RecordMoves ==
  ASSUME Inv, NEW i \in Index, NEW key, NEW status \in Final,
         NEW cancelled \in BOOLEAN,
         RecordCompletion(i, key, status, cancelled)
  PROVE  \A j \in Index : Moves(j)
<1>1. attempt \in [Index -> Fields]
  BY DEF Inv, TypeOK, Fields
<1>2. CASE UNCHANGED attempt
  BY <1>2 DEF Moves
<1>3. CASE /\ attempt[i].status \in Open
           /\ attempt' = [attempt EXCEPT ![i].status = status,
                                         ![i].cancelled = cancelled]
  <2>1. /\ attempt'[i].status = status
        /\ attempt'[i].gen = attempt[i].gen /\ attempt'[i].owner = attempt[i].owner
        /\ \A j \in Index \ {i} : attempt'[j] = attempt[j]
    BY <1>1, <1>3 DEF Fields
  <2> QED
    BY <1>3, <2>1 DEF Moves, Open, Final, Verdicts, Functional
<1> QED
  BY <1>2, <1>3 DEF RecordCompletion

LEMMA WriteMoves ==
  ASSUME Inv, NEW p \in Procs,
         \/ ClaimCas(p) \/ StartRun(p)
         \/ FinishRecord(p) \/ CancelRecord(p)
         \/ ApplyRetry(p) \/ ApplyInfra(p)
  PROVE  \A j \in Index : Moves(j)
<1>1. /\ attempt \in [Index -> Fields] /\ run.infra \in Nat
      /\ proc[p].idx \in Index
      /\ \A j \in Index : attempt[j].gen \in Nat /\ attempt[j].gen <= run.infra
  BY KeyType DEF Inv, TypeOK, Fields, GensOK, Infra
<1>2. CASE UNCHANGED attempt
  BY <1>2 DEF Moves
<1>3. PICK i \in Index : i = proc[p].idx
  BY <1>1
<1>4. CASE ClaimCas(p) /\ ~UNCHANGED attempt
  <2>1. /\ attempt[i].status = "QUEUED"
        /\ attempt' = [attempt EXCEPT ![i].status = "STARTING",
                                      ![i].owner = proc[p].dlv]
    BY <1>3, <1>4 DEF ClaimCas
  <2>2. /\ attempt'[i].status = "STARTING" /\ attempt'[i].gen = attempt[i].gen
        /\ \A j \in Index \ {i} : attempt'[j] = attempt[j]
    BY <1>1, <2>1 DEF Fields
  <2> QED
    BY <2>1, <2>2 DEF Moves
<1>5. CASE StartRun(p) /\ ~UNCHANGED attempt
  <2>1. /\ attempt[i].status = "STARTING"
        /\ attempt' = [attempt EXCEPT ![i].status = "RUNNING"]
    BY <1>3, <1>5 DEF StartRun
  <2>2. /\ attempt'[i].status = "RUNNING" /\ attempt'[i].gen = attempt[i].gen
        /\ attempt'[i].owner = attempt[i].owner
        /\ \A j \in Index \ {i} : attempt'[j] = attempt[j]
    BY <1>1, <2>1 DEF Fields
  <2> QED
    BY <2>1, <2>2 DEF Moves
<1>6. CASE FinishRecord(p)
  <2>1. proc[p].st \in Final
    BY <1>6 DEF FinishRecord, At, Inv, ProcOK, Reporting
  <2> QED
    BY <1>1, <1>6, <2>1, RecordMoves DEF FinishRecord
<1>7. CASE CancelRecord(p)
  BY <1>1, <1>7, RecordMoves DEF CancelRecord, Final
<1>8. CASE ApplyRetry(p) /\ ~UNCHANGED attempt
  <2>1. /\ attempt[i + 1].status = "NONE"
        /\ attempt' = [attempt EXCEPT ![i + 1].status = "QUEUED",
                                      ![i + 1].gen = run.infra]
    BY <1>3, <1>8 DEF ApplyRetry
  <2> QED
    BY <1>1, <2>1 DEF Moves, Fields
<1>9. CASE ApplyInfra(p) /\ ~UNCHANGED attempt
  <2>1. attempt' = [attempt EXCEPT ![i].status = "QUEUED",
                                   ![i].gen = run.infra + 1,
                                   ![i].cancelled = FALSE]
    BY <1>3, <1>9 DEF ApplyInfra
  <2>2. /\ attempt'[i].status = "QUEUED" /\ attempt'[i].gen = run.infra + 1
        /\ \A j \in Index \ {i} : attempt'[j] = attempt[j]
    BY <1>1, <2>1 DEF Fields
  <2> QED
    BY <1>1, <2>2 DEF Moves
<1> QED
  BY <1>2, <1>4, <1>5, <1>6, <1>7, <1>8, <1>9

-----------------------------------------------------------------------------
LEMMA ContractInit == Init => Contract!Init
<1> SUFFICES ASSUME Init PROVE Contract!Init
  OBVIOUS
<1>1. Tries = [i \in 0..MaxRetries |-> IF i = 0 THEN "QUEUED" ELSE "NONE"]
  BY RetriesAssumption DEF Init, Tries, Index, Unborn
<1>2. Last = 0 /\ run.infra = 0 /\ usage = "NONE" /\ ~handled /\ ~deleted
  BY DEF Init, Last
<1>3. Verdict = "NONE" /\ final.reverse = FALSE /\ Silent = FALSE /\ Closed = FALSE
  BY DEF Init, Verdict, Silent, Closed, Terminal, Final, Verdicts, Functional
<1> QED
  BY <1>1, <1>2, <1>3 DEF Contract!Init, Init

(* What RunContract does not see.                                          *)
LEMMA ContractStill ==
  ASSUME UNCHANGED <<run, attempt, final, usage, handled, deleted>>
  PROVE  UNCHANGED Contract!vars
BY DEF Contract!vars, Tries, Verdict, Silent, Closed, Last, Terminal

-----------------------------------------------------------------------------
(* What an invocation that is about to write knows: a verdict is reported  *)
(* for a generation that was claimed, a cancellation is of a deleted test, *)
(* and side effects run only for a run that was not cancelled.             *)
Claimed(i, g) ==
  /\ attempt[i].status # "NONE"
  /\ g <= attempt[i].gen
  /\ g = attempt[i].gen => attempt[i].status # "QUEUED"

Cancelling == {"cancelJob", "cancelRecord", "cancelRun"}

KeepOK(q) ==
  /\ Reporting(q) /\ proc[q].st \in Verdicts => Claimed(proc[q].idx, proc[q].gen)
  /\ proc[q].pc \in Cancelling => deleted
  /\ proc[q].pc = "handle" => final.handle

KeepInv == \A q \in Procs : KeepOK(q)

KeepEffect ==
  /\ \A j \in Index : Moves(j)
  /\ deleted => deleted'
  /\ Terminal => final'.handle = final.handle

LEMMA StepKeepEffect == Inv /\ MoneyInv /\ [Next]_vars => KeepEffect
<1> SUFFICES ASSUME Inv, MoneyInv, [Next]_vars PROVE KeepEffect
  OBVIOUS
<1>1. CASE UNCHANGED <<attempt, final, deleted>>
  BY <1>1 DEF KeepEffect, Moves
<1>2. ASSUME NEW p \in Procs,
             \/ ClaimCas(p) \/ StartRun(p)
             \/ FinishRecord(p) \/ CancelRecord(p)
             \/ ApplyRetry(p) \/ ApplyInfra(p)
      PROVE  KeepEffect
  <2>1. UNCHANGED <<final, deleted>>
    BY <1>2 DEF ClaimCas, StartRun, FinishRecord, CancelRecord, ApplyRetry, ApplyInfra
  <2> QED
    BY <1>2, <2>1, WriteMoves DEF KeepEffect
<1>3. ASSUME NEW p \in Procs, CancelRun(p) \/ ApplyFinalize(p) \/ FinalSettle(p)
      PROVE  KeepEffect
  <2>1. UNCHANGED <<attempt, deleted>>
    BY <1>3 DEF CancelRun, ApplyFinalize, FinalSettle
  <2>2. Terminal => final.status # "NONE"
    BY DEF MoneyInv, MoneyOK
  <2>3. Terminal => final'.handle = final.handle
    BY <1>3, <2>2 DEF CancelRun, ApplyFinalize, FinalSettle, FinalizeRun, Inv, TypeOK
  <2> QED
    BY <2>1, <2>3 DEF KeepEffect, Moves
<1>4. CASE UNCHANGED vars
  BY <1>1, <1>4 DEF vars
<1>5. CASE DeleteTest
  BY <1>5 DEF DeleteTest, db, KeepEffect, Moves
<1>6. ASSUME NEW p \in Requests, Request(p)
      PROVE  KeepEffect
  BY <1>1, <1>6
     DEF Request, ClaimRead, RefuseConsent, StartRead, CompleteRead, db
<1>7. ASSUME NEW p \in Crons, Cron(p)
      PROVE  KeepEffect
  BY <1>1, <1>7 DEF Cron, ResumeJob, Sweep, db
<1>8. ASSUME NEW p \in Procs, Step(p) \/ Crash(p)
      PROVE  KeepEffect
  <2>1. \/ UNCHANGED <<attempt, final, deleted>>
        \/ ClaimCas(p) \/ StartRun(p)
        \/ FinishRecord(p) \/ CancelRecord(p)
        \/ CancelRun(p) \/ ApplyFinalize(p) \/ FinalSettle(p)
        \/ ApplyRetry(p) \/ ApplyInfra(p)
    BY <1>8
       DEF Step, Crash, ClaimJob, ClaimTarget, FinishRead, FinishJob, CancelJob,
           ContinueRead, FinalRead, FinalReverse, FinalHandle, FinalComplete, db
  <2> QED
    BY <1>1, <1>2, <1>3, <2>1
<1> QED
  BY <1>4, <1>5, <1>6, <1>7, <1>8 DEF Next

LEMMA ClaimKeeps ==
  ASSUME Inv, Inv', KeepEffect, NEW i \in Index, NEW g \in Infra, Claimed(i, g)
  PROVE  Claimed(i, g)'
<1>1. attempt[i].gen \in Nat /\ attempt'[i].gen \in Nat /\ g \in Nat
  BY DEF Inv, TypeOK, Infra
<1>2. Moves(i)
  BY DEF KeepEffect
<1> QED
  BY <1>1, <1>2 DEF Claimed, Moves

LEMMA KeepOthers ==
  ASSUME Inv, Inv', MoneyInv, KeepEffect, NEW q \in Procs, KeepOK(q),
         proc'[q] = proc[q]
  PROVE  KeepOK(q)'
<1>1. PICK i \in Index, g \in Infra : i = proc[q].idx /\ g = proc[q].gen
  BY KeyType DEF Inv
<1>2. Reporting(q)' <=> Reporting(q)
  BY DEF Reporting
<1>3. Claimed(i, g) => Claimed(i, g)'
  BY ClaimKeeps
<1>4. Claimed(proc[q].idx, proc[q].gen)' <=> Claimed(i, g)'
  BY <1>1 DEF Claimed
<1>5. proc[q].pc = "handle" => Terminal
  BY DEF MoneyInv, SettlingOK
<1> QED
  BY <1>1, <1>2, <1>3, <1>4, <1>5 DEF KeepOK, KeepEffect

LEMMA KeepFrame ==
  ASSUME Inv, Inv', MoneyInv, KeepInv, KeepEffect, NEW p \in Procs,
         \A q \in Procs \ {p} : proc'[q] = proc[q],
         KeepOK(p)'
  PROVE  KeepInv'
BY KeepOthers DEF KeepInv

(* A step of p that leaves it nowhere these facts are about. *)
Guarded == {"finishJob", "record", "handle"} \cup Cancelling

Plain(p) ==
  /\ \A q \in Procs \ {p} : proc'[q] = proc[q]
  /\ proc'[p].pc \notin Guarded
  /\ proc'[p].pc = "finish" => proc'[p].st = "SYSTEM_ERROR"

LEMMA PlainKeeps ==
  ASSUME NEW p \in Procs, Plain(p)
  PROVE  KeepOK(p)'
BY DEF Plain, Guarded, Cancelling, KeepOK, Reporting, Verdicts, Functional

LEMMA LandsPlain ==
  ASSUME Inv, NEW p \in Procs,
         \/ Return(p)
         \/ Call(p, Finalizing)
         \/ \E k : Call(p, Continuing(k))
         \/ \E i, g, why : Call(p, Finishing(i, g, "SYSTEM_ERROR", why))
         \/ \E label \in Labels \ (Guarded \cup {"finish"}) : Goto(p, label)
  PROVE  Plain(p)
<1>1. proc \in [Procs -> Local]
  BY DEF Inv, TypeOK
<1>2. ASSUME NEW l, Call(p, l), l.pc \notin Guarded,
             l.pc = "finish" => l.st = "SYSTEM_ERROR"
      PROVE  Plain(p)
  BY <1>1, <1>2 DEF Call, Plain
<1>3. ASSUME NEW label \in Labels \ (Guarded \cup {"finish"}), Goto(p, label)
      PROVE  Plain(p)
  BY <1>3, GotoType DEF Inv, Plain
<1>4. Idle.pc = "idle" /\ Finalizing.pc = "final"
  BY CalleePcs
<1>5. \A k : Continuing(k).pc = "continue"
  BY DEF Continuing, Idle
<1>6. \A i, g, why : /\ Finishing(i, g, "SYSTEM_ERROR", why).pc = "finish"
                     /\ Finishing(i, g, "SYSTEM_ERROR", why).st = "SYSTEM_ERROR"
  BY DEF Finishing, Idle
<1>7. CASE Return(p) \/ Call(p, Finalizing)
  BY <1>2, <1>4, <1>7 DEF Return, Call, Guarded, Cancelling
<1>8. ASSUME NEW k, Call(p, Continuing(k))
      PROVE  Plain(p)
  BY <1>2, <1>5, <1>8 DEF Guarded, Cancelling
<1>9. ASSUME NEW i, NEW g, NEW why,
             Call(p, Finishing(i, g, "SYSTEM_ERROR", why))
      PROVE  Plain(p)
  BY <1>2, <1>6, <1>9 DEF Guarded, Cancelling
<1> QED
  BY <1>3, <1>7, <1>8, <1>9

(* Requests and maintenance, but for a runner's report. *)
LEMMA EntryPlain ==
  ASSUME Inv, NEW p \in Procs,
         \/ \E d \in Deliveries, i \in Index, g \in Infra : ClaimRead(p, d, i, g)
         \/ \E i \in Index, g \in Infra : RefuseConsent(p, i, g)
         \/ \E lease \in leases : StartRead(p, lease)
         \/ Cron(p)
  PROVE  Plain(p)
<1>1. ASSUME NEW d \in Deliveries, NEW i \in Index, NEW g \in Infra,
             ClaimRead(p, d, i, g)
      PROVE  Plain(p)
  <2> DEFINE l == [Idle EXCEPT !.idx = i, !.gen = g, !.dlv = d,
                               !.st = attempt[i].status,
                               !.infra = run.infra, !.pc = "claimJob"]
  <2>1. CASE Call(p, Finalizing)
    BY <2>1, LandsPlain
  <2>2. CASE ~Call(p, Finalizing)
    <3>1. Call(p, l)
      BY <1>1, <2>2, IdleType DEF ClaimRead, Local
    <3>2. l.pc = "claimJob"
      BY IdleType DEF Local
    <3>3. proc \in [Procs -> Local]
      BY DEF Inv, TypeOK
    <3> HIDE DEF l
    <3> QED
      BY <3>1, <3>2, <3>3 DEF Call, Plain, Guarded, Cancelling
  <2> QED
    BY <2>1, <2>2
<1>2. CASE \/ \E i \in Index, g \in Infra : RefuseConsent(p, i, g)
           \/ Cron(p)
  BY <1>2, LandsPlain DEF RefuseConsent, Cron, ResumeJob, Sweep
<1>3. ASSUME NEW lease \in leases, StartRead(p, lease)
      PROVE  Plain(p)
  <2> DEFINE l == [Idle EXCEPT !.pc = "start", !.idx = lease.idx,
                               !.gen = lease.gen, !.dlv = lease.dlv]
  <2>1. Call(p, l)
    BY <1>3 DEF StartRead
  <2>2. l.pc = "start"
    BY IdleType DEF Local
  <2>3. proc \in [Procs -> Local]
    BY DEF Inv, TypeOK
  <2> HIDE DEF l
  <2> QED
    BY <2>1, <2>2, <2>3 DEF Call, Plain, Guarded, Cancelling
<1> QED
  BY <1>1, <1>2, <1>3

LEMMA StepPlain ==
  ASSUME Inv, NEW p \in Procs,
         \/ ClaimJob(p) \/ ClaimCas(p) \/ StartRun(p) \/ FinishRecord(p)
         \/ CancelRun(p) \/ ContinueRead(p) \/ ApplyRetry(p) \/ ApplyInfra(p)
         \/ ApplyFinalize(p) \/ FinalHandle(p) \/ FinalSettle(p)
         \/ FinalComplete(p) \/ Crash(p)
  PROVE  Plain(p)
<1>1. proc \in [Procs -> Local]
  BY DEF Inv, TypeOK
<1>2. CASE ContinueRead(p)
  <2>1. CASE proc' = [proc EXCEPT ![p].pc = "final", ![p].back = TRUE]
    BY <1>1, <2>1 DEF Plain, Local, Guarded, Cancelling
  <2>2. CASE proc' = [proc EXCEPT ![p].pc = "apply",
                                  ![p].act = NextAction(proc[p].idx)]
    BY <1>1, <2>2 DEF Plain, Local, Guarded, Cancelling
  <2> QED
    BY <1>2, <2>1, <2>2, LandsPlain DEF ContinueRead
<1>3. CASE \/ ClaimJob(p) \/ ClaimCas(p) \/ StartRun(p) \/ FinishRecord(p)
           \/ CancelRun(p) \/ ApplyRetry(p) \/ ApplyInfra(p) \/ ApplyFinalize(p)
           \/ FinalHandle(p) \/ FinalSettle(p) \/ FinalComplete(p) \/ Crash(p)
  BY <1>3, LandsPlain
     DEF ClaimJob, ClaimCas, StartRun, FinishRecord, CancelRun, ApplyRetry,
         ApplyInfra, ApplyFinalize, FinalHandle, FinalSettle, FinalComplete,
         Crash, Labels, Guarded, Cancelling
<1> QED
  BY <1>2, <1>3

(* The steps that lead to one of these places. *)
LEMMA ReportKeeps ==
  ASSUME Inv, Inv', MoneyInv, KeepInv, KeepEffect, NEW p \in Procs,
         \/ \E lease \in leases, outcome \in Outcomes :
              CompleteRead(p, lease, outcome)
         \/ FinishRead(p) \/ FinishJob(p)
  PROVE  KeepOK(p)' /\ \A q \in Procs \ {p} : proc'[q] = proc[q]
<1>1. /\ proc \in [Procs -> Local] /\ proc[p] \in Local
      /\ proc[p].idx \in Index /\ proc[p].gen \in Infra
  BY KeyType DEF Inv, TypeOK
<1>2. PICK i \in Index, g \in Infra : i = proc[p].idx /\ g = proc[p].gen
  BY <1>1
<1>3. UNCHANGED attempt
  BY DEF CompleteRead, FinishRead, FinishJob, db
<1>4. CASE Plain(p)
  BY <1>4, PlainKeeps DEF Plain
<1>5. ASSUME NEW lease \in leases, NEW outcome \in Outcomes,
             CompleteRead(p, lease, outcome)
      PROVE  KeepOK(p)' /\ \A q \in Procs \ {p} : proc'[q] = proc[q]
  <2>1. lease.idx \in Index /\ lease.gen \in Infra
    BY DEF Inv, TypeOK, Ref
  <2>2. /\ attempt'[lease.idx].gen = lease.gen
        /\ attempt'[lease.idx].status \in {"STARTING", "RUNNING"}
    BY <1>3, <1>5 DEF CompleteRead, Holds
  <2>3. /\ proc'[p] = Finishing(lease.idx, lease.gen, outcome, "OUTCOME")
        /\ \A q \in Procs \ {p} : proc'[q] = proc[q]
    BY <1>1, <1>5 DEF CompleteRead, Call
  <2>4. /\ proc'[p].pc = "finish"
        /\ proc'[p].idx = lease.idx /\ proc'[p].gen = lease.gen
    BY <2>3 DEF Finishing, Idle
  <2>5. Claimed(proc[p].idx, proc[p].gen)'
    BY <2>1, <2>2, <2>4 DEF Claimed, Infra
  <2> QED
    BY <2>3, <2>4, <2>5 DEF KeepOK, Cancelling
<1>6. ASSUME Reporting(p), proc'[p].idx = i, proc'[p].gen = g,
             proc'[p].st = proc[p].st, proc'[p].pc \in {"finishJob", "record"}
      PROVE  KeepOK(p)'
  <2>1. proc[p].st \in Verdicts => Claimed(i, g)
    BY <1>2, <1>6 DEF KeepInv, KeepOK
  <2>2. proc[p].st \in Verdicts => Claimed(i, g)'
    BY <2>1, ClaimKeeps
  <2>3. Claimed(proc[p].idx, proc[p].gen)' <=> Claimed(i, g)'
    BY <1>6 DEF Claimed
  <2> QED
    BY <1>6, <2>2, <2>3 DEF KeepOK, Cancelling
<1>7. CASE FinishRead(p)
  <2>1. Reporting(p)
    BY <1>7 DEF FinishRead, At, Reporting
  <2>2. CASE proc' = [proc EXCEPT ![p].pc = "finishJob",
                                  ![p].infra = run.infra,
                                  ![p].open = attempt[proc[p].idx].status \in Open]
    <3> DEFINE o == attempt[proc[p].idx].status \in Open
    <3>1. proc' = [proc EXCEPT ![p].pc = "finishJob",
                               ![p].infra = run.infra,
                               ![p].open = o]
      BY <2>2
    <3> HIDE DEF o
    <3>2. /\ proc'[p].pc = "finishJob" /\ proc'[p].st = proc[p].st
          /\ proc'[p].idx = i /\ proc'[p].gen = g
          /\ \A q \in Procs \ {p} : proc'[q] = proc[q]
      BY <1>1, <1>2, <3>1 DEF Local
    <3> QED
      BY <1>6, <2>1, <3>2
  <2> QED
    BY <1>4, <1>7, <2>2, LandsPlain DEF FinishRead
<1>8. CASE FinishJob(p)
  <2>1. Reporting(p)
    BY <1>8 DEF FinishJob, At, Reporting
  <2>2. CASE Goto(p, "record")
    <3>1. /\ proc'[p].pc = "record" /\ proc'[p].st = proc[p].st
          /\ proc'[p].idx = i /\ proc'[p].gen = g
          /\ \A q \in Procs \ {p} : proc'[q] = proc[q]
      BY <1>2, <2>2, GotoType DEF Inv, Labels, LocalsKept
    <3> QED
      BY <1>6, <2>1, <3>1
  <2> QED
    BY <1>4, <1>8, <2>2, LandsPlain DEF FinishJob
<1> QED
  BY <1>5, <1>7, <1>8

LEMMA CancelKeeps ==
  ASSUME Inv, KeepInv, NEW p \in Procs,
         ClaimTarget(p) \/ CancelJob(p) \/ CancelRecord(p)
  PROVE  KeepOK(p)' /\ \A q \in Procs \ {p} : proc'[q] = proc[q]
<1>1. /\ proc \in [Procs -> Local]
      /\ conts \in [Keys -> {"NONE", "PENDING", "COMPLETED"}]
      /\ Key(p) \in Keys
  BY KeyType DEF Inv, TypeOK, Keys
<1>2. CASE Plain(p)
  BY <1>2, PlainKeeps DEF Plain
<1>3. ASSUME NEW label \in Cancelling, Goto(p, label), deleted, UNCHANGED deleted
      PROVE  KeepOK(p)' /\ \A q \in Procs \ {p} : proc'[q] = proc[q]
  <2>1. label \in Labels /\ label \notin {"finish", "finishJob", "record", "handle"}
    BY DEF Cancelling, Labels
  <2>2. proc'[p].pc = label /\ \A q \in Procs \ {p} : proc'[q] = proc[q]
    BY <1>3, <2>1, GotoType DEF Inv
  <2> QED
    BY <1>3, <2>1, <2>2 DEF KeepOK, Reporting
<1>4. CASE ClaimTarget(p)
  <2>1. CASE proc' = [proc EXCEPT ![p].pc = "claimCas",
                                  ![p].infra = attempt[proc[p].idx].gen]
    <3>1. Plain(p)
      BY <1>1, <2>1 DEF Plain, Local, Guarded, Cancelling
    <3> QED
      BY <1>2, <3>1
  <2>2. CASE deleted /\ Goto(p, "cancelJob")
    BY <1>3, <1>4, <2>2 DEF ClaimTarget, Cancelling
  <2> QED
    BY <1>2, <1>4, <2>1, <2>2, LandsPlain DEF ClaimTarget
<1>5. CASE CancelJob(p) \/ CancelRecord(p)
  <2>1. deleted /\ UNCHANGED deleted
    BY <1>5 DEF CancelJob, CancelRecord, At, KeepInv, KeepOK, Cancelling
  <2>2. conts'[Key(p)] \in {"NONE", "PENDING", "COMPLETED"}
        /\ conts[Key(p)] \in {"NONE", "PENDING", "COMPLETED"}
    BY <1>1, <1>5 DEF CancelJob, CancelRecord, RecordCompletion, db
  <2>3. \/ Return(p) \/ Call(p, Finalizing)
        \/ Goto(p, "cancelRecord") \/ Goto(p, "cancelRun")
    BY <1>5, <2>2 DEF CancelJob, CancelRecord
  <2> QED
    BY <1>2, <1>3, <2>1, <2>3, LandsPlain DEF Cancelling
<1> QED
  BY <1>4, <1>5

LEMMA SettleKeeps ==
  ASSUME Inv, NEW p \in Procs, FinalRead(p) \/ FinalReverse(p)
  PROVE  KeepOK(p)' /\ \A q \in Procs \ {p} : proc'[q] = proc[q]
<1>1. UNCHANGED final
  BY DEF FinalRead, FinalReverse, db
<1>2. CASE \/ Return(p)
           \/ \E label \in {"reverse", "settle", "complete"} : Goto(p, label)
  <2>1. Plain(p)
    BY <1>2, LandsPlain DEF Labels, Guarded, Cancelling
  <2> QED
    BY <2>1, PlainKeeps DEF Plain
<1>3. CASE Goto(p, "handle") /\ final.handle
  <2>1. proc'[p].pc = "handle" /\ \A q \in Procs \ {p} : proc'[q] = proc[q]
    BY <1>3, GotoType DEF Inv, Labels
  <2> QED
    BY <1>1, <1>3, <2>1 DEF KeepOK, Reporting, Cancelling
<1> QED
  BY <1>2, <1>3 DEF FinalRead, FinalReverse

LEMMA KeepNext == Inv /\ MoneyInv /\ KeepInv /\ [Next]_vars => KeepInv'
<1> SUFFICES ASSUME Inv, MoneyInv, KeepInv, [Next]_vars PROVE KeepInv'
  OBVIOUS
<1>1. Inv' /\ KeepEffect
  BY NextInv, StepKeepEffect
<1>2. ASSUME NEW p \in Procs, KeepOK(p)',
             \A q \in Procs \ {p} : proc'[q] = proc[q]
      PROVE  KeepInv'
  BY <1>1, <1>2, KeepFrame
<1>3. CASE UNCHANGED vars \/ DeleteTest
  <2>1. UNCHANGED proc
    BY <1>3 DEF vars, DeleteTest
  <2> QED
    BY <1>1, <2>1, KeepOthers DEF KeepInv
<1>4. ASSUME NEW p \in Procs, Plain(p)
      PROVE  KeepInv'
  BY <1>2, <1>4, PlainKeeps DEF Plain
<1>5. ASSUME NEW p \in Procs, Request(p)
      PROVE  KeepInv'
  <2>1. CASE \E lease \in leases, outcome \in Outcomes :
               CompleteRead(p, lease, outcome)
    BY <1>1, <1>2, <2>1, ReportKeeps
  <2> QED
    BY <1>4, <1>5, <2>1, EntryPlain DEF Request
<1>6. ASSUME NEW p \in Procs, Cron(p)
      PROVE  KeepInv'
  BY <1>4, <1>6, EntryPlain
<1>7. ASSUME NEW p \in Procs, Step(p) \/ Crash(p)
      PROVE  KeepInv'
  <2>1. CASE \/ FinishRead(p) \/ FinishJob(p)
             \/ ClaimTarget(p) \/ CancelJob(p) \/ CancelRecord(p)
             \/ FinalRead(p) \/ FinalReverse(p)
    BY <1>1, <1>2, <2>1, ReportKeeps, CancelKeeps, SettleKeeps
  <2> QED
    BY <1>4, <1>7, <2>1, StepPlain DEF Step
<1> QED
  BY <1>3, <1>5, <1>6, <1>7 DEF Next, Procs

-----------------------------------------------------------------------------
(* What RunContract sees of the rows.                                      *)

LEMMA View ==
  ASSUME Inv
  PROVE  /\ Last \in Index /\ Last \in Nat
         /\ \A i \in Index : Tries[i] = attempt[i].status
         /\ Verdict = "NONE" <=> ~Terminal
         /\ Current = <<Last, run.infra>>
         /\ run.infra \in Infra
<1>1. "NONE" \notin Final
  BY DEF Final, Verdicts, Functional
<1> QED
  BY <1>1, RowsCount DEF Inv, Tries, Verdict, Terminal, Current

LEMMA TriesBecome ==
  ASSUME Inv, NEW i \in Index, NEW status, attempt'[i].status = status,
         \A j \in Index \ {i} : attempt'[j] = attempt[j]
  PROVE  Tries' = [Tries EXCEPT ![i] = status]
BY DEF Tries

LEMMA Unseen ==
  /\ UNCHANGED run => UNCHANGED <<Last, Verdict>>
  /\ UNCHANGED final => UNCHANGED <<Silent, Closed>>
  /\ UNCHANGED attempt => UNCHANGED Tries
BY DEF Last, Verdict, Terminal, Silent, Closed, Tries

(* The decision is the contract's. *)
LEMMA SameNames ==
  /\ Contract!Functional = Functional
  /\ Contract!Verdicts = Verdicts
  /\ Contract!Final = Final
  /\ Contract!Open = Open
BY DEF Contract!Functional, Contract!Verdicts, Contract!Final, Contract!Open,
       Functional, Verdicts, Final, Open

LEMMA SimulateClaim ==
  ASSUME Inv, NEW p \in Procs, ClaimCas(p)
  PROVE  Contract!Claim \/ UNCHANGED Contract!vars
<1>1. /\ attempt \in [Index -> Fields]
      /\ UNCHANGED <<run, final, usage, handled, deleted>>
  BY DEF Inv, TypeOK, Fields, ClaimCas
<1>2. CASE UNCHANGED attempt
  BY <1>1, <1>2, ContractStill
<1>3. PICK i \in Index : i = proc[p].idx
  BY KeyType DEF Inv
<1>4. CASE /\ attempt[i].status = "QUEUED"
           /\ attempt' = [attempt EXCEPT ![i].status = "STARTING",
                                         ![i].owner = proc[p].dlv]
  <2>1. /\ attempt'[i].status = "STARTING"
        /\ \A j \in Index \ {i} : attempt'[j] = attempt[j]
    BY <1>1, <1>4 DEF Fields
  <2>2. i = Last /\ ~Terminal
    BY <1>4, OpenIsLast DEF Open
  <2>3. Tries[Last] = "QUEUED" /\ Verdict = "NONE"
    BY <1>4, <2>2, View
  <2>4. Tries' = [Tries EXCEPT ![Last] = "STARTING"]
    BY <2>1, <2>2, TriesBecome
  <2> QED
    BY <1>1, <2>3, <2>4, Unseen DEF Contract!Claim, Contract!Become
<1> QED
  BY <1>2, <1>3, <1>4 DEF ClaimCas

LEMMA SimulateStart ==
  ASSUME Inv, NEW p \in Procs, StartRun(p)
  PROVE  Contract!Start \/ UNCHANGED Contract!vars
<1>1. /\ attempt \in [Index -> Fields]
      /\ UNCHANGED <<final, handled, deleted>>
  BY DEF Inv, TypeOK, Fields, StartRun
<1>2. CASE UNCHANGED <<run, attempt, usage>>
  BY <1>1, <1>2, ContractStill
<1>3. PICK i \in Index : i = proc[p].idx
  BY KeyType DEF Inv
<1>4. CASE /\ attempt[i].status = "STARTING"
           /\ usage' = IF usage = "NONE" THEN "CHARGED" ELSE usage
           /\ run' = [run EXCEPT !.status = "RUNNING", !.started = TRUE]
           /\ attempt' = [attempt EXCEPT ![i].status = "RUNNING"]
  <2>1. /\ attempt'[i].status = "RUNNING"
        /\ \A j \in Index \ {i} : attempt'[j] = attempt[j]
    BY <1>1, <1>4 DEF Fields
  <2>2. i = Last /\ ~Terminal
    BY <1>4, OpenIsLast DEF Open
  <2>3. Tries[Last] = "STARTING" /\ Verdict = "NONE"
    BY <1>4, <2>2, View
  <2>4. Tries' = [Tries EXCEPT ![Last] = "RUNNING"]
    BY <2>1, <2>2, TriesBecome
  <2>5. run'.status = "RUNNING" /\ run'.count = run.count /\ run'.infra = run.infra
    BY <1>4 DEF Inv, TypeOK
  <2>6. Verdict' = "NONE" /\ Last' = Last
    BY <2>5 DEF Verdict, Terminal, Last, Final, Verdicts, Functional
  <2> QED
    BY <1>1, <1>4, <2>3, <2>4, <2>5, <2>6, Unseen DEF Contract!Start, Contract!Become
<1> QED
  BY <1>2, <1>3, <1>4 DEF StartRun

LEMMA SimulateRecord ==
  ASSUME Inv, NEW i \in Index, NEW key, NEW status \in Final,
         NEW cancelled \in BOOLEAN,
         RecordCompletion(i, key, status, cancelled),
         attempt[i].status \in Open /\ conts[key] = "NONE" /\ status # "SYSTEM_ERROR"
           => attempt[i].status \in {"STARTING", "RUNNING"},
         UNCHANGED <<run, final, usage, handled, deleted>>
  PROVE  (\E outcome \in Final : Contract!End(outcome)) \/ UNCHANGED Contract!vars
<1>1. attempt \in [Index -> Fields]
  BY DEF Inv, TypeOK, Fields
<1>2. CASE UNCHANGED attempt
  BY <1>1, <1>2, ContractStill
<1>3. CASE /\ attempt[i].status \in Open /\ conts[key] = "NONE"
           /\ attempt' = [attempt EXCEPT ![i].status = status,
                                         ![i].cancelled = cancelled]
  <2>1. /\ attempt'[i].status = status
        /\ \A j \in Index \ {i} : attempt'[j] = attempt[j]
    BY <1>1, <1>3 DEF Fields
  <2>2. i = Last /\ ~Terminal
    BY <1>3, OpenIsLast
  <2>3. Tries[Last] \in Open /\ Verdict = "NONE"
        /\ (status # "SYSTEM_ERROR" => Tries[Last] \in {"STARTING", "RUNNING"})
    BY <1>3, <2>2, View
  <2>4. Tries' = [Tries EXCEPT ![Last] = status]
    BY <2>1, <2>2, TriesBecome
  <2>5. status # "SYSTEM_ERROR" => status \in Verdicts
    BY DEF Final
  <2>6. Contract!End(status)
    BY <2>3, <2>4, <2>5, Unseen, SameNames DEF Contract!End, Contract!Become
  <2> QED
    BY <2>6
<1> QED
  BY <1>2, <1>3 DEF RecordCompletion

(* A verdict is only ever recorded for an attempt that a runner holds.     *)
LEMMA SimulateFinish ==
  ASSUME Inv, KeepInv, MatchedInv, NEW p \in Procs, FinishRecord(p) \/ CancelRecord(p)
  PROVE  (\E outcome \in Final : Contract!End(outcome)) \/ UNCHANGED Contract!vars
<1>1. /\ proc[p].idx \in Index /\ proc[p].gen \in Infra
      /\ UNCHANGED <<run, final, usage, handled, deleted>>
  BY KeyType DEF Inv, FinishRecord, CancelRecord
<1>2. CASE FinishRecord(p)
  <2>1. proc[p].pc = "record" /\ Reporting(p) /\ Recording(p)
    BY <1>2 DEF FinishRecord, At, Reporting, Recording
  <2>2. proc[p].st \in Final
    BY <2>1 DEF Inv, ProcOK
  <2>3. ASSUME attempt[proc[p].idx].status \in Open, conts[Key(p)] = "NONE",
               proc[p].st # "SYSTEM_ERROR"
        PROVE  attempt[proc[p].idx].status \in {"STARTING", "RUNNING"}
    <3>1. Key(p) = Current
      BY <2>1, <2>3 DEF Inv, ProcOK, Fresh
    <3>2. proc[p].idx = Last /\ proc[p].infra = run.infra
      BY <3>1 DEF Key, Current
    <3>3. proc[p].gen = attempt[proc[p].idx].gen
      BY <2>1, <3>2 DEF MatchedInv, Matched, Inv, GensOK
    <3>4. Claimed(proc[p].idx, proc[p].gen)
      BY <2>1, <2>2, <2>3 DEF KeepInv, KeepOK, Final
    <3> QED
      BY <2>3, <3>3, <3>4 DEF Claimed, Open
  <2>4. RecordCompletion(proc[p].idx, Key(p), proc[p].st, FALSE)
    BY <1>2 DEF FinishRecord
  <2> QED
    BY <1>1, <2>2, <2>3, <2>4, SimulateRecord
<1>3. CASE CancelRecord(p)
  <2>1. /\ RecordCompletion(proc[p].idx, Key(p), "SYSTEM_ERROR", TRUE)
        /\ "SYSTEM_ERROR" \in Final
    BY <1>3 DEF CancelRecord, Final
  <2> QED
    BY <1>1, <2>1, SimulateRecord
<1> QED
  BY <1>2, <1>3

(* A pending continuation is the present attempt's. *)
LEMMA PendingIsCurrent ==
  ASSUME Inv, MoneyInv, NEW p \in Procs, conts[Key(p)] = "PENDING"
  PROVE  /\ proc[p].idx = Last /\ proc[p].infra = run.infra
         /\ ~Terminal /\ attempt[Last].status \in Final
         /\ final.status = "NONE"
<1>1. Key(p) = Current /\ ~Terminal /\ attempt[Last].status \in Final
  BY KeyType DEF Inv, JobsOK, Keys
<1> QED
  BY <1>1 DEF Key, Current, MoneyInv, MoneyOK

LEMMA SimulateRetry ==
  ASSUME Inv, Inv', MoneyInv, NEW p \in Procs, ApplyRetry(p)
  PROVE  Contract!Retry \/ UNCHANGED Contract!vars
<1>1. /\ attempt \in [Index -> Fields]
      /\ UNCHANGED <<final, usage, handled, deleted>>
  BY DEF Inv, TypeOK, Fields, ApplyRetry
<1>2. CASE conts[Key(p)] # "PENDING"
  BY <1>1, <1>2, ContractStill DEF ApplyRetry
<1>3. CASE conts[Key(p)] = "PENDING"
  <2>1. proc[p].idx = Last /\ ~Terminal
    BY <1>3, PendingIsCurrent
  <2>2. Last < MaxRetries /\ attempt[Last].status \in Functional
    BY <1>3, <2>1 DEF ApplyRetry, At, Inv, ProcOK, Decided, Justified
  <2>3. /\ Last \in Nat /\ Last \in Index /\ Last + 1 \in Index
        /\ run.count = Last + 1
    BY <2>2, RowsCount, RetriesAssumption DEF Inv, Index
  <2>4. attempt[Last + 1].status = "NONE"
    BY <2>3 DEF Inv, RowsOK
  <2>5. /\ attempt' = [attempt EXCEPT ![Last + 1].status = "QUEUED",
                                      ![Last + 1].gen = run.infra]
        /\ run' = [run EXCEPT !.count = Cardinality(Rows \cup {Last + 1})]
    BY <1>3, <2>1, <2>4 DEF ApplyRetry
  <2>6. PICK n \in Index : n = Last + 1
    BY <2>3
  <2>7. /\ attempt'[n].status = "QUEUED"
        /\ \A j \in Index \ {n} : attempt'[j] = attempt[j]
    BY <1>1, <2>5, <2>6 DEF Fields
  <2>8. run'.status = run.status /\ run'.infra = run.infra
    BY <2>5 DEF Inv, TypeOK
  <2>9. run'.count = n + 1
    <3>1. /\ run'.count \in 1..(MaxRetries + 1)
          /\ \A i \in Index : attempt'[i].status # "NONE" <=> i < run'.count
      BY DEF Inv, RowsOK
    <3>2. n < run'.count
      BY <2>7, <3>1
    <3>3. ASSUME n + 1 < run'.count
          PROVE  FALSE
      <4>1. n + 1 \in Index /\ n + 1 # n
        BY <2>3, <2>6, <3>1, <3>3, RetriesAssumption DEF Index
      <4>2. attempt'[n + 1].status = "NONE"
        BY <2>3, <2>6, <2>7, <4>1 DEF Inv, RowsOK
      <4> QED
        BY <3>1, <3>3, <4>1, <4>2
    <3> QED
      BY <2>3, <2>6, <3>1, <3>2, <3>3, RetriesAssumption
  <2>10. Last' = Last + 1 /\ Verdict' = Verdict
    BY <2>3, <2>6, <2>8, <2>9 DEF Last, Verdict, Terminal
  <2>11. Tries' = [Tries EXCEPT ![Last + 1] = "QUEUED"]
    BY <2>6, <2>7, TriesBecome
  <2>12. Verdict = "NONE" /\ Tries[Last] \in Functional
    BY <2>1, <2>2, View
  <2> QED
    BY <1>1, <2>2, <2>8, <2>10, <2>11, <2>12, Unseen, SameNames DEF Contract!Retry
<1> QED
  BY <1>2, <1>3

LEMMA SimulateAgain ==
  ASSUME Inv, MoneyInv, NEW p \in Procs, ApplyInfra(p)
  PROVE  Contract!Again \/ UNCHANGED Contract!vars
<1>1. /\ attempt \in [Index -> Fields]
      /\ UNCHANGED <<final, usage, handled, deleted>>
  BY DEF Inv, TypeOK, Fields, ApplyInfra
<1>2. CASE conts[Key(p)] # "PENDING"
  BY <1>1, <1>2, ContractStill DEF ApplyInfra
<1>3. CASE conts[Key(p)] = "PENDING"
  <2>1. proc[p].idx = Last /\ ~Terminal
    BY <1>3, PendingIsCurrent
  <2>2. /\ run.infra < MaxInfraRetries /\ attempt[Last].status = "SYSTEM_ERROR"
        /\ proc[p].act.count = run.count
    BY <1>3, <2>1 DEF ApplyInfra, At, Inv, ProcOK, Decided, Justified
  <2>3. PICK i \in Index : i = Last
    BY View
  <2>4. /\ attempt' = [attempt EXCEPT ![i].status = "QUEUED",
                                      ![i].gen = run.infra + 1,
                                      ![i].cancelled = FALSE]
        /\ run' = [run EXCEPT !.infra = @ + 1, !.count = run.count]
    BY <1>3, <2>1, <2>2, <2>3 DEF ApplyInfra
  <2>5. /\ attempt'[i].status = "QUEUED"
        /\ \A j \in Index \ {i} : attempt'[j] = attempt[j]
    BY <1>1, <2>4 DEF Fields
  <2>6. /\ run'.status = run.status /\ run'.infra = run.infra + 1
        /\ run'.count = run.count
    BY <2>4 DEF Inv, TypeOK
  <2>7. Last' = Last /\ Verdict' = Verdict
    BY <2>6 DEF Last, Verdict, Terminal
  <2>8. Tries' = [Tries EXCEPT ![Last] = "QUEUED"]
    BY <2>3, <2>5, TriesBecome
  <2>9. Verdict = "NONE" /\ Tries[Last] = "SYSTEM_ERROR"
    BY <2>1, <2>2, View
  <2> QED
    BY <1>1, <2>2, <2>6, <2>7, <2>8, <2>9, Unseen DEF Contract!Again, Contract!Become
<1> QED
  BY <1>2, <1>3

(* A verdict is written once, together with its finalization.              *)
LEMMA VerdictWritten ==
  ASSUME Inv, MoneyInv, NEW p \in Procs, NEW status \in Final,
         NEW reverse \in BOOLEAN, NEW handle \in BOOLEAN,
         FinalizeRun(Key(p), status, reverse, handle, run.count),
         conts[Key(p)] = "PENDING"
  PROVE  /\ Verdict = "NONE" /\ Verdict' = status
         /\ Last' = Last /\ run'.infra = run.infra
         /\ final'.reverse = reverse
         /\ Silent = FALSE /\ Silent' = ~handle
         /\ Closed = FALSE /\ Closed' = FALSE
<1>1. ~Terminal /\ final.status = "NONE"
  BY PendingIsCurrent
<1>2. /\ run'.status = status /\ run'.count = run.count
      /\ run'.infra = run.infra
      /\ final' = [status |-> "PENDING", reverse |-> reverse, handle |-> handle]
  <2>1. PICK billable \in BOOLEAN : billable = ~reverse
    OBVIOUS
  <2>2. run' = [run EXCEPT !.status = status, !.billable = billable,
                           !.count = run.count]
    BY <2>1 DEF FinalizeRun
  <2>3. /\ run'.status = status /\ run'.count = run.count
        /\ run'.infra = run.infra
    BY <2>2 DEF Inv, TypeOK
  <2>4. final' = [status |-> "PENDING", reverse |-> reverse, handle |-> handle]
    BY <1>1 DEF FinalizeRun
  <2> QED
    BY <2>3, <2>4
<1>3. Verdict = "NONE" /\ Verdict' = status
  BY <1>1, <1>2 DEF Verdict, Terminal
<1>4. Last' = Last
  BY <1>2 DEF Last
<1> QED
  BY <1>1, <1>2, <1>3, <1>4 DEF Silent, Closed

LEMMA SimulateCancel ==
  ASSUME Inv, MoneyInv, KeepInv, NEW p \in Procs, CancelRun(p)
  PROVE  Contract!Cancel \/ UNCHANGED Contract!vars
<1>1. UNCHANGED <<attempt, usage, handled, deleted>> /\ deleted
  BY DEF CancelRun, At, KeepInv, KeepOK, Cancelling
<1>2. CASE conts[Key(p)] # "PENDING"
  BY <1>1, <1>2, ContractStill DEF CancelRun, FinalizeRun
<1>3. CASE conts[Key(p)] = "PENDING"
  <2>1. attempt[Last].status \in Final
    BY <1>3, PendingIsCurrent
  <2>2. Tries[Last] \in Final
    BY <2>1, View
  <2>3. Cardinality(Rows) = run.count
    BY RowsCount DEF Inv
  <2>4. FinalizeRun(Key(p), "SYSTEM_ERROR", TRUE, FALSE, run.count)
    BY <2>3 DEF CancelRun
  <2>5. "SYSTEM_ERROR" \in Final
    BY DEF Final
  <2>6. /\ Verdict = "NONE" /\ Verdict' = "SYSTEM_ERROR"
        /\ Last' = Last /\ run'.infra = run.infra
        /\ final'.reverse = TRUE /\ Silent' = TRUE
        /\ Closed' = Closed
    BY <1>3, <2>4, <2>5, VerdictWritten
  <2> QED
    BY <1>1, <2>2, <2>6, Unseen, SameNames DEF Contract!Cancel
<1> QED
  BY <1>2, <1>3

LEMMA SimulateDecide ==
  ASSUME Inv, MoneyInv, NEW p \in Procs, ApplyFinalize(p)
  PROVE  Contract!Decide \/ UNCHANGED Contract!vars
<1> DEFINE act == proc[p].act
<1>1. UNCHANGED <<attempt, usage, handled, deleted>>
  BY DEF ApplyFinalize
<1>2. CASE conts[Key(p)] # "PENDING"
  BY <1>1, <1>2, ContractStill DEF ApplyFinalize, FinalizeRun
<1>3. CASE conts[Key(p)] = "PENDING"
  <2>1. proc[p].idx = Last
    BY <1>3, PendingIsCurrent
  <2>2. Justified(Last, act) /\ act.kind = "finalize"
    BY <1>3, <2>1 DEF ApplyFinalize, At, Inv, ProcOK, Decided
  <2>3. /\ Closing(Last) /\ act.status = Word(Last) /\ act.status \in Final
        /\ act.status \in Verdicts => ~act.reverse
        /\ act.status = "SYSTEM_ERROR" => act.reverse = ~run.started
        /\ act.count = run.count
    BY <2>2 DEF Justified
  <2>4. act.reverse \in BOOLEAN
    BY KeyType DEF Inv, Local, Act
  <2>5. FinalizeRun(Key(p), act.status, act.reverse, TRUE, run.count)
    BY <2>3 DEF ApplyFinalize
  <2>6. /\ Verdict = "NONE" /\ Verdict' = act.status
        /\ Last' = Last /\ run'.infra = run.infra
        /\ final'.reverse = act.reverse
        /\ Silent' = Silent /\ Closed' = Closed
    <3>1. PICK status \in Final, reverse \in BOOLEAN :
            status = act.status /\ reverse = act.reverse
      BY <2>3, <2>4
    <3>2. FinalizeRun(Key(p), status, reverse, TRUE, run.count)
      BY <2>5, <3>1
    <3>3. /\ Verdict = "NONE" /\ Verdict' = status
          /\ Last' = Last /\ run'.infra = run.infra
          /\ final'.reverse = reverse
          /\ Silent' = Silent /\ Closed' = Closed
      BY <1>3, <3>2, VerdictWritten
    <3> QED
      BY <3>1, <3>3
  <2>7. /\ Last \in Nat /\ Last \in Index
        /\ Tries[Last] = attempt[Last].status
        /\ Last > 0 => Last - 1 \in Index /\ Tries[Last - 1] = attempt[Last - 1].status
    <3>1. Last > 0 => Last - 1 \in Index
      BY View, RetriesAssumption DEF Index
    <3> QED
      BY <3>1, View
  <2>8. Word(Last) = Contract!Decision
    BY <2>7 DEF Word, Contract!Decision
  <2>9. act.reverse = (act.status = "SYSTEM_ERROR" /\ usage = "NONE")
    <3>1. run.started <=> usage # "NONE"
      BY DEF MoneyInv, MoneyOK
    <3>2. "SYSTEM_ERROR" \notin Verdicts
      BY DEF Verdicts, Functional
    <3>3. run.started \in BOOLEAN
      BY DEF Inv, TypeOK
    <3> QED
      BY <2>3, <2>4, <3>1, <3>2, <3>3 DEF Final
  <2>10. \/ Tries[Last] = "PASSED"
         \/ Tries[Last] \in Functional /\ Last = MaxRetries
         \/ Tries[Last] = "SYSTEM_ERROR" /\ run.infra = MaxInfraRetries
    BY <2>3, <2>7 DEF Closing
  <2> HIDE DEF act
  <2>11. UNCHANGED Tries
    BY <1>1, Unseen
  <2> QED
    BY <1>1, <2>3, <2>6, <2>8, <2>9, <2>10, <2>11, SameNames DEF Contract!Decide
<1> QED
  BY <1>2, <1>3

LEMMA SimulateSettling ==
  ASSUME Inv, MoneyInv, KeepInv, NEW p \in Procs,
         FinalReverse(p) \/ FinalHandle(p) \/ FinalSettle(p)
  PROVE  \/ Contract!Refund \/ Contract!Report \/ Contract!Settle
         \/ UNCHANGED Contract!vars
<1>1. UNCHANGED <<run, attempt, deleted>>
  BY DEF FinalReverse, FinalHandle, FinalSettle, db
<1>2. UNCHANGED <<Tries, Last, Verdict>>
  BY <1>1, Unseen
<1>3. Terminal /\ Verdict # "NONE" /\ final.status # "NONE"
  <2>1. proc[p].pc \in {"reverse", "handle", "settle"}
    BY DEF FinalReverse, FinalHandle, FinalSettle, At
  <2> QED
    BY <2>1, View DEF MoneyInv, MoneyOK, SettlingOK
<1>4. CASE FinalReverse(p)
  <2>1. final.reverse
    BY <1>4 DEF FinalReverse, At, MoneyInv, SettlingOK
  <2>2. UNCHANGED <<final, handled>>
        /\ usage' = IF usage = "CHARGED" THEN "REVERSED" ELSE usage
    BY <1>4 DEF FinalReverse
  <2>3. CASE usage = "CHARGED"
    BY <1>1, <1>2, <2>1, <2>2, <2>3, Unseen DEF Contract!Refund
  <2>4. CASE usage # "CHARGED"
    BY <1>1, <2>2, <2>4, ContractStill
  <2> QED
    BY <2>3, <2>4
<1>5. CASE FinalHandle(p)
  <2>1. final.handle /\ (final.reverse => usage # "CHARGED")
    BY <1>5 DEF FinalHandle, At, MoneyInv, SettlingOK, KeepInv, KeepOK
  <2>2. UNCHANGED <<final, usage>> /\ handled' = TRUE
    BY <1>5 DEF FinalHandle, db
  <2>3. ~Silent
    BY <2>1 DEF Silent
  <2> QED
    BY <1>1, <1>2, <1>3, <2>1, <2>2, <2>3, Unseen DEF Contract!Report
<1>6. CASE FinalSettle(p)
  <2>1. (final.handle => handled) /\ (final.reverse => usage # "CHARGED")
    BY <1>6 DEF FinalSettle, At, MoneyInv, SettlingOK
  <2>2. UNCHANGED <<usage, handled>>
        /\ final' = [final EXCEPT !.status = "COMPLETED"]
    BY <1>6 DEF FinalSettle
  <2>3. /\ final'.status = "COMPLETED" /\ final'.reverse = final.reverse
        /\ final'.handle = final.handle
    BY <2>2 DEF Inv, TypeOK
  <2>4. (Silent \/ handled) /\ Silent' = Silent /\ Closed' = TRUE
    BY <1>3, <2>1, <2>3 DEF Silent, Closed
  <2> QED
    BY <1>1, <1>2, <1>3, <2>1, <2>2, <2>3, <2>4 DEF Contract!Settle
<1> QED
  BY <1>4, <1>5, <1>6

LEMMA Simulation ==
  Inv /\ MoneyInv /\ KeepInv /\ MatchedInv /\ [Next]_vars
    => [Contract!Next]_(Contract!vars)
<1> SUFFICES ASSUME Inv, MoneyInv, KeepInv, MatchedInv, [Next]_vars
             PROVE  Contract!Next \/ UNCHANGED Contract!vars
  OBVIOUS
<1>1. Inv'
  BY NextInv
<1>2. CASE UNCHANGED <<run, attempt, final, usage, handled, deleted>>
  BY <1>2, ContractStill
<1>3. CASE UNCHANGED vars
  BY <1>2, <1>3 DEF vars
<1>4. CASE DeleteTest
  <2>1. /\ UNCHANGED <<run, attempt, final, usage, handled>>
        /\ deleted' = TRUE
    BY <1>4 DEF DeleteTest, db
  <2>2. Contract!Delete
    BY <2>1, Unseen DEF Contract!Delete
  <2> QED
    BY <2>2 DEF Contract!Next
<1>5. ASSUME NEW p \in Requests, Request(p)
      PROVE  Contract!Next \/ UNCHANGED Contract!vars
  BY <1>2, <1>5
     DEF Request, ClaimRead, RefuseConsent, StartRead, CompleteRead, db
<1>6. ASSUME NEW p \in Crons, Cron(p)
      PROVE  Contract!Next \/ UNCHANGED Contract!vars
  BY <1>2, <1>6 DEF Cron, ResumeJob, Sweep, db
<1>7. ASSUME NEW p \in Procs, Step(p) \/ Crash(p)
      PROVE  Contract!Next \/ UNCHANGED Contract!vars
  <2>1. CASE ClaimCas(p)
    BY <2>1, SimulateClaim DEF Contract!Next
  <2>2. CASE StartRun(p)
    BY <2>2, SimulateStart DEF Contract!Next
  <2>3. CASE FinishRecord(p) \/ CancelRecord(p)
    BY <2>3, SimulateFinish, SameNames DEF Contract!Next
  <2>4. CASE CancelRun(p)
    BY <2>4, SimulateCancel DEF Contract!Next
  <2>5. CASE ApplyRetry(p)
    BY <1>1, <2>5, SimulateRetry DEF Contract!Next
  <2>6. CASE ApplyInfra(p)
    BY <2>6, SimulateAgain DEF Contract!Next
  <2>7. CASE ApplyFinalize(p)
    BY <2>7, SimulateDecide DEF Contract!Next
  <2>8. CASE FinalReverse(p) \/ FinalHandle(p) \/ FinalSettle(p)
    BY <2>8, SimulateSettling DEF Contract!Next
  <2>9. CASE \/ ClaimJob(p) \/ ClaimTarget(p) \/ FinishRead(p) \/ FinishJob(p)
             \/ CancelJob(p) \/ ContinueRead(p) \/ FinalRead(p)
             \/ FinalComplete(p) \/ Crash(p)
    BY <2>9, <1>2
       DEF ClaimJob, ClaimTarget, FinishRead, FinishJob, CancelJob,
           ContinueRead, FinalRead, FinalComplete, Crash, db
  <2> QED
    BY <1>7, <2>1, <2>2, <2>3, <2>4, <2>5, <2>6, <2>7, <2>8, <2>9 DEF Step
<1> QED
  BY <1>3, <1>4, <1>5, <1>6, <1>7 DEF Next

-----------------------------------------------------------------------------
(* However many invocations, deliveries, redeliveries and evictions there  *)
(* are, the rows of a run change as if one actor executed it in order: one *)
(* attempt at a time, a decision that follows from the outcomes, a charge  *)
(* at the first start that no verdict loses, a settlement after the refund *)
(* and the report.                                                         *)
THEOREM RunKeepsContract == Spec => ImplementsContract
<1>1. Init => KeepInv /\ MatchedInv
  BY DEF Init, Idle, KeepInv, KeepOK, Reporting, Cancelling,
         MatchedInv, Matched
<1>2. Inv /\ MoneyInv /\ KeepInv /\ [Next]_vars => KeepInv'
  BY KeepNext
<1>3. Inv /\ MatchedInv /\ [Next]_vars => MatchedInv'
  BY MatchedNext DEF MatchedInv
<1>4. Init => Contract!Init
  BY ContractInit
<1>5. Inv /\ MoneyInv /\ KeepInv /\ MatchedInv /\ [Next]_vars
      => [Contract!Next]_(Contract!vars)
  BY Simulation
<1> QED
  BY <1>1, <1>2, <1>3, <1>4, <1>5, Invariance, MoneyInvariance, PTL
     DEF Spec, ImplementsContract, Contract!Spec
=============================================================================
