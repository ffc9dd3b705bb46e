------------------------ MODULE AttemptOutcomeProofs ------------------------
(* What a run comes to: its verdict, its charge and its side effects.  One *)
(* more invariant of AttemptLifecycle, inductive together with the one of  *)
(* AttemptLifecycleProofs, and the finality of outcomes.                   *)
EXTENDS AttemptLifecycleProofs

(* Money and side effects: what a completed finalization leaves behind,    *)
(* and what an invocation that is settling a run has already done.         *)
Settled ==
  /\ final.reverse => usage # "CHARGED"
  /\ final.handle => handled

SettlingOK(q) ==
  /\ proc[q].pc \in {"reverse", "handle", "settle"} => Terminal
  /\ proc[q].pc = "reverse" => final.reverse
  /\ proc[q].pc \in {"handle", "settle"} /\ final.reverse => usage # "CHARGED"
  /\ proc[q].pc = "settle" /\ final.handle => handled

VerdictOK ==
  /\ run.status \in Verdicts =>
       ~final.reverse /\ \E j \in Index : attempt[j].status = run.status
  /\ run.status = "SYSTEM_ERROR" /\ ~final.reverse => run.started

MoneyOK ==
  /\ Terminal <=> final.status # "NONE"
  /\ run.billable = ~final.reverse
  /\ run.started <=> usage # "NONE"
  /\ usage = "REVERSED" => final.reverse
  /\ final.reverse => Terminal
  /\ final.status = "COMPLETED" => Settled

MoneyInv == MoneyOK /\ VerdictOK /\ \A q \in Procs : SettlingOK(q)

-----------------------------------------------------------------------------
(* Money and side effects.                                                 *)

MoneyEffect ==
  /\ Terminal => Terminal' /\ final'.reverse = final.reverse
                 /\ final'.handle = final.handle
  /\ Terminal /\ usage # "CHARGED" => usage' # "CHARGED"
  /\ handled => handled'

LEMMA SettlingKeeps ==
  ASSUME MoneyEffect, NEW q \in Procs, SettlingOK(q), proc'[q] = proc[q]
  PROVE  SettlingOK(q)'
BY DEF MoneyEffect, SettlingOK

LEMMA MoneyFrame ==
  ASSUME MoneyInv, NEW p \in Procs, MoneyEffect, MoneyOK', VerdictOK',
         \A q \in Procs \ {p} : proc'[q] = proc[q],
         SettlingOK(p)'
  PROVE  MoneyInv'
BY SettlingKeeps DEF MoneyInv

(* Labels at which an invocation holds nothing the money depends on. *)
LEMMA LandsQuiet ==
  ASSUME NEW p \in Procs,
         proc'[p].pc \notin {"reverse", "handle", "settle"}
  PROVE  SettlingOK(p)'
BY DEF SettlingOK

(* A step that only moves its invocation. *)
LEMMA QuietMoney ==
  ASSUME MoneyInv, NEW p \in Procs,
         UNCHANGED <<run, attempt, final, usage, handled>>,
         \A q \in Procs \ {p} : proc'[q] = proc[q],
         SettlingOK(p)'
  PROVE  MoneyInv'
<1>1. MoneyOK' /\ VerdictOK' /\ MoneyEffect
  BY DEF MoneyInv, MoneyOK, VerdictOK, MoneyEffect, Settled, Terminal
<1> QED
  BY <1>1, MoneyFrame

(* A call, with what it changes of the callee's locals. *)
LEMMA QuietCall ==
  ASSUME Inv, MoneyInv, NEW p \in Procs, NEW l \in Local, Call(p, l),
         UNCHANGED <<run, attempt, final, usage, handled>>,
         l.pc \notin {"reverse", "handle", "settle"}
  PROVE  MoneyInv'
<1>1. /\ proc'[p] = l
      /\ \A q \in Procs \ {p} : proc'[q] = proc[q]
  BY CallType DEF Inv
<1>2. SettlingOK(p)'
  BY <1>1, LandsQuiet
<1> QED
  BY <1>1, <1>2, QuietMoney

LEMMA QuietGoto ==
  ASSUME Inv, MoneyInv, NEW p \in Procs, NEW label \in Labels, Goto(p, label),
         UNCHANGED <<run, attempt, final, usage, handled>>,
         label \notin {"reverse", "handle", "settle"}
  PROVE  MoneyInv'
<1>1. /\ proc'[p].pc = label
      /\ \A q \in Procs \ {p} : proc'[q] = proc[q]
  BY GotoType DEF Inv
<1>2. SettlingOK(p)'
  BY <1>1, LandsQuiet
<1> QED
  BY <1>1, <1>2, QuietMoney

LEMMA CalleePcs ==
  /\ Idle \in Local /\ Idle.pc = "idle"
  /\ Finalizing \in Local /\ Finalizing.pc = "final"
  /\ \A k \in Keys : Continuing(k) \in Local /\ Continuing(k).pc = "continue"
  /\ \A i \in Index, g \in Infra,
        why \in {"NONE", "OUTCOME", "LOST", "UNCLAIMED", "NO_CONSENT"} :
       /\ Finishing(i, g, "SYSTEM_ERROR", why) \in Local
       /\ Finishing(i, g, "SYSTEM_ERROR", why).pc = "finish"
<1>1. Idle \in Local /\ Idle.pc = "idle"
  BY IdleType DEF Idle
<1>2. Finalizing \in Local /\ Finalizing.pc = "final"
  BY IdleType DEF Finalizing, Idle
<1>3. \A k \in Keys : Continuing(k) \in Local /\ Continuing(k).pc = "continue"
  BY ContinuingType DEF Continuing, Idle, Keys
<1>4. ASSUME NEW i \in Index, NEW g \in Infra,
             NEW why \in {"NONE", "OUTCOME", "LOST", "UNCLAIMED", "NO_CONSENT"}
      PROVE  /\ Finishing(i, g, "SYSTEM_ERROR", why) \in Local
             /\ Finishing(i, g, "SYSTEM_ERROR", why).pc = "finish"
  <2>1. Finishing(i, g, "SYSTEM_ERROR", why) \in Local
    BY FinishingType DEF Final
  <2>2. Finishing(i, g, "SYSTEM_ERROR", why).pc = "finish"
    BY DEF Finishing, Idle
  <2> QED
    BY <2>1, <2>2
<1> QED
  BY <1>1, <1>2, <1>3, <1>4

(* The steps that read, and only move their invocation. *)
LEMMA ClaimMoney ==
  ASSUME Inv, MoneyInv, NEW p \in Procs,
         \/ \E d \in Deliveries, i \in Index, g \in Infra : ClaimRead(p, d, i, g)
         \/ \E i \in Index, g \in Infra : RefuseConsent(p, i, g)
         \/ ClaimJob(p)
         \/ ClaimTarget(p)
  PROVE  MoneyInv'
<1>1. UNCHANGED <<run, attempt, final, usage, handled>>
  BY DEF ClaimRead, RefuseConsent, ClaimJob, ClaimTarget, db, runners
<1>2. Key(p) \in Keys /\ proc[p] \in Local
      /\ proc[p].idx \in Index /\ proc[p].gen \in Infra
  BY KeyType DEF Inv
<1>3. ASSUME NEW d \in Deliveries, NEW i \in Index, NEW g \in Infra,
             ClaimRead(p, d, i, g)
      PROVE  MoneyInv'
  <2>1. CASE Call(p, Finalizing)
    BY <1>1, <2>1, CalleePcs, QuietCall
  <2>2. CASE ~Call(p, Finalizing)
    <3> DEFINE l == [Idle EXCEPT !.idx = i, !.gen = g, !.dlv = d,
                                 !.st = attempt[i].status,
                                 !.infra = run.infra, !.pc = "claimJob"]
    <3>1. attempt[i].status \in Open \cup Final \cup {"NONE"} /\ run.infra \in Infra
      BY DEF Inv, TypeOK
    <3>2. l \in Local /\ l.pc = "claimJob"
      BY <3>1, IdleType DEF Local, Labels, Idle
    <3>3. Call(p, l)
      BY <1>3, <2>2, IdleType DEF ClaimRead, Local
    <3> HIDE DEF l
    <3> QED
      BY <1>1, <3>2, <3>3, QuietCall
  <2> QED
    BY <2>1, <2>2
<1>4. ASSUME NEW i \in Index, NEW g \in Infra, RefuseConsent(p, i, g)
      PROVE  MoneyInv'
  <2>1. Call(p, Finishing(i, g, "SYSTEM_ERROR", "NO_CONSENT"))
    BY <1>4 DEF RefuseConsent
  <2> QED
    BY <1>1, <2>1, CalleePcs, QuietCall
<1>5. CASE ClaimJob(p)
  <2>1. Call(p, Continuing(Key(p))) \/ Goto(p, "claimTarget")
    BY <1>5 DEF ClaimJob
  <2> QED
    BY <1>1, <1>2, <2>1, CalleePcs, QuietCall, QuietGoto DEF Labels
<1>6. CASE ClaimTarget(p)
  <2>1. CASE Goto(p, "cancelJob")
    BY <1>1, <2>1, QuietGoto DEF Labels
  <2>2. CASE Return(p)
    BY <1>1, <2>2, CalleePcs, QuietCall DEF Return, Call
  <2>3. CASE proc' = [proc EXCEPT ![p].pc = "claimCas",
                                  ![p].infra = attempt[proc[p].idx].gen]
    <3>1. attempt[proc[p].idx].gen \in Infra
      BY <1>2 DEF Inv, TypeOK
    <3>2. /\ proc'[p].pc = "claimCas"
          /\ \A q \in Procs \ {p} : proc'[q] = proc[q]
      BY <1>2, <2>3, <3>1 DEF Inv, TypeOK, Local, Labels
    <3>3. SettlingOK(p)'
      BY <3>2, LandsQuiet
    <3> QED
      BY <1>1, <3>2, <3>3, QuietMoney
  <2>4. CASE Call(p, Finishing(proc[p].idx, proc[p].gen, "SYSTEM_ERROR", "LOST"))
    BY <1>1, <1>2, <2>4, CalleePcs, QuietCall
  <2> QED
    BY <1>6, <2>1, <2>2, <2>3, <2>4 DEF ClaimTarget
<1> QED
  BY <1>3, <1>4, <1>5, <1>6

LEMMA ReportMoney ==
  ASSUME Inv, MoneyInv, NEW p \in Procs,
         \/ \E lease \in leases, outcome \in Outcomes :
              CompleteRead(p, lease, outcome)
         \/ FinishRead(p)
         \/ FinishJob(p)
         \/ CancelJob(p)
         \/ ContinueRead(p)
         \/ FinalComplete(p)
         \/ ResumeJob(p)
         \/ Sweep(p)
         \/ Crash(p)
  PROVE  MoneyInv'
<1>1. UNCHANGED <<run, attempt, final, usage, handled>>
  BY DEF CompleteRead, FinishRead, FinishJob, CancelJob, ContinueRead,
         FinalComplete, ResumeJob, Sweep, Crash, db, runners
<1>2. Key(p) \in Keys /\ proc[p] \in Local
      /\ proc[p].idx \in Index /\ proc[p].gen \in Infra
  BY KeyType DEF Inv
<1>3. ASSUME NEW lease \in leases, NEW outcome \in Outcomes,
             CompleteRead(p, lease, outcome)
      PROVE  MoneyInv'
  <2> DEFINE l == Finishing(lease.idx, lease.gen, outcome, "OUTCOME")
  <2>1. lease.idx \in Index /\ lease.gen \in Infra /\ outcome \in Final
    BY OutcomesAssumption DEF Inv, TypeOK, Ref
  <2>2. Call(p, l)
    BY <1>3 DEF CompleteRead
  <2>3. l \in Local
    BY <2>1, FinishingType
  <2>4. l.pc = "finish"
    BY DEF Finishing, Idle
  <2> HIDE DEF l
  <2> QED
    BY <1>1, <2>1, <2>2, <2>3, <2>4, QuietCall
<1>4. CASE Return(p)
  BY <1>1, <1>4, CalleePcs, QuietCall DEF Return, Call
<1>5. CASE Call(p, Finalizing)
  BY <1>1, <1>5, CalleePcs, QuietCall
<1>6. ASSUME NEW k \in Keys, Call(p, Continuing(k))
      PROVE  MoneyInv'
  BY <1>1, <1>6, CalleePcs, QuietCall
<1>7. CASE FinishRead(p)
  <2>1. CASE proc' = [proc EXCEPT ![p].pc = "finishJob",
                                  ![p].infra = run.infra,
                                  ![p].open = attempt[proc[p].idx].status \in Open]
    <3> DEFINE o == attempt[proc[p].idx].status \in Open
    <3>1. o \in BOOLEAN
      OBVIOUS
    <3>2. proc' = [proc EXCEPT ![p].pc = "finishJob",
                               ![p].infra = run.infra,
                               ![p].open = o]
      BY <2>1
    <3> HIDE DEF o
    <3>3. run.infra \in Infra /\ proc \in [Procs -> Local]
      BY DEF Inv, TypeOK
    <3>4. /\ proc'[p].pc = "finishJob"
          /\ \A q \in Procs \ {p} : proc'[q] = proc[q]
      BY <1>2, <3>1, <3>2, <3>3 DEF Local, Labels
    <3>5. SettlingOK(p)'
      BY <3>4, LandsQuiet
    <3> QED
      BY <1>1, <3>4, <3>5, QuietMoney
  <2> QED
    BY <1>4, <1>5, <1>7, <2>1 DEF FinishRead
<1>8. CASE FinishJob(p)
  <2>1. CASE Goto(p, "record")
    BY <1>1, <2>1, QuietGoto DEF Labels
  <2> QED
    BY <1>2, <1>4, <1>6, <1>8, <2>1 DEF FinishJob
<1>9. CASE CancelJob(p)
  <2>1. conts[Key(p)] \in {"NONE", "PENDING", "COMPLETED"}
    BY KeyType DEF Inv
  <2>2. Goto(p, "cancelRecord") \/ Goto(p, "cancelRun") \/ Call(p, Finalizing)
    BY <1>9, <2>1 DEF CancelJob
  <2> QED
    BY <1>1, <1>5, <2>2, QuietGoto DEF Labels
<1>10. CASE ContinueRead(p)
  <2>1. CASE proc' = [proc EXCEPT ![p].pc = "final", ![p].back = TRUE]
    <3>1. /\ proc'[p].pc = "final"
          /\ \A q \in Procs \ {p} : proc'[q] = proc[q]
      BY <1>2, <2>1 DEF Inv, TypeOK, Local, Labels
    <3>2. SettlingOK(p)'
      BY <3>1, LandsQuiet
    <3> QED
      BY <1>1, <3>1, <3>2, QuietMoney
  <2>2. CASE proc' = [proc EXCEPT ![p].pc = "apply",
                                  ![p].act = NextAction(proc[p].idx)]
    <3>1. /\ proc'[p].pc = "apply"
          /\ \A q \in Procs \ {p} : proc'[q] = proc[q]
      BY <1>2, <2>2 DEF Inv, TypeOK, Local, Labels
    <3>2. SettlingOK(p)'
      BY <3>1, LandsQuiet
    <3> QED
      BY <1>1, <3>1, <3>2, QuietMoney
  <2> QED
    BY <1>4, <1>10, <2>1, <2>2 DEF ContinueRead
<1>11. CASE ResumeJob(p)
  <2>1. DOMAIN conts = Keys
    BY DEF Inv, TypeOK, Keys
  <2> QED
    BY <1>5, <1>6, <1>11, <2>1 DEF ResumeJob
<1>12. CASE Sweep(p)
  <2>1. PICK i \in Index :
          Call(p, Finishing(i, attempt[i].gen, "SYSTEM_ERROR",
                            IF attempt[i].status = "QUEUED"
                            THEN "UNCLAIMED" ELSE "LOST"))
    BY <1>12 DEF Sweep, Rows
  <2>2. attempt[i].gen \in Infra
    BY DEF Inv, TypeOK
  <2>3. PICK why \in {"UNCLAIMED", "LOST"} :
          why = IF attempt[i].status = "QUEUED" THEN "UNCLAIMED" ELSE "LOST"
    OBVIOUS
  <2>4. Call(p, Finishing(i, attempt[i].gen, "SYSTEM_ERROR", why))
    BY <2>1, <2>3
  <2> QED
    BY <1>1, <2>2, <2>4, CalleePcs, QuietCall
<1> QED
  BY <1>3, <1>4, <1>7, <1>8, <1>9, <1>10, <1>11, <1>12
     DEF FinalComplete, Crash

-----------------------------------------------------------------------------
(* The steps that write the attempts and the run.                          *)

(* An open attempt moves on. *)
LEMMA OpenMoves ==
  ASSUME Inv, MoneyInv, NEW i \in Index, attempt[i].status \in Open,
         \A j \in Index \ {i} : attempt'[j] = attempt[j],
         UNCHANGED <<run, final, usage, handled>>
  PROVE  MoneyOK' /\ VerdictOK' /\ MoneyEffect
<1>1. MoneyOK'
  BY DEF MoneyInv, MoneyOK, Settled, Terminal
<1>2. VerdictOK'
  BY DEF MoneyInv, VerdictOK, Open, Verdicts, Functional
<1>3. MoneyEffect
  BY DEF MoneyEffect, Terminal
<1> QED
  BY <1>1, <1>2, <1>3

LEMMA StartReadMoney ==
  ASSUME Inv, MoneyInv, NEW p \in Procs, NEW lease \in leases,
         StartRead(p, lease)
  PROVE  MoneyInv'
<1> DEFINE l == [Idle EXCEPT !.pc = "start", !.idx = lease.idx,
                             !.gen = lease.gen, !.dlv = lease.dlv]
<1>1. /\ lease \in Ref
      /\ UNCHANGED <<run, attempt, final, usage, handled>>
  BY DEF Inv, TypeOK, StartRead, db
<1>2. l \in Local /\ l.pc = "start"
  BY <1>1, IdleType DEF Local, Labels, Idle, Ref
<1>3. Call(p, l)
  BY DEF StartRead
<1> HIDE DEF l
<1> QED
  BY <1>1, <1>2, <1>3, QuietCall

(* What a call leaves in the invocation that makes it. *)
LEMMA CallLands ==
  ASSUME Inv, NEW p \in Procs,
         \/ Return(p)
         \/ Call(p, Finalizing)
         \/ \E k \in Keys : Call(p, Continuing(k))
         \/ Goto(p, "cancelRun")
  PROVE  SettlingOK(p)' /\ \A q \in Procs \ {p} : proc'[q] = proc[q]
<1>1. CASE \E l \in Local : Call(p, l) /\ l.pc \in {"idle", "final", "continue"}
  BY <1>1, CallType, LandsQuiet DEF Inv
<1>2. CASE Goto(p, "cancelRun")
  BY <1>2, GotoType, LandsQuiet DEF Inv, Labels
<1> QED
  BY <1>1, <1>2, CalleePcs DEF Return, Call

LEMMA ClaimCasMoney ==
  ASSUME Inv, MoneyInv, NEW p \in Procs, ClaimCas(p)
  PROVE  MoneyInv'
<1> DEFINE i == proc[p].idx
<1>1. /\ i \in Index /\ attempt \in [Index -> Fields]
      /\ UNCHANGED <<run, final, usage, handled>>
      /\ proc[p] \in Local
      /\ proc[p].dlv \in Deliveries \cup {NoDelivery}
  BY KeyType DEF Inv, TypeOK, Fields, ClaimCas, Local
<1>2. SettlingOK(p)' /\ \A q \in Procs \ {p} : proc'[q] = proc[q]
  BY CallLands DEF ClaimCas
<1>3. CASE attempt' = attempt
  BY <1>1, <1>2, <1>3, QuietMoney
<1>4. CASE /\ attempt[i].status = "QUEUED"
           /\ attempt' = [attempt EXCEPT ![i].status = "STARTING",
                                         ![i].owner = proc[p].dlv]
  <2>1. /\ attempt'[i].status = "STARTING"
        /\ \A j \in Index \ {i} : attempt'[j] = attempt[j]
    BY <1>1, <1>4 DEF Fields
  <2>2. MoneyOK' /\ VerdictOK' /\ MoneyEffect
    BY <1>1, <1>4, <2>1, OpenMoves DEF Open
  <2> QED
    BY <1>2, <2>2, MoneyFrame
<1> QED
  BY <1>3, <1>4 DEF ClaimCas

(* The first start charges the run.                                        *)
LEMMA StartRunMoney ==
  ASSUME Inv, MoneyInv, NEW p \in Procs, StartRun(p)
  PROVE  MoneyInv'
<1> DEFINE i == proc[p].idx
<1>1. /\ i \in Index /\ attempt \in [Index -> Fields]
      /\ UNCHANGED <<final, handled>>
  BY KeyType DEF Inv, TypeOK, Fields, StartRun
<1>2. SettlingOK(p)' /\ \A q \in Procs \ {p} : proc'[q] = proc[q]
  BY CallLands DEF StartRun
<1>3. CASE UNCHANGED <<usage, run, attempt, released>>
  BY <1>1, <1>2, <1>3, QuietMoney
<1>4. CASE /\ attempt[i].status = "STARTING" /\ ~Terminal
           /\ usage' = IF usage = "NONE" THEN "CHARGED" ELSE usage
           /\ run' = [run EXCEPT !.status = "RUNNING", !.started = TRUE]
           /\ attempt' = [attempt EXCEPT ![i].status = "RUNNING"]
  <2>1. /\ run'.started /\ run'.status = "RUNNING"
        /\ run'.billable = run.billable
        /\ run.started \in BOOLEAN
    BY <1>4 DEF Inv, TypeOK
  <2>2. ~Terminal'
    BY <2>1 DEF Terminal, Final, Verdicts, Functional
  <2>3. final.status = "NONE" /\ ~final.reverse
    BY <1>4 DEF MoneyInv, MoneyOK
  <2>4. usage' # "NONE" /\ usage' # "REVERSED"
    BY <1>4, <2>3 DEF MoneyInv, MoneyOK, Inv, TypeOK
  <2>5. MoneyOK'
    BY <1>1, <1>4, <2>1, <2>2, <2>3, <2>4 DEF MoneyInv, MoneyOK, Settled
  <2>6. VerdictOK'
    BY <2>1 DEF VerdictOK, Verdicts, Functional
  <2>7. MoneyEffect
    BY <1>1, <1>4, <2>1 DEF MoneyEffect
  <2> QED
    BY <1>2, <2>5, <2>6, <2>7, MoneyFrame
<1> QED
  BY <1>3, <1>4 DEF StartRun

(* recordAttemptCompletion. *)
LEMMA RecordMoney ==
  ASSUME Inv, MoneyInv, NEW i \in Index, NEW n \in Infra, NEW status \in Final,
         Records(i, n, status),
         UNCHANGED <<run, final, usage, handled>>
  PROVE  MoneyOK' /\ VerdictOK' /\ MoneyEffect
<1>1. attempt \in [Index -> Fields]
  BY DEF Inv, TypeOK, Fields
<1>2. CASE attempt' = attempt
  BY <1>2 DEF MoneyInv, MoneyOK, VerdictOK, MoneyEffect, Settled, Terminal
<1>3. ASSUME NEW cancelled \in BOOLEAN, attempt[i].status \in Open,
             attempt' = [attempt EXCEPT ![i].status = status,
                                        ![i].cancelled = cancelled]
      PROVE  MoneyOK' /\ VerdictOK' /\ MoneyEffect
  <2>1. /\ attempt'[i].status = status
        /\ \A j \in Index \ {i} : attempt'[j] = attempt[j]
    BY <1>1, <1>3 DEF Fields
  <2> QED
    BY <1>3, <2>1, OpenMoves
<1> QED
  BY <1>2, <1>3 DEF Records, RecordCompletion

LEMMA FinishRecordMoney ==
  ASSUME Inv, MoneyInv, NEW p \in Procs, FinishRecord(p)
  PROVE  MoneyInv'
<1>1. /\ Key(p) \in Keys /\ Key(p) = <<proc[p].idx, proc[p].infra>>
      /\ proc[p].idx \in Index /\ proc[p].infra \in Infra
  BY KeyType DEF Inv
<1>2. Reporting(p) /\ proc[p].st \in Final
  BY DEF Inv, ProcOK, FinishRecord, At, Reporting
<1>3. Records(proc[p].idx, proc[p].infra, proc[p].st)
  BY <1>1 DEF FinishRecord, Records
<1>4. UNCHANGED <<run, final, usage, handled>>
  BY DEF FinishRecord
<1>5. MoneyOK' /\ VerdictOK' /\ MoneyEffect
  BY <1>1, <1>2, <1>3, <1>4, RecordMoney
<1>6. SettlingOK(p)' /\ \A q \in Procs \ {p} : proc'[q] = proc[q]
  BY <1>1, CallLands DEF FinishRecord
<1> QED
  BY <1>5, <1>6, MoneyFrame

LEMMA CancelRecordMoney ==
  ASSUME Inv, MoneyInv, NEW p \in Procs, CancelRecord(p)
  PROVE  MoneyInv'
<1>1. /\ Key(p) \in Keys /\ Key(p) = <<proc[p].idx, proc[p].infra>>
      /\ proc[p].idx \in Index /\ proc[p].infra \in Infra
  BY KeyType DEF Inv
<1>2. "SYSTEM_ERROR" \in Final
  BY DEF Final
<1>3. Records(proc[p].idx, proc[p].infra, "SYSTEM_ERROR")
  BY <1>1 DEF CancelRecord, Records
<1>4. UNCHANGED <<run, final, usage, handled>>
  BY DEF CancelRecord, runners
<1>5. MoneyOK' /\ VerdictOK' /\ MoneyEffect
  BY <1>1, <1>2, <1>3, <1>4, RecordMoney
<1>6. conts' \in [Keys -> {"NONE", "PENDING", "COMPLETED"}]
  <2>1. conts \in [Keys -> {"NONE", "PENDING", "COMPLETED"}]
    BY DEF Inv, TypeOK, Keys
  <2>2. conts' = conts \/ conts' = [conts EXCEPT ![Key(p)] = "PENDING"]
    BY DEF CancelRecord, RecordCompletion
  <2> QED
    BY <1>1, <2>1, <2>2
<1>7. Return(p) \/ Call(p, Finalizing) \/ Goto(p, "cancelRun")
  BY <1>1, <1>6 DEF CancelRecord
<1>8. SettlingOK(p)' /\ \A q \in Procs \ {p} : proc'[q] = proc[q]
  BY <1>7, CallLands
<1> QED
  BY <1>5, <1>8, MoneyFrame

(* A verdict written by finalizeRun was earned by an attempt, and a system *)
(* error that stays billable is that of a run that started.                *)
Earned(key) ==
  \E status \in Final, reverse \in BOOLEAN, handle \in BOOLEAN :
    /\ FinalizeRun(key, status, reverse, handle, run.count)
    /\ status \in Verdicts =>
         ~reverse /\ \E j \in Index : attempt[j].status = status
    /\ status = "SYSTEM_ERROR" /\ ~reverse => run.started

LEMMA FinalizeMoney ==
  ASSUME Inv, MoneyInv, NEW p \in Procs,
         Earned(Key(p)) \/ UNCHANGED <<run, final>>,
         UNCHANGED <<attempt, usage, handled>>,
         Call(p, Finalizing)
  PROVE  MoneyInv'
<1>1. SettlingOK(p)' /\ \A q \in Procs \ {p} : proc'[q] = proc[q]
  BY CallLands
<1>2. CASE UNCHANGED <<run, final>>
  BY <1>1, <1>2, QuietMoney
<1>3. CASE conts[Key(p)] = "PENDING" /\ Earned(Key(p))
  <2>1. PICK status \in Final, reverse \in BOOLEAN, handle \in BOOLEAN :
          /\ FinalizeRun(Key(p), status, reverse, handle, run.count)
          /\ status \in Verdicts =>
               ~reverse /\ \E j \in Index : attempt[j].status = status
          /\ status = "SYSTEM_ERROR" /\ ~reverse => run.started
    BY <1>3 DEF Earned
  <2>2. ~Terminal /\ final.status = "NONE" /\ ~final.reverse
    BY <1>3, KeyType DEF Inv, JobsOK, MoneyInv, MoneyOK, Keys
  <2>3. /\ run' = [run EXCEPT !.status = status, !.billable = ~reverse,
                              !.count = run.count]
        /\ final' = [status |-> "PENDING", reverse |-> reverse, handle |-> handle]
    BY <1>3, <2>1, <2>2 DEF FinalizeRun
  <2>4. /\ run'.status = status /\ run'.started = run.started
        /\ run'.billable = ~reverse
        /\ final'.status = "PENDING" /\ final'.reverse = reverse
    BY <2>3 DEF Inv, TypeOK
  <2>5. Terminal'
    BY <2>4 DEF Terminal
  <2>6. MoneyOK'
    BY <2>2, <2>4, <2>5 DEF MoneyInv, MoneyOK
  <2>7. VerdictOK'
    BY <2>1, <2>4 DEF VerdictOK
  <2>8. MoneyEffect
    BY <2>2, <2>4 DEF MoneyEffect
  <2> QED
    BY <1>1, <2>6, <2>7, <2>8, MoneyFrame
<1> QED
  BY <1>2, <1>3 DEF Earned, FinalizeRun

LEMMA CancelRunMoney ==
  ASSUME Inv, MoneyInv, NEW p \in Procs, CancelRun(p)
  PROVE  MoneyInv'
<1>1. Cardinality(Rows) = run.count
  BY RowsCount DEF Inv
<1>2. FinalizeRun(Key(p), "SYSTEM_ERROR", TRUE, FALSE, run.count)
  BY <1>1 DEF CancelRun
<1>3. "SYSTEM_ERROR" \in Final /\ "SYSTEM_ERROR" \notin Verdicts
  BY DEF Final, Verdicts, Functional
<1>4. Earned(Key(p))
  BY <1>2, <1>3 DEF Earned
<1> QED
  BY <1>4, FinalizeMoney DEF CancelRun, runners

LEMMA ApplyFinalizeMoney ==
  ASSUME Inv, MoneyInv, NEW p \in Procs, ApplyFinalize(p)
  PROVE  MoneyInv'
<1> DEFINE act == proc[p].act
<1>1. /\ FinalizeRun(Key(p), act.status, act.reverse, TRUE, act.count)
      /\ act.kind = "finalize" /\ proc[p].pc = "apply"
  BY DEF ApplyFinalize, At
<1>2. Earned(Key(p)) \/ UNCHANGED <<run, final>>
  <2>1. CASE conts[Key(p)] = "PENDING"
    <3>1. Justified(proc[p].idx, act)
      BY <1>1, <2>1 DEF Inv, ProcOK, Decided
    <3>2. /\ act.status \in Final /\ act.count = run.count
          /\ act.status \in Verdicts =>
               ~act.reverse /\ \E j \in Index : attempt[j].status = act.status
          /\ act.status = "SYSTEM_ERROR" /\ ~act.reverse => run.started
      BY <1>1, <3>1 DEF Justified
    <3>3. act.reverse \in BOOLEAN
      BY KeyType DEF Inv, Local, Act
    <3> QED
      BY <1>1, <3>2, <3>3 DEF Earned
  <2>2. CASE conts[Key(p)] # "PENDING"
    BY <1>1, <2>2 DEF FinalizeRun
  <2> QED
    BY <2>1, <2>2
<1> QED
  BY <1>2, FinalizeMoney DEF ApplyFinalize, runners

(* A retry of an unfinished run. *)
LEMMA RetryMoney ==
  ASSUME Inv, MoneyInv, NEW p \in Procs, ~Terminal,
         run'.status = run.status, run'.started = run.started,
         run'.billable = run.billable,
         UNCHANGED <<final, usage, handled>>,
         Return(p)
  PROVE  MoneyInv'
<1>1. SettlingOK(p)' /\ \A q \in Procs \ {p} : proc'[q] = proc[q]
  BY CallLands
<1>2. MoneyOK' /\ MoneyEffect
  BY DEF MoneyInv, MoneyOK, MoneyEffect, Settled, Terminal
<1>3. VerdictOK'
  BY DEF VerdictOK, Terminal, Final
<1> QED
  BY <1>1, <1>2, <1>3, MoneyFrame

LEMMA ApplyRetryMoney ==
  ASSUME Inv, MoneyInv, NEW p \in Procs, ApplyRetry(p)
  PROVE  MoneyInv'
<1> DEFINE i == proc[p].idx + 1
<1>1. /\ Key(p) \in Keys
      /\ run \in [status  : {"QUEUED", "RUNNING"} \cup Final,
                  infra   : Infra,
                  started : BOOLEAN,
                  billable : BOOLEAN,
                  count   : 0..(MaxRetries + 1)]
      /\ UNCHANGED <<final, usage, handled>>
      /\ Return(p)
  BY KeyType DEF Inv, TypeOK, ApplyRetry, runners
<1>2. CASE conts[Key(p)] # "PENDING"
  <2>1. UNCHANGED <<run, attempt>>
    BY <1>2 DEF ApplyRetry
  <2>2. SettlingOK(p)' /\ \A q \in Procs \ {p} : proc'[q] = proc[q]
    BY <1>1, CallLands
  <2> QED
    BY <1>1, <2>1, <2>2, QuietMoney
<1>3. CASE conts[Key(p)] = "PENDING"
  <2>1. ~Terminal
    BY <1>1, <1>3 DEF Inv, JobsOK, Keys
  <2>2. run' = [run EXCEPT !.count = Cardinality(Rows \cup {i})]
    BY <1>3 DEF ApplyRetry
  <2>3. /\ run'.status = run.status /\ run'.started = run.started
        /\ run'.billable = run.billable
    BY <1>1, <2>2
  <2> QED
    BY <1>1, <2>1, <2>3, RetryMoney
<1> QED
  BY <1>2, <1>3

LEMMA ApplyInfraMoney ==
  ASSUME Inv, MoneyInv, NEW p \in Procs, ApplyInfra(p)
  PROVE  MoneyInv'
<1>1. /\ Key(p) \in Keys
      /\ run \in [status  : {"QUEUED", "RUNNING"} \cup Final,
                  infra   : Infra,
                  started : BOOLEAN,
                  billable : BOOLEAN,
                  count   : 0..(MaxRetries + 1)]
      /\ UNCHANGED <<final, usage, handled>>
      /\ Return(p)
  BY KeyType DEF Inv, TypeOK, ApplyInfra, runners
<1>2. CASE conts[Key(p)] # "PENDING"
  <2>1. UNCHANGED <<run, attempt>>
    BY <1>2 DEF ApplyInfra
  <2>2. SettlingOK(p)' /\ \A q \in Procs \ {p} : proc'[q] = proc[q]
    BY <1>1, CallLands
  <2> QED
    BY <1>1, <2>1, <2>2, QuietMoney
<1>3. CASE conts[Key(p)] = "PENDING"
  <2>1. ~Terminal
    BY <1>1, <1>3 DEF Inv, JobsOK, Keys
  <2>2. run' = [run EXCEPT !.infra = @ + 1, !.count = proc[p].act.count]
    BY <1>3 DEF ApplyInfra
  <2>3. /\ run'.status = run.status /\ run'.started = run.started
        /\ run'.billable = run.billable
    BY <1>1, <2>2
  <2> QED
    BY <1>1, <2>1, <2>3, RetryMoney
<1> QED
  BY <1>2, <1>3

(* The settling steps.                                                     *)
LEMMA FinalReadMoney ==
  ASSUME Inv, MoneyInv, NEW p \in Procs, FinalRead(p)
  PROVE  MoneyInv'
<1>1. UNCHANGED <<run, attempt, final, usage, handled>>
  BY DEF FinalRead, db, runners
<1>2. CASE Return(p)
  BY <1>1, <1>2, CallLands, QuietMoney
<1>3. CASE Goto(p, "complete")
  BY <1>1, <1>3, QuietGoto DEF Labels
<1>4. ASSUME Terminal,
             NEW label \in {"reverse", "handle", "settle"}, Goto(p, label),
             label = "reverse" <=> final.reverse,
             label = "settle" => ~final.handle
      PROVE  MoneyInv'
  <2>1. /\ proc'[p].pc = label
        /\ \A q \in Procs \ {p} : proc'[q] = proc[q]
    BY <1>4, GotoType DEF Inv, Labels
  <2>2. Terminal'
    BY <1>1, <1>4 DEF Terminal
  <2>3. SettlingOK(p)'
    BY <1>1, <1>4, <2>1, <2>2 DEF SettlingOK
  <2> QED
    BY <1>1, <2>1, <2>3, QuietMoney
<1> QED
  BY <1>2, <1>3, <1>4 DEF FinalRead

LEMMA FinalReverseMoney ==
  ASSUME Inv, MoneyInv, NEW p \in Procs, FinalReverse(p)
  PROVE  MoneyInv'
<1>1. /\ UNCHANGED <<run, attempt, final, handled>>
      /\ Terminal /\ final.reverse
      /\ usage' # "CHARGED" /\ (usage' = "NONE" <=> usage = "NONE")
  BY DEF FinalReverse, At, MoneyInv, SettlingOK, runners
<1>2. PICK label \in {"handle", "settle"} :
        Goto(p, label) /\ (label = "settle" => ~final.handle)
  BY DEF FinalReverse
<1>3. /\ proc'[p].pc = label
      /\ \A q \in Procs \ {p} : proc'[q] = proc[q]
  BY <1>2, GotoType DEF Inv, Labels
<1>4. MoneyOK' /\ VerdictOK' /\ MoneyEffect
  BY <1>1 DEF MoneyInv, MoneyOK, VerdictOK, MoneyEffect, Settled, Terminal
<1>5. SettlingOK(p)'
  BY <1>1, <1>2, <1>3 DEF SettlingOK, Terminal
<1> QED
  BY <1>3, <1>4, <1>5, MoneyFrame

LEMMA FinalHandleMoney ==
  ASSUME Inv, MoneyInv, NEW p \in Procs, FinalHandle(p)
  PROVE  MoneyInv'
<1>1. /\ UNCHANGED <<run, attempt, final, usage>> /\ handled'
      /\ Terminal /\ (final.reverse => usage # "CHARGED")
      /\ Goto(p, "settle")
  BY DEF FinalHandle, At, MoneyInv, SettlingOK, runners, db
<1>2. /\ proc'[p].pc = "settle"
      /\ \A q \in Procs \ {p} : proc'[q] = proc[q]
  BY <1>1, GotoType DEF Inv, Labels
<1>3. MoneyOK' /\ VerdictOK' /\ MoneyEffect
  BY <1>1 DEF MoneyInv, MoneyOK, VerdictOK, MoneyEffect, Settled, Terminal
<1>4. SettlingOK(p)'
  BY <1>1, <1>2 DEF SettlingOK, Terminal
<1> QED
  BY <1>2, <1>3, <1>4, MoneyFrame

LEMMA FinalSettleMoney ==
  ASSUME Inv, MoneyInv, NEW p \in Procs, FinalSettle(p)
  PROVE  MoneyInv'
<1>1. /\ UNCHANGED <<run, attempt, usage, handled>>
      /\ Terminal /\ Settled
      /\ final' = [final EXCEPT !.status = "COMPLETED"]
      /\ Goto(p, "complete") \/ Return(p)
  BY DEF FinalSettle, At, MoneyInv, SettlingOK, runners, Settled
<1>2. /\ final'.status = "COMPLETED" /\ final'.reverse = final.reverse
      /\ final'.handle = final.handle
  BY <1>1 DEF Inv, TypeOK
<1>3. MoneyOK' /\ VerdictOK' /\ MoneyEffect
  BY <1>1, <1>2 DEF MoneyInv, MoneyOK, VerdictOK, MoneyEffect, Settled, Terminal
<1>4. SettlingOK(p)' /\ \A q \in Procs \ {p} : proc'[q] = proc[q]
  <2>1. CASE Return(p)
    BY <2>1, CallLands
  <2>2. CASE Goto(p, "complete")
    BY <2>2, GotoType, LandsQuiet DEF Inv, Labels
  <2> QED
    BY <1>1, <2>1, <2>2
<1> QED
  BY <1>3, <1>4, MoneyFrame

(* The charge, the verdict and the side effects of a run, inductively. *)
LEMMA MoneyInit == Init => MoneyInv
<1> SUFFICES ASSUME Init PROVE MoneyInv
  OBVIOUS
<1>1. /\ run.status = "QUEUED" /\ ~run.started /\ run.billable
      /\ final.status = "NONE" /\ ~final.reverse
      /\ usage = "NONE"
      /\ \A q \in Procs : proc[q].pc = "idle"
  BY DEF Init, Idle
<1> QED
  BY <1>1 DEF MoneyInv, MoneyOK, VerdictOK, SettlingOK, Terminal,
              Final, Verdicts, Functional

LEMMA MoneyNext == Inv /\ MoneyInv /\ [Next]_vars => MoneyInv'
<1> SUFFICES ASSUME Inv, MoneyInv, [Next]_vars PROVE MoneyInv'
  OBVIOUS
<1>1. CASE UNCHANGED vars \/ DeleteTest
  <2>1. UNCHANGED <<run, attempt, final, usage, handled, proc>>
    BY <1>1 DEF vars, DeleteTest, db, runners
  <2>2. MoneyOK' /\ VerdictOK' /\ MoneyEffect
    BY <2>1 DEF MoneyInv, MoneyOK, VerdictOK, MoneyEffect, Settled, Terminal
  <2>3. \A q \in Procs : SettlingOK(q)'
    BY <2>1, <2>2, SettlingKeeps DEF MoneyInv
  <2> QED
    BY <2>2, <2>3 DEF MoneyInv
<1>2. ASSUME NEW p \in Requests, Request(p)
      PROVE  MoneyInv'
  <2>1. p \in Procs
    BY DEF Procs
  <2> QED
    BY <1>2, <2>1, ClaimMoney, ReportMoney, StartReadMoney DEF Request
<1>3. ASSUME NEW p \in Crons, Cron(p)
      PROVE  MoneyInv'
  <2>1. p \in Procs
    BY DEF Procs
  <2> QED
    BY <1>3, <2>1, ReportMoney DEF Cron
<1>4. ASSUME NEW p \in Procs, Step(p) \/ Crash(p)
      PROVE  MoneyInv'
  BY <1>4, ClaimMoney, ReportMoney, ClaimCasMoney, StartRunMoney,
     FinishRecordMoney, CancelRecordMoney, CancelRunMoney,
     ApplyRetryMoney, ApplyInfraMoney, ApplyFinalizeMoney,
     FinalReadMoney, FinalReverseMoney, FinalHandleMoney, FinalSettleMoney
     DEF Step
<1> QED
  BY <1>1, <1>2, <1>3, <1>4 DEF Next

LEMMA MoneyInvariance == Spec => []MoneyInv
BY MoneyInit, MoneyNext, Invariance, PTL DEF Spec

(* A run is charged exactly when it first starts; the charge is taken back *)
(* only from, and always from, a run that ends as not billable; no verdict *)
(* loses its charge, and a billable system error has one.                  *)
THEOREM BillingCorrect == Spec => []Billing
<1>1. Inv /\ MoneyInv => Billing
  <2> SUFFICES ASSUME Inv, MoneyInv PROVE Billing
    OBVIOUS
  <2>1. usage \in {"NONE", "CHARGED", "REVERSED"}
    BY DEF Inv, TypeOK
  <2>2. /\ run.status \in Verdicts => ~final.reverse
        /\ run.status = "SYSTEM_ERROR" /\ ~final.reverse => run.started
    BY DEF MoneyInv, VerdictOK
  <2> QED
    BY <2>1, <2>2 DEF MoneyInv, MoneyOK, Settled, Billing
<1> QED
  BY <1>1, Invariance, MoneyInvariance, PTL

(* A settled run had its side effects, unless a deletion cancelled it.     *)
THEOREM SettledMeansHandled == Spec => []SettledHandled
<1>1. MoneyInv => SettledHandled
  <2> SUFFICES ASSUME MoneyInv, final.status = "COMPLETED"
               PROVE  handled \/ ~final.handle
    BY DEF SettledHandled
  <2> QED
    BY DEF MoneyInv, MoneyOK, Settled
<1> QED
  BY <1>1, MoneyInvariance, PTL

(* No stale decision becomes the verdict of a run: it is the outcome of    *)
(* one of its attempts.                                                    *)
THEOREM VerdictIsRecorded == Spec => []VerdictRecorded
<1>1. Inv /\ MoneyInv => VerdictRecorded
  <2> SUFFICES ASSUME Inv, MoneyInv PROVE VerdictRecorded
    OBVIOUS
  <2>1. Terminal <=> final.status # "NONE"
    BY DEF MoneyInv, MoneyOK
  <2>2. run.status \in Verdicts => \E i \in Rows : attempt[i].status = run.status
    BY DEF MoneyInv, VerdictOK, Rows, Verdicts, Functional
  <2>3. ASSUME NEW i \in Rows, attempt[i].status = "PASSED"
        PROVE  i = Last
    <3>1. Rows = 0..Last /\ Last \in Nat
      BY RowsCount DEF Inv
    <3>2. i \in Index /\ ~(i < Last)
      BY <2>3 DEF Inv, RowsOK, Rows, Functional
    <3> QED
      BY <3>1, <3>2
  <2> QED
    BY <2>1, <2>2, <2>3 DEF VerdictRecorded
<1> QED
  BY <1>1, Invariance, MoneyInvariance, PTL

-----------------------------------------------------------------------------
(* Finality of outcomes.                                                   *)

(* What a step may do to the outcomes that are on record. *)
Finality ==
  /\ Terminal => run' = run
  /\ \A i \in Rows :
       attempt[i].status \in Final =>
         \/ attempt'[i] = attempt[i]
         \/ /\ attempt[i].status = "SYSTEM_ERROR"
            /\ attempt'[i].gen > attempt[i].gen

LEMMA StepFinality == Inv /\ [Next]_vars => Finality
<1> SUFFICES ASSUME Inv, [Next]_vars PROVE Finality
  OBVIOUS
<1>1. /\ attempt \in [Index -> Fields]
      /\ \A i \in Rows : i \in Index
      /\ \A st \in Final : st \notin Open /\ st # "NONE"
  BY DEF Inv, TypeOK, Fields, Rows, Final, Open, Verdicts, Functional
<1>2. CASE UNCHANGED <<run, attempt>>
  BY <1>2 DEF Finality
<1>3. ASSUME NEW p \in Procs, ClaimCas(p) \/ StartRun(p)
      PROVE  Finality
  <2>1. \/ UNCHANGED <<run, attempt>>
        \/ /\ ~Terminal
           /\ attempt[proc[p].idx].status \in Open
           /\ \A j \in Index \ {proc[p].idx} : attempt'[j] = attempt[j]
    <3>1. proc[p].idx \in Index
      BY KeyType DEF Inv
    <3>2. CASE ClaimCas(p)
      <4>1. CASE UNCHANGED <<run, attempt>>
        BY <4>1
      <4>2. CASE /\ attempt[proc[p].idx].status = "QUEUED"
                 /\ attempt' = [attempt EXCEPT ![proc[p].idx].status = "STARTING",
                                               ![proc[p].idx].owner = proc[p].dlv]
        <5>1. attempt[proc[p].idx].status \in Open
          BY <4>2 DEF Open
        <5>2. ~Terminal
          BY <3>1, <5>1, OpenIsLast
        <5> QED
          BY <1>1, <3>1, <4>2, <5>1, <5>2
      <4> QED
        BY <3>2, <4>1, <4>2 DEF ClaimCas
    <3>3. CASE StartRun(p)
      BY <1>1, <3>1, <3>3 DEF StartRun, Open
    <3> QED
      BY <1>3, <3>2, <3>3
  <2> QED
    BY <1>1, <2>1 DEF Finality
<1>4. ASSUME NEW p \in Procs, FinishRecord(p) \/ CancelRecord(p)
      PROVE  Finality
  <2>1. PICK st, cancelled :
          RecordCompletion(proc[p].idx, Key(p), st, cancelled) /\ run' = run
    BY <1>4 DEF FinishRecord, CancelRecord
  <2>2. CASE UNCHANGED attempt
    BY <2>1, <2>2 DEF Finality
  <2>3. CASE /\ attempt[proc[p].idx].status \in Open
             /\ attempt' = [attempt EXCEPT ![proc[p].idx].status = st,
                                           ![proc[p].idx].cancelled = cancelled]
    <3>1. \A j \in Index \ {proc[p].idx} : attempt'[j] = attempt[j]
      BY <1>1, <2>3
    <3> QED
      BY <1>1, <2>1, <2>3, <3>1 DEF Finality
  <2> QED
    BY <2>1, <2>2, <2>3 DEF RecordCompletion
<1>5. ASSUME NEW p \in Procs, CancelRun(p) \/ ApplyFinalize(p)
      PROVE  Finality
  <2>1. attempt' = attempt /\ (conts[Key(p)] = "PENDING" \/ run' = run)
    BY <1>5 DEF CancelRun, ApplyFinalize, FinalizeRun
  <2>2. conts[Key(p)] = "PENDING" => ~Terminal
    BY KeyType DEF Inv, JobsOK, Keys
  <2> QED
    BY <2>1, <2>2 DEF Finality
<1>6. ASSUME NEW p \in Procs, ApplyRetry(p) \/ ApplyInfra(p)
      PROVE  Finality
  <2>1. CASE conts[Key(p)] # "PENDING"
    BY <1>2, <1>6, <2>1 DEF ApplyRetry, ApplyInfra
  <2>2. CASE conts[Key(p)] = "PENDING"
    <3>1. ~Terminal
      BY <2>2, KeyType DEF Inv, JobsOK, Keys
    <3>2. CASE ApplyRetry(p)
      <4>1. CASE attempt' = attempt
        BY <3>1, <4>1 DEF Finality
      <4>2. CASE /\ attempt[proc[p].idx + 1].status = "NONE"
                 /\ attempt' = [attempt EXCEPT
                                  ![proc[p].idx + 1].status = "QUEUED",
                                  ![proc[p].idx + 1].gen = run.infra]
        <5>1. \A j \in Index \ {proc[p].idx + 1} : attempt'[j] = attempt[j]
          BY <1>1, <4>2
        <5> QED
          BY <1>1, <3>1, <4>2, <5>1 DEF Finality
      <4> QED
        BY <2>2, <3>2, <4>1, <4>2 DEF ApplyRetry
    <3>3. CASE ApplyInfra(p)
      <4> DEFINE i == proc[p].idx
      <4>1. i \in Index
        BY KeyType DEF Inv
      <4>2. attempt[i].status = "SYSTEM_ERROR"
        BY <2>2, <3>3 DEF ApplyInfra, At, Inv, ProcOK, Decided, Justified
      <4>3. attempt' = [attempt EXCEPT ![i].status = "QUEUED",
                                       ![i].gen = run.infra + 1,
                                       ![i].cancelled = FALSE]
        BY <2>2, <3>3 DEF ApplyInfra
      <4>4. /\ attempt'[i].gen = run.infra + 1
            /\ \A j \in Index \ {i} : attempt'[j] = attempt[j]
        BY <1>1, <4>1, <4>3 DEF Fields
      <4>5. attempt'[i].gen > attempt[i].gen
        BY <4>1, <4>4 DEF Inv, TypeOK, GensOK, Infra
      <4> QED
        BY <1>1, <3>1, <4>2, <4>4, <4>5 DEF Finality
    <3> QED
      BY <1>6, <3>2, <3>3
  <2> QED
    BY <2>1, <2>2
<1>7. CASE UNCHANGED vars \/ DeleteTest
  BY <1>2, <1>7 DEF vars, DeleteTest, db
<1>8. ASSUME NEW p \in Requests, Request(p)
      PROVE  Finality
  BY <1>2, <1>8
     DEF Request, ClaimRead, RefuseConsent, StartRead, CompleteRead, db
<1>9. ASSUME NEW p \in Crons, Cron(p)
      PROVE  Finality
  BY <1>2, <1>9 DEF Cron, ResumeJob, Sweep, db
<1>10. ASSUME NEW p \in Procs, Step(p) \/ Crash(p)
       PROVE  Finality
  <2>1. \/ UNCHANGED <<run, attempt>>
        \/ ClaimCas(p) \/ StartRun(p)
        \/ FinishRecord(p) \/ CancelRecord(p)
        \/ CancelRun(p) \/ ApplyFinalize(p)
        \/ ApplyRetry(p) \/ ApplyInfra(p)
    BY <1>10
       DEF Step, Crash, ClaimJob, ClaimTarget, FinishRead, FinishJob, CancelJob,
           ContinueRead, FinalRead, FinalReverse, FinalHandle, FinalSettle,
           FinalComplete, db
  <2> QED
    BY <1>2, <1>3, <1>4, <1>5, <1>6, <2>1
<1> QED
  BY <1>7, <1>8, <1>9, <1>10 DEF Next

(* A verdict is final, and so is the outcome of an attempt unless that     *)
(* attempt aborted and is queued again under a later generation.           *)
THEOREM VerdictIsFinal == Spec => VerdictsAreFinal
<1>1. Inv /\ [Next]_vars
      => [/\ Terminal => run' = run
          /\ \A i \in Rows :
               attempt[i].status \in Final =>
                 \/ attempt'[i] = attempt[i]
                 \/ /\ attempt[i].status = "SYSTEM_ERROR"
                    /\ attempt'[i].gen > attempt[i].gen]_vars
  BY StepFinality DEF Finality
<1> QED
  BY <1>1, Invariance, PTL DEF Spec, VerdictsAreFinal

-----------------------------------------------------------------------------
(* Outcomes and generations.                                               *)

(* A handler that is about to record an outcome for generation gen read    *)
(* infraAttempts, its job key, when that generation was the latest.        *)
Matched(q) ==
  \/ proc[q].pc = "record"
  \/ proc[q].pc = "finishJob" /\ proc[q].open
  => proc[q].gen = proc[q].infra

MatchedInv == \A q \in Procs : Matched(q)

(* A step of p that cannot make it record. *)
Elsewhere(p) ==
  /\ \A q \in Procs \ {p} : proc'[q] = proc[q]
  /\ proc'[p].pc \notin {"record", "finishJob"}

LEMMA PcAfter ==
  ASSUME Inv, NEW p \in Procs,
         \/ Return(p)
         \/ Call(p, Finalizing)
         \/ \E k : Call(p, Continuing(k))
         \/ \E i, g, outcome, why : Call(p, Finishing(i, g, outcome, why))
         \/ \E label \in Labels \ {"record", "finishJob"} : Goto(p, label)
  PROVE  Elsewhere(p)
<1>1. proc \in [Procs -> Local]
  BY DEF Inv, TypeOK
<1>2. ASSUME NEW l, Call(p, l), l.pc \notin {"record", "finishJob"}
      PROVE  Elsewhere(p)
  BY <1>1, <1>2 DEF Call, Elsewhere
<1>3. ASSUME NEW label \in Labels \ {"record", "finishJob"}, Goto(p, label)
      PROVE  Elsewhere(p)
  BY <1>3, GotoType DEF Inv, Elsewhere
<1>4. Idle.pc = "idle" /\ Finalizing.pc = "final"
  BY CalleePcs
<1>5. \A k : Continuing(k).pc = "continue"
  BY DEF Continuing, Idle
<1>6. \A i, g, outcome, why : Finishing(i, g, outcome, why).pc = "finish"
  BY DEF Finishing, Idle
<1>7. CASE Return(p) \/ Call(p, Finalizing)
  BY <1>2, <1>4, <1>7 DEF Return, Call
<1>8. ASSUME NEW k, Call(p, Continuing(k))
      PROVE  Elsewhere(p)
  BY <1>2, <1>5, <1>8
<1>9. ASSUME NEW i, NEW g, NEW outcome, NEW why,
             Call(p, Finishing(i, g, outcome, why))
      PROVE  Elsewhere(p)
  BY <1>2, <1>6, <1>9
<1> QED
  BY <1>3, <1>7, <1>8, <1>9

(* Requests and maintenance never start at the record. *)
LEMMA EntryElsewhere ==
  ASSUME Inv, NEW p \in Procs, Request(p) \/ Cron(p)
  PROVE  Elsewhere(p)
<1>1. proc \in [Procs -> Local]
  BY DEF Inv, TypeOK
<1>2. ASSUME NEW d \in Deliveries, NEW i \in Index, NEW g \in Infra,
             ClaimRead(p, d, i, g)
      PROVE  Elsewhere(p)
  <2> DEFINE l == [Idle EXCEPT !.idx = i, !.gen = g, !.dlv = d,
                               !.st = attempt[i].status,
                               !.infra = run.infra, !.pc = "claimJob"]
  <2>1. CASE Call(p, Finalizing)
    BY <2>1, PcAfter
  <2>2. CASE ~Call(p, Finalizing)
    <3>1. Call(p, l)
      BY <1>2, <2>2, IdleType DEF ClaimRead, Local
    <3>2. l.pc = "claimJob"
      BY IdleType DEF Local
    <3> HIDE DEF l
    <3> QED
      BY <1>1, <3>1, <3>2 DEF Call, Elsewhere
  <2> QED
    BY <2>1, <2>2
<1>3. ASSUME NEW lease \in leases, StartRead(p, lease)
      PROVE  Elsewhere(p)
  <2> DEFINE l == [Idle EXCEPT !.pc = "start", !.idx = lease.idx,
                               !.gen = lease.gen, !.dlv = lease.dlv]
  <2>1. Call(p, l)
    BY <1>3 DEF StartRead
  <2>2. l.pc = "start"
    BY IdleType DEF Local
  <2> HIDE DEF l
  <2> QED
    BY <1>1, <2>1, <2>2 DEF Call, Elsewhere
<1>4. CASE \/ \E i \in Index, g \in Infra : RefuseConsent(p, i, g)
           \/ \E lease \in leases, outcome \in Outcomes :
                CompleteRead(p, lease, outcome)
           \/ ResumeJob(p) \/ Sweep(p)
  BY <1>4, PcAfter DEF RefuseConsent, CompleteRead, ResumeJob, Sweep
<1> QED
  BY <1>2, <1>3, <1>4 DEF Request, Cron

LEMMA StepElsewhere ==
  ASSUME Inv, NEW p \in Procs, Step(p) \/ Crash(p), ~FinishRead(p), ~FinishJob(p)
  PROVE  Elsewhere(p)
<1>1. proc \in [Procs -> Local] /\ proc[p] \in Local
  BY DEF Inv, TypeOK
<1>2. CASE ClaimTarget(p)
  <2>1. CASE proc' = [proc EXCEPT ![p].pc = "claimCas",
                                  ![p].infra = attempt[proc[p].idx].gen]
    BY <1>1, <2>1 DEF Elsewhere, Local
  <2>2. CASE Goto(p, "cancelJob")
    BY <2>2, PcAfter DEF Labels
  <2> QED
    BY <1>2, <2>1, <2>2, PcAfter DEF ClaimTarget
<1>3. CASE ContinueRead(p)
  <2>1. CASE proc' = [proc EXCEPT ![p].pc = "final", ![p].back = TRUE]
    BY <1>1, <2>1 DEF Elsewhere, Local
  <2>2. CASE proc' = [proc EXCEPT ![p].pc = "apply",
                                  ![p].act = NextAction(proc[p].idx)]
    BY <1>1, <2>2 DEF Elsewhere, Local
  <2> QED
    BY <1>3, <2>1, <2>2, PcAfter DEF ContinueRead
<1>4. CASE ClaimJob(p) \/ ClaimCas(p) \/ StartRun(p) \/ FinishRecord(p)
           \/ ApplyRetry(p) \/ ApplyInfra(p) \/ FinalComplete(p) \/ Crash(p)
           \/ CancelRun(p) \/ ApplyFinalize(p)
  BY <1>4, PcAfter
     DEF ClaimJob, ClaimCas, StartRun, FinishRecord, ApplyRetry, ApplyInfra,
         FinalComplete, Crash, CancelRun, ApplyFinalize, Labels
<1>5. CASE CancelJob(p) \/ CancelRecord(p)
  <2>1. conts[Key(p)] \in {"NONE", "PENDING", "COMPLETED"}
        /\ conts \in [Keys -> {"NONE", "PENDING", "COMPLETED"}]
        /\ Key(p) \in Keys
    BY KeyType DEF Inv, TypeOK, Keys
  <2>2. conts'[Key(p)] \in {"NONE", "PENDING", "COMPLETED"}
    BY <1>5, <2>1 DEF CancelJob, CancelRecord, RecordCompletion, db
  <2>3. \/ Return(p) \/ Call(p, Finalizing)
        \/ Goto(p, "cancelRecord") \/ Goto(p, "cancelRun")
    BY <1>5, <2>1, <2>2 DEF CancelJob, CancelRecord
  <2> QED
    BY <2>3, PcAfter DEF Labels
<1>6. CASE FinalRead(p) \/ FinalReverse(p) \/ FinalHandle(p) \/ FinalSettle(p)
  <2>1. Return(p) \/ \E label \in {"reverse", "handle", "settle", "complete"} :
                       Goto(p, label)
    BY <1>6 DEF FinalRead, FinalReverse, FinalHandle, FinalSettle
  <2> QED
    BY <2>1, PcAfter DEF Labels
<1> QED
  BY <1>2, <1>3, <1>4, <1>5, <1>6 DEF Step

LEMMA MatchedElsewhere ==
  ASSUME Inv, \A q \in Procs : Matched(q), NEW p \in Procs, Elsewhere(p)
  PROVE  \A q \in Procs : Matched(q)'
BY DEF Elsewhere, Matched

(* The generation read with a still open attempt is the latest one. *)
LEMMA FinishMatched ==
  ASSUME Inv, \A q \in Procs : Matched(q), NEW p \in Procs,
         FinishRead(p) \/ FinishJob(p)
  PROVE  \A q \in Procs : Matched(q)'
<1>1. proc \in [Procs -> Local] /\ proc[p] \in Local /\ proc[p].idx \in Index
  BY KeyType DEF Inv, TypeOK
<1>2. CASE Elsewhere(p)
  BY <1>2, MatchedElsewhere
<1>3. CASE /\ attempt[proc[p].idx].gen = proc[p].gen
           /\ proc' = [proc EXCEPT ![p].pc = "finishJob",
                                   ![p].infra = run.infra,
                                   ![p].open = attempt[proc[p].idx].status \in Open]
  <2> DEFINE o == attempt[proc[p].idx].status \in Open
  <2>1. proc' = [proc EXCEPT ![p].pc = "finishJob",
                             ![p].infra = run.infra,
                             ![p].open = o]
    BY <1>3
  <2>2. o => proc[p].gen = run.infra
    BY <1>1, <1>3, OpenIsLast DEF Inv, GensOK
  <2> HIDE DEF o
  <2>3. /\ proc'[p].pc = "finishJob" /\ proc'[p].open = o
        /\ proc'[p].infra = run.infra /\ proc'[p].gen = proc[p].gen
        /\ \A q \in Procs \ {p} : proc'[q] = proc[q]
    BY <1>1, <2>1 DEF Local
  <2> QED
    BY <2>2, <2>3 DEF Matched
<1>4. CASE Goto(p, "record") /\ proc[p].pc = "finishJob" /\ proc[p].open
  <2>1. /\ proc'[p].infra = proc[p].infra /\ proc'[p].gen = proc[p].gen
        /\ \A q \in Procs \ {p} : proc'[q] = proc[q]
    BY <1>4, GotoType DEF Inv, Labels, LocalsKept
  <2> QED
    BY <1>4, <2>1 DEF Matched
<1>5. CASE FinishRead(p)
  BY <1>2, <1>3, <1>5, PcAfter DEF FinishRead
<1>6. CASE FinishJob(p)
  BY <1>2, <1>4, <1>6, PcAfter DEF FinishJob, At
<1> QED
  BY <1>5, <1>6

LEMMA MatchedNext ==
  Inv /\ (\A q \in Procs : Matched(q)) /\ [Next]_vars
    => \A q \in Procs : Matched(q)'
<1> SUFFICES ASSUME Inv, \A q \in Procs : Matched(q), [Next]_vars
             PROVE  \A q \in Procs : Matched(q)'
  OBVIOUS
<1>1. CASE UNCHANGED vars \/ DeleteTest
  BY <1>1 DEF vars, DeleteTest, Matched
<1>2. ASSUME NEW p \in Procs, Request(p) \/ Cron(p)
      PROVE  \A q \in Procs : Matched(q)'
  BY <1>2, EntryElsewhere, MatchedElsewhere
<1>3. ASSUME NEW p \in Procs, Step(p) \/ Crash(p)
      PROVE  \A q \in Procs : Matched(q)'
  BY <1>3, StepElsewhere, FinishMatched, MatchedElsewhere
<1> QED
  BY <1>1, <1>2, <1>3 DEF Next, Procs

(* Whoever records an outcome, the attempt is still of the generation the  *)
(* outcome was produced for.                                               *)
Recorded ==
  \A p \in Procs :
    At(p, "record") /\ ~At(p, "record")' /\ attempt' # attempt
      => attempt[proc[p].idx].gen = proc[p].gen

LEMMA StepRecorded ==
  Inv /\ (\A q \in Procs : Matched(q)) /\ [Next]_vars => Recorded
<1> SUFFICES ASSUME Inv, \A q \in Procs : Matched(q), [Next]_vars,
                    NEW p \in Procs, At(p, "record"), ~At(p, "record")',
                    attempt' # attempt
             PROVE  attempt[proc[p].idx].gen = proc[p].gen
  BY DEF Recorded
<1>1. proc'[p] # proc[p] /\ proc[p].pc = "record"
  BY DEF At
<1>2. ASSUME NEW q \in Procs, q # p, Elsewhere(q) \/ FinishRead(q) \/ FinishJob(q)
      PROVE  FALSE
  <2>1. CASE Elsewhere(q)
    BY <1>1, <1>2, <2>1 DEF Elsewhere
  <2>2. CASE FinishRead(q) \/ FinishJob(q)
    BY <2>2 DEF FinishRead, FinishJob, db
  <2> QED
    BY <1>2, <2>1, <2>2
<1>3. FinishRecord(p)
  <2>1. ~(UNCHANGED vars \/ DeleteTest)
    BY <1>1 DEF vars, DeleteTest
  <2>2. \E q \in Procs : Request(q) \/ Cron(q) \/ Step(q) \/ Crash(q)
    BY <2>1 DEF Next, Procs
  <2>3. Request(p) \/ Cron(p) \/ Step(p) \/ Crash(p)
    BY <1>2, <2>2, EntryElsewhere, StepElsewhere
  <2>4. ~(Request(p) \/ Cron(p) \/ Crash(p))
    BY <1>1
       DEF Request, Cron, Crash, ClaimRead, RefuseConsent, StartRead,
           CompleteRead, ResumeJob, Sweep, At, db
  <2> QED
    BY <1>1, <2>3, <2>4
       DEF Step, ClaimJob, ClaimTarget, ClaimCas, StartRun, FinishRead,
           FinishJob, CancelJob, CancelRecord, CancelRun, ContinueRead,
           ApplyRetry, ApplyInfra, ApplyFinalize, FinalRead, FinalReverse,
           FinalHandle, FinalSettle, FinalComplete, At
<1>4. attempt[proc[p].idx].status \in Open /\ conts[Key(p)] = "NONE"
  BY <1>3 DEF FinishRecord, RecordCompletion
<1>5. Key(p) = Current
  BY <1>1, <1>4 DEF Inv, ProcOK, Recording, Fresh
<1>6. /\ proc[p].idx = Last /\ proc[p].infra = run.infra
      /\ proc[p].gen = proc[p].infra
  BY <1>1, <1>5 DEF Key, Current, Matched
<1> QED
  BY <1>6 DEF Inv, GensOK

(* A late outcome of an abandoned generation never overwrites the attempt  *)
(* that has been queued again, even when it was read before the retry.     *)
THEOREM StaleOutcomesAreIgnored == Spec => StaleOutcomeIgnored
<1>1. Init => MatchedInv
  BY DEF Init, Idle, Matched, MatchedInv
<1>2. Inv /\ MatchedInv /\ [Next]_vars => MatchedInv'
  BY MatchedNext DEF MatchedInv
<1>3. Inv /\ MatchedInv /\ [Next]_vars
      => [\A p \in Procs :
            At(p, "record") /\ ~At(p, "record")' /\ attempt' # attempt
              => attempt[proc[p].idx].gen = proc[p].gen]_vars
  BY StepRecorded DEF Recorded, MatchedInv
<1> QED
  BY <1>1, <1>2, <1>3, Invariance, PTL DEF Spec, StaleOutcomeIgnored
=============================================================================
