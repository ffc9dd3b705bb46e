----------------------- MODULE AttemptLifecycleProofs -----------------------
(* The rows and the continuations of a run: an inductive invariant of      *)
(* AttemptLifecycle, and with it that the variables keep their types, that *)
(* a run is never stranded and that its attempts are counted exactly; and  *)
(* who may run an attempt: the leases that claims hand to the runners and  *)
(* the secrets that starts release, for each generation of each attempt.   *)
EXTENDS AttemptLifecycle, FiniteSetTheorems, TLAPS

(* The rows of a run: no gap, and every attempt but the last one ended in  *)
(* a functional failure.                                                   *)
RowsOK ==
  /\ run.count \in 1..(MaxRetries + 1)
  /\ \A i \in Index : attempt[i].status # "NONE" <=> i < run.count
  /\ \A i \in Index : i < Last => attempt[i].status \in Functional

(* Generations: none is in the future, the last attempt has the latest.    *)
GensOK ==
  /\ \A i \in Index : attempt[i].gen <= run.infra
  /\ attempt[Last].gen = run.infra

(* Continuations: the only one that can be pending is that of the last     *)
(* attempt and the current infraAttempts, and it is, exactly while that    *)
(* attempt is finished and the run is not.                                 *)
Current == <<Last, run.infra>>

JobsOK ==
  /\ \A i \in Index, n \in Infra :
       conts[<<i, n>>] # "NONE" => i <= Last /\ n <= run.infra
  /\ \A k \in Index \X Infra :
       conts[k] = "PENDING" =>
         k = Current /\ ~Terminal /\ attempt[Last].status \in Final
  /\ ~Terminal => \/ attempt[Last].status \in Open /\ conts[Current] = "NONE"
                  \/ attempt[Last].status \in Final /\ conts[Current] = "PENDING"
  /\ Terminal => attempt[Last].status \in Final

(* A handler about to create a continuation: either its key is taken, or   *)
(* what it read is still the current attempt.                              *)
Fresh(q) ==
  \/ conts[Key(q)] # "NONE"
  \/ Key(q) = Current /\ ~Terminal

(* The verdict an attempt's outcome leads to when no retry is left.        *)
Closing(i) ==
  \/ attempt[i].status = "PASSED"
  \/ attempt[i].status \in Functional /\ i = MaxRetries
  \/ attempt[i].status = "SYSTEM_ERROR" /\ run.infra = MaxInfraRetries

Word(i) == IF attempt[i].status = "SYSTEM_ERROR" /\ i > 0
           THEN attempt[i - 1].status
           ELSE attempt[i].status

(* A decision about attempt i that the run's present state justifies.      *)
Justified(i, act) ==
  /\ act.count = run.count
  /\ act.kind = "retry" => /\ i < MaxRetries
                           /\ attempt[i].status \in Functional
  /\ act.kind = "infra" => /\ run.infra < MaxInfraRetries
                           /\ attempt[i].status = "SYSTEM_ERROR"
  /\ act.kind = "finalize" =>
       /\ Closing(i)
       /\ act.status = Word(i)
       /\ act.status \in Final
       /\ act.status \in Verdicts =>
            ~act.reverse /\ \E j \in Index : attempt[j].status = act.status
       /\ act.status = "SYSTEM_ERROR" => act.reverse = ~run.started

Decided(q) == Justified(proc[q].idx, proc[q].act)

Recording(q) ==
  \/ proc[q].pc \in {"record", "cancelJob", "cancelRecord"}
  \/ proc[q].pc = "finishJob" /\ proc[q].open
  \/ proc[q].pc \in {"claimJob", "claimTarget"} /\ proc[q].st = "QUEUED"

SettlingLabels == {"final", "reverse", "handle", "settle", "complete"}
RunnerLabels == {"claimJob", "claimTarget", "claimCas", "start"}

Reporting(q) == proc[q].pc \in {"finish", "finishJob", "record"}

ProcOK(q) ==
  /\ Reporting(q) => proc[q].st \in Final
  /\ Recording(q) => Fresh(q)
  /\ proc[q].pc \in {"continue", "apply"} => conts[Key(q)] # "NONE"
  /\ proc[q].pc = "apply" /\ conts[Key(q)] = "PENDING" => Decided(q)
  /\ proc[q].pc = "complete" => proc[q].back
  /\ proc[q].back => /\ proc[q].pc \in SettlingLabels
                     /\ Terminal
                     /\ conts[Key(q)] # "NONE"
  /\ proc[q].pc \in RunnerLabels => proc[q].dlv \in Deliveries

Inv == TypeOK /\ RowsOK /\ GensOK /\ JobsOK /\ \A q \in Procs : ProcOK(q)

-----------------------------------------------------------------------------
(* An invocation's next local state is well typed if the one it moves to is. *)
LEMMA CallType ==
  ASSUME TypeOK, NEW p \in Procs, NEW locals \in Local, Call(p, locals)
  PROVE  /\ proc' \in [Procs -> Local]
         /\ proc'[p] = locals
         /\ \A q \in Procs \ {p} : proc'[q] = proc[q]
BY DEF TypeOK, Call

(* The locals of p, but for its label, are as before. *)
LocalsKept(p) ==
  /\ proc'[p].idx = proc[p].idx
  /\ proc'[p].gen = proc[p].gen
  /\ proc'[p].dlv = proc[p].dlv
  /\ proc'[p].st = proc[p].st
  /\ proc'[p].why = proc[p].why
  /\ proc'[p].infra = proc[p].infra
  /\ proc'[p].open = proc[p].open
  /\ proc'[p].act = proc[p].act
  /\ proc'[p].back = proc[p].back

LEMMA GotoType ==
  ASSUME TypeOK, NEW p \in Procs, NEW label \in Labels, Goto(p, label)
  PROVE  /\ proc' \in [Procs -> Local]
         /\ proc'[p].pc = label
         /\ LocalsKept(p)
         /\ \A q \in Procs \ {p} : proc'[q] = proc[q]
<1>1. proc \in [Procs -> Local]
  BY DEF TypeOK
<1>2. proc[p] \in Local
  BY <1>1
<1>3. [proc[p] EXCEPT !.pc = label] \in Local
  BY <1>2 DEF Local
<1>4. proc'[p] = [proc[p] EXCEPT !.pc = label]
  BY <1>1, <1>2 DEF Goto, Local
<1> QED
  BY <1>1, <1>2, <1>3, <1>4 DEF Goto, Local, LocalsKept

LEMMA IdleType == Idle \in Local /\ Finalizing \in Local
<1>1. NoAct \in Act /\ 0 \in Index /\ 0 \in Infra
  BY RetriesAssumption DEF Index, Infra, Act, NoAct
<1>2. Idle \in Local
  BY <1>1 DEF Idle, Local, Labels
<1>3. Finalizing \in Local
  BY <1>2 DEF Finalizing, Local, Labels
<1> QED
  BY <1>2, <1>3

LEMMA FinishingType ==
  ASSUME NEW i \in Index, NEW g \in Infra, NEW st \in Final,
         NEW why \in {"NONE", "OUTCOME", "LOST", "UNCLAIMED", "NO_CONSENT"}
  PROVE  Finishing(i, g, st, why) \in Local
BY IdleType DEF Finishing, Local, Labels

LEMMA ContinuingType ==
  ASSUME NEW key \in Index \X Infra
  PROVE  Continuing(key) \in Local
BY IdleType DEF Continuing, Local, Labels

-----------------------------------------------------------------------------
(* What a step of one invocation leaves to the others.                     *)

Fields == [status    : {"NONE"} \cup Open \cup Final,
           gen       : Infra,
           owner     : Deliveries \cup {NoDelivery},
           cancelled : BOOLEAN]

Keys == Index \X Infra

Effect ==
  /\ \A k \in Keys : conts[k] # "NONE" => conts'[k] # "NONE"
  /\ \A k \in Keys : conts[k] # "NONE" /\ conts'[k] = "PENDING" =>
       conts[k] = "PENDING" /\ run' = run /\ attempt' = attempt
  /\ Terminal => Terminal'
  /\ ~Terminal => \/ conts'[Current] # "NONE"
                  \/ ~Terminal' /\ Current' = Current

(* The facts about an invocation survive the steps of the others.          *)
LEMMA OthersKeep ==
  ASSUME TypeOK, Effect, NEW q \in Procs, ProcOK(q), proc'[q] = proc[q]
  PROVE  ProcOK(q)'
<1>1. proc[q] \in Local
  BY DEF TypeOK
<1>2. Key(q) \in Keys /\ Key(q)' = Key(q)
  BY <1>1 DEF Key, Keys, Local
<1>3. Fresh(q) => Fresh(q)'
  BY <1>2 DEF Effect, Fresh
<1>4. /\ Recording(q)' <=> Recording(q)
      /\ Reporting(q)' <=> Reporting(q)
  BY DEF Recording, Reporting
<1>5. ASSUME Decided(q), run' = run, attempt' = attempt
      PROVE  Decided(q)'
  BY <1>5 DEF Decided, Justified, Closing, Word
<1>6. conts[Key(q)] # "NONE" => conts'[Key(q)] # "NONE"
  BY <1>2 DEF Effect
<1>7. /\ proc[q].pc = "apply"
      /\ conts'[Key(q)] = "PENDING"
      => Decided(q)'
  BY <1>2, <1>5 DEF Effect, ProcOK
<1> QED
  BY <1>2, <1>3, <1>4, <1>6, <1>7 DEF ProcOK, Effect

(* A step that leaves the rows and the continuations alone has to keep     *)
(* only what concerns its own invocation.                                  *)
LEMMA ReadFrame ==
  ASSUME Inv, NEW p \in Procs, TypeOK', UNCHANGED <<run, attempt, conts>>,
         \A q \in Procs \ {p} : proc'[q] = proc[q],
         ProcOK(p)'
  PROVE  Inv'
<1>1. Effect
  BY DEF Effect, Terminal, Current, Last
<1>2. RowsOK' /\ GensOK' /\ JobsOK'
  BY DEF Inv, RowsOK, GensOK, JobsOK, Terminal, Current, Last
<1>3. \A q \in Procs : ProcOK(q)'
  BY <1>1, OthersKeep DEF Inv
<1> QED
  BY <1>2, <1>3 DEF Inv

-----------------------------------------------------------------------------
(* The operators the model decides with.                                   *)

(* attempt_count is the number of rows, and Last is a row.                 *)
LEMMA RowsCount ==
  ASSUME TypeOK, RowsOK
  PROVE  /\ Rows = 0..Last
         /\ Cardinality(Rows) = run.count
         /\ Last \in Index
         /\ Last \in Nat
         /\ run.count = Last + 1
         /\ run.infra \in Infra
<1>1. /\ run.count \in 1..(MaxRetries + 1)
      /\ Last = run.count - 1
      /\ run.infra \in Infra
  BY DEF RowsOK, Last, TypeOK
<1>2. Rows = 0..Last
  BY <1>1, RetriesAssumption DEF Rows, RowsOK, Index
<1>3. Cardinality(0..Last) = run.count
  <2>1. 0 \in Int /\ Last \in Int /\ ~(0 > Last) /\ Last - 0 + 1 = run.count
    BY <1>1, RetriesAssumption
  <2>2. Cardinality(0..Last) = IF 0 > Last THEN 0 ELSE Last - 0 + 1
    BY <2>1, FS_Interval
  <2> QED
    BY <2>1, <2>2
<1> QED
  BY <1>1, <1>2, <1>3, RetriesAssumption DEF Index

(* A system error only ends an attempt that every earlier one failed       *)
(* functionally: the latest of these is the one before the last.           *)
LEMMA LatestFunctionalIs ==
  ASSUME TypeOK, RowsOK, NEW i \in Index, i \in Rows,
         attempt[i].status = "SYSTEM_ERROR", PriorFunctional(i) # {}
  PROVE  /\ i = Last
         /\ i - 1 \in Index
         /\ LatestFunctional(i) = attempt[i - 1].status
         /\ attempt[i - 1].status \in Functional
<1>1. Rows = 0..Last /\ Last \in Index /\ Last \in Nat
  BY RowsCount
<1>2. i = Last
  BY <1>1, RetriesAssumption DEF RowsOK, Functional, Index
<1>3. PriorFunctional(i) = 0..(i - 1)
  BY <1>1, <1>2, RetriesAssumption
     DEF PriorFunctional, RowsOK, Functional, Index
<1>4. i - 1 \in 0..(i - 1)
  BY <1>1, <1>2, <1>3
<1>5. \A j \in 0..(i - 1) :
        (\A k \in 0..(i - 1) : k <= j) => j = i - 1
  BY <1>4, <1>1, <1>2
<1>6. (CHOOSE j \in PriorFunctional(i) :
         \A k \in PriorFunctional(i) : k <= j) = i - 1
  BY <1>1, <1>2, <1>3, <1>4, <1>5
<1>7. i - 1 \in Index /\ attempt[i - 1].status \in Functional
  BY <1>1, <1>2, <1>3, <1>4, RetriesAssumption DEF Index, PriorFunctional
<1> QED
  BY <1>2, <1>6, <1>7 DEF LatestFunctional

(* What decideAfterAttempt decides about a finished attempt: a retry while *)
(* retries are left, and else a verdict that an attempt has earned.        *)
LEMMA NextActionIs ==
  ASSUME TypeOK, RowsOK, NEW i \in Index, attempt[i].status \in Final
  PROVE  /\ NextAction(i) \in Act
         /\ NextAction(i).kind \in {"retry", "infra", "finalize"}
         /\ Justified(i, NextAction(i))
<1> DEFINE Good(act) == /\ act \in Act
                       /\ act.kind \in {"retry", "infra", "finalize"}
                       /\ Justified(i, act)
<1>1. /\ run.count \in 0..(MaxRetries + 1)
      /\ run.started \in BOOLEAN
      /\ run.infra \in 0..MaxInfraRetries
      /\ Cardinality(Rows) = run.count
      /\ i \in 0..MaxRetries
  BY RowsCount DEF TypeOK, RowsOK, Infra, Index
<1>2. ASSUME NEW st \in Verdicts, NEW j \in Index, attempt[j].status = st,
             Closing(i), Word(i) = st
      PROVE  Good(Finalize(st, FALSE))
  BY <1>1, <1>2 DEF Finalize, Act, Justified, Final, Verdicts, Functional
<1>3. Closing(i) /\ Word(i) = "SYSTEM_ERROR"
      => Good(Finalize("SYSTEM_ERROR", ~run.started))
  BY <1>1 DEF Finalize, Act, Justified, Final, Verdicts, Functional
<1>4. i < MaxRetries /\ attempt[i].status \in Functional
      => Good(Reschedule("retry"))
  BY <1>1 DEF Reschedule, Act, Justified
<1>5. run.infra < MaxInfraRetries /\ attempt[i].status = "SYSTEM_ERROR"
      => Good(Reschedule("infra"))
  BY <1>1 DEF Reschedule, Act, Justified
<1> HIDE DEF Good
<1>6. CASE attempt[i].status = "PASSED"
  <2>1. NextAction(i) = Finalize("PASSED", FALSE)
    BY <1>6 DEF NextAction, Functional
  <2>2. Closing(i) /\ Word(i) = "PASSED"
    BY <1>6 DEF Closing, Word
  <2> QED
    BY <2>1, <2>2, <1>2, <1>6 DEF Good, Verdicts
<1>7. CASE attempt[i].status \in Functional /\ i < MaxRetries
  <2>1. /\ attempt[i].status \in Functional
        /\ attempt[i].status \notin {"PASSED", "SYSTEM_ERROR"}
        /\ i < MaxRetries /\ i # MaxRetries
    BY <1>1, <1>7, RetriesAssumption DEF Functional
  <2>2. NextAction(i) = Reschedule("retry")
    BY <2>1 DEF NextAction
  <2> QED
    BY <2>1, <2>2, <1>4 DEF Good
<1>8. CASE attempt[i].status \in Functional /\ ~(i < MaxRetries)
  <2>1. /\ attempt[i].status \in Functional
        /\ attempt[i].status \notin {"PASSED", "SYSTEM_ERROR"}
        /\ ~(i < MaxRetries) /\ i = MaxRetries
    BY <1>1, <1>8, RetriesAssumption DEF Functional
  <2>2. NextAction(i) = Finalize(attempt[i].status, FALSE)
    BY <2>1 DEF NextAction
  <2>3. Closing(i) /\ Word(i) = attempt[i].status
    BY <2>1 DEF Closing, Word
  <2> QED
    BY <2>1, <2>2, <2>3, <1>2 DEF Good, Verdicts
<1>9. CASE attempt[i].status = "SYSTEM_ERROR"
  <2>1. /\ attempt[i].status = "SYSTEM_ERROR"
        /\ attempt[i].status \notin Functional
        /\ attempt[i].status # "PASSED"
    BY <1>9 DEF Functional
  <2>2. i \in Rows
    BY <2>1 DEF Rows
  <2>3. CASE run.infra < MaxInfraRetries
    <3>1. run.infra # MaxInfraRetries
      BY <2>3, <1>1, RetriesAssumption
    <3>2. NextAction(i) = Reschedule("infra")
      BY <2>1, <2>3, <3>1 DEF NextAction
    <3> QED
      BY <2>1, <2>3, <3>2, <1>5 DEF Good
  <2>4. CASE run.infra = MaxInfraRetries /\ PriorFunctional(i) # {}
    <3>1. ~(run.infra < MaxInfraRetries)
      BY <2>4, <1>1, RetriesAssumption
    <3>2. NextAction(i) = Finalize(LatestFunctional(i), FALSE)
      BY <2>1, <2>4, <3>1 DEF NextAction
    <3>3. /\ i - 1 \in Index
          /\ LatestFunctional(i) = attempt[i - 1].status
          /\ attempt[i - 1].status \in Functional
      BY <2>1, <2>2, <2>4, LatestFunctionalIs
    <3>4. Closing(i) /\ Word(i) = attempt[i - 1].status
      BY <2>1, <2>4, <3>3 DEF Closing, Word, Index
    <3> QED
      BY <3>2, <3>3, <3>4, <1>2 DEF Good, Verdicts
  <2>5. CASE run.infra = MaxInfraRetries /\ PriorFunctional(i) = {}
    <3>1. ~(run.infra < MaxInfraRetries)
      BY <2>5, <1>1, RetriesAssumption
    <3>2. NextAction(i) = Finalize("SYSTEM_ERROR", ~run.started)
      BY <2>1, <2>5, <3>1 DEF NextAction
    <3>3. i = 0
      <4>1. ASSUME i # 0
            PROVE  i - 1 \in PriorFunctional(i)
        <5>1. /\ i - 1 \in Index /\ i - 1 # i
              /\ Last \in Nat /\ i \in 0..Last
          BY <4>1, <1>1, <2>2, RowsCount, RetriesAssumption DEF Index
        <5>2. attempt[i - 1].status \in Functional
          BY <5>1 DEF RowsOK
        <5> QED
          BY <5>1, <5>2 DEF PriorFunctional, Rows, Functional
      <4> QED
        BY <4>1, <2>5
    <3>4. Closing(i) /\ Word(i) = "SYSTEM_ERROR"
      BY <2>1, <2>5, <3>3 DEF Closing, Word
    <3> QED
      BY <3>2, <3>4, <1>3 DEF Good
  <2> QED
    BY <2>3, <2>4, <2>5, <1>1, RetriesAssumption
<1> QED
  BY <1>6, <1>7, <1>8, <1>9 DEF Final, Verdicts

-----------------------------------------------------------------------------
(* Where a call lands.                                                     *)

LEMMA LandsIdle ==
  ASSUME NEW p \in Procs, proc'[p] \in {Idle, Finalizing}
  PROVE  ProcOK(p)'
BY DEF ProcOK, Idle, Finalizing, Recording, Reporting, SettlingLabels,
       RunnerLabels

LEMMA LandsContinuing ==
  ASSUME NEW p \in Procs, NEW k \in Keys, proc'[p] = Continuing(k),
         conts'[k] # "NONE"
  PROVE  ProcOK(p)'
<1>1. /\ proc'[p].pc = "continue" /\ ~proc'[p].back
      /\ proc'[p].idx = k[1] /\ proc'[p].infra = k[2]
  BY DEF Continuing, Idle
<1>2. Key(p)' = k
  BY <1>1 DEF Key, Keys
<1> QED
  BY <1>1, <1>2 DEF ProcOK, Recording, Reporting, SettlingLabels, RunnerLabels

LEMMA LandsFinishing ==
  ASSUME NEW p \in Procs, NEW i, NEW g, NEW st \in Final, NEW why,
         proc'[p] = Finishing(i, g, st, why)
  PROVE  ProcOK(p)'
<1>1. proc'[p].pc = "finish" /\ ~proc'[p].back /\ proc'[p].st = st
  BY DEF Finishing, Idle
<1> QED
  BY <1>1 DEF ProcOK, Recording, Reporting, SettlingLabels, RunnerLabels

(* Nothing but the invocations, the leases, the usage event and the        *)
(* finalization changes.                                                   *)
LEMMA TypeFrame ==
  ASSUME TypeOK, proc' \in [Procs -> Local],
         UNCHANGED <<run, attempt, conts, deleted, msgs, released, crashes>>,
         leases' \subseteq Ref,
         final' \in [status  : {"NONE", "PENDING", "COMPLETED"},
                     reverse : BOOLEAN,
                     handle  : BOOLEAN],
         usage' \in {"NONE", "CHARGED", "REVERSED"},
         handled' \in BOOLEAN
  PROVE  TypeOK'
BY DEF TypeOK

(* A step that changes invocation p only. *)
OnlyProc(p) ==
  /\ UNCHANGED <<db, deleted, msgs, runners, handled, crashes>>
  /\ \A q \in Procs \ {p} : proc'[q] = proc[q]

LEMMA OnlyProcInv ==
  ASSUME Inv, NEW p \in Procs, OnlyProc(p), proc' \in [Procs -> Local],
         ProcOK(p)'
  PROVE  Inv'
<1>1. TypeOK /\ UNCHANGED <<run, attempt, conts, final, usage, deleted, msgs,
                            leases, released, handled, crashes>>
  BY DEF Inv, OnlyProc, db, runners
<1>2. TypeOK'
  BY <1>1, TypeFrame DEF TypeOK
<1> QED
  BY <1>1, <1>2, ReadFrame DEF OnlyProc

LEMMA CallInv ==
  ASSUME Inv, NEW p \in Procs, NEW l \in Local, Call(p, l),
         UNCHANGED <<db, deleted, msgs, runners, handled, crashes>>,
         proc'[p] = l => ProcOK(p)'
  PROVE  Inv'
<1>1. /\ proc' \in [Procs -> Local]
      /\ proc'[p] = l
      /\ \A q \in Procs \ {p} : proc'[q] = proc[q]
  BY CallType DEF Inv
<1> QED
  BY <1>1, OnlyProcInv DEF OnlyProc

LEMMA ReturnInv ==
  ASSUME Inv, NEW p \in Procs,
         Call(p, Finalizing) \/ Return(p),
         UNCHANGED <<db, deleted, msgs, runners, handled, crashes>>
  PROVE  Inv'
<1>1. Idle \in Local /\ Finalizing \in Local
  BY IdleType
<1>2. Call(p, Finalizing) \/ Call(p, Idle)
  BY DEF Call, Return
<1>3. CASE Call(p, Finalizing)
  BY <1>1, <1>3, LandsIdle, CallInv
<1>4. CASE Call(p, Idle)
  BY <1>1, <1>4, LandsIdle, CallInv
<1> QED
  BY <1>2, <1>3, <1>4

LEMMA ContinueInv ==
  ASSUME Inv, NEW p \in Procs, NEW k \in Keys, Call(p, Continuing(k)),
         conts[k] # "NONE",
         UNCHANGED <<db, deleted, msgs, runners, handled, crashes>>
  PROVE  Inv'
<1>1. conts'[k] # "NONE"
  BY DEF db
<1>2. Continuing(k) \in Local
  BY ContinuingType DEF Keys
<1> QED
  BY <1>1, <1>2, LandsContinuing, CallInv

LEMMA FinishInv ==
  ASSUME Inv, NEW p \in Procs, NEW i \in Index, NEW g \in Infra,
         NEW st \in Final,
         NEW why \in {"NONE", "OUTCOME", "LOST", "UNCLAIMED", "NO_CONSENT"},
         Call(p, Finishing(i, g, st, why)),
         UNCHANGED <<db, deleted, msgs, runners, handled, crashes>>
  PROVE  Inv'
<1>1. Finishing(i, g, st, why) \in Local
  BY FinishingType
<1> QED
  BY <1>1, LandsFinishing, CallInv

LEMMA KeyType ==
  ASSUME TypeOK, NEW p \in Procs
  PROVE  /\ proc[p] \in Local
         /\ Key(p) \in Keys
         /\ proc[p].idx \in Index
         /\ proc[p].infra \in Infra
         /\ proc[p].gen \in Infra
         /\ Key(p) = <<proc[p].idx, proc[p].infra>>
         /\ conts[Key(p)] \in {"NONE", "PENDING", "COMPLETED"}
<1>1. proc[p] \in Local
  BY DEF TypeOK
<1>2. /\ proc[p].idx \in Index
      /\ proc[p].infra \in Infra
      /\ proc[p].gen \in Infra
  BY <1>1 DEF Local
<1> QED
  BY <1>1, <1>2 DEF Key, Keys, TypeOK

LEMMA OpenIsLast ==
  ASSUME Inv, NEW i \in Index, attempt[i].status \in Open
  PROVE  i = Last /\ ~Terminal /\ conts[Current] = "NONE"
<1>1. /\ Last \in Index /\ Rows = 0..Last
      /\ run.count = Last + 1
      /\ Last \in Nat
  BY RowsCount DEF Inv
<1>2. i \in Rows
  BY DEF Rows, Open
<1>3. i = Last
  BY <1>1, <1>2, RetriesAssumption DEF Inv, RowsOK, Open, Functional, Index
<1> QED
  BY <1>3 DEF Inv, JobsOK, Open, Final, Verdicts, Functional

-----------------------------------------------------------------------------
(* The actions, one by one.                                                *)

LEMMA ClaimReadInv ==
  ASSUME Inv, NEW p \in Procs, NEW d \in Deliveries, NEW i \in Index,
         NEW g \in Infra, ClaimRead(p, d, i, g)
  PROVE  Inv'
<1>1. UNCHANGED <<db, deleted, msgs, runners, handled, crashes>>
  BY DEF ClaimRead
<1>2. CASE Call(p, Finalizing)
  BY <1>1, <1>2, ReturnInv
<1>3. CASE ~Terminal /\ ~Call(p, Finalizing)
  <2> DEFINE l == [Idle EXCEPT !.idx = i, !.gen = g, !.dlv = d,
                               !.st = attempt[i].status,
                               !.infra = run.infra, !.pc = "claimJob"]
  <2>1. attempt[i].status \in Open \cup Final \cup {"NONE"} /\ run.infra \in Infra
    BY DEF Inv, TypeOK
  <2>2. /\ l \in Local /\ l.pc = "claimJob" /\ ~l.back
        /\ l.dlv = d /\ l.idx = i /\ l.infra = run.infra /\ l.st = attempt[i].status
    BY <2>1, IdleType DEF Local, Labels, Idle
  <2>3. Call(p, l)
    BY <1>3, IdleType DEF ClaimRead, Local
  <2> HIDE DEF l
  <2>4. l.st = "QUEUED" => <<i, run.infra>> = Current /\ ~Terminal
    BY <2>2, OpenIsLast DEF Open, Current
  <2>5. ASSUME proc'[p] = l PROVE ProcOK(p)'
    <3>1. /\ proc'[p].pc = "claimJob" /\ ~proc'[p].back
          /\ Key(p)' = <<i, run.infra>>
          /\ Current' = Current /\ Terminal' = Terminal
      BY <2>2, <2>5, <1>1 DEF Key, Current, Terminal, Last, db
    <3> QED
      BY <2>2, <2>4, <2>5, <3>1 DEF ProcOK, Recording, Reporting, Fresh,
                                        SettlingLabels, RunnerLabels
  <2> QED
    BY <1>1, <2>2, <2>3, <2>5, CallInv
<1> QED
  BY <1>2, <1>3 DEF ClaimRead

LEMMA ClaimJobInv ==
  ASSUME Inv, NEW p \in Procs, ClaimJob(p)
  PROVE  Inv'
<1>1. UNCHANGED <<db, deleted, msgs, runners, handled, crashes>>
  BY DEF ClaimJob
<1>2. CASE Call(p, Continuing(Key(p))) /\ conts[Key(p)] = "PENDING"
  BY <1>1, <1>2, KeyType, ContinueInv DEF Inv
<1>3. CASE Goto(p, "claimTarget")
  <2>1. /\ proc' \in [Procs -> Local]
        /\ proc'[p].pc = "claimTarget"
        /\ LocalsKept(p)
        /\ \A q \in Procs \ {p} : proc'[q] = proc[q]
    BY <1>3, GotoType DEF Inv, Labels
  <2>2. /\ Key(p)' = Key(p) /\ Current' = Current /\ Terminal' = Terminal
        /\ conts' = conts
    BY <1>1, <2>1 DEF LocalsKept, Key, Current, Last, Terminal, db
  <2>3. ProcOK(p)'
    BY <2>1, <2>2
       DEF ClaimJob, At, Inv, ProcOK, Recording, Reporting, Fresh, LocalsKept,
           SettlingLabels, RunnerLabels
  <2> QED
    BY <1>1, <2>1, <2>3, OnlyProcInv DEF OnlyProc
<1> QED
  BY <1>2, <1>3 DEF ClaimJob

(* A jump to another label, everything but the invocation unchanged. *)
LEMMA GotoInv ==
  ASSUME Inv, NEW p \in Procs, NEW label \in Labels, Goto(p, label),
         UNCHANGED <<db, deleted, msgs, runners, handled, crashes>>,
         label \notin {"finish", "finishJob", "continue", "apply", "claimJob"},
         label = "record" => Reporting(p),
         label \in {"claimTarget", "record", "cancelJob", "cancelRecord"} =>
           Recording(p),
         label = "complete" => proc[p].back,
         proc[p].back => label \in SettlingLabels,
         label \in RunnerLabels => proc[p].pc \in RunnerLabels
  PROVE  Inv'
<1>1. /\ proc' \in [Procs -> Local]
      /\ proc'[p].pc = label
      /\ LocalsKept(p)
      /\ \A q \in Procs \ {p} : proc'[q] = proc[q]
  BY GotoType DEF Inv
<1>2. /\ Key(p)' = Key(p) /\ Current' = Current /\ Terminal' = Terminal
      /\ conts' = conts
  BY <1>1 DEF LocalsKept, Key, Current, Last, Terminal, db
<1>3. ProcOK(p)
  BY DEF Inv
<1>4. Recording(p)' => Recording(p)
  BY <1>1 DEF Recording, LocalsKept
<1>5. Recording(p)' => Fresh(p)'
  BY <1>2, <1>3, <1>4 DEF ProcOK, Fresh
<1>6. Reporting(p)' => proc'[p].st \in Final
  BY <1>1, <1>3 DEF ProcOK, Reporting, LocalsKept
<1>7. ProcOK(p)'
  BY <1>1, <1>2, <1>3, <1>5, <1>6 DEF ProcOK, LocalsKept
<1> QED
  BY <1>1, <1>7, OnlyProcInv DEF OnlyProc

LEMMA ClaimTargetInv ==
  ASSUME Inv, NEW p \in Procs, ClaimTarget(p)
  PROVE  Inv'
<1> DEFINE i == proc[p].idx
<1>1. /\ proc[p] \in Local /\ i \in Index /\ proc[p].gen \in Infra
      /\ proc[p].dlv \in Deliveries \cup {NoDelivery}
  BY KeyType DEF Inv, Local
<1>2. UNCHANGED <<db, deleted, msgs, released, handled, crashes>>
  BY DEF ClaimTarget
<1>8. ~proc[p].back /\ proc[p].dlv \in Deliveries
  BY DEF ClaimTarget, At, Inv, ProcOK, SettlingLabels, RunnerLabels
<1>3. CASE Goto(p, "cancelJob") /\ proc[p].st = "QUEUED" /\ UNCHANGED leases
  <2>1. Recording(p)
    BY <1>3 DEF Recording, ClaimTarget, At
  <2> QED
    BY <1>2, <1>3, <1>8, <2>1, GotoInv DEF Labels, runners, RunnerLabels
<1>4. CASE Return(p) /\ UNCHANGED leases
  BY <1>2, <1>4, ReturnInv DEF runners
<1>5. CASE /\ proc' = [proc EXCEPT ![p].pc = "claimCas",
                                   ![p].infra = attempt[i].gen]
           /\ UNCHANGED leases
  <2>1. attempt[i].gen \in Infra
    BY <1>1 DEF Inv, TypeOK
  <2>2. /\ proc' \in [Procs -> Local]
        /\ proc'[p].pc = "claimCas"
        /\ \A q \in Procs \ {p} : proc'[q] = proc[q]
        /\ proc'[p].back = proc[p].back /\ proc'[p].dlv = proc[p].dlv
    BY <1>1, <1>5, <2>1 DEF Inv, TypeOK, Local, Labels
  <2>4. ProcOK(p)'
    BY <1>8, <2>2 DEF ProcOK, Recording, Reporting, SettlingLabels, RunnerLabels
  <2> QED
    BY <1>2, <1>5, <2>2, <2>4, OnlyProcInv DEF OnlyProc, runners
<1>6. CASE /\ Call(p, Finishing(i, proc[p].gen, "SYSTEM_ERROR", "LOST"))
           /\ UNCHANGED leases
  BY <1>1, <1>2, <1>6, FinishInv DEF Final, runners
<1>7. CASE /\ ~deleted
           /\ proc[p].st = "STARTING"
           /\ attempt[i].owner = proc[p].dlv
           /\ attempt[i].gen = proc[p].gen
           /\ attempt[i].status = "STARTING"
           /\ leases' = leases \cup {[idx |-> i, gen |-> proc[p].gen,
                                      dlv |-> proc[p].dlv]}
           /\ Return(p)
  <2>1. leases' \subseteq Ref
    BY <1>1, <1>7, <1>8 DEF Ref, Inv, TypeOK
  <2>2. /\ proc' \in [Procs -> Local]
        /\ proc'[p] = Idle
        /\ \A q \in Procs \ {p} : proc'[q] = proc[q]
    BY <1>7, IdleType, CallType DEF Inv, Return, Call
  <2>3. TypeOK'
    BY <1>2, <2>1, <2>2, TypeFrame DEF Inv, TypeOK, db
  <2> QED
    BY <1>2, <2>2, <2>3, LandsIdle, ReadFrame DEF db
<1> QED
  BY <1>3, <1>4, <1>5, <1>6, <1>7 DEF ClaimTarget

(* A step that writes the rows. *)
LEMMA WriteFrame ==
  ASSUME Inv, NEW p \in Procs, TypeOK', RowsOK', GensOK', JobsOK', Effect,
         \A q \in Procs \ {p} : proc'[q] = proc[q],
         ProcOK(p)'
  PROVE  Inv'
BY OthersKeep DEF Inv

(* An open attempt that stays open, with its continuation still to come. *)
LEMMA OpenFrame ==
  ASSUME Inv, NEW i \in Index, attempt[i].status \in Open,
         attempt'[i].status \in Open, attempt'[i].gen = attempt[i].gen,
         \A j \in Index \ {i} : attempt'[j] = attempt[j],
         run'.infra = run.infra, run'.count = run.count, ~Terminal',
         conts' = conts
  PROVE  RowsOK' /\ GensOK' /\ JobsOK' /\ Effect
<1>1. i = Last /\ ~Terminal /\ conts[Current] = "NONE"
  BY OpenIsLast
<1>2. Last' = Last /\ Current' = Current /\ Last \in Index
  BY RowsCount DEF Last, Current, Inv
<1>3. "NONE" \notin Open
  BY DEF Open
<1>4. RowsOK'
  <2>1. \A j \in Index : attempt'[j].status # "NONE" <=> attempt[j].status # "NONE"
    BY <1>3
  <2>2. \A j \in Index : j < Last => attempt'[j] = attempt[j]
    BY <1>1, <1>2, RetriesAssumption DEF Index
  <2> QED
    BY <1>2, <2>1, <2>2 DEF Inv, RowsOK
<1>5. GensOK'
  BY <1>1, <1>2 DEF Inv, GensOK
<1>6. \A k \in Keys : conts[k] # "PENDING"
  BY <1>1 DEF Inv, JobsOK, Open, Final, Verdicts, Functional, Keys
<1>7. JobsOK'
  BY <1>1, <1>2, <1>6 DEF Inv, JobsOK, Keys
<1>8. Effect
  BY <1>1, <1>2, <1>6 DEF Effect
<1> QED
  BY <1>4, <1>5, <1>7, <1>8

LEMMA ClaimCasInv ==
  ASSUME Inv, NEW p \in Procs, ClaimCas(p)
  PROVE  Inv'
<1> DEFINE i == proc[p].idx
           won == attempt[i].status = "QUEUED" /\ attempt[i].gen <= proc[p].infra
<1>1. /\ proc[p] \in Local /\ i \in Index /\ proc[p].gen \in Infra
      /\ proc[p].dlv \in Deliveries
  BY KeyType DEF Inv, ClaimCas, At, ProcOK, RunnerLabels
<1>2. /\ proc' \in [Procs -> Local]
      /\ proc'[p] = Idle
      /\ \A q \in Procs \ {p} : proc'[q] = proc[q]
  BY IdleType, CallType DEF Inv, Return, Call, ClaimCas
<1>3. ProcOK(p)'
  BY <1>2, LandsIdle
<1>4. leases' \subseteq Ref
  BY <1>1 DEF ClaimCas, Ref, Inv, TypeOK
<1>5. CASE ~won
  <2>1. attempt' = attempt
    BY <1>5 DEF ClaimCas
  <2>2. TypeOK'
    BY <1>2, <1>4, <2>1, TypeFrame DEF Inv, TypeOK, ClaimCas
  <2> QED
    BY <1>2, <1>3, <2>1, <2>2, ReadFrame DEF ClaimCas
<1>6. CASE won
  <2>1. attempt' = [attempt EXCEPT ![i].status = "STARTING",
                                   ![i].owner = proc[p].dlv]
    BY <1>6 DEF ClaimCas
  <2>2. /\ attempt' \in [Index -> [status    : {"NONE"} \cup Open \cup Final,
                                   gen       : Infra,
                                   owner     : Deliveries \cup {NoDelivery},
                                   cancelled : BOOLEAN]]
        /\ attempt'[i].status = "STARTING"
        /\ attempt'[i].gen = attempt[i].gen
        /\ \A j \in Index \ {i} : attempt'[j] = attempt[j]
    BY <1>1, <2>1 DEF Inv, TypeOK, Open
  <2>3. TypeOK'
    BY <1>2, <1>4, <2>2 DEF Inv, TypeOK, ClaimCas
  <2>4. ~Terminal' /\ run' = run /\ conts' = conts
    BY <1>1, <1>6, OpenIsLast DEF Open, ClaimCas, Terminal
  <2>5. RowsOK' /\ GensOK' /\ JobsOK' /\ Effect
    BY <1>1, <1>6, <2>2, <2>4, OpenFrame DEF Open
  <2> QED
    BY <1>2, <1>3, <2>3, <2>5, WriteFrame
<1> QED
  BY <1>5, <1>6

LEMMA RefuseConsentInv ==
  ASSUME Inv, NEW p \in Procs, NEW i \in Index, NEW g \in Infra,
         RefuseConsent(p, i, g)
  PROVE  Inv'
BY FinishInv DEF RefuseConsent, Final

LEMMA StartReadInv ==
  ASSUME Inv, NEW p \in Procs, NEW lease \in leases, StartRead(p, lease)
  PROVE  Inv'
<1> DEFINE l == [Idle EXCEPT !.pc = "start", !.idx = lease.idx,
                             !.gen = lease.gen, !.dlv = lease.dlv]
<1>1. lease \in Ref
  BY DEF Inv, TypeOK
<1>2. l \in Local /\ l.pc = "start" /\ ~l.back /\ l.dlv \in Deliveries
  BY <1>1, IdleType DEF Local, Labels, Idle, Ref
<1>3. /\ Call(p, l)
      /\ UNCHANGED <<db, deleted, msgs, runners, handled, crashes>>
  BY DEF StartRead
<1> HIDE DEF l
<1>4. proc'[p] = l => ProcOK(p)'
  BY <1>2 DEF ProcOK, Recording, Reporting, SettlingLabels
<1> QED
  BY <1>2, <1>3, <1>4, CallInv

LEMMA StartRunInv ==
  ASSUME Inv, NEW p \in Procs, StartRun(p)
  PROVE  Inv'
<1> DEFINE i == proc[p].idx
           lease == [idx |-> i, gen |-> proc[p].gen, dlv |-> proc[p].dlv]
<1>1. /\ proc[p] \in Local /\ i \in Index /\ proc[p].gen \in Infra
      /\ proc[p].dlv \in Deliveries
  BY KeyType DEF Inv, StartRun, At, ProcOK, RunnerLabels
<1>2. /\ proc' \in [Procs -> Local]
      /\ proc'[p] = Idle
      /\ \A q \in Procs \ {p} : proc'[q] = proc[q]
  BY IdleType, CallType DEF Inv, Return, Call, StartRun
<1>3. ProcOK(p)'
  BY <1>2, LandsIdle
<1>4. lease \in Ref
  BY <1>1 DEF Ref
<1>5. CASE ~(attempt[i].status = "STARTING" /\ ~Terminal)
  <2>1. UNCHANGED <<usage, run, attempt, released>>
    BY <1>5 DEF StartRun
  <2>2. TypeOK'
    BY <1>2, <2>1, TypeFrame DEF Inv, TypeOK, StartRun
  <2> QED
    BY <1>2, <1>3, <2>1, <2>2, ReadFrame DEF StartRun
<1>6. CASE attempt[i].status = "STARTING" /\ ~Terminal
  <2>1. /\ usage' = IF usage = "NONE" THEN "CHARGED" ELSE usage
        /\ run' = [run EXCEPT !.status = "RUNNING", !.started = TRUE]
        /\ attempt' = [attempt EXCEPT ![i].status = "RUNNING"]
    BY <1>6 DEF StartRun
  <2>2. /\ attempt' \in [Index -> [status    : {"NONE"} \cup Open \cup Final,
                                   gen       : Infra,
                                   owner     : Deliveries \cup {NoDelivery},
                                   cancelled : BOOLEAN]]
        /\ attempt'[i].status = "RUNNING"
        /\ attempt'[i].gen = attempt[i].gen
        /\ \A j \in Index \ {i} : attempt'[j] = attempt[j]
    <3>1. attempt' = [attempt EXCEPT ![i].status = "RUNNING"]
      BY <2>1
    <3>2. attempt \in [Index -> [status    : {"NONE"} \cup Open \cup Final,
                                gen       : Infra,
                                owner     : Deliveries \cup {NoDelivery},
                                cancelled : BOOLEAN]]
      BY DEF Inv, TypeOK
    <3> QED
      BY <1>1, <3>1, <3>2 DEF Open
  <2>3. /\ run' \in [status  : {"QUEUED", "RUNNING"} \cup Final,
                     infra   : Infra,
                     started : BOOLEAN,
                     billable : BOOLEAN,
                     count   : 0..(MaxRetries + 1)]
        /\ run'.infra = run.infra /\ run'.count = run.count
        /\ run'.status = "RUNNING"
    BY <2>1 DEF Inv, TypeOK
  <2>4. released' \in [Index \X Infra -> Nat]
    <3>1. released \in [Index \X Infra -> Nat] /\ lease.gen \in Infra
      BY <1>1 DEF Inv, TypeOK
    <3>2. \/ released' = [released EXCEPT ![<<i, lease.gen>>] = @ + 1]
          \/ released' = released
      BY <1>6 DEF StartRun
    <3> HIDE DEF lease
    <3> QED
      BY <1>1, <3>1, <3>2
  <2>5. TypeOK'
    <3>1. UNCHANGED <<conts, final, deleted, msgs, leases, handled, crashes>>
      BY DEF StartRun
    <3> QED
      BY <1>2, <2>1, <2>2, <2>3, <2>4, <3>1 DEF Inv, TypeOK
  <2>6. ~Terminal' /\ conts' = conts
    BY <2>3 DEF StartRun, Terminal, Final, Verdicts, Functional
  <2>7. RowsOK' /\ GensOK' /\ JobsOK' /\ Effect
    BY <1>1, <1>6, <2>2, <2>3, <2>6, OpenFrame DEF Open
  <2> QED
    BY <1>2, <1>3, <2>5, <2>7, WriteFrame
<1> QED
  BY <1>5, <1>6

LEMMA CompleteReadInv ==
  ASSUME Inv, NEW p \in Procs, NEW lease \in leases, NEW outcome \in Outcomes,
         CompleteRead(p, lease, outcome)
  PROVE  Inv'
<1>1. lease.idx \in Index /\ lease.gen \in Infra /\ outcome \in Final
  BY OutcomesAssumption DEF Inv, TypeOK, Ref
<1> QED
  BY <1>1, FinishInv DEF CompleteRead

LEMMA FinishReadInv ==
  ASSUME Inv, NEW p \in Procs, FinishRead(p)
  PROVE  Inv'
<1> DEFINE i == proc[p].idx
<1>1. /\ proc[p] \in Local /\ i \in Index
      /\ ProcOK(p) /\ Reporting(p) /\ ~proc[p].back
  BY KeyType DEF Inv, FinishRead, At, ProcOK, Reporting, SettlingLabels
<1>2. UNCHANGED <<db, deleted, msgs, runners, handled, crashes>>
  BY DEF FinishRead
<1>3. CASE Return(p) \/ Call(p, Finalizing)
  BY <1>2, <1>3, ReturnInv
<1>4. CASE /\ ~Terminal
           /\ proc' = [proc EXCEPT ![p].pc = "finishJob",
                                   ![p].infra = run.infra,
                                   ![p].open = attempt[i].status \in Open]
  <2>1. run.infra \in Infra
    BY DEF Inv, TypeOK
  <2>2. proc \in [Procs -> Local]
    BY DEF Inv, TypeOK
  <2>3. /\ proc' \in [Procs -> Local]
        /\ proc'[p].pc = "finishJob"
        /\ proc'[p].idx = i
        /\ proc'[p].infra = run.infra
        /\ proc'[p].open <=> attempt[i].status \in Open
        /\ proc'[p].back = proc[p].back /\ proc'[p].st = proc[p].st
        /\ \A q \in Procs \ {p} : proc'[q] = proc[q]
    <3> DEFINE o == attempt[i].status \in Open
    <3>1. o \in BOOLEAN
      OBVIOUS
    <3>2. proc' = [proc EXCEPT ![p].pc = "finishJob",
                               ![p].infra = run.infra,
                               ![p].open = o]
      BY <1>4
    <3> HIDE DEF o
    <3>3. /\ proc' \in [Procs -> Local]
          /\ proc'[p].pc = "finishJob"
          /\ proc'[p].idx = i
          /\ proc'[p].infra = run.infra
          /\ proc'[p].open = o
          /\ proc'[p].back = proc[p].back /\ proc'[p].st = proc[p].st
          /\ \A q \in Procs \ {p} : proc'[q] = proc[q]
      BY <1>1, <2>1, <2>2, <3>1, <3>2 DEF Local, Labels
    <3> QED
      BY <3>3 DEF o
  <2>4. proc'[p].open => <<i, run.infra>> = Current /\ ~Terminal
    BY <1>1, <2>3, OpenIsLast DEF Current
  <2>5. /\ Key(p)' = <<i, run.infra>>
        /\ Current' = Current /\ Terminal' = Terminal
    BY <1>2, <2>3 DEF Key, Current, Terminal, Last, db
  <2>6. ProcOK(p)'
    BY <1>1, <2>3, <2>4, <2>5
       DEF ProcOK, Recording, Reporting, Fresh, RunnerLabels
  <2> QED
    BY <1>2, <2>3, <2>6, OnlyProcInv DEF OnlyProc
<1> QED
  BY <1>3, <1>4 DEF FinishRead

LEMMA FinishJobInv ==
  ASSUME Inv, NEW p \in Procs, FinishJob(p)
  PROVE  Inv'
<1>1. UNCHANGED <<db, deleted, msgs, runners, handled, crashes>>
  BY DEF FinishJob
<1>2. CASE Call(p, Continuing(Key(p))) /\ conts[Key(p)] = "PENDING"
  BY <1>1, <1>2, KeyType, ContinueInv DEF Inv
<1>3. CASE Goto(p, "record") /\ proc[p].open
  <2>1. Recording(p) /\ Reporting(p) /\ ~proc[p].back
    BY <1>3 DEF Recording, Reporting, FinishJob, At, Inv, ProcOK, SettlingLabels
  <2> QED
    BY <1>1, <1>3, <2>1, GotoInv DEF Labels, RunnerLabels
<1>4. CASE Return(p)
  BY <1>1, <1>4, ReturnInv
<1> QED
  BY <1>2, <1>3, <1>4 DEF FinishJob

Records(i, n, status) ==
  \E cancelled \in BOOLEAN :
    RecordCompletion(i, <<i, n>>, status, cancelled)

(* recordAttemptCompletion either does nothing or closes the open attempt  *)
(* with the one continuation the run was waiting for.                      *)
LEMMA RecordFrame ==
  ASSUME Inv, NEW i \in Index, NEW n \in Infra, NEW status \in Final,
         Records(i, n, status),
         conts[<<i, n>>] # "NONE" \/ (<<i, n>> = Current /\ ~Terminal),
         run' = run
  PROVE  /\ attempt' \in [Index -> [status    : {"NONE"} \cup Open \cup Final,
                                    gen       : Infra,
                                    owner     : Deliveries \cup {NoDelivery},
                                    cancelled : BOOLEAN]]
         /\ conts' \in [Keys -> {"NONE", "PENDING", "COMPLETED"}]
         /\ RowsOK' /\ GensOK' /\ JobsOK' /\ Effect
<1> DEFINE key == <<i, n>>
<1>1. /\ attempt \in [Index -> [status    : {"NONE"} \cup Open \cup Final,
                                gen       : Infra,
                                owner     : Deliveries \cup {NoDelivery},
                                cancelled : BOOLEAN]]
      /\ conts \in [Keys -> {"NONE", "PENDING", "COMPLETED"}]
      /\ key \in Keys
  BY DEF Inv, TypeOK, Keys
<1>2. Last' = Last /\ Current' = Current /\ Terminal' = Terminal
  BY DEF Last, Current, Terminal
<1>3. CASE UNCHANGED <<conts, attempt>>
  BY <1>1, <1>2, <1>3 DEF Inv, RowsOK, GensOK, JobsOK, Effect
<1>4. CASE attempt[i].status \in Open /\ conts[key] = "NONE"
  <2>1. PICK cancelled \in BOOLEAN :
          /\ conts' = [conts EXCEPT ![key] = "PENDING"]
          /\ attempt' = [attempt EXCEPT ![i].status = status,
                                        ![i].cancelled = cancelled]
    BY <1>4 DEF RecordCompletion, Records
  <2>2. i = Last /\ key = Current /\ ~Terminal
    BY <1>4, OpenIsLast
  <2>3. /\ attempt' \in [Index -> [status    : {"NONE"} \cup Open \cup Final,
                                   gen       : Infra,
                                   owner     : Deliveries \cup {NoDelivery},
                                   cancelled : BOOLEAN]]
        /\ attempt'[i].status = status
        /\ attempt'[i].gen = attempt[i].gen
        /\ \A j \in Index \ {i} : attempt'[j] = attempt[j]
    BY <1>1, <2>1
  <2>4. /\ conts' \in [Keys -> {"NONE", "PENDING", "COMPLETED"}]
        /\ conts'[key] = "PENDING"
        /\ \A k \in Keys \ {key} : conts'[k] = conts[k]
    BY <1>1, <2>1
  <2>5. status # "NONE" /\ attempt[i].status # "NONE"
    BY <1>4 DEF Open, Final, Verdicts, Functional
  <2>6. /\ Last \in Index /\ Last \in Nat
        /\ \A j \in Index : j < Last => attempt'[j] = attempt[j]
    BY <2>2, <2>3, RowsCount, RetriesAssumption DEF Inv, Index
  <2>7. RowsOK'
    <3>1. \A j \in Index :
            attempt'[j].status # "NONE" <=> attempt[j].status # "NONE"
      BY <2>3, <2>5
    <3> QED
      BY <1>2, <2>6, <3>1 DEF Inv, RowsOK
  <2>8. GensOK'
    BY <1>2, <2>2, <2>3, <2>6 DEF Inv, GensOK
  <2>9. \A k \in Keys : conts[k] # "PENDING"
    BY <1>4, <2>2 DEF Inv, JobsOK, Open, Final, Verdicts, Functional, Keys
  <2>10. JobsOK'
    <3>1. \A j \in Index, m \in Infra :
            conts'[<<j, m>>] # "NONE" => j <= Last /\ m <= run.infra
      <4>1. Last <= Last /\ run.infra <= run.infra
        BY <2>6 DEF Inv, TypeOK, Infra
      <4>2. \A j \in Index, m \in Infra : <<j, m>> \in Keys
        BY DEF Keys
      <4> QED
        BY <2>2, <2>4, <4>1, <4>2 DEF Inv, JobsOK, Current
    <3>2. attempt'[Last].status \in Final /\ conts'[Current] = "PENDING"
      BY <2>2, <2>3, <2>4
    <3>3. \A k \in Keys : conts'[k] = "PENDING" => k = Current
      BY <2>2, <2>4, <2>9
    <3> QED
      BY <1>2, <2>2, <3>1, <3>2, <3>3 DEF JobsOK, Keys
  <2>11. Effect
    <3>1. \A k \in Keys : conts[k] # "NONE" => conts'[k] # "NONE"
      BY <2>4
    <3>2. \A k \in Keys : conts[k] # "NONE" => conts'[k] # "PENDING"
      BY <1>4, <2>4, <2>9
    <3>3. ~Terminal' /\ Current' = Current
      BY <1>2, <2>2
    <3> QED
      BY <2>2, <3>1, <3>2, <3>3 DEF Effect
  <2> QED
    BY <2>3, <2>4, <2>7, <2>8, <2>10, <2>11
<1> QED
  BY <1>3, <1>4 DEF RecordCompletion, Records

LEMMA FinishRecordInv ==
  ASSUME Inv, NEW p \in Procs, FinishRecord(p)
  PROVE  Inv'
<1>1. /\ proc[p] \in Local /\ Key(p) \in Keys
      /\ proc[p].idx \in Index /\ proc[p].infra \in Infra
      /\ Key(p) = <<proc[p].idx, proc[p].infra>>
  BY KeyType DEF Inv
<1>2. ProcOK(p) /\ Recording(p) /\ Reporting(p)
  BY DEF Inv, FinishRecord, At, Recording, Reporting
<1>3. Fresh(p) /\ proc[p].st \in Final
  BY <1>2 DEF ProcOK
<1>4. /\ RecordCompletion(proc[p].idx, <<proc[p].idx, proc[p].infra>>,
                          proc[p].st, FALSE)
      /\ run' = run
  BY <1>1 DEF FinishRecord
<1>5. /\ attempt' \in [Index -> [status    : {"NONE"} \cup Open \cup Final,
                                 gen       : Infra,
                                 owner     : Deliveries \cup {NoDelivery},
                                 cancelled : BOOLEAN]]
      /\ conts' \in [Keys -> {"NONE", "PENDING", "COMPLETED"}]
      /\ RowsOK' /\ GensOK' /\ JobsOK' /\ Effect
  <2>1. Records(proc[p].idx, proc[p].infra, proc[p].st)
    BY <1>4 DEF Records
  <2>2. \/ conts[<<proc[p].idx, proc[p].infra>>] # "NONE"
        \/ <<proc[p].idx, proc[p].infra>> = Current /\ ~Terminal
    BY <1>1, <1>3 DEF Fresh
  <2> QED
    BY <1>1, <1>3, <1>4, <2>1, <2>2, RecordFrame
<1>6. /\ proc' \in [Procs -> Local]
      /\ \A q \in Procs \ {p} : proc'[q] = proc[q]
      /\ ProcOK(p)'
  <2>1. CASE Call(p, Continuing(Key(p))) /\ conts'[Key(p)] = "PENDING"
    BY <1>1, <2>1, ContinuingType, CallType, LandsContinuing DEF Inv, Keys
  <2>2. CASE Return(p)
    BY <2>2, IdleType, CallType, LandsIdle DEF Inv, Return, Call
  <2> QED
    BY <2>1, <2>2 DEF FinishRecord
<1>7. TypeOK'
  BY <1>4, <1>5, <1>6 DEF Inv, TypeOK, FinishRecord, runners, Keys
<1> QED
  BY <1>5, <1>6, <1>7, WriteFrame

LEMMA CancelJobInv ==
  ASSUME Inv, NEW p \in Procs, CancelJob(p)
  PROVE  Inv'
<1>1. UNCHANGED <<db, deleted, msgs, runners, handled, crashes>>
  BY DEF CancelJob
<1>2. Recording(p) /\ ~proc[p].back
  BY DEF Recording, CancelJob, At, Inv, ProcOK, SettlingLabels
<1>3. conts[Key(p)] \in {"NONE", "PENDING", "COMPLETED"}
  BY KeyType DEF Inv
<1>4. CASE conts[Key(p)] = "NONE"
  <2>1. Goto(p, "cancelRecord")
    BY <1>4 DEF CancelJob
  <2> QED
    BY <1>1, <1>2, <2>1, GotoInv DEF Labels, RunnerLabels
<1>5. CASE conts[Key(p)] = "PENDING"
  <2>1. Goto(p, "cancelRun")
    BY <1>5 DEF CancelJob
  <2> QED
    BY <1>1, <1>2, <2>1, GotoInv DEF Labels, RunnerLabels
<1>6. CASE conts[Key(p)] = "COMPLETED"
  <2>1. Call(p, Finalizing)
    BY <1>6 DEF CancelJob
  <2> QED
    BY <1>1, <2>1, ReturnInv
<1> QED
  BY <1>3, <1>4, <1>5, <1>6

LEMMA CancelRecordInv ==
  ASSUME Inv, NEW p \in Procs, CancelRecord(p)
  PROVE  Inv'
<1>1. /\ proc[p] \in Local /\ Key(p) \in Keys
      /\ proc[p].idx \in Index /\ proc[p].infra \in Infra
      /\ Key(p) = <<proc[p].idx, proc[p].infra>>
  BY KeyType DEF Inv
<1>2. Fresh(p) /\ ~proc[p].back
  BY DEF Inv, CancelRecord, At, Recording, ProcOK, SettlingLabels
<1>3. /\ RecordCompletion(proc[p].idx, <<proc[p].idx, proc[p].infra>>,
                          "SYSTEM_ERROR", TRUE)
      /\ run' = run
  BY <1>1 DEF CancelRecord
<1>4. /\ attempt' \in [Index -> [status    : {"NONE"} \cup Open \cup Final,
                                 gen       : Infra,
                                 owner     : Deliveries \cup {NoDelivery},
                                 cancelled : BOOLEAN]]
      /\ conts' \in [Keys -> {"NONE", "PENDING", "COMPLETED"}]
      /\ RowsOK' /\ GensOK' /\ JobsOK' /\ Effect
  <2>1. Records(proc[p].idx, proc[p].infra, "SYSTEM_ERROR")
    BY <1>3 DEF Records
  <2>2. \/ conts[<<proc[p].idx, proc[p].infra>>] # "NONE"
        \/ <<proc[p].idx, proc[p].infra>> = Current /\ ~Terminal
    BY <1>1, <1>2 DEF Fresh
  <2>3. "SYSTEM_ERROR" \in Final
    BY DEF Final
  <2> QED
    BY <1>1, <1>3, <2>1, <2>2, <2>3, RecordFrame
<1>5. /\ proc' \in [Procs -> Local]
      /\ \A q \in Procs \ {p} : proc'[q] = proc[q]
      /\ ProcOK(p)'
  <2>1. conts'[Key(p)] \in {"NONE", "PENDING", "COMPLETED"}
    BY <1>1, <1>4
  <2>2. CASE conts'[Key(p)] = "PENDING"
    <3>1. Goto(p, "cancelRun")
      BY <2>2 DEF CancelRecord
    <3>2. /\ proc' \in [Procs -> Local]
          /\ proc'[p].pc = "cancelRun"
          /\ LocalsKept(p)
          /\ \A q \in Procs \ {p} : proc'[q] = proc[q]
      BY <3>1, GotoType DEF Inv, Labels
    <3> QED
      BY <1>2, <3>2
         DEF ProcOK, Recording, Reporting, LocalsKept, RunnerLabels
  <2>3. CASE Call(p, Finalizing) \/ Return(p)
    BY <2>3, IdleType, CallType, LandsIdle DEF Inv, Return, Call
  <2> QED
    BY <2>1, <2>2, <2>3 DEF CancelRecord
<1>6. TypeOK'
  BY <1>3, <1>4, <1>5 DEF Inv, TypeOK, CancelRecord, runners, Keys
<1> QED
  BY <1>4, <1>5, <1>6, WriteFrame

Finalizes(key) ==
  \/ UNCHANGED <<run, final, conts>>
  \/ /\ conts[key] = "PENDING"
     /\ \E status \in Final, reverse \in BOOLEAN, handle \in BOOLEAN :
          FinalizeRun(key, status, reverse, handle, run.count)

(* finalizeRun either does nothing or replaces the pending continuation by *)
(* a verdict.                                                              *)
LEMMA FinalizeFrame ==
  ASSUME Inv, NEW key \in Keys, Finalizes(key), attempt' = attempt
  PROVE  /\ run' \in [status  : {"QUEUED", "RUNNING"} \cup Final,
                      infra   : Infra,
                      started : BOOLEAN,
                      billable : BOOLEAN,
                      count   : 0..(MaxRetries + 1)]
         /\ final' \in [status  : {"NONE", "PENDING", "COMPLETED"},
                        reverse : BOOLEAN,
                        handle  : BOOLEAN]
         /\ conts' \in [Keys -> {"NONE", "PENDING", "COMPLETED"}]
         /\ RowsOK' /\ GensOK' /\ JobsOK' /\ Effect
<1>1. /\ run \in [status  : {"QUEUED", "RUNNING"} \cup Final,
                  infra   : Infra,
                  started : BOOLEAN,
                  billable : BOOLEAN,
                  count   : 0..(MaxRetries + 1)]
      /\ final \in [status  : {"NONE", "PENDING", "COMPLETED"},
                    reverse : BOOLEAN,
                    handle  : BOOLEAN]
      /\ conts \in [Keys -> {"NONE", "PENDING", "COMPLETED"}]
  BY DEF Inv, TypeOK, Keys
<1>2. CASE UNCHANGED <<run, final, conts>>
  BY <1>1, <1>2
     DEF Inv, RowsOK, GensOK, JobsOK, Effect, Last, Current, Terminal
<1>3. CASE conts[key] = "PENDING" /\ ~UNCHANGED <<run, final, conts>>
  <2>1. PICK status \in Final, reverse \in BOOLEAN, handle \in BOOLEAN :
          FinalizeRun(key, status, reverse, handle, run.count)
    BY <1>3 DEF Finalizes
  <2>2. /\ run' = [run EXCEPT !.status = status, !.billable = ~reverse,
                              !.count = run.count]
        /\ final' = IF final.status = "NONE"
                    THEN [status |-> "PENDING", reverse |-> reverse,
                          handle |-> handle]
                    ELSE final
        /\ conts' = [conts EXCEPT ![key] = "COMPLETED"]
    BY <1>3, <2>1 DEF FinalizeRun
  <2>3. /\ run' \in [status  : {"QUEUED", "RUNNING"} \cup Final,
                     infra   : Infra,
                     started : BOOLEAN,
                     billable : BOOLEAN,
                     count   : 0..(MaxRetries + 1)]
        /\ run'.infra = run.infra /\ run'.count = run.count
        /\ run'.status \in Final
    BY <1>1, <2>2
  <2>4. final' \in [status  : {"NONE", "PENDING", "COMPLETED"},
                    reverse : BOOLEAN,
                    handle  : BOOLEAN]
    BY <1>1, <2>2
  <2>5. /\ conts' \in [Keys -> {"NONE", "PENDING", "COMPLETED"}]
        /\ conts'[key] = "COMPLETED"
        /\ \A k \in Keys \ {key} : conts'[k] = conts[k]
    BY <1>1, <2>2
  <2>6. key = Current /\ attempt[Last].status \in Final
    BY <1>3 DEF Inv, JobsOK, Keys
  <2>7. Last' = Last /\ Current' = Current /\ Terminal'
    BY <2>3 DEF Last, Current, Terminal
  <2>8. RowsOK' /\ GensOK'
    BY <2>3, <2>7 DEF Inv, RowsOK, GensOK
  <2>9. \A k \in Keys : conts'[k] # "PENDING"
    BY <2>5, <2>6 DEF Inv, JobsOK, Keys
  <2>10. \A k \in Keys : conts'[k] # "NONE" <=> conts[k] # "NONE"
    BY <1>3, <2>5
  <2>11. JobsOK'
    <3>1. \A j \in Index, m \in Infra : <<j, m>> \in Keys
      BY DEF Keys
    <3>2. \A j \in Index, m \in Infra :
            conts'[<<j, m>>] # "NONE" => j <= Last /\ m <= run.infra
      BY <2>10, <3>1 DEF Inv, JobsOK
    <3> QED
      BY <2>3, <2>6, <2>7, <2>9, <3>2 DEF JobsOK, Keys
  <2>12. Effect
    BY <2>5, <2>6, <2>7, <2>9, <2>10 DEF Effect
  <2> QED
    BY <2>3, <2>4, <2>5, <2>8, <2>11, <2>12
<1> QED
  BY <1>2, <1>3 DEF Finalizes

LEMMA FinalizeInv ==
  ASSUME Inv, NEW p \in Procs, Finalizes(Key(p)), Call(p, Finalizing),
         UNCHANGED <<attempt, usage, deleted, msgs, runners, handled, crashes>>
  PROVE  Inv'
<1>1. Key(p) \in Keys
  BY KeyType DEF Inv
<1>2. /\ run' \in [status  : {"QUEUED", "RUNNING"} \cup Final,
                   infra   : Infra,
                   started : BOOLEAN,
                   billable : BOOLEAN,
                   count   : 0..(MaxRetries + 1)]
      /\ final' \in [status  : {"NONE", "PENDING", "COMPLETED"},
                     reverse : BOOLEAN,
                     handle  : BOOLEAN]
      /\ conts' \in [Keys -> {"NONE", "PENDING", "COMPLETED"}]
      /\ RowsOK' /\ GensOK' /\ JobsOK' /\ Effect
  BY <1>1, FinalizeFrame
<1>3. /\ proc' \in [Procs -> Local]
      /\ \A q \in Procs \ {p} : proc'[q] = proc[q]
      /\ ProcOK(p)'
  BY IdleType, CallType, LandsIdle DEF Inv
<1>4. TypeOK'
  BY <1>2, <1>3 DEF Inv, TypeOK, runners, Keys
<1> QED
  BY <1>2, <1>3, <1>4, WriteFrame

LEMMA CancelRunInv ==
  ASSUME Inv, NEW p \in Procs, CancelRun(p)
  PROVE  Inv'
<1>1. Cardinality(Rows) = run.count
  BY RowsCount DEF Inv
<1>2. FinalizeRun(Key(p), "SYSTEM_ERROR", TRUE, FALSE, run.count)
  BY <1>1 DEF CancelRun
<1>3. Finalizes(Key(p))
  <2>1. CASE conts[Key(p)] = "PENDING"
    BY <1>2, <2>1 DEF Finalizes, Final
  <2>2. CASE conts[Key(p)] # "PENDING"
    BY <1>2, <2>2 DEF Finalizes, FinalizeRun
  <2> QED
    BY <2>1, <2>2
<1> QED
  BY <1>3, FinalizeInv DEF CancelRun

LEMMA ContinueReadInv ==
  ASSUME Inv, NEW p \in Procs, ContinueRead(p)
  PROVE  Inv'
<1> DEFINE i == proc[p].idx
<1>1. /\ proc \in [Procs -> Local] /\ proc[p] \in Local /\ i \in Index
      /\ ProcOK(p) /\ conts[Key(p)] # "NONE" /\ ~proc[p].back
  BY KeyType DEF Inv, TypeOK, ContinueRead, At, ProcOK, SettlingLabels
<1>2. UNCHANGED <<db, deleted, msgs, runners, handled, crashes>>
  BY DEF ContinueRead
<1>3. CASE Terminal /\ proc' = [proc EXCEPT ![p].pc = "final", ![p].back = TRUE]
  <2>1. /\ proc' \in [Procs -> Local]
        /\ proc'[p].pc = "final"
        /\ proc'[p].idx = i /\ proc'[p].infra = proc[p].infra
        /\ \A q \in Procs \ {p} : proc'[q] = proc[q]
    BY <1>1, <1>3 DEF Local, Labels
  <2>2. Key(p)' = Key(p) /\ Terminal' /\ conts' = conts
    BY <1>2, <1>3, <2>1 DEF Key, Terminal, db
  <2>3. ProcOK(p)'
    BY <1>1, <2>1, <2>2
       DEF ProcOK, Recording, Reporting, SettlingLabels, RunnerLabels
  <2> QED
    BY <1>2, <2>1, <2>3, OnlyProcInv DEF OnlyProc
<1>4. CASE Return(p)
  BY <1>2, <1>4, ReturnInv
<1>5. CASE /\ attempt[i].status \in Final
           /\ proc' = [proc EXCEPT ![p].pc = "apply", ![p].act = NextAction(i)]
  <2>1. NextAction(i) \in Act /\ Justified(i, NextAction(i))
    BY <1>1, <1>5, NextActionIs DEF Inv
  <2>2. /\ proc' \in [Procs -> Local]
        /\ proc'[p].pc = "apply"
        /\ proc'[p].idx = i /\ proc'[p].infra = proc[p].infra
        /\ proc'[p].act = NextAction(i)
        /\ proc'[p].back = proc[p].back
        /\ \A q \in Procs \ {p} : proc'[q] = proc[q]
    BY <1>1, <1>5, <2>1 DEF Local, Labels
  <2>3. Key(p)' = Key(p) /\ conts' = conts /\ run' = run /\ attempt' = attempt
    BY <1>2, <2>2 DEF Key, db
  <2>4. Decided(p)'
    BY <2>1, <2>2, <2>3 DEF Decided, Justified, Closing, Word
  <2>5. ProcOK(p)'
    BY <1>1, <2>2, <2>3, <2>4 DEF ProcOK, Recording, Reporting, RunnerLabels
  <2> QED
    BY <1>2, <2>2, <2>5, OnlyProcInv DEF OnlyProc
<1> QED
  BY <1>3, <1>4, <1>5 DEF ContinueRead

LEMMA ApplyRetryInv ==
  ASSUME Inv, NEW p \in Procs, ApplyRetry(p)
  PROVE  Inv'
<1> DEFINE i == proc[p].idx + 1
<1>1. /\ proc[p] \in Local /\ Key(p) \in Keys
      /\ Key(p) = <<proc[p].idx, proc[p].infra>>
      /\ ProcOK(p)
  BY KeyType DEF Inv
<1>2. /\ proc' \in [Procs -> Local]
      /\ \A q \in Procs \ {p} : proc'[q] = proc[q]
      /\ ProcOK(p)'
  BY IdleType, CallType, LandsIdle DEF Inv, Return, Call, ApplyRetry
<1>3. CASE conts[Key(p)] # "PENDING"
  <2>1. UNCHANGED <<attempt, run, msgs, conts>>
    BY <1>3 DEF ApplyRetry
  <2>2. TypeOK'
    BY <1>2, <2>1 DEF Inv, TypeOK, ApplyRetry, runners
  <2> QED
    BY <1>2, <2>1, <2>2, ReadFrame
<1>4. CASE conts[Key(p)] = "PENDING"
  <2>1. /\ Key(p) = Current /\ ~Terminal
        /\ proc[p].idx = Last /\ i = Last + 1
        /\ Last < MaxRetries /\ attempt[Last].status \in Functional
    BY <1>1, <1>4
       DEF ApplyRetry, At, ProcOK, Decided, Justified, Inv, JobsOK, Current, Keys
  <2>2. /\ Rows = 0..Last /\ Last \in Index /\ Last \in Nat
        /\ run.count = Last + 1 /\ run.infra \in Infra
        /\ Last = run.count - 1
    BY RowsCount DEF Inv, Last
  <2>3. /\ i \in Index /\ Last + 1 \in Index
        /\ attempt[i].status = "NONE"
    BY <2>1, <2>2, RetriesAssumption DEF Index, Inv, RowsOK
  <2>4. Cardinality(Rows \cup {i}) = run.count + 1
    <3>1. Rows \cup {i} = 0..(Last + 1)
      BY <2>1, <2>2
    <3>2. /\ 0 \in Int /\ Last + 1 \in Int /\ ~(0 > Last + 1)
          /\ (Last + 1) - 0 + 1 = run.count + 1
      BY <2>2
    <3>3. Cardinality(0..(Last + 1)) =
            IF 0 > Last + 1 THEN 0 ELSE (Last + 1) - 0 + 1
      BY <3>2, FS_Interval
    <3> QED
      BY <3>1, <3>2, <3>3
  <2>5. /\ attempt' = [attempt EXCEPT ![i].status = "QUEUED",
                                      ![i].gen = run.infra]
        /\ run' = [run EXCEPT !.count = run.count + 1]
        /\ msgs' = msgs \cup {<<i, attempt'[i].gen>>}
        /\ conts' = [conts EXCEPT ![Key(p)] = "COMPLETED"]
    BY <1>4, <2>3, <2>4 DEF ApplyRetry
  <2>6. /\ attempt' \in [Index -> [status    : {"NONE"} \cup Open \cup Final,
                                   gen       : Infra,
                                   owner     : Deliveries \cup {NoDelivery},
                                   cancelled : BOOLEAN]]
        /\ attempt'[i].status = "QUEUED"
        /\ attempt'[i].gen = run.infra
        /\ \A j \in Index \ {i} : attempt'[j] = attempt[j]
    <3>1. attempt' = [attempt EXCEPT ![i].status = "QUEUED",
                                     ![i].gen = run.infra]
      BY <2>5
    <3>2. attempt \in [Index -> [status    : {"NONE"} \cup Open \cup Final,
                                 gen       : Infra,
                                 owner     : Deliveries \cup {NoDelivery},
                                 cancelled : BOOLEAN]]
      BY DEF Inv, TypeOK
    <3> QED
      BY <2>2, <2>3, <3>1, <3>2 DEF Open
  <2>7. /\ run' \in [status  : {"QUEUED", "RUNNING"} \cup Final,
                     infra   : Infra,
                     started : BOOLEAN,
                     billable : BOOLEAN,
                     count   : 0..(MaxRetries + 1)]
        /\ run'.infra = run.infra /\ run'.count = run.count + 1
        /\ run'.status = run.status
    <3>1. run' = [run EXCEPT !.count = run.count + 1]
      BY <2>5
    <3>2. run.count + 1 \in 0..(MaxRetries + 1)
      BY <2>1, <2>2, RetriesAssumption
    <3> QED
      BY <3>1, <3>2 DEF Inv, TypeOK
  <2>8. /\ conts' \in [Keys -> {"NONE", "PENDING", "COMPLETED"}]
        /\ conts'[Current] = "COMPLETED"
        /\ \A k \in Keys \ {Current} : conts'[k] = conts[k]
    BY <1>1, <2>1, <2>5 DEF Inv, TypeOK, Keys
  <2>9. msgs' \subseteq Index \X Infra
    BY <2>2, <2>3, <2>5, <2>6 DEF Inv, TypeOK
  <2>10. TypeOK'
    BY <1>2, <2>6, <2>7, <2>8, <2>9 DEF Inv, TypeOK, ApplyRetry, runners, Keys
  <2>11. Last' = Last + 1 /\ ~Terminal' /\ Current' = <<i, run.infra>>
    BY <2>1, <2>2, <2>7 DEF Last, Terminal, Current
  <2>12. RowsOK'
    <3>1. run'.count \in 1..(MaxRetries + 1)
      BY <2>1, <2>2, <2>7, RetriesAssumption
    <3>2. \A j \in Index : attempt'[j].status # "NONE" <=> j < run'.count
      BY <2>1, <2>2, <2>3, <2>6, <2>7, RetriesAssumption DEF Inv, RowsOK, Index
    <3>3. \A j \in Index : j < Last' => attempt'[j].status \in Functional
      BY <2>1, <2>2, <2>3, <2>6, <2>11, RetriesAssumption DEF Inv, RowsOK, Index
    <3> QED
      BY <3>1, <3>2, <3>3 DEF RowsOK
  <2>13. GensOK'
    <3>1. run.infra <= run.infra
      BY <2>2 DEF Infra
    <3> QED
      BY <2>1, <2>6, <2>7, <2>11, <3>1 DEF Inv, GensOK
  <2>14. \A k \in Keys : conts'[k] # "PENDING"
    BY <2>8 DEF Inv, JobsOK, Keys
  <2>15. JobsOK'
    <3>1. \A j \in Index, m \in Infra :
            conts'[<<j, m>>] # "NONE" => j <= Last /\ m <= run.infra
      <4>1. Last <= Last /\ run.infra <= run.infra
        BY <2>2 DEF Infra
      <4>2. \A j \in Index, m \in Infra : <<j, m>> \in Keys
        BY DEF Keys
      <4> QED
        BY <2>8, <4>1, <4>2 DEF Inv, JobsOK, Current
    <3>2. conts'[<<i, run.infra>>] = "NONE"
      <4>1. <<i, run.infra>> \in Keys /\ <<i, run.infra>> # Current /\ ~(i <= Last)
        BY <2>1, <2>2, <2>3 DEF Keys, Current
      <4> QED
        BY <2>2, <2>3, <2>8, <3>1, <4>1
    <3>3. \A j \in Index : j <= Last => j <= Last + 1
      BY <2>2, RetriesAssumption DEF Index
    <3>4. attempt'[Last'].status \in Open
      BY <2>1, <2>6, <2>11 DEF Open
    <3> QED
      BY <2>7, <2>11, <2>14, <3>1, <3>2, <3>3, <3>4 DEF JobsOK, Keys
  <2>16. Effect
    <3>1. \A k \in Keys : conts[k] # "NONE" => conts'[k] # "NONE"
      BY <2>8
    <3> QED
      BY <2>1, <2>8, <2>14, <3>1 DEF Effect
  <2> QED
    BY <1>2, <2>10, <2>12, <2>13, <2>15, <2>16, WriteFrame
<1> QED
  BY <1>3, <1>4

LEMMA ApplyInfraInv ==
  ASSUME Inv, NEW p \in Procs, ApplyInfra(p)
  PROVE  Inv'
<1> DEFINE i == proc[p].idx
<1>1. /\ proc[p] \in Local /\ Key(p) \in Keys
      /\ Key(p) = <<i, proc[p].infra>>
      /\ ProcOK(p)
  BY KeyType DEF Inv
<1>2. /\ proc' \in [Procs -> Local]
      /\ \A q \in Procs \ {p} : proc'[q] = proc[q]
      /\ ProcOK(p)'
  BY IdleType, CallType, LandsIdle DEF Inv, Return, Call, ApplyInfra
<1>3. CASE conts[Key(p)] # "PENDING"
  <2>1. UNCHANGED <<attempt, run, msgs, conts>>
    BY <1>3 DEF ApplyInfra
  <2>2. TypeOK'
    BY <1>2, <2>1 DEF Inv, TypeOK, ApplyInfra, runners
  <2> QED
    BY <1>2, <2>1, <2>2, ReadFrame
<1>4. CASE conts[Key(p)] = "PENDING"
  <2>1. /\ Key(p) = Current /\ ~Terminal
        /\ i = Last
        /\ run.infra < MaxInfraRetries /\ attempt[Last].status = "SYSTEM_ERROR"
        /\ proc[p].act.count = run.count
    BY <1>1, <1>4
       DEF ApplyInfra, At, ProcOK, Decided, Justified, Inv, JobsOK, Current, Keys
  <2>2. /\ Rows = 0..Last /\ Last \in Index /\ Last \in Nat
        /\ run.count = Last + 1
        /\ run.infra \in 0..MaxInfraRetries
        /\ Last = run.count - 1
    BY RowsCount DEF Inv, Last, Infra
  <2>3. run.infra + 1 \in Infra /\ run.infra < run.infra + 1
    BY <2>1, <2>2, RetriesAssumption DEF Infra
  <2>4. /\ attempt' = [attempt EXCEPT ![i].status = "QUEUED",
                                      ![i].gen = run.infra + 1,
                                      ![i].cancelled = FALSE]
        /\ run' = [run EXCEPT !.infra = @ + 1, !.count = run.count]
        /\ msgs' = msgs \cup {<<i, run.infra + 1>>}
        /\ conts' = [conts EXCEPT ![Key(p)] = "COMPLETED"]
    BY <1>4, <2>1 DEF ApplyInfra
  <2>5. /\ attempt' \in [Index -> [status    : {"NONE"} \cup Open \cup Final,
                                   gen       : Infra,
                                   owner     : Deliveries \cup {NoDelivery},
                                   cancelled : BOOLEAN]]
        /\ attempt'[Last].status = "QUEUED"
        /\ attempt'[Last].gen = run.infra + 1
        /\ \A j \in Index \ {Last} : attempt'[j] = attempt[j]
    <3>1. attempt' = [attempt EXCEPT ![i].status = "QUEUED",
                                     ![i].gen = run.infra + 1,
                                     ![i].cancelled = FALSE]
      BY <2>4
    <3>2. attempt \in [Index -> [status    : {"NONE"} \cup Open \cup Final,
                                 gen       : Infra,
                                 owner     : Deliveries \cup {NoDelivery},
                                 cancelled : BOOLEAN]]
      BY DEF Inv, TypeOK
    <3> QED
      BY <2>1, <2>2, <2>3, <3>1, <3>2 DEF Open
  <2>6. /\ run' \in [status  : {"QUEUED", "RUNNING"} \cup Final,
                     infra   : Infra,
                     started : BOOLEAN,
                     billable : BOOLEAN,
                     count   : 0..(MaxRetries + 1)]
        /\ run'.infra = run.infra + 1 /\ run'.count = run.count
        /\ run'.status = run.status
    <3>1. run' = [run EXCEPT !.infra = @ + 1, !.count = run.count]
      BY <2>4
    <3> QED
      BY <2>3, <3>1 DEF Inv, TypeOK
  <2>7. /\ conts' \in [Keys -> {"NONE", "PENDING", "COMPLETED"}]
        /\ conts'[Current] = "COMPLETED"
        /\ \A k \in Keys \ {Current} : conts'[k] = conts[k]
    BY <1>1, <2>1, <2>4 DEF Inv, TypeOK, Keys
  <2>8. msgs' \subseteq Index \X Infra
    <3>1. <<i, run.infra + 1>> \in Index \X Infra
      BY <2>1, <2>2, <2>3
    <3>2. msgs' = msgs \cup {<<i, run.infra + 1>>}
      BY <2>4
    <3>3. msgs \subseteq Index \X Infra
      BY DEF Inv, TypeOK
    <3> QED
      BY <3>1, <3>2, <3>3
  <2>9. TypeOK'
    BY <1>2, <2>5, <2>6, <2>7, <2>8 DEF Inv, TypeOK, ApplyInfra, runners, Keys
  <2>10. Last' = Last /\ ~Terminal' /\ Current' = <<Last, run.infra + 1>>
    BY <2>1, <2>2, <2>6 DEF Last, Terminal, Current
  <2>11. RowsOK'
    <3>1. \A j \in Index :
            attempt'[j].status # "NONE" <=> attempt[j].status # "NONE"
      BY <2>1, <2>5
    <3>2. \A j \in Index : j < Last => j # Last
      BY <2>2, RetriesAssumption DEF Index
    <3> QED
      BY <2>5, <2>6, <2>10, <3>1, <3>2 DEF Inv, RowsOK
  <2>12. GensOK'
    <3>1. \A j \in Index : attempt[j].gen <= run.infra + 1
      <4>1. \A j \in Index : attempt[j].gen \in Infra
        BY DEF Inv, TypeOK
      <4> QED
        BY <2>2, <4>1, RetriesAssumption DEF Inv, GensOK, Infra
    <3>2. run.infra + 1 <= run.infra + 1
      BY <2>2
    <3> QED
      BY <2>2, <2>5, <2>6, <2>10, <3>1, <3>2 DEF GensOK
  <2>13. \A k \in Keys : conts'[k] # "PENDING"
    BY <2>7 DEF Inv, JobsOK, Keys
  <2>14. JobsOK'
    <3>1. \A j \in Index, m \in Infra :
            conts'[<<j, m>>] # "NONE" => j <= Last /\ m <= run.infra
      <4>1. Last <= Last /\ run.infra <= run.infra
        BY <2>2 DEF Infra
      <4>2. \A j \in Index, m \in Infra : <<j, m>> \in Keys
        BY DEF Keys
      <4> QED
        BY <2>7, <4>1, <4>2 DEF Inv, JobsOK, Current
    <3>2. conts'[<<Last, run.infra + 1>>] = "NONE"
      <4>1. ~(run.infra + 1 <= run.infra)
        BY <2>2
      <4>2. \A k \in Keys : conts'[k] = "NONE" \/ conts'[k] # "NONE"
        OBVIOUS
      <4> QED
        BY <2>2, <2>3, <3>1, <4>1
    <3>3. \A m \in Infra : m <= run.infra => m <= run.infra + 1
      BY <2>2, RetriesAssumption DEF Infra
    <3>4. attempt'[Last].status \in Open
      BY <2>5 DEF Open
    <3> QED
      BY <2>6, <2>10, <2>13, <3>1, <3>2, <3>3, <3>4 DEF JobsOK, Keys
  <2>15. Effect
    <3>1. \A k \in Keys : conts[k] # "NONE" => conts'[k] # "NONE"
      BY <2>7
    <3> QED
      BY <2>1, <2>7, <2>13, <3>1 DEF Effect
  <2> QED
    BY <1>2, <2>9, <2>11, <2>12, <2>14, <2>15, WriteFrame
<1> QED
  BY <1>3, <1>4

LEMMA ApplyFinalizeInv ==
  ASSUME Inv, NEW p \in Procs, ApplyFinalize(p)
  PROVE  Inv'
<1> DEFINE act == proc[p].act
<1>1. /\ FinalizeRun(Key(p), act.status, act.reverse, TRUE, act.count)
      /\ act.kind = "finalize" /\ proc[p].pc = "apply"
  BY DEF ApplyFinalize, At
<1>2. Finalizes(Key(p))
  <2>1. CASE conts[Key(p)] = "PENDING"
    <3>1. Justified(proc[p].idx, act)
      BY <1>1, <2>1 DEF Inv, ProcOK, Decided
    <3>2. act.status \in Final /\ act.count = run.count
      BY <1>1, <3>1 DEF Justified
    <3>3. act.reverse \in BOOLEAN
      BY KeyType DEF Inv, Local, Act
    <3> QED
      BY <1>1, <2>1, <3>2, <3>3 DEF Finalizes
  <2>2. CASE conts[Key(p)] # "PENDING"
    BY <1>1, <2>2 DEF Finalizes, FinalizeRun
  <2> QED
    BY <2>1, <2>2
<1> QED
  BY <1>2, FinalizeInv DEF ApplyFinalize

LEMMA FinalReadInv ==
  ASSUME Inv, NEW p \in Procs, FinalRead(p)
  PROVE  Inv'
<1>1. UNCHANGED <<db, deleted, msgs, runners, handled, crashes>>
  BY DEF FinalRead
<1>2. PICK label \in {"reverse", "handle", "settle", "complete"} :
        \/ Goto(p, label) /\ (label = "complete" => proc[p].back)
        \/ Return(p)
  BY DEF FinalRead
<1>3. CASE Goto(p, label) /\ (label = "complete" => proc[p].back)
  BY <1>1, <1>2, <1>3, GotoInv DEF Labels, SettlingLabels, RunnerLabels
<1>4. CASE Return(p)
  BY <1>1, <1>4, ReturnInv
<1> QED
  BY <1>2, <1>3, <1>4

(* A settling step: the usage event, the side effects or the job. *)
LEMMA SettlingInv ==
  ASSUME Inv, NEW p \in Procs, proc[p].pc \in SettlingLabels,
         UNCHANGED <<run, attempt, conts, deleted, msgs, runners, crashes>>,
         usage' \in {"NONE", "CHARGED", "REVERSED"},
         final' \in [status  : {"NONE", "PENDING", "COMPLETED"},
                     reverse : BOOLEAN,
                     handle  : BOOLEAN],
         handled' \in BOOLEAN,
         \/ Return(p)
         \/ Goto(p, "handle")
         \/ Goto(p, "settle")
         \/ Goto(p, "complete") /\ proc[p].back
  PROVE  Inv'
<1>1. CASE Return(p)
  <2>1. /\ proc' \in [Procs -> Local]
        /\ \A q \in Procs \ {p} : proc'[q] = proc[q]
        /\ ProcOK(p)'
    BY <1>1, IdleType, CallType, LandsIdle DEF Inv, Return, Call
  <2>2. TypeOK'
    BY <2>1, TypeFrame DEF Inv, TypeOK, runners
  <2> QED
    BY <2>1, <2>2, ReadFrame
<1>2. ASSUME NEW label \in {"handle", "settle", "complete"}, Goto(p, label),
             label = "complete" => proc[p].back
      PROVE  Inv'
  <2>1. /\ proc' \in [Procs -> Local]
        /\ proc'[p].pc = label
        /\ LocalsKept(p)
        /\ \A q \in Procs \ {p} : proc'[q] = proc[q]
    BY <1>2, GotoType DEF Inv, Labels
  <2>2. Key(p)' = Key(p) /\ Terminal' = Terminal /\ conts' = conts
    BY <2>1 DEF LocalsKept, Key, Terminal
  <2>3. ProcOK(p)'
    BY <1>2, <2>1, <2>2
       DEF Inv, ProcOK, Recording, Reporting, LocalsKept, SettlingLabels,
           RunnerLabels
  <2>4. TypeOK'
    BY <2>1, TypeFrame DEF Inv, TypeOK, runners
  <2> QED
    BY <2>1, <2>3, <2>4, ReadFrame
<1> QED
  BY <1>1, <1>2

LEMMA FinalReverseInv ==
  ASSUME Inv, NEW p \in Procs, FinalReverse(p)
  PROVE  Inv'
<1>1. usage' \in {"NONE", "CHARGED", "REVERSED"}
  BY DEF FinalReverse, Inv, TypeOK
<1> QED
  BY <1>1, SettlingInv
     DEF FinalReverse, At, SettlingLabels, Inv, TypeOK, runners

LEMMA FinalHandleInv ==
  ASSUME Inv, NEW p \in Procs, FinalHandle(p)
  PROVE  Inv'
BY SettlingInv DEF FinalHandle, At, SettlingLabels, Inv, TypeOK, runners, db

LEMMA FinalSettleInv ==
  ASSUME Inv, NEW p \in Procs, FinalSettle(p)
  PROVE  Inv'
<1>1. final' \in [status  : {"NONE", "PENDING", "COMPLETED"},
                  reverse : BOOLEAN,
                  handle  : BOOLEAN]
  BY DEF FinalSettle, Inv, TypeOK
<1> QED
  BY <1>1, SettlingInv
     DEF FinalSettle, At, SettlingLabels, Inv, TypeOK, runners

LEMMA FinalCompleteInv ==
  ASSUME Inv, NEW p \in Procs, FinalComplete(p)
  PROVE  Inv'
<1>1. /\ proc[p] \in Local /\ Key(p) \in Keys
      /\ Terminal /\ conts[Key(p)] # "NONE"
  BY KeyType DEF Inv, FinalComplete, At, ProcOK
<1>2. /\ proc' \in [Procs -> Local]
      /\ \A q \in Procs \ {p} : proc'[q] = proc[q]
      /\ ProcOK(p)'
  BY IdleType, CallType, LandsIdle DEF Inv, Return, Call, FinalComplete
<1>3. /\ conts' \in [Keys -> {"NONE", "PENDING", "COMPLETED"}]
      /\ \A k \in Keys : conts'[k] # "NONE" <=> conts[k] # "NONE"
      /\ \A k \in Keys : conts'[k] # "PENDING"
  <2>1. conts' = [conts EXCEPT ![Key(p)] = "COMPLETED"]
    BY DEF FinalComplete
  <2>2. conts \in [Keys -> {"NONE", "PENDING", "COMPLETED"}]
    BY DEF Inv, TypeOK, Keys
  <2>3. \A k \in Keys : conts[k] # "PENDING"
    BY <1>1 DEF Inv, JobsOK, Keys
  <2> QED
    BY <1>1, <2>1, <2>2, <2>3
<1>4. TypeOK'
  BY <1>2, <1>3 DEF Inv, TypeOK, FinalComplete, runners, Keys
<1>5. /\ run' = run /\ attempt' = attempt
      /\ Last' = Last /\ Current' = Current /\ Terminal'
  BY <1>1 DEF FinalComplete, Last, Current, Terminal
<1>6. RowsOK' /\ GensOK'
  BY <1>5 DEF Inv, RowsOK, GensOK
<1>7. JobsOK'
  <2>1. \A j \in Index, m \in Infra : <<j, m>> \in Keys
    BY DEF Keys
  <2>2. \A j \in Index, m \in Infra :
          conts'[<<j, m>>] # "NONE" => j <= Last /\ m <= run.infra
    BY <1>3, <2>1 DEF Inv, JobsOK
  <2> QED
    BY <1>1, <1>3, <1>5, <2>2 DEF Inv, JobsOK, Keys
<1>8. Effect
  BY <1>1, <1>3, <1>5 DEF Effect
<1> QED
  BY <1>2, <1>4, <1>6, <1>7, <1>8, WriteFrame

LEMMA ResumeJobInv ==
  ASSUME Inv, NEW p \in Procs, ResumeJob(p)
  PROVE  Inv'
<1>1. UNCHANGED <<db, deleted, msgs, runners, handled, crashes>>
  BY DEF ResumeJob
<1>2. ASSUME NEW k \in DOMAIN conts, conts[k] = "PENDING",
             Call(p, Continuing(k))
      PROVE  Inv'
  <2>1. k \in Keys
    BY DEF Inv, TypeOK, Keys
  <2> QED
    BY <1>1, <1>2, <2>1, ContinueInv
<1> QED
  BY <1>1, <1>2, ReturnInv DEF ResumeJob

LEMMA SweepInv ==
  ASSUME Inv, NEW p \in Procs, Sweep(p)
  PROVE  Inv'
<1>1. PICK i \in Index :
        Call(p, Finishing(i, attempt[i].gen, "SYSTEM_ERROR",
                          IF attempt[i].status = "QUEUED"
                          THEN "UNCLAIMED" ELSE "LOST"))
  BY DEF Sweep, Rows
<1>2. attempt[i].gen \in Infra
  BY DEF Inv, TypeOK
<1>3. PICK why \in {"UNCLAIMED", "LOST"} :
        why = IF attempt[i].status = "QUEUED" THEN "UNCLAIMED" ELSE "LOST"
  OBVIOUS
<1>4. Call(p, Finishing(i, attempt[i].gen, "SYSTEM_ERROR", why))
  BY <1>1, <1>3
<1> QED
  BY <1>2, <1>4, FinishInv DEF Sweep, Final

LEMMA CrashInv ==
  ASSUME Inv, NEW p \in Procs, Crash(p)
  PROVE  Inv'
<1>1. /\ proc' \in [Procs -> Local]
      /\ \A q \in Procs \ {p} : proc'[q] = proc[q]
      /\ ProcOK(p)'
  BY IdleType, CallType, LandsIdle DEF Inv, Return, Call, Crash
<1>2. crashes' \in 0..MaxCrashes
  BY RetriesAssumption DEF Crash, Inv, TypeOK
<1>3. TypeOK'
  BY <1>1, <1>2 DEF Inv, TypeOK, Crash, db, runners
<1> QED
  BY <1>1, <1>3, ReadFrame DEF Crash, db

LEMMA DeleteTestInv ==
  ASSUME Inv, DeleteTest
  PROVE  Inv'
<1>1. UNCHANGED <<run, attempt, conts, proc>>
  BY DEF DeleteTest, db
<1>2. TypeOK'
  BY <1>1 DEF Inv, TypeOK, DeleteTest, db, runners
<1> QED
  BY <1>1, <1>2
     DEF Inv, RowsOK, GensOK, JobsOK, ProcOK, Terminal, Current, Last,
         Recording, Reporting, Fresh, Key, Decided, Justified, Closing, Word

LEMMA StutterInv ==
  ASSUME Inv, UNCHANGED vars
  PROVE  Inv'
BY DEF vars, Inv, TypeOK, RowsOK, GensOK, JobsOK, ProcOK, Terminal, Current,
       Last, Recording, Reporting, Fresh, Key, Decided, Justified,
       Closing, Word

-----------------------------------------------------------------------------
(* The inductive invariant.                                                *)

LEMMA InitInv == Init => Inv
<1> SUFFICES ASSUME Init PROVE Inv
  OBVIOUS
<1>1. /\ 0 \in Index /\ 0 \in Infra /\ Last = 0
      /\ 1 \in 0..(MaxRetries + 1) /\ 1 \in 1..(MaxRetries + 1)
      /\ 0 \in 0..MaxCrashes
  BY RetriesAssumption DEF Index, Infra, Init, Last
<1>2. /\ attempt \in [Index -> [status    : {"NONE"} \cup Open \cup Final,
                                gen       : Infra,
                                owner     : Deliveries \cup {NoDelivery},
                                cancelled : BOOLEAN]]
      /\ attempt[0].status = "QUEUED"
      /\ \A i \in Index : i # 0 => attempt[i].status = "NONE"
      /\ \A i \in Index : attempt[i].gen = 0
  BY <1>1 DEF Init, Unborn, Open
<1>3. TypeOK
  <2>1. /\ run \in [status  : {"QUEUED", "RUNNING"} \cup Final,
                    infra   : Infra,
                    started : BOOLEAN,
                    billable : BOOLEAN,
                    count   : 0..(MaxRetries + 1)]
        /\ final \in [status  : {"NONE", "PENDING", "COMPLETED"},
                      reverse : BOOLEAN,
                      handle  : BOOLEAN]
    BY <1>1 DEF Init
  <2>2. /\ conts \in [Index \X Infra -> {"NONE", "PENDING", "COMPLETED"}]
        /\ released \in [Index \X Infra -> Nat]
        /\ proc \in [Procs -> Local]
    BY IdleType DEF Init
  <2>3. /\ msgs \subseteq Index \X Infra
        /\ leases \subseteq Ref
    BY <1>1 DEF Init
  <2>4. /\ usage \in {"NONE", "CHARGED", "REVERSED"}
        /\ deleted \in BOOLEAN
        /\ handled \in BOOLEAN
        /\ crashes \in 0..MaxCrashes
    BY <1>1 DEF Init
  <2> QED
    BY <1>2, <2>1, <2>2, <2>3, <2>4 DEF TypeOK
<1>4. RowsOK
  BY <1>1, <1>2 DEF Init, RowsOK, Index
<1>5. GensOK
  BY <1>1, <1>2 DEF Init, GensOK
<1>6. JobsOK
  BY <1>1, <1>2
     DEF Init, JobsOK, Current, Terminal, Final, Verdicts, Functional, Open
<1>7. \A q \in Procs : ProcOK(q)
  BY DEF Init, Idle, ProcOK, Recording, Reporting, SettlingLabels, RunnerLabels
<1> QED
  BY <1>3, <1>4, <1>5, <1>6, <1>7 DEF Inv

LEMMA NextInv == Inv /\ [Next]_vars => Inv'
<1> SUFFICES ASSUME Inv, [Next]_vars PROVE Inv'
  OBVIOUS
<1>1. CASE UNCHANGED vars
  BY <1>1, StutterInv
<1>2. CASE DeleteTest
  BY <1>2, DeleteTestInv
<1>3. ASSUME NEW p \in Requests, Request(p)
      PROVE  Inv'
  <2>1. p \in Procs
    BY DEF Procs
  <2> QED
    BY <1>3, <2>1, ClaimReadInv, RefuseConsentInv, StartReadInv,
       CompleteReadInv DEF Request
<1>4. ASSUME NEW p \in Crons, Cron(p)
      PROVE  Inv'
  <2>1. p \in Procs
    BY DEF Procs
  <2> QED
    BY <1>4, <2>1, ResumeJobInv, SweepInv DEF Cron
<1>5. ASSUME NEW p \in Procs, Step(p)
      PROVE  Inv'
  BY <1>5, ClaimJobInv, ClaimTargetInv, ClaimCasInv, StartRunInv,
     FinishReadInv, FinishJobInv, FinishRecordInv,
     CancelJobInv, CancelRecordInv, CancelRunInv,
     ContinueReadInv, ApplyRetryInv, ApplyInfraInv, ApplyFinalizeInv,
     FinalReadInv, FinalReverseInv, FinalHandleInv, FinalSettleInv,
     FinalCompleteInv DEF Step
<1>6. ASSUME NEW p \in Procs, Crash(p)
      PROVE  Inv'
  BY <1>6, CrashInv
<1> QED
  BY <1>1, <1>2, <1>3, <1>4, <1>5, <1>6 DEF Next

THEOREM Invariance == Spec => []Inv
BY InitInv, NextInv, PTL DEF Spec

(* Every variable keeps its type; in particular no retry exceeds the two   *)
(* budgets, maxRetries and MAX_INFRA_RETRIES.                              *)
THEOREM TypeCorrect == Spec => []TypeOK
<1>1. Inv => TypeOK
  BY DEF Inv
<1> QED
  BY <1>1, Invariance, PTL

(* Whatever invocations, crashes and deletions do, an unfinished run       *)
(* either waits for its one open attempt or has exactly one pending        *)
(* continuation for maintenance to resume.                                 *)
THEOREM RunNeverStranded == Spec => []NeverStranded
<1>1. Inv => NeverStranded
  <2> SUFFICES ASSUME Inv PROVE NeverStranded
    OBVIOUS
  <2>1. /\ Last \in Index /\ run.infra \in Infra
        /\ Current \in Keys /\ DOMAIN conts = Keys
    BY RowsCount DEF Inv, TypeOK, Current, Keys
  <2>2. attempt[Last].status \in Final => attempt[Last].status \notin Open
    BY DEF Final, Verdicts, Functional, Open
  <2>3. \A i \in OpenRows : i = Last /\ ~Terminal /\ attempt[Last].status \in Open
    BY OpenIsLast DEF OpenRows, Rows
  <2>4. \A k \in Pending : k = Current /\ ~Terminal
    BY <2>1 DEF Pending, Inv, JobsOK, Keys
  <2>5. CASE Terminal
    BY <2>3, <2>4, <2>5 DEF NeverStranded
  <2>6. CASE ~Terminal /\ attempt[Last].status \in Open
    <3>1. Last \in OpenRows
      BY <2>1, <2>6 DEF OpenRows, Rows, Open
    <3>2. Current \notin Pending
      BY <2>6, OpenIsLast, <2>1 DEF Pending
    <3> QED
      BY <2>3, <2>4, <2>6, <3>1, <3>2 DEF NeverStranded
  <2>7. CASE ~Terminal /\ attempt[Last].status \in Final
    <3>1. OpenRows = {}
      BY <2>2, <2>3, <2>7
    <3>2. Current \in Pending
      BY <2>1, <2>2, <2>7 DEF Pending, Inv, JobsOK
    <3> QED
      BY <2>4, <2>7, <3>1, <3>2 DEF NeverStranded, Current
  <2> QED
    BY <2>5, <2>6, <2>7 DEF Inv, JobsOK
<1> QED
  BY <1>1, Invariance, PTL

(* attempt_count is the number of attempt rows, whichever batch wrote it.  *)
THEOREM CountIsExact == Spec => []AttemptCount
<1>1. Inv => AttemptCount
  BY RowsCount DEF Inv, AttemptCount, Last
<1> QED
  BY <1>1, Invariance, PTL

-----------------------------------------------------------------------------
(* Who may run an attempt. *)

(* A lease of the current generation is the owner's, and that generation   *)
(* is no longer queued.                                                    *)
LeaseOK(l) ==
  /\ attempt[l.idx].status # "NONE"
  /\ l.gen <= attempt[l.idx].gen
  /\ l.gen = attempt[l.idx].gen =>
       attempt[l.idx].owner = l.dlv /\ attempt[l.idx].status # "QUEUED"

(* The secrets of a generation only go out when it starts to run.          *)
ReleaseOK(i, g) ==
  /\ attempt[i].status # "NONE"
  /\ g <= attempt[i].gen
  /\ g = attempt[i].gen => attempt[i].status \notin {"QUEUED", "STARTING"}

LeasesOK == \A l \in leases : LeaseOK(l)
ReleasedOK == \A i \in Index, g \in Infra : released[<<i, g>>] # 0 => ReleaseOK(i, g)

LeaseInv == LeasesOK /\ ReleasedOK /\ ExclusiveLease /\ SecretsOnce

-----------------------------------------------------------------------------
(* The ways an attempt may change: none of them returns to a generation    *)
(* that was leased or had its secrets.                                     *)
Moves(i) ==
  \/ attempt'[i] = attempt[i]
  \/ /\ attempt[i].status # "NONE"
     /\ attempt'[i].gen = attempt[i].gen /\ attempt'[i].owner = attempt[i].owner
     /\ attempt'[i].status \notin {"NONE", "QUEUED", "STARTING"}
  \/ /\ attempt[i].status = "QUEUED"
     /\ attempt'[i].gen = attempt[i].gen
     /\ attempt'[i].status # "NONE"
  \/ /\ attempt'[i].gen > attempt[i].gen
     /\ attempt'[i].status # "NONE"
  \/ attempt[i].status = "NONE"

LEMMA MovesKeep ==
  ASSUME LeaseInv, NEW i \in Index, Moves(i), attempt[i].gen \in Infra,
         attempt'[i].gen \in Infra
  PROVE  /\ \A l \in leases : l.idx = i /\ l.gen \in Infra => LeaseOK(l)'
         /\ \A g \in Infra : released[<<i, g>>] # 0 => ReleaseOK(i, g)'
<1>1. ASSUME NEW l \in leases, l.idx = i, l.gen \in Infra
      PROVE  LeaseOK(l)'
  BY <1>1, RetriesAssumption
     DEF LeaseInv, LeasesOK, LeaseOK, Moves, Infra
<1>2. ASSUME NEW g \in Infra, released[<<i, g>>] # 0
      PROVE  ReleaseOK(i, g)'
  BY <1>2, RetriesAssumption
     DEF LeaseInv, ReleasedOK, ReleaseOK, Moves, Infra
<1> QED
  BY <1>1, <1>2

(* A step that hands out no lease and releases nothing. *)
LEMMA MovesFrame ==
  ASSUME Inv, Inv', LeaseInv, \A i \in Index : Moves(i),
         UNCHANGED <<leases, released>>
  PROVE  LeaseInv'
<1>1. \A i \in Index : attempt[i].gen \in Infra /\ attempt'[i].gen \in Infra
  BY DEF Inv, TypeOK
<1>2. \A l \in leases : l.idx \in Index /\ l.gen \in Infra
  BY DEF Inv, TypeOK, Ref
<1>3. LeasesOK'
  BY <1>1, <1>2, MovesKeep DEF LeasesOK
<1>4. ReleasedOK'
  BY <1>1, MovesKeep DEF ReleasedOK
<1>5. ExclusiveLease' /\ SecretsOnce'
  BY DEF LeaseInv, ExclusiveLease, SecretsOnce
<1> QED
  BY <1>3, <1>4, <1>5 DEF LeaseInv

(* A claim hands the current generation to the attempt's new owner.        *)
LEMMA GrantLease ==
  ASSUME Inv, Inv', LeaseInv, NEW lease \in Ref, \A i \in Index : Moves(i),
         leases' = leases \cup {lease}, UNCHANGED released,
         LeaseOK(lease)',
         attempt[lease.idx].status = "QUEUED"
           \/ attempt[lease.idx].owner = lease.dlv,
         attempt[lease.idx].gen = lease.gen
  PROVE  LeaseInv'
<1>1. \A i \in Index : attempt[i].gen \in Infra /\ attempt'[i].gen \in Infra
  BY DEF Inv, TypeOK
<1>2. \A l \in leases : l.idx \in Index /\ l.gen \in Infra
  BY DEF Inv, TypeOK, Ref
<1>3. LeasesOK'
  <2>1. \A l \in leases : LeaseOK(l)'
    BY <1>1, <1>2, MovesKeep
  <2> QED
    BY <2>1 DEF LeasesOK
<1>4. ReleasedOK'
  BY <1>1, MovesKeep DEF ReleasedOK
<1>5. \A l \in leases : l.idx = lease.idx /\ l.gen = lease.gen => l.dlv = lease.dlv
  BY DEF LeaseInv, LeasesOK, LeaseOK
<1>6. ExclusiveLease'
  BY <1>5 DEF LeaseInv, ExclusiveLease
<1>7. SecretsOnce'
  BY DEF LeaseInv, SecretsOnce
<1> QED
  BY <1>3, <1>4, <1>6, <1>7 DEF LeaseInv

-----------------------------------------------------------------------------
(* The steps, by what they do to the attempts.                             *)

LEMMA StillFrame ==
  ASSUME Inv, Inv', LeaseInv, UNCHANGED <<attempt, leases, released>>
  PROVE  LeaseInv'
BY MovesFrame DEF Moves

LEMMA ClaimTargetLease ==
  ASSUME Inv, Inv', LeaseInv, NEW p \in Procs, ClaimTarget(p)
  PROVE  LeaseInv'
<1>0. PICK i \in Index, g \in Infra, d \in Deliveries :
        i = proc[p].idx /\ g = proc[p].gen /\ d = proc[p].dlv
  BY KeyType DEF Inv, ClaimTarget, At, ProcOK, RunnerLabels
<1> DEFINE lease == [idx |-> i, gen |-> g, dlv |-> d]
<1>1. UNCHANGED <<attempt, released>>
  BY DEF ClaimTarget, db
<1>2. CASE UNCHANGED leases
  BY <1>1, <1>2, StillFrame
<1>3. CASE /\ attempt[i].owner = d
           /\ attempt[i].gen = g
           /\ attempt[i].status = "STARTING"
           /\ leases' = leases \cup {lease}
  <2>1. lease \in Ref
    BY <1>1 DEF Ref
  <2>2. LeaseOK(lease)'
    BY <1>1, <1>3 DEF LeaseOK, Infra
  <2>3. \A j \in Index : Moves(j)
    BY <1>1 DEF Moves
  <2> QED
    BY <1>1, <1>3, <2>1, <2>2, <2>3, GrantLease
<1> QED
  BY <1>0, <1>2, <1>3 DEF ClaimTarget

LEMMA ClaimCasLease ==
  ASSUME Inv, Inv', LeaseInv, NEW p \in Procs, ClaimCas(p)
  PROVE  LeaseInv'
<1>0. PICK i \in Index, g \in Infra, d \in Deliveries :
        i = proc[p].idx /\ g = proc[p].gen /\ d = proc[p].dlv
  BY KeyType DEF Inv, ClaimCas, At, ProcOK, RunnerLabels
<1> DEFINE lease == [idx |-> i, gen |-> g, dlv |-> d]
<1>1. attempt \in [Index -> Fields] /\ UNCHANGED released
  BY DEF Inv, TypeOK, Fields, ClaimCas
<1>2. CASE UNCHANGED <<attempt, leases>>
  BY <1>1, <1>2, StillFrame
<1>3. CASE /\ attempt[i].status = "QUEUED"
           /\ attempt' = [attempt EXCEPT ![i].status = "STARTING",
                                         ![i].owner = d]
           /\ leases' = IF attempt[i].gen = g
                        THEN leases \cup {lease} ELSE leases
  <2>1. /\ attempt'[i].status = "STARTING" /\ attempt'[i].owner = d
        /\ attempt'[i].gen = attempt[i].gen
        /\ \A j \in Index \ {i} : attempt'[j] = attempt[j]
    BY <1>1, <1>3 DEF Fields
  <2>2. \A j \in Index : Moves(j)
    BY <1>3, <2>1 DEF Moves
  <2>3. CASE attempt[i].gen = g
    <3>1. lease \in Ref
      BY <1>1 DEF Ref
    <3>2. LeaseOK(lease)'
      BY <1>1, <2>1, <2>3 DEF LeaseOK, Infra
    <3> QED
      BY <1>1, <1>3, <2>2, <2>3, <3>1, <3>2, GrantLease
  <2>4. CASE attempt[i].gen # g
    BY <1>1, <1>3, <2>2, <2>4, MovesFrame
  <2> QED
    BY <2>3, <2>4
<1> QED
  BY <1>0, <1>2, <1>3 DEF ClaimCas

(* The secrets of a generation are released as it leaves STARTING.         *)
LEMMA StartRunLease ==
  ASSUME Inv, Inv', LeaseInv, NEW p \in Procs, StartRun(p)
  PROVE  LeaseInv'
<1>0. PICK i \in Index, g \in Infra : i = proc[p].idx /\ g = proc[p].gen
  BY KeyType DEF Inv
<1>1. /\ attempt \in [Index -> Fields]
      /\ released \in [Index \X Infra -> Nat]
      /\ UNCHANGED leases
  BY DEF Inv, TypeOK, Fields, StartRun
<1>2. CASE UNCHANGED <<attempt, released>>
  BY <1>1, <1>2, StillFrame
<1>3. CASE /\ attempt[i].status = "STARTING"
           /\ attempt' = [attempt EXCEPT ![i].status = "RUNNING"]
           /\ \/ UNCHANGED released
              \/ /\ attempt[i].gen = g
                 /\ released' = [released EXCEPT ![<<i, g>>] = @ + 1]
  <2>1. /\ attempt'[i].status = "RUNNING"
        /\ attempt'[i].gen = attempt[i].gen
        /\ attempt'[i].owner = attempt[i].owner
        /\ \A j \in Index \ {i} : attempt'[j] = attempt[j]
    BY <1>1, <1>3 DEF Fields
  <2>2. \A j \in Index : Moves(j)
    BY <1>3, <2>1 DEF Moves
  <2>3. CASE UNCHANGED released
    BY <1>1, <2>2, <2>3, MovesFrame
  <2>4. CASE /\ attempt[i].gen = g
             /\ released' = [released EXCEPT ![<<i, g>>] = @ + 1]
    <3>1. released[<<i, g>>] = 0
      BY <1>1, <1>3, <2>4 DEF LeaseInv, ReleasedOK, ReleaseOK
    <3>2. /\ <<i, g>> \in Index \X Infra
          /\ released' \in [Index \X Infra -> Nat]
          /\ released'[<<i, g>>] = 1
          /\ \A k \in (Index \X Infra) \ {<<i, g>>} : released'[k] = released[k]
      BY <1>1, <2>4, <3>1
    <3>3. SecretsOnce'
      BY <1>1, <3>2 DEF LeaseInv, SecretsOnce
    <3>4. \A j \in Index : attempt[j].gen \in Infra /\ attempt'[j].gen \in Infra
      BY DEF Inv, TypeOK
    <3>5. ReleaseOK(i, g)'
      BY <1>1, <2>1, <2>4 DEF ReleaseOK, Infra
    <3>6. ReleasedOK'
      <4> SUFFICES ASSUME NEW j \in Index, NEW h \in Infra,
                          released'[<<j, h>>] # 0
                   PROVE  ReleaseOK(j, h)'
        BY DEF ReleasedOK
      <4>1. CASE <<j, h>> = <<i, g>>
        BY <3>5, <4>1
      <4>2. CASE <<j, h>> # <<i, g>>
        <5>1. released[<<j, h>>] # 0
          BY <3>2, <4>2
        <5> QED
          BY <2>2, <3>4, <5>1, MovesKeep
      <4> QED
        BY <4>1, <4>2
    <3>7. LeasesOK'
      <4>1. \A l \in leases : l.idx \in Index /\ l.gen \in Infra
        BY DEF Inv, TypeOK, Ref
      <4> QED
        BY <1>1, <2>2, <3>4, <4>1, MovesKeep DEF LeasesOK
    <3>8. ExclusiveLease'
      BY <1>1 DEF LeaseInv, ExclusiveLease
    <3> QED
      BY <3>3, <3>6, <3>7, <3>8 DEF LeaseInv
  <2> QED
    BY <1>3, <2>3, <2>4
<1> QED
  BY <1>0, <1>2, <1>3 DEF StartRun, Holds

LEMMA RecordLease ==
  ASSUME Inv, Inv', LeaseInv, NEW i \in Index, NEW key, NEW status \in Final,
         \E cancelled \in BOOLEAN : RecordCompletion(i, key, status, cancelled),
         UNCHANGED <<leases, released>>
  PROVE  LeaseInv'
<1>1. attempt \in [Index -> Fields]
  BY DEF Inv, TypeOK, Fields
<1>2. CASE UNCHANGED attempt
  BY <1>2, StillFrame
<1>3. ASSUME NEW cancelled \in BOOLEAN, attempt[i].status \in Open,
             attempt' = [attempt EXCEPT ![i].status = status,
                                        ![i].cancelled = cancelled]
      PROVE  LeaseInv'
  <2>1. /\ attempt'[i].status = status
        /\ attempt'[i].gen = attempt[i].gen /\ attempt'[i].owner = attempt[i].owner
        /\ \A j \in Index \ {i} : attempt'[j] = attempt[j]
    BY <1>1, <1>3 DEF Fields
  <2>2. \A j \in Index : Moves(j)
    BY <1>3, <2>1 DEF Moves, Open, Final, Verdicts, Functional
  <2> QED
    BY <2>2, MovesFrame
<1> QED
  BY <1>2, <1>3 DEF RecordCompletion

LEMMA FinishLease ==
  ASSUME Inv, Inv', LeaseInv, NEW p \in Procs, FinishRecord(p) \/ CancelRecord(p)
  PROVE  LeaseInv'
<1>1. proc[p].idx \in Index /\ UNCHANGED <<leases, released>>
  BY KeyType DEF Inv, FinishRecord, CancelRecord, runners
<1>2. PICK status \in Final :
        \E cancelled \in BOOLEAN :
          RecordCompletion(proc[p].idx, Key(p), status, cancelled)
  <2>1. CASE FinishRecord(p)
    <3>1. proc[p].st \in Final
      BY <2>1 DEF FinishRecord, At, Inv, ProcOK, Reporting
    <3> QED
      BY <2>1, <3>1 DEF FinishRecord
  <2>2. CASE CancelRecord(p)
    BY <2>2 DEF CancelRecord, Final
  <2> QED
    BY <2>1, <2>2
<1> QED
  BY <1>1, <1>2, RecordLease

(* A retry queues a new attempt, or the old one under a new generation.    *)
LEMMA RetryLease ==
  ASSUME Inv, Inv', LeaseInv, NEW p \in Procs, ApplyRetry(p) \/ ApplyInfra(p)
  PROVE  LeaseInv'
<1>1. /\ attempt \in [Index -> Fields] /\ run.infra \in Nat
      /\ proc[p].idx \in Index
      /\ UNCHANGED <<leases, released>>
      /\ \A j \in Index : attempt[j].gen \in Nat /\ attempt[j].gen <= run.infra
  BY KeyType DEF Inv, TypeOK, Fields, GensOK, ApplyRetry, ApplyInfra, runners, Infra
<1>2. CASE UNCHANGED attempt
  BY <1>1, <1>2, StillFrame
<1>3. ASSUME NEW i, attempt[i].status = "NONE",
             attempt' = [attempt EXCEPT ![i].status = "QUEUED",
                                        ![i].gen = run.infra]
      PROVE  LeaseInv'
  <2>1. \A j \in Index : Moves(j)
    BY <1>1, <1>3 DEF Moves, Fields
  <2> QED
    BY <1>1, <2>1, MovesFrame
<1>4. ASSUME NEW i \in Index,
             attempt' = [attempt EXCEPT ![i].status = "QUEUED",
                                        ![i].gen = run.infra + 1,
                                        ![i].cancelled = FALSE]
      PROVE  LeaseInv'
  <2>1. /\ attempt'[i].status = "QUEUED" /\ attempt'[i].gen = run.infra + 1
        /\ \A j \in Index \ {i} : attempt'[j] = attempt[j]
    BY <1>1, <1>4 DEF Fields
  <2>2. \A j \in Index : Moves(j)
    BY <1>1, <2>1 DEF Moves
  <2> QED
    BY <1>1, <2>2, MovesFrame
<1> QED
  BY <1>1, <1>2, <1>3, <1>4 DEF ApplyRetry, ApplyInfra

-----------------------------------------------------------------------------
LEMMA LeaseInit == Init => LeaseInv
<1> SUFFICES ASSUME Init PROVE LeaseInv
  OBVIOUS
<1>1. leases = {} /\ \A k \in Index \X Infra : released[k] = 0
  BY DEF Init
<1>2. DOMAIN released = Index \X Infra
  BY DEF Init
<1> QED
  BY <1>1, <1>2 DEF LeaseInv, LeasesOK, ReleasedOK, ExclusiveLease, SecretsOnce

LEMMA LeaseNext == Inv /\ LeaseInv /\ [Next]_vars => LeaseInv'
<1> SUFFICES ASSUME Inv, LeaseInv, [Next]_vars PROVE LeaseInv'
  OBVIOUS
<1>1. Inv'
  BY NextInv
<1>2. CASE UNCHANGED <<attempt, leases, released>>
  BY <1>1, <1>2, StillFrame
<1>3. ASSUME NEW p \in Procs,
             \/ ClaimTarget(p) \/ ClaimCas(p) \/ StartRun(p)
             \/ FinishRecord(p) \/ CancelRecord(p)
             \/ ApplyRetry(p) \/ ApplyInfra(p)
      PROVE  LeaseInv'
  BY <1>1, <1>3, ClaimTargetLease, ClaimCasLease, StartRunLease, FinishLease,
     RetryLease
<1>4. CASE UNCHANGED vars \/ DeleteTest
  BY <1>2, <1>4 DEF vars, DeleteTest, db, runners
<1>5. ASSUME NEW p \in Requests, Request(p)
      PROVE  LeaseInv'
  BY <1>2, <1>5
     DEF Request, ClaimRead, RefuseConsent, StartRead, CompleteRead, db, runners
<1>6. ASSUME NEW p \in Crons, Cron(p)
      PROVE  LeaseInv'
  BY <1>2, <1>6 DEF Cron, ResumeJob, Sweep, db, runners
<1>7. ASSUME NEW p \in Procs, Step(p) \/ Crash(p)
      PROVE  LeaseInv'
  <2>1. \/ UNCHANGED <<attempt, leases, released>>
        \/ ClaimTarget(p) \/ ClaimCas(p) \/ StartRun(p)
        \/ FinishRecord(p) \/ CancelRecord(p)
        \/ ApplyRetry(p) \/ ApplyInfra(p)
    BY <1>7
       DEF Step, Crash, ClaimJob, FinishRead, FinishJob, CancelJob, CancelRun,
           ContinueRead, ApplyFinalize, FinalRead, FinalReverse, FinalHandle,
           FinalSettle, FinalComplete, db, runners
  <2> QED
    BY <1>2, <1>3, <2>1
<1> QED
  BY <1>4, <1>5, <1>6, <1>7 DEF Next

LEMMA LeaseInvariance == Spec => []LeaseInv
BY LeaseInit, LeaseNext, Invariance, PTL DEF Spec

(* Two deliveries never hold the job of the same generation, however often *)
(* its message is redelivered and whatever claims race.                    *)
THEOREM LeaseIsExclusive == Spec => []ExclusiveLease
<1>1. LeaseInv => ExclusiveLease
  BY DEF LeaseInv
<1> QED
  BY <1>1, LeaseInvariance, PTL

(* No generation gets the secrets of its run twice.                        *)
THEOREM SecretsReleasedOnce == Spec => []SecretsOnce
<1>1. LeaseInv => SecretsOnce
  BY DEF LeaseInv
<1> QED
  BY <1>1, LeaseInvariance, PTL
=============================================================================
