------------------------- MODULE PaidDeliveryProofs -------------------------
(***************************************************************************)
(* Proofs about PaidDelivery, for any number of consumers, deliveries and  *)
(* faults, any credit and any daily limit.                                 *)
(*                                                                         *)
(* The argument: beginDispatch is the only way into the part of execute    *)
(* that charges and calls, it needs a READY row, and only the invocation   *)
(* that holds the claim makes the row READY again, when it is done.  So at *)
(* most one invocation works on a delivery, although leases end and other  *)
(* invocations judge the row meanwhile.  The last part shows that each     *)
(* statement and call is a step of DeliveryContract, or none.              *)
(***************************************************************************)
EXTENDS DeliveryRefinement, FiniteSetTheorems, TLAPS

USE DEF At

(* An invocation that has claimed its delivery and is not done with it.    *)
Working == {"removed", "recheck", "charge", "debit", "lastCheck", "stopRefund",
            "stopped", "call", "send", "skip", "conclude", "failed", "again",
            "refund", "ambiguous", "sent", "accept"}
Works(p) == proc[p].pc \in Working

(* Those of them that may still have the row in their name.                *)
Holding == Working \ {"refund", "accept", "conclude"}

(* About to report a result.                                               *)
Telling == {"reconcile", "conclude"}

Ready(d) == rows[d].status = "PENDING" /\ rows[d].dispatch = "READY"

-----------------------------------------------------------------------------
(* Types, and what a claim is. *)

Placed ==
  \A p \in Procs :
    /\ ~At(p, "idle") => proc[p].delivery \in Deliveries
    /\ proc[p].pc \in Telling => proc[p].result # "none"

Owned ==
  \A p \in Procs, d \in Deliveries : rows[d].owner = p =>
    /\ proc[p].delivery = d
    /\ proc[p].pc \in Holding
    /\ rows[d].status = "PENDING"
    /\ rows[d].dispatch = "DISPATCHING"
    /\ proc[p].attempt = rows[d].attempts

AttemptsLeft ==
  /\ \A d \in Deliveries : Ready(d) => rows[d].attempts < MaxAttempts
  /\ \A p \in Procs : At(p, "again") => proc[p].attempt < MaxAttempts

ClaimInv == Placed /\ Owned /\ AttemptsLeft

LEMMA TypeInit == Init => TypeOK /\ ClaimInv
BY PaidAssumption
   DEF Init, TypeOK, ClaimInv, Placed, Owned, AttemptsLeft, Ready, Row,
       Fresh, Local, Idle, Answer, MaxAttempts, Telling

(* An invocation that moves within execute and leaves the rows alone.      *)
LEMMA TypeMoves ==
  ASSUME TypeOK, ClaimInv, UNCHANGED rows, NEW p \in Procs, NEW l \in Local,
         proc' = [proc EXCEPT ![p] = l],
         l.pc # "idle" => l.delivery \in Deliveries,
         l.pc = "again" => l.attempt < MaxAttempts,
         l.pc \in Telling => l.result # "none",
         \/ \A d \in Deliveries : rows[d].owner # p
         \/ /\ l.pc \in Holding
            /\ l.delivery = proc[p].delivery /\ l.attempt = proc[p].attempt
  PROVE  proc' \in [Procs -> Local] /\ ClaimInv'
<1>1. /\ proc' \in [Procs -> Local] /\ proc'[p] = l
      /\ \A q \in Procs \ {p} : proc'[q] = proc[q]
  BY DEF TypeOK
<1>2. Placed' /\ AttemptsLeft'
  BY <1>1 DEF ClaimInv, Placed, AttemptsLeft, Ready
<1>3. Owned'
  BY <1>1 DEF ClaimInv, Owned
<1> QED BY <1>1, <1>2, <1>3 DEF ClaimInv

(* An invocation that ends its claim.                                      *)
LEMMA TypeFinishes ==
  ASSUME TypeOK, ClaimInv, NEW p \in Procs, NEW l \in Local,
         proc' = [proc EXCEPT ![p] = l], ~At(p, "idle"),
         l.pc # "idle" => l.delivery \in Deliveries, l.pc # "again",
         l.pc \in Telling => l.result # "none",
         NEW status \in {"PENDING", "SENT", "FAILED"},
         NEW dispatch \in {"READY", "AMBIGUOUS", "CONFIRMED"},
         FinishDispatch(p, status, dispatch),
         status = "PENDING" /\ dispatch = "READY"
           => proc[p].attempt < MaxAttempts
  PROVE  /\ rows' \in [Deliveries -> Row] /\ proc' \in [Procs -> Local]
         /\ ClaimInv'
<1> DEFINE d == proc[p].delivery
<1>1. /\ proc' \in [Procs -> Local] /\ proc'[p] = l
      /\ \A q \in Procs \ {p} : proc'[q] = proc[q]
      /\ d \in Deliveries /\ p # Nobody
  BY PaidAssumption DEF TypeOK, ClaimInv, Placed
<1>2. CASE ~Owns(p)
  <2>1. rows' = rows /\ \A x \in Deliveries : rows[x].owner # p
    BY <1>1, <1>2 DEF FinishDispatch, Owns, ClaimInv, Owned
  <2> QED BY <2>1, TypeMoves DEF TypeOK
<1>3. CASE Owns(p)
  <2>1. rows' = [rows EXCEPT ![d] = Settled(rows[d], status, dispatch)]
    BY <1>1, <1>3 DEF FinishDispatch, TypeOK
  <2>2. Settled(rows[d], status, dispatch) \in Row
    <3>1. rows[d] \in Row
      BY <1>1 DEF TypeOK
    <3> QED BY <3>1 DEF Settled, Row
  <2>3. /\ rows' \in [Deliveries -> Row]
        /\ rows'[d] = Settled(rows[d], status, dispatch)
        /\ \A x \in Deliveries \ {d} : rows'[x] = rows[x]
    BY <1>1, <2>1, <2>2 DEF TypeOK
  <2>4. /\ rows'[d].owner = Nobody /\ rows'[d].attempts = proc[p].attempt
        /\ rows'[d].status = status /\ rows'[d].dispatch = dispatch
    BY <1>1, <1>3, <2>3 DEF Settled, Row, TypeOK, Owns, ClaimInv, Owned
  <2>5. Placed' /\ AttemptsLeft'
    BY <1>1, <2>3, <2>4 DEF ClaimInv, Placed, AttemptsLeft, Ready
  <2>6. Owned'
    BY <1>1, <2>3, <2>4, PaidAssumption DEF ClaimInv, Owned
  <2> QED BY <1>1, <2>3, <2>5, <2>6 DEF ClaimInv
<1> QED BY <1>2, <1>3

(* The claim of beginDispatch.                                             *)
LEMMA TypeBegins ==
  ASSUME TypeOK, ClaimInv, NEW p \in Procs, ~At(p, "idle"),
         \A d \in Deliveries : rows[d].owner # p,
         NEW step \in {"removed", "recheck"}, BeginDispatch(p, step)
  PROVE  /\ rows' \in [Deliveries -> Row] /\ proc' \in [Procs -> Local]
         /\ ClaimInv'
<1> DEFINE d == proc[p].delivery
           l == [proc[p] EXCEPT !.pc = step, !.attempt = rows[d].attempts + 1]
<1>1. d \in Deliveries /\ p # Nobody /\ rows[d] \in Row /\ proc[p] \in Local
  BY PaidAssumption DEF TypeOK, ClaimInv, Placed
<1>2. /\ Ready(d) /\ rows[d].attempts \in 0..(MaxAttempts - 1)
      /\ rows' = [rows EXCEPT ![d] = Dispatched(p)]
      /\ proc' = [proc EXCEPT ![p] = l]
  BY <1>1 DEF BeginDispatch, Claimable, Become, Ready, ClaimInv, AttemptsLeft,
              Row, MaxAttempts
<1>3. /\ Dispatched(p) \in Row /\ Dispatched(p).status = "PENDING"
      /\ Dispatched(p).dispatch = "DISPATCHING" /\ Dispatched(p).owner = p
      /\ Dispatched(p).attempts = rows[d].attempts + 1
  <2>1. rows[d].attempts + 1 \in 0..MaxAttempts
    BY <1>2 DEF MaxAttempts
  <2> QED BY <1>1, <1>2, <2>1 DEF Dispatched, Row, Ready
<1>4. /\ l \in Local /\ l.pc = step /\ l.delivery = d
      /\ l.attempt = rows[d].attempts + 1
  <2>1. rows[d].attempts + 1 \in 0..MaxAttempts
    BY <1>2 DEF MaxAttempts
  <2> QED BY <1>1, <2>1 DEF Local
<1>5. /\ rows' \in [Deliveries -> Row] /\ rows'[d] = Dispatched(p)
      /\ \A x \in Deliveries \ {d} : rows'[x] = rows[x]
  BY <1>1, <1>2, <1>3 DEF TypeOK
<1>6. /\ proc' \in [Procs -> Local] /\ proc'[p] = l
      /\ \A q \in Procs \ {p} : proc'[q] = proc[q]
  BY <1>2, <1>4 DEF TypeOK
<1> HIDE DEF l
<1>7. Placed' /\ AttemptsLeft'
  BY <1>1, <1>3, <1>4, <1>5, <1>6
     DEF ClaimInv, Placed, AttemptsLeft, Ready, Telling
<1>8. Owned'
  BY <1>1, <1>2, <1>3, <1>4, <1>5, <1>6 DEF ClaimInv, Owned, Holding, Working
<1> QED BY <1>5, <1>6, <1>7, <1>8 DEF ClaimInv

(* What an action leaves as it is, in the terms of TypeOK.                 *)
rest == <<queue, workspace, ledger, events, provider, faults>>

LEMMA TypeRest ==
  ASSUME TypeOK, UNCHANGED rest, rows' \in [Deliveries -> Row],
         proc' \in [Procs -> Local]
  PROVE  TypeOK'
BY DEF TypeOK, rest, workspace, ledger, provider

Steps == {"row", "channel", "remove", "removed", "operational", "begin",
          "stale", "recheck", "charge", "debit", "lastCheck", "stopRefund",
          "stopped", "call", "send", "skip", "failed", "again", "refund", "ambiguous", "sent",
          "accept", "ack"}

LEMMA GotoLocal ==
  ASSUME NEW l \in Local, NEW step \in Steps
  PROVE  /\ [l EXCEPT !.pc = step] \in Local
         /\ [l EXCEPT !.pc = step].pc = step
         /\ [l EXCEPT !.pc = step].delivery = l.delivery
         /\ [l EXCEPT !.pc = step].attempt = l.attempt
         /\ [l EXCEPT !.pc = step].answer = l.answer
         /\ [l EXCEPT !.pc = step].result = l.result
<1>1. [l EXCEPT !.pc = step] \in Local
  BY DEF Local, Steps
<1> QED BY <1>1 DEF Local

LEMMA ReportLocal ==
  ASSUME NEW l \in Local, NEW result \in {"SENT", "FAILED"}
  PROVE  /\ [l EXCEPT !.pc = "reconcile", !.result = result] \in Local
         /\ [l EXCEPT !.pc = "reconcile", !.result = result].pc = "reconcile"
         /\ [l EXCEPT !.pc = "reconcile", !.result = result].delivery
               = l.delivery
         /\ [l EXCEPT !.pc = "reconcile", !.result = result].result = result
<1>1. [l EXCEPT !.pc = "reconcile", !.result = result] \in Local
  BY DEF Local
<1> QED BY <1>1 DEF Local

LEMMA ConcludeLocal ==
  ASSUME NEW l \in Local
  PROVE  /\ [l EXCEPT !.pc = "conclude", !.result = "FAILED"] \in Local
         /\ [l EXCEPT !.pc = "conclude", !.result = "FAILED"].pc = "conclude"
         /\ [l EXCEPT !.pc = "conclude", !.result = "FAILED"].delivery
               = l.delivery
         /\ [l EXCEPT !.pc = "conclude", !.result = "FAILED"].result = "FAILED"
<1>1. [l EXCEPT !.pc = "conclude", !.result = "FAILED"] \in Local
  BY DEF Local
<1> QED BY <1>1 DEF Local

LEMMA SendLocal ==
  ASSUME NEW l \in Local, NEW answer \in Answer
  PROVE  /\ [l EXCEPT !.pc = "send", !.answer = answer] \in Local
         /\ [l EXCEPT !.pc = "send", !.answer = answer].pc = "send"
         /\ [l EXCEPT !.pc = "send", !.answer = answer].delivery = l.delivery
         /\ [l EXCEPT !.pc = "send", !.answer = answer].attempt = l.attempt
         /\ [l EXCEPT !.pc = "send", !.answer = answer].answer = answer
<1>1. [l EXCEPT !.pc = "send", !.answer = answer] \in Local
  BY DEF Local
<1> QED BY <1>1 DEF Local

LEMMA IdleLocal ==
  /\ Idle \in Local /\ Idle.pc = "idle"
  /\ \A d \in Deliveries :
       /\ [Idle EXCEPT !.pc = "row", !.delivery = d] \in Local
       /\ [Idle EXCEPT !.pc = "row", !.delivery = d].pc = "row"
       /\ [Idle EXCEPT !.pc = "row", !.delivery = d].delivery = d
<1>1. Idle \in Local
  BY DEF Idle, Local, MaxAttempts
<1>2. ASSUME NEW d \in Deliveries
      PROVE  [Idle EXCEPT !.pc = "row", !.delivery = d] \in Local
  BY <1>1 DEF Local
<1> QED BY <1>1, <1>2 DEF Local, Idle

LEMMA TypeGoto ==
  ASSUME TypeOK, ClaimInv, UNCHANGED rows, NEW p \in Procs, ~At(p, "idle"),
         NEW step \in Steps, Goto(p, step),
         step = "again" => proc[p].attempt < MaxAttempts,
         proc[p].pc \in Holding => step \in Holding
  PROVE  proc' \in [Procs -> Local] /\ ClaimInv'
<1> DEFINE l == [proc[p] EXCEPT !.pc = step]
<1>1. proc[p] \in Local
  BY DEF TypeOK
<1>2. /\ l \in Local /\ l.pc = step /\ l.delivery = proc[p].delivery
      /\ l.attempt = proc[p].attempt
  BY <1>1, GotoLocal
<1>3. proc' = [proc EXCEPT ![p] = l]
  BY DEF Goto, Become
<1>4. l.delivery \in Deliveries
  BY <1>2 DEF ClaimInv, Placed
<1>5. proc[p].pc \notin Holding => \A d \in Deliveries : rows[d].owner # p
  BY DEF ClaimInv, Owned, Holding
<1> HIDE DEF l
<1>6. l.pc \notin Telling
  BY <1>2 DEF Steps, Telling
<1> QED BY <1>2, <1>3, <1>4, <1>5, <1>6, TypeMoves DEF Steps

LEMMA TypeReports ==
  ASSUME TypeOK, ClaimInv, UNCHANGED rows, NEW p \in Procs, ~At(p, "idle"),
         NEW result \in {"SENT", "FAILED"}, Report(p, result),
         proc[p].pc \notin Holding
  PROVE  proc' \in [Procs -> Local] /\ ClaimInv'
<1> DEFINE l == [proc[p] EXCEPT !.pc = "reconcile", !.result = result]
<1>1. proc[p] \in Local
  BY DEF TypeOK
<1>2. /\ l \in Local /\ l.pc = "reconcile" /\ l.delivery = proc[p].delivery
      /\ l.result = result
  BY <1>1, ReportLocal
<1>3. proc' = [proc EXCEPT ![p] = l]
  BY DEF Report, Become
<1>4. l.delivery \in Deliveries
  BY <1>2 DEF ClaimInv, Placed
<1>5. \A d \in Deliveries : rows[d].owner # p
  BY DEF ClaimInv, Owned, Holding
<1> HIDE DEF l
<1> QED BY <1>2, <1>3, <1>4, <1>5, TypeMoves

LEMMA TypeRetires ==
  ASSUME TypeOK, ClaimInv, UNCHANGED rows, NEW p \in Procs,
         Become(p, Idle), proc[p].pc \notin Holding
  PROVE  proc' \in [Procs -> Local] /\ ClaimInv'
<1>1. \A d \in Deliveries : rows[d].owner # p
  BY DEF ClaimInv, Owned, Holding
<1> QED BY <1>1, IdleLocal, TypeMoves DEF Become, Telling

LEMMA TypeEnds ==
  ASSUME TypeOK, ClaimInv, NEW p \in Procs, ~At(p, "idle"),
         \/ \E step \in Steps \ {"again"} : Goto(p, step)
         \/ \E result \in {"SENT", "FAILED"} : Report(p, result)
         \/ Conclude(p)
         \/ RetryLater(p),
         NEW status \in {"PENDING", "SENT", "FAILED"},
         NEW dispatch \in {"READY", "AMBIGUOUS", "CONFIRMED"},
         FinishDispatch(p, status, dispatch),
         status = "PENDING" /\ dispatch = "READY"
           => proc[p].attempt < MaxAttempts
  PROVE  /\ rows' \in [Deliveries -> Row] /\ proc' \in [Procs -> Local]
         /\ ClaimInv'
<1>1. proc[p] \in Local /\ proc[p].delivery \in Deliveries
  BY DEF TypeOK, ClaimInv, Placed
<1>2. CASE \E step \in Steps \ {"again"} : Goto(p, step)
  <2>1. PICK step \in Steps \ {"again"} : Goto(p, step)
    BY <1>2
  <2> DEFINE l == [proc[p] EXCEPT !.pc = step]
  <2>2. l \in Local /\ l.pc = step /\ l.delivery = proc[p].delivery
    BY <1>1, GotoLocal
  <2>3. proc' = [proc EXCEPT ![p] = l]
    BY <2>1 DEF Goto, Become
  <2> HIDE DEF l
  <2>4. l.pc \notin Telling
    BY <2>2 DEF Steps, Telling
  <2> QED BY <1>1, <2>2, <2>3, <2>4, TypeFinishes DEF Steps
<1>3. CASE \E result \in {"SENT", "FAILED"} : Report(p, result)
  <2>1. PICK result \in {"SENT", "FAILED"} : Report(p, result)
    BY <1>3
  <2> DEFINE l == [proc[p] EXCEPT !.pc = "reconcile", !.result = result]
  <2>2. /\ l \in Local /\ l.pc = "reconcile" /\ l.delivery = proc[p].delivery
      /\ l.result = result
    BY <1>1, ReportLocal
  <2>3. proc' = [proc EXCEPT ![p] = l]
    BY <2>1 DEF Report, Become
  <2> HIDE DEF l
  <2> QED BY <1>1, <2>2, <2>3, TypeFinishes
<1>4. CASE RetryLater(p)
  BY <1>4, IdleLocal, TypeFinishes DEF RetryLater, Become, Telling
<1>5. CASE Conclude(p)
  <2> DEFINE l == [proc[p] EXCEPT !.pc = "conclude", !.result = "FAILED"]
  <2>1. /\ l \in Local /\ l.pc = "conclude" /\ l.delivery = proc[p].delivery
        /\ l.result = "FAILED"
    BY <1>1, ConcludeLocal
  <2>2. proc' = [proc EXCEPT ![p] = l]
    BY <1>5 DEF Conclude, Become
  <2> HIDE DEF l
  <2> QED BY <1>1, <2>1, <2>2, TypeFinishes
<1> QED BY <1>2, <1>3, <1>4, <1>5

(* markStaleDispatchAmbiguous and recordProviderAcceptance: the row is     *)
(* settled whoever owned it.                                               *)
LEMMA TypeSettles ==
  ASSUME TypeOK, ClaimInv, NEW p \in Procs, proc[p].pc \in {"stale", "accept"},
         NEW result \in {"SENT", "FAILED"}, Report(p, result),
         NEW status \in {"PENDING", "SENT", "FAILED"},
         NEW dispatch \in {"AMBIGUOUS", "CONFIRMED"}, NEW d \in Deliveries,
         rows' = [rows EXCEPT ![d] = Settled(rows[d], status, dispatch)]
  PROVE  /\ rows' \in [Deliveries -> Row] /\ proc' \in [Procs -> Local]
         /\ ClaimInv'
<1> DEFINE l == [proc[p] EXCEPT !.pc = "reconcile", !.result = result]
<1>1. /\ proc[p] \in Local /\ proc[p].delivery \in Deliveries
      /\ rows[d] \in Row
  BY DEF TypeOK, ClaimInv, Placed
<1>2. /\ l \in Local /\ l.pc = "reconcile" /\ l.delivery = proc[p].delivery
      /\ l.result = result
  BY <1>1, ReportLocal
<1> HIDE DEF l
<1>3. /\ proc' \in [Procs -> Local] /\ proc'[p] = l
      /\ \A q \in Procs \ {p} : proc'[q] = proc[q]
  BY <1>2 DEF Report, Become, TypeOK, l
<1>4. /\ Settled(rows[d], status, dispatch) \in Row
      /\ Settled(rows[d], status, dispatch).owner = Nobody
      /\ Settled(rows[d], status, dispatch).dispatch = dispatch
  BY <1>1 DEF Settled, Row
<1>5. /\ rows' \in [Deliveries -> Row]
      /\ rows'[d] = Settled(rows[d], status, dispatch)
      /\ \A x \in Deliveries \ {d} : rows'[x] = rows[x]
  BY <1>4 DEF TypeOK
<1>6. Placed' /\ AttemptsLeft'
  BY <1>1, <1>2, <1>3, <1>4, <1>5
     DEF ClaimInv, Placed, AttemptsLeft, Ready
<1>7. Owned'
  BY <1>1, <1>3, <1>4, <1>5, PaidAssumption
     DEF ClaimInv, Owned, Holding, Working
<1> QED BY <1>3, <1>5, <1>6, <1>7 DEF ClaimInv

LEMMA TypeStep ==
  ASSUME TypeOK, ClaimInv, NEW p \in Procs, Step(p)
  PROVE  TypeOK' /\ ClaimInv'
<1> USE DEF Holding, Working, Steps
<1>0. ~At(p, "idle")
  BY DEF Step, ReadRow, ReadChannel, ClaimRemoved, NotRemovable,
         FinishRemoved, CheckOperational, Begin, BeginRefused, MarkStale,
         NotStale, Recheck, ReadCharge, Debit, NotDebited,
         Skip, LastCheck, StopRefund, FinishStopped, Answered, TryAgain, Failed,
         RefundFailed, MarkAmbiguous, Sent, Accept, AcceptRefused, Reconcile, Ack
<1> DEFINE Kept == proc' \in [Procs -> Local] /\ ClaimInv'
<1>1. CASE ReadRow(p) \/ ReadChannel(p) \/ NotRemovable(p)
           \/ CheckOperational(p) \/ BeginRefused(p) \/ NotStale(p)
           \/ Recheck(p) \/ ReadCharge(p)
           \/ NotDebited(p) \/ LastCheck(p) \/ AcceptRefused(p)
  <2>1. UNCHANGED rest /\ UNCHANGED rows
    BY <1>1 DEF ReadOnly, rest, ReadRow, ReadChannel, NotRemovable,
                CheckOperational, BeginRefused, NotStale, Recheck, ReadCharge,
                NotDebited, LastCheck, AcceptRefused
  <2>2. CASE ReadRow(p)
    BY <1>0, <2>1, <2>2, TypeGoto, TypeReports, TypeRest DEF ReadRow, TypeOK
  <2>3. CASE ReadChannel(p) \/ NotRemovable(p) \/ CheckOperational(p)
             \/ BeginRefused(p)
    BY <1>0, <2>1, <2>3, TypeGoto, TypeRest
       DEF ReadChannel, NotRemovable, CheckOperational, BeginRefused, TypeOK
  <2>4. CASE Recheck(p) \/ ReadCharge(p)
             \/ NotDebited(p) \/ LastCheck(p)
    BY <1>0, <2>1, <2>4, TypeGoto, TypeRest
       DEF Recheck, ReadCharge, NotDebited, LastCheck,
           TypeOK
  <2>5. CASE NotStale(p) \/ AcceptRefused(p)
    BY <2>1, <2>5, TypeRetires, TypeRest
       DEF NotStale, AcceptRefused, RetryLater, TypeOK
  <2> QED BY <1>1, <2>2, <2>3, <2>4, <2>5
<1>2. CASE ClaimRemoved(p) \/ Begin(p)
  <2>1. \A d \in Deliveries : rows[d].owner # p
    BY <1>2 DEF ClaimInv, Owned, Holding, ClaimRemoved, Begin
  <2> QED BY <1>0, <1>2, <2>1, TypeBegins, TypeRest
          DEF ClaimRemoved, Begin, rest
<1>3. CASE FinishRemoved(p) \/ Skip(p) \/ FinishStopped(p) \/ TryAgain(p)
           \/ Failed(p) \/ MarkAmbiguous(p) \/ Sent(p)
  <2>1. UNCHANGED rest
    BY <1>3 DEF FinishRemoved, Skip, FinishStopped, TryAgain, Failed,
                MarkAmbiguous, Sent, rest
  <2>2. CASE TryAgain(p)
    <3>1. proc[p].attempt < MaxAttempts
      BY <2>2 DEF TryAgain, ClaimInv, AttemptsLeft
    <3> QED BY <1>0, <2>1, <2>2, <3>1, TypeEnds, TypeRest DEF TryAgain
  <2>3. CASE FinishRemoved(p) \/ Skip(p) \/ FinishStopped(p) \/ Failed(p)
    BY <1>0, <2>1, <2>3, TypeEnds, TypeRest
       DEF FinishRemoved, Skip, FinishStopped, Failed
  <2>4. CASE MarkAmbiguous(p) \/ Sent(p)
    BY <1>0, <2>1, <2>4, TypeEnds, TypeRest DEF MarkAmbiguous, Sent
  <2> QED BY <1>3, <2>2, <2>3, <2>4
<1>4. CASE MarkStale(p) \/ Accept(p)
  <2>1. proc[p].delivery \in Deliveries
    BY <1>0 DEF ClaimInv, Placed
  <2> QED BY <1>4, <2>1, TypeSettles, TypeRest
          DEF MarkStale, Accept, rest, TypeOK
<1>5. CASE Debit(p)
  <2>1. Kept
    BY <1>0, <1>5, TypeGoto DEF Debit
  <2> QED BY <1>5, <2>1, <1>0
          DEF Debit, TypeOK, workspace, provider, ClaimInv, Placed
<1>6. CASE StopRefund(p) \/ RefundFailed(p)
  <2>1. Kept
    BY <1>0, <1>6, TypeGoto, TypeReports DEF StopRefund, RefundFailed
  <2> QED BY <1>6, <2>1, <1>0
          DEF StopRefund, RefundFailed, Refund, ledger, TypeOK, workspace,
              provider
<1>7. CASE Answered(p)
  <2>1. Kept
    BY <1>0, <1>7, TypeGoto DEF Answered, AfterError
  <2> QED BY <1>0, <1>7, <2>1
          DEF Answered, TypeOK, workspace, ledger, ClaimInv, Placed
<1>8. CASE Reconcile(p)
  <2>1. Kept
    BY <1>0, <1>8, TypeGoto DEF Reconcile
  <2>2. proc[p].delivery \in Deliveries /\ proc[p].result \in {"SENT", "FAILED"}
    BY <1>0, <1>8 DEF Reconcile, ClaimInv, Placed, TypeOK, Local, Telling
  <2> QED BY <1>0, <1>8, <2>1, <2>2
          DEF Reconcile, TypeOK, workspace, ledger, provider
<1>9. CASE Ack(p)
  <2>1. Kept
    BY <1>9, TypeRetires DEF Ack
  <2> QED BY <1>9, <2>1 DEF Ack, TypeOK, workspace, ledger, provider
<1> QED BY <1>1, <1>2, <1>3, <1>4, <1>5, <1>6, <1>7, <1>8, <1>9 DEF Step

LEMMA TypeSend ==
  ASSUME TypeOK, ClaimInv, NEW p \in Procs, NEW answer \in Answer,
         NEW accepts \in BOOLEAN, Send(p, answer, accepts)
  PROVE  TypeOK' /\ ClaimInv'
<1> DEFINE l == [proc[p] EXCEPT !.pc = "send", !.answer = answer]
<1>1. /\ proc[p] \in Local /\ proc[p].delivery \in Deliveries
      /\ proc[p].pc = "call"
  BY DEF TypeOK, ClaimInv, Placed, Send
<1>2. /\ l \in Local /\ l.pc = "send" /\ l.delivery = proc[p].delivery
      /\ l.attempt = proc[p].attempt
  BY <1>1, SendLocal
<1>3. proc' = [proc EXCEPT ![p] = l] /\ UNCHANGED rows
  BY DEF Send, Become
<1> HIDE DEF l
<1>4. proc' \in [Procs -> Local] /\ ClaimInv'
  BY <1>1, <1>2, <1>3, TypeMoves DEF Holding, Working, Telling
<1>5. /\ accepted' \subseteq Deliveries /\ calls' \in [Deliveries -> Nat]
      /\ UNCHANGED <<rows, queue, workspace, ledger, events, rejections, faults>>
  BY <1>1 DEF Send, TypeOK
<1> QED BY <1>4, <1>5 DEF TypeOK, workspace, ledger

(* An invocation that ends takes its token with it.                        *)
LEMMA TypeStop ==
  ASSUME TypeOK, ClaimInv, NEW p \in Procs, Stop(p)
  PROVE  TypeOK' /\ ClaimInv'
<1>1. /\ proc' = [proc EXCEPT ![p] = Idle]
      /\ rows' = [d \in Deliveries |-> IF rows[d].owner = p
                    THEN [rows[d] EXCEPT !.owner = Nobody] ELSE rows[d]]
      /\ faults' \in Nat
      /\ UNCHANGED <<queue, workspace, ledger, events, provider>>
  BY DEF Stop, Become, Forget, TypeOK
<1>2. /\ proc' \in [Procs -> Local] /\ proc'[p] = Idle
      /\ \A q \in Procs \ {p} : proc'[q] = proc[q]
  BY <1>1, IdleLocal DEF TypeOK
<1>3. ASSUME NEW d \in Deliveries
      PROVE  /\ rows'[d] \in Row /\ rows'[d].attempts = rows[d].attempts
             /\ rows'[d].status = rows[d].status
             /\ rows'[d].dispatch = rows[d].dispatch
             /\ rows'[d].owner # p
             /\ rows'[d].owner = rows[d].owner \/ rows'[d].owner = Nobody
  <2>1. rows[d] \in Row /\ p # Nobody
    BY PaidAssumption DEF TypeOK
  <2> QED BY <1>1, <2>1 DEF Row
<1>4. rows' \in [Deliveries -> Row]
  BY <1>1, <1>3
<1>5. Placed' /\ AttemptsLeft'
  <2>1. Placed'
    BY <1>2, IdleLocal DEF ClaimInv, Placed, Telling
  <2>2. AttemptsLeft'
    BY <1>2, <1>3, IdleLocal DEF ClaimInv, AttemptsLeft, Ready
  <2> QED BY <2>1, <2>2
<1>6. Owned'
  BY <1>2, <1>3, PaidAssumption DEF ClaimInv, Owned
<1> QED BY <1>1, <1>2, <1>4, <1>5, <1>6
        DEF TypeOK, ClaimInv, workspace, ledger, provider

(* The row of one delivery or of all changes by itself: a lease ends, or   *)
(* the tombstone fails what is pending.                                    *)
LEMMA TypeRows ==
  ASSUME TypeOK, ClaimInv, UNCHANGED proc, rows' \in [Deliveries -> Row],
         \A d \in Deliveries :
           \/ /\ rows'[d].owner = rows[d].owner
              /\ rows'[d].status = rows[d].status
              /\ rows'[d].dispatch = rows[d].dispatch
              /\ rows'[d].attempts = rows[d].attempts
           \/ /\ rows'[d].owner = Nobody
              /\ rows'[d].status = "FAILED"
  PROVE  ClaimInv'
<1>1. Placed' /\ AttemptsLeft'
  BY DEF ClaimInv, Placed, AttemptsLeft, Ready
<1>2. Owned'
  BY PaidAssumption DEF ClaimInv, Owned
<1> QED BY <1>1, <1>2 DEF ClaimInv

LEMMA TypeLease ==
  ASSUME TypeOK, ClaimInv, NEW d \in Deliveries, LeaseEnds(d)
  PROVE  TypeOK' /\ ClaimInv'
<1>1. rows[d] \in Row
  BY DEF TypeOK
<1>2. [rows[d] EXCEPT !.leased = FALSE] \in Row
  BY <1>1 DEF Row
<1>3. /\ rows' \in [Deliveries -> Row]
      /\ rows'[d] = [rows[d] EXCEPT !.leased = FALSE]
      /\ \A x \in Deliveries \ {d} : rows'[x] = rows[x]
  BY <1>2 DEF LeaseEnds, TypeOK
<1>4. ClaimInv'
  BY <1>1, <1>3, TypeRows DEF Row, LeaseEnds
<1> QED BY <1>3, <1>4 DEF LeaseEnds, TypeOK, workspace, ledger, provider

LEMMA TypeTombstone ==
  ASSUME TypeOK, ClaimInv, Tombstone
  PROVE  TypeOK' /\ ClaimInv'
<1>1. ASSUME NEW d \in Deliveries
      PROVE  /\ Settled(rows[d], "FAILED", "CONFIRMED") \in Row
             /\ Settled(rows[d], "FAILED", "CONFIRMED").owner = Nobody
             /\ Settled(rows[d], "FAILED", "CONFIRMED").status = "FAILED"
  <2>1. rows[d] \in Row
    BY DEF TypeOK
  <2> QED BY <2>1 DEF Settled, Row
<1>2. rows' \in [Deliveries -> Row]
  BY <1>1 DEF Tombstone, TypeOK
<1>3. ClaimInv'
  BY <1>1, <1>2, TypeRows DEF Tombstone
<1>4. /\ operational' \in BOOLEAN /\ paidOn' \in BOOLEAN /\ changes' \in Nat
      /\ UNCHANGED <<queue, enabled, ledger, events, provider, proc, faults>>
  <2>1. /\ operational' = FALSE /\ paidOn' = FALSE /\ changes' = changes + 1
        /\ UNCHANGED <<queue, enabled, ledger, events, provider, proc, faults>>
    BY DEF Tombstone, Change
  <2>2. changes \in Nat
    BY DEF TypeOK
  <2>3. changes' \in Nat
    BY <2>1, <2>2
  <2>4. operational' \in BOOLEAN /\ paidOn' \in BOOLEAN
    BY <2>1
  <2> QED BY <2>1, <2>3, <2>4
<1> QED BY <1>2, <1>3, <1>4 DEF TypeOK, ledger, provider

LEMMA TypeNext == TypeOK /\ ClaimInv /\ [Next]_vars => TypeOK' /\ ClaimInv'
<1> SUFFICES ASSUME TypeOK, ClaimInv, [Next]_vars
             PROVE  TypeOK' /\ ClaimInv'
  OBVIOUS
<1>1. ASSUME NEW p \in Procs, Throw(p)
      PROVE  TypeOK' /\ ClaimInv'
  <2>1. proc' \in [Procs -> Local] /\ ClaimInv'
    BY <1>1, TypeGoto DEF Throw, AfterError, Holding, Working, Steps
  <2> QED BY <1>1, <2>1 DEF Throw, TypeOK, workspace, ledger, provider
<1>2. ASSUME NEW p \in Procs, RefundThrows(p)
      PROVE  TypeOK' /\ ClaimInv'
  <2>1. proc' \in [Procs -> Local] /\ ClaimInv'
    BY <1>2, TypeGoto, TypeReports
       DEF RefundThrows, Holding, Working, Steps
  <2> QED BY <1>2, <2>1 DEF RefundThrows, TypeOK, workspace, ledger, provider
<1>3. ASSUME NEW p \in Procs, NEW d \in Deliveries, Deliver(p, d)
      PROVE  TypeOK' /\ ClaimInv'
  <2>1. \A x \in Deliveries : rows[x].owner # p
    BY <1>3 DEF Deliver, ClaimInv, Owned, Holding, Working
  <2>2. proc' \in [Procs -> Local] /\ ClaimInv'
    BY <1>3, <2>1, IdleLocal, TypeMoves DEF Deliver, Become, ReadOnly, Telling
  <2> QED BY <1>3, <2>2, TypeRest DEF Deliver, ReadOnly, rest, TypeOK
<1>4. CASE DayPasses \/ DisableChannel \/ TurnPaidOff
  <2>1. UNCHANGED <<rows, proc>>
    BY <1>4 DEF DayPasses, DisableChannel, TurnPaidOff
  <2>2. ClaimInv'
    BY <2>1 DEF ClaimInv, Placed, Owned, AttemptsLeft, Ready
  <2>3. changes' \in Nat
    BY <1>4 DEF DayPasses, DisableChannel, TurnPaidOff, Change, TypeOK
  <2>4. CASE DayPasses
    BY <2>2, <2>3, <2>4 DEF DayPasses, TypeOK, provider
  <2>5. CASE DisableChannel \/ TurnPaidOff
    BY <2>2, <2>3, <2>5 DEF DisableChannel, TurnPaidOff, TypeOK, ledger, provider
  <2> QED BY <1>4, <2>4, <2>5
<1>5. CASE UNCHANGED vars
  BY <1>5 DEF vars, TypeOK, ClaimInv, Placed, Owned, AttemptsLeft, Ready
<1> QED BY <1>1, <1>2, <1>3, <1>4, <1>5, TypeStep, TypeSend, TypeStop,
           TypeLease, TypeTombstone DEF Next

(* The tables, the ledger and the local state of the consumers keep their  *)
(* types: in particular a delivery is attempted three times at most, and   *)
(* only what was charged is found again or refunded.                       *)
THEOREM TypeCorrect == Spec => []TypeOK
BY TypeInit, TypeNext, PTL DEF Spec

-----------------------------------------------------------------------------
(* Calls of the provider. *)

(* An invocation that still holds its claim and none of whose calls waits  *)
(* for an answer, was accepted or was unclear.                             *)
Clean == Working \ {"send", "ambiguous", "sent", "accept"}

(* On the way to the provider.                                             *)
Before == {"recheck", "charge", "debit", "lastCheck", "call"}

(* The delivery may have FAILED although the workspace is ACTIVE: also     *)
(* where the catch block comes to work on what was concluded before.       *)
Over == {"conclude", "again", "failed", "refund"}

(* At most one invocation works on a delivery.                             *)
Alone ==
  \A p, q \in Procs :
    Works(p) /\ Works(q) /\ proc[p].delivery = proc[q].delivery => p = q

(* What an invocation with local state l may rely on.                      *)
Fits(l) ==
  LET d == l.delivery IN
  l.pc \in Working =>
    /\ ~Ready(d)
    /\ d \notin refunded
    /\ l.pc \in Clean => calls[d] <= rejections[d]
    /\ l.pc \in Before => calls[d] < rows[d].attempts
    /\ l.pc = "send" => l.answer # "none"
    /\ l.pc = "send" /\ l.answer = "rejected"
         => d \notin accepted /\ rejections[d] < calls[d]
    /\ l.pc \in {"lastCheck", "call"} => d \in keyed
    /\ l.pc \in {"stopRefund", "stopped"} => ~operational
    /\ operational /\ rows[d].status = "FAILED" => l.pc \in Over

Counted ==
  \A d \in Deliveries :
    /\ rejections[d] <= calls[d]
    /\ calls[d] <= rejections[d] + 1
    /\ calls[d] <= rows[d].attempts
    /\ Ready(d) => calls[d] <= rejections[d]
    /\ d \in accepted => d \in keyed /\ rejections[d] < calls[d]
    /\ d \in refunded => calls[d] <= rejections[d] /\ ~Ready(d)
    /\ operational /\ rows[d].status = "FAILED" => calls[d] <= rejections[d]

CallInv == Alone /\ Counted /\ \A p \in Procs : Fits(proc[p])

LEMMA CallInit == Init => CallInv
BY PaidAssumption
   DEF Init, CallInv, Alone, Works, Working, Counted, Fits, Fresh, Idle

(* What Fits and Counted say depends on these only.                        *)
tables == <<rows, operational, keyed, refunded, provider>>

(* An invocation that moves on and changes none of the tables.             *)
LEMMA CallMoves ==
  ASSUME TypeOK, CallInv, UNCHANGED tables, NEW p \in Procs, NEW l \in Local,
         proc' = [proc EXCEPT ![p] = l],
         l.pc \in Working =>
           Works(p) /\ l.delivery = proc[p].delivery /\ Fits(l)
  PROVE  CallInv'
<1>1. proc'[p] = l /\ \A q \in Procs \ {p} : proc'[q] = proc[q]
  BY DEF TypeOK
<1>2. Alone'
  BY <1>1 DEF CallInv, Alone, Works
<1>3. Counted'
  BY DEF CallInv, Counted, Ready, tables, provider
<1>4. \A q \in Procs : Fits(proc[q])'
  <2>1. Fits(l)
    BY DEF Fits
  <2>2. ASSUME NEW q \in Procs PROVE Fits(proc[q])'
    <3>1. CASE q = p
      BY <1>1, <2>1, <3>1 DEF Fits, Ready, tables, provider
    <3>2. CASE q # p
      BY <1>1, <3>2 DEF CallInv, Fits, Ready, tables, provider
    <3> QED BY <3>1, <3>2
  <2> QED BY <2>2
<1> QED BY <1>2, <1>3, <1>4 DEF CallInv

(* The rows change by themselves, or an invocation ends.                   *)
LEMMA CallRows ==
  ASSUME TypeOK, CallInv, UNCHANGED <<keyed, refunded, provider>>,
         operational' => operational,
         \A q \in Procs : proc'[q] = proc[q] \/ proc'[q].pc = "idle",
         \A d \in Deliveries :
           /\ rows'[d].attempts = rows[d].attempts
           /\ \/ /\ rows'[d].status = rows[d].status
                 /\ rows'[d].dispatch = rows[d].dispatch
              \/ rows'[d].status = "FAILED" /\ ~operational',
         \A q \in Procs : Works(q) => proc[q].delivery \in Deliveries
  PROVE  CallInv'
<1>1. \A q \in Procs : Works(q)' => Works(q) /\ proc'[q] = proc[q]
  BY DEF Works, Working
<1>2. Alone'
  BY <1>1 DEF CallInv, Alone
<1>3. Counted'
  BY DEF CallInv, Counted, Ready, provider
<1>4. ASSUME NEW q \in Procs PROVE Fits(proc[q])'
  <2>1. CASE ~Works(q)'
    BY <2>1 DEF Fits, Works
  <2>2. CASE Works(q)'
    <3>1. Works(q) /\ proc'[q] = proc[q] /\ proc[q].delivery \in Deliveries
      BY <1>1, <2>2
    <3>2. Fits(proc[q])
      BY DEF CallInv
    <3> QED BY <3>1, <3>2 DEF Fits, Works, Ready, provider
  <2> QED BY <2>1, <2>2
<1> QED BY <1>2, <1>3, <1>4 DEF CallInv

(* A claim: no other invocation works on a READY delivery.                 *)
LEMMA CallBegins ==
  ASSUME TypeOK, ClaimInv, CallInv, NEW p \in Procs, ~At(p, "idle"),
         ~Works(p), NEW step \in {"removed", "recheck"}, BeginDispatch(p, step),
         UNCHANGED <<operational, keyed, refunded, provider>>
  PROVE  CallInv'
<1> DEFINE d == proc[p].delivery
           l == [proc[p] EXCEPT !.pc = step, !.attempt = rows[d].attempts + 1]
<1>1. d \in Deliveries /\ rows[d] \in Row /\ proc[p] \in Local
  BY DEF TypeOK, ClaimInv, Placed
<1>2. /\ Ready(d) /\ proc' = [proc EXCEPT ![p] = l]
      /\ rows' = [rows EXCEPT ![d] = Dispatched(p)]
  BY <1>1 DEF BeginDispatch, Claimable, Become, Ready
<1>3. /\ Dispatched(p).status = "PENDING"
      /\ Dispatched(p).dispatch = "DISPATCHING"
      /\ Dispatched(p).attempts = rows[d].attempts + 1
      /\ l.pc = step /\ l.delivery = d
  BY <1>1, <1>2 DEF Dispatched, Row, Ready, Local
<1> HIDE DEF l
<1>4. /\ rows'[d] = Dispatched(p) /\ proc'[p] = l
      /\ \A x \in Deliveries \ {d} : rows'[x] = rows[x]
      /\ \A q \in Procs \ {p} : proc'[q] = proc[q]
  BY <1>1, <1>2 DEF TypeOK
<1>5. \A q \in Procs : Works(q) => proc[q].delivery # d
  BY <1>2 DEF CallInv, Fits, Works
<1>6. Alone'
  BY <1>3, <1>4, <1>5 DEF CallInv, Alone, Works
<1>7. rows[d].attempts \in Nat /\ calls[d] \in Nat /\ rejections[d] \in Nat
  BY <1>1 DEF Row, TypeOK
<1>8. Counted'
  BY <1>1, <1>2, <1>3, <1>4, <1>7 DEF CallInv, Counted, Ready, provider
<1>9. ASSUME NEW q \in Procs PROVE Fits(proc[q])'
  <2>1. CASE q = p
    <3>1. /\ calls[d] <= rejections[d] /\ calls[d] < rows[d].attempts + 1
          /\ d \notin refunded
      BY <1>1, <1>2, <1>7 DEF CallInv, Counted
    <3> QED BY <1>3, <1>4, <2>1, <3>1
            DEF Fits, Ready, Working, Clean, Before, provider
  <2>2. CASE q # p /\ Works(q)
    <3>1. proc'[q] = proc[q] /\ proc[q].delivery \in Deliveries \ {d}
      BY <1>4, <1>5, <2>2 DEF ClaimInv, Placed, Works, Working
    <3> QED BY <1>4, <3>1 DEF CallInv, Fits, Ready, provider
  <2>3. CASE q # p /\ ~Works(q)
    BY <1>4, <2>3 DEF Fits, Works
  <2> QED BY <2>1, <2>2, <2>3
<1> QED BY <1>6, <1>8, <1>9 DEF CallInv

(* The row of one delivery is settled by an invocation that is done with   *)
(* it, or that never worked on it.                                         *)
LEMMA CallSettles ==
  ASSUME TypeOK, ClaimInv, CallInv, NEW p \in Procs, NEW l \in Local,
         ~At(p, "idle"), proc' = [proc EXCEPT ![p] = l],
         UNCHANGED <<operational, keyed, refunded, provider>>,
         NEW status \in {"PENDING", "SENT", "FAILED"},
         NEW dispatch \in {"READY", "AMBIGUOUS", "CONFIRMED"},
         LET d == proc[p].delivery IN
         \/ rows' = [rows EXCEPT ![d] = Settled(rows[d], status, dispatch)]
         \/ rows' = rows,
         l.pc \in Working =>
           /\ l.pc \in {"refund", "accept", "conclude"}
           /\ Works(p)
           /\ l.delivery = proc[p].delivery
           /\ dispatch # "READY"
           /\ l.pc = "accept" => status = "SENT" /\ At(p, "sent"),
         dispatch = "READY" \/ status = "FAILED"
           \/ l.pc \in {"refund", "conclude"} => proc[p].pc \in Clean,
         dispatch = "READY" => status = "PENDING",
         status = "FAILED" \/ dispatch = "READY" => Works(p)
  PROVE  CallInv'
<1> DEFINE d == proc[p].delivery
<1>1. d \in Deliveries /\ rows[d] \in Row
  BY DEF TypeOK, ClaimInv, Placed
<1>2. proc'[p] = l /\ \A q \in Procs \ {p} : proc'[q] = proc[q]
  BY DEF TypeOK
<1>3. Alone'
  BY <1>2 DEF CallInv, Alone, Works
<1>4. /\ \A x \in Deliveries : rows'[x].attempts = rows[x].attempts
      /\ \A x \in Deliveries \ {d} : rows'[x] = rows[x]
      /\ \/ rows'[d] = rows[d]
         \/ rows'[d].status = status /\ rows'[d].dispatch = dispatch
  <2>1. CASE rows' = [rows EXCEPT ![d] = Settled(rows[d], status, dispatch)]
    <3>1. /\ rows'[d] = Settled(rows[d], status, dispatch)
          /\ \A x \in Deliveries \ {d} : rows'[x] = rows[x]
      BY <1>1, <2>1 DEF TypeOK
    <3>2. /\ rows'[d].status = status /\ rows'[d].dispatch = dispatch
          /\ rows'[d].attempts = rows[d].attempts
      BY <1>1, <3>1 DEF Settled, Row
    <3> QED BY <3>1, <3>2
  <2>2. CASE rows' = rows
    BY <2>2
  <2> QED BY <2>1, <2>2
<1>5. Fits(proc[p]) /\ Works(p) => d \notin refunded
  BY DEF Fits, Works
<1>6. Counted'
  <2>1. proc[p].pc \in Clean => calls[d] <= rejections[d]
    BY DEF CallInv, Fits, Clean
  <2>2. dispatch = "READY" => d \notin refunded
    BY <1>5 DEF CallInv
  <2> QED BY <1>1, <1>4, <2>1, <2>2 DEF CallInv, Counted, Ready, provider
<1>7. ASSUME NEW q \in Procs PROVE Fits(proc[q])'
  <2>1. CASE ~Works(q)'
    BY <2>1 DEF Fits, Works
  <2>2. CASE q = p /\ Works(p)'
    <3>1. /\ l.pc \in {"refund", "accept", "conclude"} /\ l.delivery = d
          /\ Works(p) /\ dispatch # "READY"
          /\ l.pc = "accept" => status = "SENT" /\ At(p, "sent")
          /\ l.pc # "accept" => proc[p].pc \in Clean
      BY <1>2, <2>2 DEF Works
    <3>2. /\ ~Ready(d) /\ d \notin refunded
          /\ proc[p].pc \in Clean => calls[d] <= rejections[d]
          /\ operational /\ rows[d].status = "FAILED"
               => proc[p].pc \in Over
      BY <3>1 DEF CallInv, Fits, Works, Clean
    <3> QED BY <1>1, <1>2, <1>4, <2>2, <3>1, <3>2
            DEF Fits, Ready, Clean, Before, Over, provider
  <2>3. CASE q # p /\ Works(q)'
    <3>1. proc'[q] = proc[q] /\ Works(q) /\ proc[q].delivery \in Deliveries
      BY <1>2, <2>3 DEF Works, Working, ClaimInv, Placed
    <3>2. CASE proc[q].delivery # d
      BY <1>4, <3>1, <3>2 DEF CallInv, Fits, Ready, provider
    <3>3. CASE proc[q].delivery = d
      <4>1. ~Works(p)
        BY <2>3, <3>1, <3>3 DEF CallInv, Alone
      <4>2. status # "FAILED" /\ dispatch # "READY"
        BY <4>1
      <4> QED BY <1>1, <1>4, <3>1, <3>3, <4>2
              DEF CallInv, Fits, Ready, provider
    <3> QED BY <3>2, <3>3
  <2> QED BY <2>1, <2>2, <2>3
<1> QED BY <1>3, <1>6, <1>7 DEF CallInv

LEMMA GotoGives ==
  ASSUME TypeOK, NEW p \in Procs, NEW step \in Steps, Goto(p, step)
  PROVE  \E l \in Local : /\ proc' = [proc EXCEPT ![p] = l] /\ l.pc = step
                          /\ l.delivery = proc[p].delivery
                          /\ l.answer = proc[p].answer
<1>1. proc[p] \in Local
  BY DEF TypeOK
<1> QED BY <1>1, GotoLocal DEF Goto, Become

LEMMA ReportGives ==
  ASSUME TypeOK, NEW p \in Procs, NEW result \in {"SENT", "FAILED"},
         Report(p, result)
  PROVE  \E l \in Local : /\ proc' = [proc EXCEPT ![p] = l]
                          /\ l.pc = "reconcile" /\ l.result = result
                          /\ l.delivery = proc[p].delivery
<1>1. proc[p] \in Local
  BY DEF TypeOK
<1>2. PICK l \in Local : /\ l.pc = "reconcile" /\ l.result = result
                         /\ l.delivery = proc[p].delivery
                         /\ l = [proc[p] EXCEPT !.pc = "reconcile",
                                                !.result = result]
  BY <1>1, ReportLocal
<1> QED BY <1>2 DEF Report, Become

LEMMA ConcludeGives ==
  ASSUME TypeOK, NEW p \in Procs, Conclude(p)
  PROVE  \E l \in Local : /\ proc' = [proc EXCEPT ![p] = l]
                          /\ l.pc = "conclude" /\ l.result = "FAILED"
                          /\ l.delivery = proc[p].delivery
<1>1. proc[p] \in Local
  BY DEF TypeOK
<1>2. PICK l \in Local : /\ l.pc = "conclude" /\ l.result = "FAILED"
                         /\ l.delivery = proc[p].delivery
                         /\ l = [proc[p] EXCEPT !.pc = "conclude",
                                                !.result = "FAILED"]
  BY <1>1, ConcludeLocal
<1> QED BY <1>2 DEF Conclude, Become

LEMMA WorkingSteps == Working \ {"conclude"} \subseteq Steps
BY DEF Working, Steps

(* An invocation that goes on with its claim, or gives it up.              *)
LEMMA CallWorks ==
  ASSUME TypeOK, CallInv, UNCHANGED tables, NEW p \in Procs,
         NEW step \in Clean \ {"refund", "conclude"}, Goto(p, step),
         proc[p].pc \in Clean \ {"refund"},
         step \in Before => proc[p].pc \in Before,
         step \in Over \/ proc[p].pc \notin Over,
         step \in {"lastCheck", "call"} => proc[p].delivery \in keyed,
         step \in {"stopRefund", "stopped"} => ~operational
  PROVE  CallInv'
<1>1. step \in Steps
  BY WorkingSteps DEF Clean
<1>2. PICK l \in Local :
        /\ proc' = [proc EXCEPT ![p] = l] /\ l.pc = step
        /\ l.delivery = proc[p].delivery
  BY <1>1, GotoGives
<1>3. Works(p) /\ Fits(proc[p])
  BY DEF CallInv, Works, Clean
<1>4. Fits(l)
  BY <1>2, <1>3 DEF Fits, Works, Clean
<1> QED BY <1>2, <1>3, <1>4, CallMoves

LEMMA CallLeaves ==
  ASSUME TypeOK, CallInv, UNCHANGED tables, NEW p \in Procs,
         \/ \E step \in Steps \ Working : Goto(p, step)
         \/ \E result \in {"SENT", "FAILED"} : Report(p, result)
         \/ Become(p, Idle)
  PROVE  CallInv'
<1>1. PICK l \in Local : proc' = [proc EXCEPT ![p] = l] /\ l.pc \notin Working
  <2>1. CASE \E step \in Steps \ Working : Goto(p, step)
    BY <2>1, GotoGives
  <2>2. CASE \E result \in {"SENT", "FAILED"} : Report(p, result)
    BY <2>2, ReportGives DEF Working
  <2>3. CASE Become(p, Idle)
    BY <2>3, IdleLocal DEF Become, Working
  <2> QED BY <2>1, <2>2, <2>3
<1> QED BY <1>1, CallMoves

LEMMA CallEnds ==
  ASSUME TypeOK, ClaimInv, CallInv, NEW p \in Procs, ~At(p, "idle"),
         NEW status \in {"PENDING", "SENT", "FAILED"},
         NEW dispatch \in {"READY", "AMBIGUOUS", "CONFIRMED"},
         \/ \E step \in Steps \ Working : Goto(p, step)
         \/ \E result \in {"SENT", "FAILED"} : Report(p, result)
         \/ RetryLater(p)
         \/ Conclude(p) /\ proc[p].pc \in Clean /\ dispatch # "READY"
         \/ Goto(p, "refund") /\ proc[p].pc \in Clean /\ dispatch # "READY"
         \/ Goto(p, "accept") /\ At(p, "sent") /\ status = "SENT",
         FinishDispatch(p, status, dispatch),
         status = "FAILED" \/ dispatch = "READY" => proc[p].pc \in Clean,
         status = "PENDING" \/ dispatch = "CONFIRMED",
         UNCHANGED <<operational, keyed, refunded, provider>>
  PROVE  CallInv'
<1> DEFINE d == proc[p].delivery
<1>1. proc[p] \in Local /\ d \in Deliveries
  BY DEF TypeOK, ClaimInv, Placed
<1>2. PICK l \in Local :
        /\ proc' = [proc EXCEPT ![p] = l]
        /\ \/ l.pc \notin Working
           \/ /\ l.pc \in {"refund", "conclude"} /\ l.delivery = d
              /\ proc[p].pc \in Clean /\ dispatch # "READY"
           \/ /\ l.pc = "accept" /\ l.delivery = d /\ At(p, "sent")
              /\ status = "SENT"
  <2>1. CASE \E step \in Steps \ Working : Goto(p, step)
    BY <2>1, GotoGives
  <2>2. CASE \E result \in {"SENT", "FAILED"} : Report(p, result)
    BY <2>2, ReportGives DEF Working
  <2>3. CASE RetryLater(p)
    BY <2>3, IdleLocal DEF RetryLater, Become, Working
  <2>4. CASE Goto(p, "refund") /\ proc[p].pc \in Clean /\ dispatch # "READY"
    <3>1. "refund" \in Steps
      BY DEF Steps
    <3> QED BY <2>4, <3>1, GotoGives
  <2>5. CASE Goto(p, "accept") /\ At(p, "sent") /\ status = "SENT"
    <3>1. "accept" \in Steps
      BY DEF Steps
    <3> QED BY <2>5, <3>1, GotoGives
  <2>6. CASE Conclude(p) /\ proc[p].pc \in Clean /\ dispatch # "READY"
    BY <2>6, ConcludeGives
  <2> QED BY <2>1, <2>2, <2>3, <2>4, <2>5, <2>6
<1>3. \/ rows' = [rows EXCEPT ![d] = Settled(rows[d], status, dispatch)]
      \/ rows' = rows
  BY <1>1 DEF FinishDispatch, TypeOK
<1>4. l.pc \in Working =>
        /\ l.pc \in {"refund", "accept", "conclude"} /\ Works(p)
        /\ l.delivery = d /\ dispatch # "READY"
        /\ l.pc = "accept" => status = "SENT" /\ At(p, "sent")
        /\ l.pc # "accept" => proc[p].pc \in Clean
  BY <1>2 DEF Works, Working, Clean
<1>5. proc[p].pc \in Clean => Works(p)
  BY DEF Works, Clean
<1>6. l.pc \in {"refund", "conclude"} => l.pc \in Working
  BY DEF Working
<1> QED BY <1>2, <1>3, <1>4, <1>5, <1>6, CallSettles

(* An invocation at work changes what its delivery has in the tables.      *)
LEMMA CallChanges ==
  ASSUME TypeOK, ClaimInv, CallInv, UNCHANGED <<rows, operational>>,
         NEW p \in Procs, Works(p), NEW l \in Local,
         proc' = [proc EXCEPT ![p] = l],
         l.pc \in Working => l.delivery = proc[p].delivery,
         NEW d \in Deliveries, proc[p].delivery = d,
         \A x \in Deliveries \ {d} :
           /\ calls'[x] = calls[x] /\ rejections'[x] = rejections[x]
           /\ x \in accepted' <=> x \in accepted
           /\ x \in keyed' <=> x \in keyed
           /\ x \in refunded' <=> x \in refunded,
         /\ rejections'[d] <= calls'[d]
         /\ calls'[d] <= rejections'[d] + 1
         /\ calls'[d] <= rows[d].attempts
         /\ d \in accepted' => d \in keyed' /\ rejections'[d] < calls'[d]
         /\ d \in refunded' => calls'[d] <= rejections'[d]
         /\ operational /\ rows[d].status = "FAILED"
              => calls'[d] <= rejections'[d],
         Fits(l)'
  PROVE  CallInv'
<1>1. proc'[p] = l /\ \A q \in Procs \ {p} : proc'[q] = proc[q]
  BY DEF TypeOK
<1>2. ~Ready(d)
  BY DEF CallInv, Fits, Works
<1>3. Alone'
  BY <1>1 DEF CallInv, Alone, Works
<1>4. Counted'
  <2>1. ASSUME NEW x \in Deliveries, x # d
        PROVE  /\ rejections'[x] <= calls'[x]
               /\ calls'[x] <= rejections'[x] + 1
               /\ calls'[x] <= rows'[x].attempts
               /\ Ready(x)' => calls'[x] <= rejections'[x]
               /\ x \in accepted' => x \in keyed' /\ rejections'[x] < calls'[x]
               /\ x \in refunded' => calls'[x] <= rejections'[x] /\ ~Ready(x)'
               /\ operational' /\ rows'[x].status = "FAILED"
                    => calls'[x] <= rejections'[x]
    BY <2>1 DEF CallInv, Counted, Ready
  <2> QED BY <1>2, <2>1 DEF Counted, Ready
<1>5. ASSUME NEW q \in Procs PROVE Fits(proc[q])'
  <2>1. CASE q = p
    BY <1>1, <2>1 DEF Fits, Ready
  <2>2. CASE q # p /\ Works(q)
    <3>1. proc'[q] = proc[q] /\ proc[q].delivery \in Deliveries \ {d}
      BY <1>1, <2>2 DEF CallInv, Alone, Works, Working, ClaimInv, Placed
    <3> QED BY <3>1 DEF CallInv, Fits, Ready
  <2>3. CASE q # p /\ ~Works(q)
    BY <1>1, <2>3 DEF Fits, Works
  <2> QED BY <2>1, <2>2, <2>3
<1> QED BY <1>3, <1>4, <1>5 DEF CallInv

LEMMA CallSend ==
  ASSUME TypeOK, ClaimInv, CallInv, NEW p \in Procs, NEW answer \in Answer,
         NEW accepts \in BOOLEAN, Send(p, answer, accepts)
  PROVE  CallInv'
<1> DEFINE d == proc[p].delivery
<1>1. /\ proc[p] \in Local /\ d \in Deliveries /\ proc[p].pc = "call"
      /\ calls[d] \in Nat /\ rejections[d] \in Nat /\ rows[d].attempts \in Nat
  BY DEF TypeOK, ClaimInv, Placed, Send, Row
<1>2. PICK l \in Local : /\ proc' = [proc EXCEPT ![p] = l] /\ l.pc = "send"
                        /\ l.delivery = d /\ l.answer = answer
  <2>1. PICK l \in Local : /\ l.pc = "send" /\ l.delivery = d
                          /\ l.answer = answer
                          /\ l = [proc[p] EXCEPT !.pc = "send",
                                                 !.answer = answer]
    BY <1>1, SendLocal
  <2> QED BY <2>1 DEF Send, Become
<1>3. /\ UNCHANGED <<rows, operational, keyed, refunded, rejections>>
      /\ calls' = [calls EXCEPT ![d] = calls[d] + 1]
      /\ accepted' = IF accepts THEN accepted \cup {d} ELSE accepted
      /\ answer = "rejected" => ~accepts
  BY DEF Send, workspace, ledger
<1>4. /\ calls'[d] = calls[d] + 1
      /\ \A x \in Deliveries \ {d} : calls'[x] = calls[x]
  BY <1>1, <1>3 DEF TypeOK
<1>5. /\ Works(p) /\ ~Ready(d) /\ d \notin refunded /\ d \in keyed
      /\ calls[d] <= rejections[d] /\ calls[d] < rows[d].attempts
      /\ ~(operational /\ rows[d].status = "FAILED")
  BY <1>1, <1>3 DEF CallInv, Fits, Works, Working, Clean, Before, Over
<1>6. rejections[d] <= calls[d] /\ d \notin accepted
  BY <1>1, <1>5 DEF CallInv, Counted
<1>7. Fits(l)'
  <2>1. /\ ~(rows'[d].status = "PENDING" /\ rows'[d].dispatch = "READY")
        /\ d \notin refunded' /\ ~(operational' /\ rows'[d].status = "FAILED")
    BY <1>3, <1>5 DEF Ready
  <2>2. answer = "rejected" => d \notin accepted' /\ rejections'[d] < calls'[d]
    BY <1>1, <1>3, <1>4, <1>6
  <2>3. answer # "none"
    BY DEF Answer
  <2> QED BY <1>2, <1>3, <2>1, <2>2, <2>3 DEF Fits, Ready, Clean, Before
<1>8. \A x \in Deliveries \ {d} :
        /\ calls'[x] = calls[x] /\ rejections'[x] = rejections[x]
        /\ x \in accepted' <=> x \in accepted
        /\ x \in keyed' <=> x \in keyed
        /\ x \in refunded' <=> x \in refunded
  BY <1>3, <1>4
<1>9. /\ rejections'[d] <= calls'[d]
      /\ calls'[d] <= rejections'[d] + 1
      /\ calls'[d] <= rows[d].attempts
      /\ d \in accepted' => d \in keyed' /\ rejections'[d] < calls'[d]
      /\ d \in refunded' => calls'[d] <= rejections'[d]
      /\ operational /\ rows[d].status = "FAILED" => calls'[d] <= rejections'[d]
  BY <1>1, <1>3, <1>4, <1>5, <1>6
<1>10. proc[p].delivery = d
  OBVIOUS
<1> HIDE DEF d
<1> QED BY <1>1, <1>2, <1>3, <1>5, <1>7, <1>8, <1>9, <1>10, CallChanges

LEMMA CallAnswered ==
  ASSUME TypeOK, ClaimInv, CallInv, NEW p \in Procs, Answered(p)
  PROVE  CallInv'
<1> DEFINE d == proc[p].delivery
           answer == proc[p].answer
           step == IF answer = "accepted" THEN "sent" ELSE AfterError(p, answer)
<1>1. /\ proc[p] \in Local /\ d \in Deliveries /\ proc[p].pc = "send"
      /\ calls[d] \in Nat /\ rejections[d] \in Nat /\ rows[d].attempts \in Nat
      /\ answer \in Answer \cup {"none"}
  BY DEF TypeOK, ClaimInv, Placed, Answered, Row, Local
<1>2. /\ Works(p) /\ ~Ready(d) /\ d \notin refunded /\ answer # "none"
      /\ answer = "rejected" => d \notin accepted /\ rejections[d] < calls[d]
      /\ ~(operational /\ rows[d].status = "FAILED")
  BY <1>1 DEF CallInv, Fits, Works, Working, Over
<1>3. /\ step \in {"sent", "again", "failed", "ambiguous"}
      /\ step \in {"again", "failed"} => answer = "rejected"
  BY <1>1, <1>2 DEF AfterError, Answer
<1>4. PICK l \in Local : /\ proc' = [proc EXCEPT ![p] = l] /\ l.pc = step
                        /\ l.delivery = d /\ l.answer = answer
  <2>1. step \in Steps /\ Goto(p, step)
    BY <1>3 DEF Steps, Answered
  <2> HIDE DEF step
  <2> QED BY <2>1, GotoGives
<1> HIDE DEF step
<1>5. /\ UNCHANGED <<rows, operational, keyed, refunded, calls, accepted>>
      /\ \A x \in Deliveries \ {d} : rejections'[x] = rejections[x]
      /\ rejections'[d] = IF answer = "rejected" THEN rejections[d] + 1
                          ELSE rejections[d]
  BY <1>1 DEF Answered, TypeOK, workspace, ledger
<1>6. /\ rejections[d] <= calls[d] /\ calls[d] <= rejections[d] + 1
      /\ calls[d] <= rows[d].attempts
      /\ d \in accepted => d \in keyed /\ rejections[d] < calls[d]
  BY <1>1 DEF CallInv, Counted
<1>7. Fits(l)'
  BY <1>1, <1>2, <1>3, <1>4, <1>5, <1>6 DEF Fits, Ready, Clean, Before
<1>8. \A x \in Deliveries \ {d} :
        /\ calls'[x] = calls[x] /\ rejections'[x] = rejections[x]
        /\ x \in accepted' <=> x \in accepted
        /\ x \in keyed' <=> x \in keyed
        /\ x \in refunded' <=> x \in refunded
  BY <1>5
<1>9. /\ rejections'[d] <= calls'[d]
      /\ calls'[d] <= rejections'[d] + 1
      /\ calls'[d] <= rows[d].attempts
      /\ d \in accepted' => d \in keyed' /\ rejections'[d] < calls'[d]
      /\ d \in refunded' => calls'[d] <= rejections'[d]
      /\ operational /\ rows[d].status = "FAILED" => calls'[d] <= rejections'[d]
  BY <1>1, <1>2, <1>5, <1>6
<1>10. proc[p].delivery = d
  OBVIOUS
<1> HIDE DEF d
<1> QED BY <1>1, <1>2, <1>4, <1>5, <1>7, <1>8, <1>9, <1>10, CallChanges

LEMMA CallDebit ==
  ASSUME TypeOK, ClaimInv, CallInv, NEW p \in Procs, Debit(p)
  PROVE  CallInv'
<1> DEFINE d == proc[p].delivery
           step == IF operational THEN "lastCheck" ELSE "skip"
<1>1. /\ d \in Deliveries /\ proc[p].pc = "debit"
      /\ calls[d] \in Nat /\ rejections[d] \in Nat /\ rows[d].attempts \in Nat
  BY DEF TypeOK, ClaimInv, Placed, Debit, Row
<1>2. /\ Works(p) /\ ~Ready(d) /\ d \notin refunded
      /\ calls[d] <= rejections[d] /\ calls[d] < rows[d].attempts
      /\ ~(operational /\ rows[d].status = "FAILED")
  BY <1>1 DEF CallInv, Fits, Works, Working, Clean, Before, Over
<1>3. PICK l \in Local : /\ proc' = [proc EXCEPT ![p] = l] /\ l.pc = step
                        /\ l.delivery = d
  <2>1. step \in Steps /\ Goto(p, step)
    BY DEF Steps, Debit
  <2> HIDE DEF step
  <2> QED BY <2>1, GotoGives
<1>4. /\ UNCHANGED <<rows, operational, refunded, calls, rejections, accepted>>
      /\ keyed' = IF operational THEN keyed \cup {d} ELSE keyed
  BY DEF Debit, workspace, provider
<1>5. /\ rejections[d] <= calls[d]
      /\ d \in accepted => d \in keyed /\ rejections[d] < calls[d]
  BY <1>1 DEF CallInv, Counted
<1>6. Fits(l)'
  BY <1>1, <1>2, <1>3, <1>4, <1>5 DEF Fits, Ready, Clean, Before
<1>7. l.pc \in Working => l.delivery = d
  BY <1>3
<1> HIDE DEF step
<1>8. \A x \in Deliveries \ {d} :
        /\ calls'[x] = calls[x] /\ rejections'[x] = rejections[x]
        /\ x \in accepted' <=> x \in accepted
        /\ x \in keyed' <=> x \in keyed
        /\ x \in refunded' <=> x \in refunded
  BY <1>4
<1>9. /\ rejections'[d] <= calls'[d]
      /\ calls'[d] <= rejections'[d] + 1
      /\ calls'[d] <= rows[d].attempts
      /\ d \in accepted' => d \in keyed' /\ rejections'[d] < calls'[d]
      /\ d \in refunded' => calls'[d] <= rejections'[d]
      /\ operational /\ rows[d].status = "FAILED" => calls'[d] <= rejections'[d]
  BY <1>1, <1>2, <1>4, <1>5
<1>10. proc[p].delivery = d
  OBVIOUS
<1> HIDE DEF d
<1> QED BY <1>1, <1>2, <1>3, <1>4, <1>6, <1>7, <1>8, <1>9, <1>10, CallChanges

LEMMA CallRefunded ==
  ASSUME TypeOK, ClaimInv, CallInv, NEW p \in Procs, RefundFailed(p)
  PROVE  CallInv'
<1> DEFINE d == proc[p].delivery
<1>1. /\ d \in Deliveries /\ proc[p].pc = "refund"
      /\ calls[d] \in Nat /\ rejections[d] \in Nat /\ rows[d].attempts \in Nat
  BY DEF TypeOK, ClaimInv, Placed, RefundFailed, Row
<1>2. Works(p) /\ calls[d] <= rejections[d]
  BY <1>1 DEF CallInv, Fits, Works, Working, Clean
<1>3. PICK l \in Local : proc' = [proc EXCEPT ![p] = l] /\ l.pc \notin Working
  BY ReportGives DEF RefundFailed, Working
<1>4. /\ UNCHANGED <<rows, operational, keyed, calls, rejections, accepted>>
      /\ refunded' = refunded \/ refunded' = refunded \cup {d}
  BY DEF RefundFailed, Refund, workspace, provider, ledger
<1>5. /\ rejections[d] <= calls[d] /\ calls[d] <= rows[d].attempts
      /\ d \in accepted => d \in keyed /\ rejections[d] < calls[d]
  BY <1>1 DEF CallInv, Counted
<1>6. Fits(l)'
  BY <1>3 DEF Fits
<1>7. \A x \in Deliveries \ {d} :
        /\ calls'[x] = calls[x] /\ rejections'[x] = rejections[x]
        /\ x \in accepted' <=> x \in accepted
        /\ x \in keyed' <=> x \in keyed
        /\ x \in refunded' <=> x \in refunded
  BY <1>4
<1>8. /\ rejections'[d] <= calls'[d]
      /\ calls'[d] <= rejections'[d] + 1
      /\ calls'[d] <= rows[d].attempts
      /\ d \in accepted' => d \in keyed' /\ rejections'[d] < calls'[d]
      /\ d \in refunded' => calls'[d] <= rejections'[d]
      /\ operational /\ rows[d].status = "FAILED" => calls'[d] <= rejections'[d]
  BY <1>1, <1>2, <1>4, <1>5
<1>10. proc[p].delivery = d
  OBVIOUS
<1> HIDE DEF d
<1> QED BY <1>1, <1>2, <1>3, <1>4, <1>6, <1>7, <1>8, <1>10, CallChanges

LEMMA CallStep ==
  ASSUME TypeOK, ClaimInv, CallInv, NEW p \in Procs, Step(p)
  PROVE  CallInv'
<1>1. CASE ReadRow(p) \/ ReadChannel(p) \/ NotRemovable(p)
           \/ CheckOperational(p) \/ BeginRefused(p) \/ NotStale(p)
           \/ AcceptRefused(p)
  <2>1. UNCHANGED tables
    BY <1>1 DEF ReadOnly, tables, workspace, ledger, ReadRow, ReadChannel,
                NotRemovable, CheckOperational, BeginRefused, NotStale,
                AcceptRefused
  <2>2. \/ \E step \in Steps \ Working : Goto(p, step)
        \/ \E result \in {"SENT", "FAILED"} : Report(p, result)
        \/ Become(p, Idle)
    BY <1>1 DEF Steps, Working, RetryLater, ReadRow, ReadChannel, NotRemovable,
                CheckOperational, BeginRefused, NotStale, AcceptRefused
  <2> QED BY <2>1, <2>2, CallLeaves
<1>2. CASE Reconcile(p) \/ Ack(p)
  <2>1. UNCHANGED tables
    BY <1>2 DEF tables, workspace, ledger, Reconcile, Ack
  <2>2. (\E step \in Steps \ Working : Goto(p, step)) \/ Become(p, Idle)
    BY <1>2 DEF Steps, Working, Reconcile, Ack
  <2> QED BY <2>1, <2>2, CallLeaves
<1>3. CASE Recheck(p) \/ ReadCharge(p)
           \/ NotDebited(p) \/ LastCheck(p)
  <2>1. UNCHANGED tables
    BY <1>3 DEF ReadOnly, tables, workspace, ledger, Recheck, ReadCharge,
                NotDebited, LastCheck
  <2>2. At(p, "lastCheck") => proc[p].delivery \in keyed
    BY DEF CallInv, Fits, Working
  <2>3. \E step \in Clean \ {"refund", "conclude"} :
          /\ Goto(p, step)
          /\ step \in Before => proc[p].pc \in Before
          /\ step \in {"lastCheck", "call"} => proc[p].delivery \in keyed
          /\ step \in {"stopRefund", "stopped"} => ~operational
    BY <1>3, <2>2 DEF Clean, Working, Before, Recheck, ReadCharge, NotDebited,
                      LastCheck
  <2>4. proc[p].pc \in Clean \ {"refund"} /\ proc[p].pc \notin Over
    BY <1>3 DEF Clean, Working, Over, Recheck, ReadCharge, NotDebited,
                LastCheck
  <2> QED BY <2>1, <2>3, <2>4, CallWorks
<1>4. CASE StopRefund(p)
  <2>1. ~operational
    BY <1>4 DEF StopRefund, CallInv, Fits, Working
  <2>2. UNCHANGED tables /\ Goto(p, "stopped")
    BY <1>4, <2>1 DEF StopRefund, Refund, tables, workspace, ledger
  <2>3. /\ "stopped" \in Clean \ {"refund", "conclude"} /\ "stopped" \notin Before
        /\ proc[p].pc \in Clean \ {"refund"} /\ proc[p].pc \notin Over
    BY <1>4 DEF Clean, Working, Before, Over, StopRefund
  <2> QED BY <2>1, <2>2, <2>3, CallWorks
<1>5. CASE ClaimRemoved(p) \/ Begin(p)
  <2>1. ~Works(p) /\ ~At(p, "idle")
    BY <1>5 DEF Works, Working, ClaimRemoved, Begin
  <2>2. UNCHANGED <<operational, keyed, refunded, provider>>
    BY <1>5 DEF ClaimRemoved, Begin, workspace, ledger
  <2>3. \E step \in {"removed", "recheck"} : BeginDispatch(p, step)
    BY <1>5 DEF ClaimRemoved, Begin
  <2> QED BY <2>1, <2>2, <2>3, CallBegins
<1>6. CASE FinishRemoved(p) \/ Skip(p) \/ FinishStopped(p) \/ TryAgain(p)
           \/ Failed(p) \/ MarkAmbiguous(p) \/ Sent(p)
  <2>1. ~At(p, "idle") /\ UNCHANGED <<operational, keyed, refunded, provider>>
    BY <1>6 DEF FinishRemoved, Skip, FinishStopped, TryAgain, Failed,
                MarkAmbiguous, Sent, workspace, ledger
  <2>2. CASE FinishRemoved(p) \/ Skip(p) \/ FinishStopped(p)
    <3>1. proc[p].pc \in Clean /\ FinishDispatch(p, "FAILED", "CONFIRMED")
      BY <2>2 DEF FinishRemoved, Skip, FinishStopped, Clean, Working
    <3>2. \/ \E step \in Steps \ Working : Goto(p, step)
          \/ \E result \in {"SENT", "FAILED"} : Report(p, result)
          \/ Conclude(p)
      BY <2>2 DEF FinishRemoved, Skip, FinishStopped, Steps, Working
    <3> QED BY <2>1, <3>1, <3>2, CallEnds
  <2>3. CASE TryAgain(p)
    <3>1. proc[p].pc \in Clean
      BY <2>3 DEF TryAgain, Clean, Working
    <3> QED BY <2>1, <2>3, <3>1, CallEnds DEF TryAgain
  <2>4. CASE Failed(p)
    <3>1. proc[p].pc \in Clean
      BY <2>4 DEF Failed, Clean, Working
    <3> QED BY <2>1, <2>4, <3>1, CallEnds DEF Failed
  <2>5. CASE MarkAmbiguous(p)
    <3>1. \/ \E step \in Steps \ Working : Goto(p, step)
          \/ \E result \in {"SENT", "FAILED"} : Report(p, result)
      BY <2>5 DEF MarkAmbiguous, Steps, Working
    <3> QED BY <2>1, <2>5, <3>1, CallEnds DEF MarkAmbiguous
  <2>6. CASE Sent(p)
    <3>1. \/ Goto(p, "accept") /\ At(p, "sent")
          \/ \E result \in {"SENT", "FAILED"} : Report(p, result)
      BY <2>6 DEF Sent
    <3> QED BY <2>1, <2>6, <3>1, CallEnds DEF Sent
  <2> QED BY <1>6, <2>2, <2>3, <2>4, <2>5, <2>6
<1>7. CASE MarkStale(p) \/ Accept(p)
  <2>1. UNCHANGED <<operational, keyed, refunded, provider>>
    BY <1>7 DEF MarkStale, Accept, workspace, ledger
  <2>2. PICK result \in {"SENT", "FAILED"} : Report(p, result)
    BY <1>7 DEF MarkStale, Accept
  <2>3. PICK l \in Local : proc' = [proc EXCEPT ![p] = l] /\ l.pc = "reconcile"
    BY <2>2, ReportGives
  <2>4. /\ l.pc \notin Working /\ l.pc # "refund" /\ ~At(p, "idle")
        /\ proc[p].delivery \in Deliveries
    BY <1>7, <2>3 DEF Working, MarkStale, Accept, ClaimInv, Placed
  <2>5. CASE MarkStale(p)
    <3>1. rows' = [rows EXCEPT ![proc[p].delivery] =
                     Settled(rows[proc[p].delivery], "PENDING", "AMBIGUOUS")]
      BY <2>4, <2>5 DEF MarkStale, TypeOK
    <3> QED BY <2>1, <2>3, <2>4, <3>1, CallSettles
  <2>6. CASE Accept(p)
    <3>1. rows' = [rows EXCEPT ![proc[p].delivery] =
                     Settled(rows[proc[p].delivery], "SENT", "CONFIRMED")]
      BY <2>4, <2>6 DEF Accept, TypeOK
    <3> QED BY <2>1, <2>3, <2>4, <3>1, CallSettles
  <2> QED BY <1>7, <2>5, <2>6
<1> QED BY <1>1, <1>2, <1>3, <1>4, <1>5, <1>6, <1>7, CallAnswered, CallDebit,
           CallRefunded DEF Step

LEMMA CallNext ==
  TypeOK /\ ClaimInv /\ CallInv /\ [Next]_vars => CallInv'
<1> SUFFICES ASSUME TypeOK, ClaimInv, CallInv, [Next]_vars
             PROVE  CallInv'
  OBVIOUS
<1>0. \A q \in Procs : Works(q) => proc[q].delivery \in Deliveries
  BY DEF Works, Working, ClaimInv, Placed
<1>1. ASSUME NEW p \in Procs, Throw(p)
      PROVE  CallInv'
  <2>1. UNCHANGED tables
    BY <1>1 DEF Throw, tables, workspace, ledger
  <2>2. proc[p].pc \in Clean \ {"refund"}
    BY <1>1 DEF Throw, Clean, Working
  <2>3. Goto(p, "again") \/ Goto(p, "failed")
    BY <1>1 DEF Throw, AfterError
  <2>4. /\ {"again", "failed"} \subseteq Clean \ {"refund", "conclude"}
        /\ {"again", "failed"} \subseteq Over \ Before
    BY DEF Clean, Working, Over, Before
  <2> QED BY <2>1, <2>2, <2>3, <2>4, CallWorks
<1>2. ASSUME NEW p \in Procs, RefundThrows(p)
      PROVE  CallInv'
  <2>1. UNCHANGED tables
    BY <1>2 DEF RefundThrows, tables, workspace, ledger
  <2>2. CASE At(p, "refund")
    <3>1. Report(p, "FAILED")
      BY <1>2, <2>2 DEF RefundThrows
    <3> QED BY <2>1, <3>1, CallLeaves
  <2>3. CASE At(p, "stopRefund")
    <3>1. Goto(p, "stopped")
      BY <1>2, <2>3 DEF RefundThrows
    <3>2. /\ "stopped" \in Clean \ {"refund", "conclude"}
          /\ "stopped" \notin Before
          /\ proc[p].pc \in Clean \ {"refund"} /\ proc[p].pc \notin Over
      BY <2>3 DEF Clean, Working, Before, Over
    <3>3. ~operational
      BY <2>3 DEF CallInv, Fits, Working
    <3> QED BY <2>1, <3>1, <3>2, <3>3, CallWorks
  <2> QED BY <1>2, <2>2, <2>3 DEF RefundThrows
<1>3. ASSUME NEW p \in Procs, Stop(p)
      PROVE  CallInv'
  <2>1. /\ UNCHANGED <<keyed, refunded, provider, operational>>
        /\ proc' = [proc EXCEPT ![p] = Idle]
    BY <1>3 DEF Stop, Become, workspace, ledger
  <2>2. \A q \in Procs : proc'[q] = proc[q] \/ proc'[q].pc = "idle"
    BY <2>1, IdleLocal DEF TypeOK
  <2>3. ASSUME NEW d \in Deliveries
        PROVE  /\ rows'[d].attempts = rows[d].attempts
               /\ rows'[d].status = rows[d].status
               /\ rows'[d].dispatch = rows[d].dispatch
    <3>1. rows[d] \in Row
      BY DEF TypeOK
    <3> QED BY <1>3, <3>1 DEF Stop, Forget, Row
  <2> QED BY <1>0, <2>1, <2>2, <2>3, CallRows
<1>4. ASSUME NEW p \in Procs, NEW d \in Deliveries, Deliver(p, d)
      PROVE  CallInv'
  <2>1. UNCHANGED tables
    BY <1>4 DEF Deliver, ReadOnly, tables, workspace, ledger
  <2>2. PICK l \in Local : proc' = [proc EXCEPT ![p] = l] /\ l.pc = "row"
    BY <1>4, IdleLocal DEF Deliver, Become
  <2> QED BY <2>1, <2>2, CallMoves DEF Working
<1>5. ASSUME NEW d \in Deliveries, LeaseEnds(d)
      PROVE  CallInv'
  <2>1. rows[d] \in Row /\ rows' = [rows EXCEPT ![d].leased = FALSE]
    BY <1>5 DEF LeaseEnds, TypeOK
  <2>2. \A x \in Deliveries : /\ rows'[x].attempts = rows[x].attempts
                             /\ rows'[x].status = rows[x].status
                             /\ rows'[x].dispatch = rows[x].dispatch
    BY <2>1 DEF Row, TypeOK
  <2> QED BY <1>0, <1>5, <2>2, CallRows DEF LeaseEnds, workspace, ledger
<1>6. CASE Tombstone
  <2>1. ASSUME NEW x \in Deliveries
        PROVE  /\ rows'[x].attempts = rows[x].attempts
               /\ \/ /\ rows'[x].status = rows[x].status
                     /\ rows'[x].dispatch = rows[x].dispatch
                  \/ rows'[x].status = "FAILED" /\ ~operational'
    <3>1. rows[x] \in Row /\ ~operational'
      BY <1>6 DEF TypeOK, Tombstone
    <3> QED BY <1>6, <3>1 DEF Tombstone, Settled, Row
  <2>2. UNCHANGED <<keyed, refunded, provider, proc>> /\ ~operational'
    BY <1>6 DEF Tombstone, ledger
  <2> QED BY <1>0, <2>1, <2>2, CallRows
<1>7. CASE UNCHANGED vars \/ DayPasses \/ DisableChannel \/ TurnPaidOff
  <2>1. UNCHANGED <<keyed, refunded, provider, proc, rows, operational>>
    BY <1>7 DEF vars, DayPasses, DisableChannel, TurnPaidOff, ledger, provider
  <2> QED BY <1>0, <2>1, CallRows
<1> QED BY <1>1, <1>2, <1>3, <1>4, <1>5, <1>6, <1>7, CallStep, CallSend DEF Next

(* A provider is called again only after it has rejected every call        *)
(* before, and three times at most, whatever leases, evictions and         *)
(* overlapping deliveries of the message do.                               *)
THEOREM CalledAgain == Spec => []CalledAgainOnlyIfRejected
<1>1. TypeOK /\ CallInv => CalledAgainOnlyIfRejected
  <2> SUFFICES ASSUME TypeOK, CallInv, NEW d \in Deliveries
               PROVE  calls[d] <= rejections[d] + 1 /\ calls[d] <= MaxAttempts
    BY DEF CalledAgainOnlyIfRejected
  <2>1. rows[d].attempts \in 0..MaxAttempts /\ calls[d] \in Nat
    BY DEF TypeOK, Row
  <2> QED BY <2>1 DEF CallInv, Counted, MaxAttempts
<1> QED BY <1>1, TypeInit, TypeNext, CallInit, CallNext, PTL DEF Spec

(* What the provider has accepted is charged, not refunded, and recorded   *)
(* as failed by the tombstone only.                                        *)
THEOREM AcceptedPaid == Spec => []AcceptedIsPaid
<1>1. TypeOK /\ CallInv => AcceptedIsPaid
  <2> SUFFICES ASSUME TypeOK, CallInv, NEW d \in accepted
               PROVE  /\ d \in charged /\ d \notin refunded
                      /\ operational => rows[d].status # "FAILED"
    BY DEF AcceptedIsPaid
  <2>1. /\ d \in Deliveries /\ calls[d] \in Nat /\ rejections[d] \in Nat
        /\ keyed \subseteq charged
    BY DEF TypeOK
  <2> QED BY <2>1 DEF CallInv, Counted
<1> QED BY <1>1, TypeInit, TypeNext, CallInit, CallNext, PTL DEF Spec

-----------------------------------------------------------------------------
(* The ledger. *)

(* A charge whose key the trigger has scrubbed is not found again; but it  *)
(* is made after the tombstone only, and nobody comes to charge it again.  *)
Paying == {"recheck", "charge", "debit"}

Scrubbed ==
  \A d \in charged \ keyed :
    /\ ~operational
    /\ \A p \in Procs : proc[p].pc \in Paying => proc[p].delivery # d

LEMMA PayInit == Init => CreditKept /\ Scrubbed
BY PaidAssumption, FS_EmptySet DEF Init, CreditKept, Scrubbed, Unrefunded

(* Who comes to charge has claimed its delivery before the tombstone.      *)
LEMMA Paid ==
  ASSUME TypeOK, [Next]_vars, NEW q \in Procs, proc'[q].pc \in Paying
  PROVE  \/ proc[q].pc \in Paying /\ proc'[q].delivery = proc[q].delivery
         \/ operational
<1>0. \A l \in Local, p \in Procs :
        proc' = [proc EXCEPT ![p] = l]
          => proc'[p] = l /\ \A x \in Procs \ {p} : proc'[x] = proc[x]
  BY DEF TypeOK
<1>1. ASSUME NEW p \in Procs,
             \/ \E step \in Steps \ Paying : Goto(p, step)
             \/ \E result \in {"SENT", "FAILED"} : Report(p, result)
             \/ Conclude(p)
             \/ Become(p, Idle)
      PROVE  proc'[q] = proc[q]
  <2>1. PICK l \in Local : proc' = [proc EXCEPT ![p] = l] /\ l.pc \notin Paying
    <3>1. CASE \E step \in Steps \ Paying : Goto(p, step)
      BY <3>1, GotoGives
    <3>2. CASE \E result \in {"SENT", "FAILED"} : Report(p, result)
      BY <3>2, ReportGives DEF Paying
    <3>3. CASE Become(p, Idle)
      BY <3>3, IdleLocal DEF Become, Paying
    <3>4. CASE Conclude(p)
      BY <3>4, ConcludeGives DEF Paying
    <3> QED BY <1>1, <3>1, <3>2, <3>3, <3>4
  <2> QED BY <1>0, <2>1
<1>2. ASSUME NEW p \in Procs, Begin(p) \/ ClaimRemoved(p)
      PROVE  operational
  BY <1>2 DEF Begin, ClaimRemoved, BeginDispatch, Claimable
<1>3. ASSUME NEW p \in Procs, Recheck(p) \/ ReadCharge(p)
      PROVE  proc[q].pc \in Paying /\ proc'[q].delivery = proc[q].delivery
  <2>1. PICK step \in Steps : Goto(p, step)
    BY <1>3 DEF Recheck, ReadCharge, Steps
  <2>2. PICK l \in Local : /\ proc' = [proc EXCEPT ![p] = l]
                          /\ l.delivery = proc[p].delivery
    BY <2>1, GotoGives
  <2>3. proc[p].pc \in Paying
    BY <1>3 DEF Recheck, ReadCharge, Paying
  <2> QED BY <1>0, <2>2, <2>3
<1>4. ASSUME NEW p \in Procs,
             \/ ReadRow(p) \/ ReadChannel(p) \/ NotRemovable(p)
             \/ FinishRemoved(p) \/ CheckOperational(p) \/ BeginRefused(p)
             \/ MarkStale(p) \/ NotStale(p) \/ Debit(p)
             \/ NotDebited(p) \/ Skip(p) \/ LastCheck(p) \/ StopRefund(p)
             \/ FinishStopped(p)
      PROVE  proc'[q] = proc[q]
  BY <1>1, <1>4
     DEF Steps, Paying, RetryLater, ReadRow, ReadChannel, NotRemovable,
         FinishRemoved, CheckOperational, BeginRefused, MarkStale, NotStale,
         Debit, NotDebited, Skip, LastCheck, StopRefund, FinishStopped
<1>5. ASSUME NEW p \in Procs,
             \/ Answered(p) \/ TryAgain(p) \/ Failed(p) \/ RefundFailed(p)
             \/ MarkAmbiguous(p) \/ Sent(p) \/ Accept(p) \/ AcceptRefused(p)
             \/ Reconcile(p) \/ Ack(p) \/ Throw(p) \/ RefundThrows(p) \/ Stop(p)
      PROVE  proc'[q] = proc[q]
  BY <1>1, <1>5
     DEF Steps, Paying, RetryLater, Answered, AfterError, TryAgain, Failed,
         RefundFailed, MarkAmbiguous, Sent, Accept, AcceptRefused, Reconcile,
         Ack, Throw, RefundThrows, Stop
<1>6. ASSUME NEW p \in Procs, NEW d \in Deliveries, Deliver(p, d)
      PROVE  proc'[q] = proc[q]
  <2>1. PICK l \in Local : proc' = [proc EXCEPT ![p] = l] /\ l.pc = "row"
    BY <1>6, IdleLocal DEF Deliver, Become
  <2> QED BY <1>0, <2>1 DEF Paying
<1>7. ASSUME NEW p \in Procs, NEW answer \in Answer, NEW accepts \in BOOLEAN,
             Send(p, answer, accepts)
      PROVE  proc'[q] = proc[q]
  <2>1. proc[p] \in Local
    BY DEF TypeOK
  <2>2. PICK l \in Local : /\ l.pc = "send"
                          /\ l = [proc[p] EXCEPT !.pc = "send",
                                                 !.answer = answer]
    BY <2>1, SendLocal
  <2> QED BY <1>0, <1>7, <2>2 DEF Send, Become, Paying
<1>8. ASSUME \/ \E d \in Deliveries : LeaseEnds(d)
             \/ DayPasses \/ DisableChannel \/ TurnPaidOff \/ Tombstone
             \/ UNCHANGED vars
      PROVE  proc' = proc
  BY <1>8 DEF LeaseEnds, DayPasses, DisableChannel, TurnPaidOff, Tombstone, vars
<1> QED BY <1>2, <1>3, <1>4, <1>5, <1>6, <1>7, <1>8 DEF Next, Step

LEMMA Finite ==
  ASSUME TypeOK
  PROVE  /\ IsFiniteSet(charged) /\ IsFiniteSet(refunded)
         /\ IsFiniteSet(Unrefunded)
         /\ Cardinality(charged) \in Nat /\ Cardinality(refunded) \in Nat
         /\ Cardinality(Unrefunded) \in Nat
<1>1. /\ charged \subseteq Deliveries /\ refunded \subseteq Deliveries
      /\ Unrefunded \subseteq Deliveries
  BY DEF TypeOK, Unrefunded
<1> QED BY <1>1, PaidAssumption, FS_Subset, FS_CardinalityType

(* Balance and entry change together.                                      *)
LEMMA CreditDebit ==
  ASSUME TypeOK, ClaimInv, CallInv, CreditKept, Scrubbed, NEW p \in Procs,
         Debit(p)
  PROVE  CreditKept'
<1> DEFINE d == proc[p].delivery
<1>1. /\ d \in Deliveries /\ d \notin keyed /\ proc[p].pc = "debit"
      /\ balance >= 1 /\ DailyLimit > Cardinality(Unrefunded)
      /\ balance' = balance - 1 /\ charged' = charged \cup {d}
      /\ recent' = recent \cup {d} /\ refunded' = refunded
  BY DEF Debit, ClaimInv, Placed, Affordable
<1>2. d \notin charged
  BY <1>1 DEF Scrubbed, Paying
<1>3. Cardinality(charged') = Cardinality(charged) + 1
  BY <1>1, <1>2, Finite, FS_AddElement
<1>4. d \notin refunded /\ d \notin Unrefunded
  BY <1>2 DEF TypeOK, Unrefunded
<1>5. Unrefunded' = Unrefunded \cup {d}
  BY <1>1, <1>4 DEF Unrefunded
<1>6. Cardinality(Unrefunded') = Cardinality(Unrefunded) + 1
  BY <1>4, <1>5, Finite, FS_AddElement
<1> QED BY <1>1, <1>3, <1>6, Finite, PaidAssumption DEF CreditKept, TypeOK

LEMMA CreditRefund ==
  ASSUME TypeOK, CreditKept, NEW d \in Deliveries, Refund(d)
  PROVE  CreditKept'
<1>1. CASE UNCHANGED ledger
  BY <1>1 DEF CreditKept, ledger, Unrefunded
<1>2. CASE operational /\ d \in keyed \ refunded
  <2>1. /\ balance' = balance + 1 /\ refunded' = refunded \cup {d}
        /\ charged' = charged /\ recent' = recent
    BY <1>2 DEF Refund
  <2>2. Cardinality(refunded') = Cardinality(refunded) + 1
    BY <1>2, <2>1, Finite, FS_AddElement
  <2>3. Unrefunded' \subseteq Unrefunded
    BY <2>1 DEF Unrefunded
  <2>4. /\ Cardinality(Unrefunded') \in Nat
        /\ Cardinality(Unrefunded') <= Cardinality(Unrefunded)
    BY <2>3, Finite, FS_Subset, FS_CardinalityType
  <2> QED BY <2>1, <2>2, <2>4, Finite, PaidAssumption DEF CreditKept, TypeOK
<1> QED BY <1>1, <1>2 DEF Refund

(* Only these actions change the ledger or the workspace's state.          *)
LEMMA PayFrame ==
  ASSUME [Next]_vars
  PROVE  \/ UNCHANGED <<ledger, operational>>
         \/ \E p \in Procs : Debit(p) \/ StopRefund(p) \/ RefundFailed(p)
         \/ DayPasses \/ Tombstone
<1>1. ASSUME NEW p \in Procs,
             \/ ReadRow(p) \/ ReadChannel(p) \/ NotRemovable(p)
             \/ CheckOperational(p) \/ BeginRefused(p) \/ NotStale(p)
             \/ Recheck(p) \/ ReadCharge(p)
             \/ NotDebited(p) \/ LastCheck(p) \/ AcceptRefused(p)
             \/ \E d \in Deliveries : Deliver(p, d)
      PROVE  UNCHANGED <<ledger, operational>>
  BY <1>1 DEF ReadOnly, workspace, ReadRow, ReadChannel, NotRemovable,
              CheckOperational, BeginRefused, NotStale, Recheck, ReadCharge,
              NotDebited, LastCheck, AcceptRefused, Deliver
<1>2. ASSUME NEW p \in Procs,
             \/ ClaimRemoved(p) \/ Begin(p) \/ FinishRemoved(p) \/ MarkStale(p)
             \/ Skip(p) \/ FinishStopped(p) \/ Answered(p) \/ TryAgain(p) \/ Failed(p)
             \/ MarkAmbiguous(p) \/ Sent(p) \/ Accept(p) \/ Reconcile(p)
             \/ Ack(p) \/ Throw(p) \/ RefundThrows(p) \/ Stop(p)
             \/ \E answer \in Answer, accepts \in BOOLEAN :
                  Send(p, answer, accepts)
      PROVE  UNCHANGED <<ledger, operational>>
  BY <1>2 DEF workspace, ClaimRemoved, Begin, FinishRemoved, MarkStale, Skip,
              FinishStopped, Answered, TryAgain, Failed, MarkAmbiguous, Sent, Accept,
              Reconcile, Ack, Throw, RefundThrows, Stop, Send
<1>3. ASSUME \/ \E d \in Deliveries : LeaseEnds(d)
             \/ DisableChannel \/ TurnPaidOff \/ UNCHANGED vars
      PROVE  UNCHANGED <<ledger, operational>>
  BY <1>3 DEF LeaseEnds, DisableChannel, TurnPaidOff, workspace, vars, ledger
<1> QED BY <1>1, <1>2, <1>3 DEF Next, Step

LEMMA PayNext ==
  TypeOK /\ ClaimInv /\ CallInv /\ CreditKept /\ Scrubbed /\ [Next]_vars
    => CreditKept' /\ Scrubbed'
<1> SUFFICES ASSUME TypeOK, ClaimInv, CallInv, CreditKept, Scrubbed, [Next]_vars
             PROVE  CreditKept' /\ Scrubbed'
  OBVIOUS
(* When charged, keyed stay, those who come to charge are who they were.   *)
<1>1. ASSUME UNCHANGED <<charged, keyed>>, operational' => operational
      PROVE  Scrubbed'
  BY <1>1, Paid DEF Scrubbed
<1>2. CASE UNCHANGED <<ledger, operational>>
  <2>1. CreditKept'
    BY <1>2 DEF CreditKept, ledger, Unrefunded
  <2> QED BY <1>1, <1>2, <2>1 DEF ledger
<1>3. ASSUME NEW p \in Procs, Debit(p)
      PROVE  CreditKept' /\ Scrubbed'
  <2> DEFINE d == proc[p].delivery
  <2>1. CreditKept'
    BY <1>3, CreditDebit
  <2>2. /\ d \in Deliveries /\ proc[p].pc = "debit" /\ d \notin keyed
        /\ charged' = charged \cup {d} /\ operational' = operational
        /\ keyed' = IF operational THEN keyed \cup {d} ELSE keyed
    BY <1>3 DEF Debit, ClaimInv, Placed, workspace
  <2>3. proc'[p].pc \notin Paying
    <3>1. Goto(p, IF operational THEN "lastCheck" ELSE "skip")
      BY <1>3 DEF Debit
    <3>2. (IF operational THEN "lastCheck" ELSE "skip") \in Steps \ Paying
      BY DEF Steps, Paying
    <3>3. PICK l \in Local :
            /\ proc' = [proc EXCEPT ![p] = l]
            /\ l.pc = IF operational THEN "lastCheck" ELSE "skip"
      BY <3>1, <3>2, GotoGives
    <3> QED BY <3>2, <3>3 DEF TypeOK
  <2>4. ASSUME NEW x \in charged' \ keyed', NEW q \in Procs,
               proc'[q].pc \in Paying
        PROVE  ~operational' /\ proc'[q].delivery # x
    <3>1. ~operational
      BY <2>2, <2>4 DEF Scrubbed
    <3>2. proc[q].pc \in Paying /\ proc'[q].delivery = proc[q].delivery
      BY <2>4, <3>1, Paid
    <3>3. CASE x = d
      <4>1. q # p
        BY <2>3, <2>4
      <4>2. Works(q) /\ Works(p)
        BY <2>2, <3>2 DEF Works, Working, Paying
      <4> QED BY <2>2, <3>1, <3>2, <3>3, <4>1, <4>2 DEF CallInv, Alone
    <3>4. CASE x # d
      BY <2>2, <2>4, <3>1, <3>2, <3>4 DEF Scrubbed
    <3> QED BY <3>3, <3>4
  <2>5. \A x \in charged' \ keyed' : ~operational'
    BY <2>2 DEF Scrubbed
  <2> QED BY <2>1, <2>4, <2>5 DEF Scrubbed
<1>4. ASSUME NEW p \in Procs, StopRefund(p) \/ RefundFailed(p)
      PROVE  CreditKept' /\ Scrubbed'
  <2>1. proc[p].delivery \in Deliveries /\ Refund(proc[p].delivery)
    BY <1>4 DEF StopRefund, RefundFailed, ClaimInv, Placed
  <2>2. UNCHANGED <<charged, keyed, operational>>
    BY <1>4, <2>1 DEF StopRefund, RefundFailed, Refund, ledger, workspace
  <2> QED BY <1>1, <2>1, <2>2, CreditRefund
<1>5. CASE DayPasses
  <2>1. Unrefunded' = {} /\ UNCHANGED <<balance, charged, refunded, keyed, operational>>
    BY <1>5 DEF DayPasses, Unrefunded
  <2> QED BY <1>1, <2>1, FS_EmptySet, PaidAssumption DEF CreditKept
<1>6. CASE Tombstone
  <2>1. UNCHANGED ledger /\ ~operational'
    BY <1>6 DEF Tombstone
  <2>2. CreditKept'
    BY <2>1 DEF CreditKept, ledger, Unrefunded
  <2> QED BY <1>1, <2>1, <2>2 DEF ledger
<1> QED BY <1>2, <1>3, <1>4, <1>5, <1>6, PayFrame

(* Concurrent charges, replays and refunds keep the credit: nothing is     *)
(* overdrawn, every alert taken has its entry, and the daily limit holds.  *)
THEOREM CreditSafe == Spec => []CreditKept
BY TypeInit, TypeNext, CallInit, CallNext, PayInit, PayNext, PTL DEF Spec

-----------------------------------------------------------------------------
(* What is acknowledged is settled and reported. *)

Undecided(d) == rows[d].status = "PENDING" /\ rows[d].dispatch # "AMBIGUOUS"

Live == enabled /\ operational

(* An ambiguous delivery that an invocation still works on may turn out to *)
(* be sent: then its failure has been reported.                            *)
Done(d) ==
  IF rows[d].status = "PENDING"
  THEN /\ rows[d].dispatch = "AMBIGUOUS"
       /\ \/ <<d, "FAILED">> \in events
          \/ \A p \in Procs : Works(p) => proc[p].delivery # d
  ELSE \E result \in {rows[d].status, "FAILED"} : <<d, result>> \in events

(* What invocation p may rely on when its local state is l.                *)
Tells(p, l) ==
  LET d == l.delivery IN
  /\ l.pc = "remove" => ~enabled
  /\ l.pc \in {"removed", "stopped"} => ~Live
  /\ l.pc \in Holding /\ rows[d].status = "PENDING"
       => rows[d].dispatch \in {"DISPATCHING", "AMBIGUOUS"}
  /\ l.pc \in Holding /\ rows[d].status = "PENDING"
       /\ rows[d].dispatch = "DISPATCHING" => rows[d].owner = p
  /\ l.pc \in {"refund", "accept"} \cup Telling => ~Undecided(d)
  /\ l.pc \in Telling /\ l.result = "SENT" => rows[d].status = "SENT"
  /\ l.pc \in Working \ Over /\ operational
       => rows[d].status = "PENDING"
  /\ l.pc = "ack" /\ Live => Done(d)

Acked == \A d \in Deliveries \ queue : Live => Done(d)

ReportInv == Acked /\ \A p \in Procs : Tells(p, proc[p])

LEMMA ReportInit == Init => ReportInv
BY DEF Init, ReportInv, Acked, Tells, Idle, Holding, Working, Telling

(* Once done, always done, while the row and who works on it stay.         *)
LEMMA DoneStays ==
  ASSUME NEW d \in Deliveries, Done(d), rows'[d] = rows[d],
         events \subseteq events',
         \A q \in Procs : Works(q)' /\ proc'[q].delivery = d
                         => Works(q) /\ proc[q].delivery = d
  PROVE  Done(d)'
BY DEF Done

(* Invocations move, end, or report: the rows stay.                        *)
LEMMA ReportMoves ==
  ASSUME TypeOK, ClaimInv, ReportInv, UNCHANGED <<rows, enabled, operational>>,
         events \subseteq events', NEW p \in Procs, NEW l \in Local,
         proc' = [proc EXCEPT ![p] = l],
         l.pc # "idle" => l.delivery \in Deliveries,
         l.pc \in Working => Works(p) /\ l.delivery = proc[p].delivery,
         l.pc = "ack" \/ Tells(p, l), l.pc = "ack" => (Live => Done(l.delivery)'),
         \A d \in Deliveries : d \notin queue' /\ Live
                             => d \notin queue \/ Done(d)'
  PROVE  ReportInv'
<1>1. proc'[p] = l /\ \A q \in Procs \ {p} : proc'[q] = proc[q]
  BY DEF TypeOK
<1>2. \A d \in Deliveries, q \in Procs :
        Works(q)' /\ proc'[q].delivery = d => Works(q) /\ proc[q].delivery = d
  BY <1>1 DEF Works
<1>3. \A d \in Deliveries : Done(d) => Done(d)'
  BY <1>2, DoneStays
<1>4. Acked'
  BY <1>3 DEF ReportInv, Acked, Live
<1>5. ASSUME NEW q \in Procs PROVE Tells(q, proc[q])'
  <2>1. CASE q = p
    BY <1>1, <2>1 DEF Tells, Undecided, Live, Holding, Working, Telling
  <2>2. CASE q # p
    <3>1. proc'[q] = proc[q] /\ Tells(q, proc[q])
      BY <1>1, <2>2 DEF ReportInv
    <3>2. At(q, "ack") => proc[q].delivery \in Deliveries
      BY DEF ClaimInv, Placed
    <3> QED BY <1>3, <3>1, <3>2 DEF Tells, Undecided, Live
  <2> QED BY <2>1, <2>2
<1> QED BY <1>4, <1>5 DEF ReportInv

(* The row of p's delivery is settled, by p.                               *)
LEMMA ReportSettles ==
  ASSUME TypeOK, ClaimInv, CallInv, ReportInv,
         UNCHANGED <<queue, events, enabled, operational>>,
         NEW p \in Procs, NEW l \in Local, ~At(p, "idle"),
         proc' = [proc EXCEPT ![p] = l], l.delivery = proc[p].delivery,
         NEW d \in Deliveries, proc[p].delivery = d,
         NEW status \in {"PENDING", "SENT", "FAILED"},
         NEW dispatch \in {"AMBIGUOUS", "CONFIRMED"},
         rows' = [rows EXCEPT ![d] = Settled(rows[d], status, dispatch)],
         (status = "PENDING") = (dispatch = "AMBIGUOUS"),
         \/ Undecided(d)
         \/ At(p, "accept") /\ rows[d].dispatch = "AMBIGUOUS" /\ status = "SENT",
         status = "PENDING" \/ Works(p),
         \/ l.pc = "refund" /\ Works(p)
         \/ l.pc = "conclude" /\ Works(p) /\ l.result = "FAILED"
         \/ l.pc = "reconcile" /\ (l.result = "SENT" => status = "SENT")
         \/ l.pc = "ack" /\ ~Live
  PROVE  ReportInv'
<1>1. proc'[p] = l /\ \A q \in Procs \ {p} : proc'[q] = proc[q]
  BY DEF TypeOK
<1>2. /\ \A x \in Deliveries \ {d} : rows'[x] = rows[x]
      /\ rows'[d].status = status /\ rows'[d].dispatch = dispatch
  <2>1. /\ rows[d] \in Row
        /\ rows'[d] = Settled(rows[d], status, dispatch)
        /\ \A x \in Deliveries \ {d} : rows'[x] = rows[x]
    BY DEF TypeOK
  <2>2. /\ Settled(rows[d], status, dispatch).status = status
        /\ Settled(rows[d], status, dispatch).dispatch = dispatch
    BY <2>1 DEF Settled, Row
  <2> QED BY <2>1, <2>2
<1>3. \A x \in Deliveries, q \in Procs :
        Works(q)' /\ proc'[q].delivery = x => Works(q) /\ proc[q].delivery = x
  BY <1>1 DEF Works, Working
<1>4. ASSUME NEW x \in Deliveries, Done(x) PROVE Done(x)'
  <2>1. CASE x # d
    BY <1>2, <1>3, <1>4, <2>1, DoneStays
  <2>2. CASE x = d
    <3>1. At(p, "accept") /\ status = "SENT" /\ Works(p)
      BY <1>4, <2>2 DEF Done, Undecided, Works, Working
    <3>2. <<d, "FAILED">> \in events \/ rows[d].status # "PENDING"
      BY <1>4, <2>2, <3>1 DEF Done
    <3>3. rows[d].status = "PENDING" \/ rows[d].status = "SENT"
          \/ rows[d].status = "FAILED"
      BY DEF TypeOK, Row
    <3> QED BY <1>2, <1>4, <2>2, <3>1, <3>2, <3>3 DEF Done
  <2> QED BY <2>1, <2>2
<1>5. Acked'
  BY <1>4 DEF ReportInv, Acked, Live
<1>6. ASSUME NEW q \in Procs PROVE Tells(q, proc[q])'
  <2>1. CASE q = p
    BY <1>1, <1>2, <2>1 DEF Tells, Undecided, Live, Holding, Working, Telling,
                            Over
  <2>2. CASE q # p /\ At(q, "idle")
    BY <1>1, <2>2 DEF Tells, Holding, Working, Telling
  <2>3. CASE q # p /\ ~At(q, "idle") /\ proc[q].delivery # d
    <3>1. /\ proc'[q] = proc[q] /\ Tells(q, proc[q])
          /\ proc[q].delivery \in Deliveries
      BY <1>1, <2>3 DEF ReportInv, ClaimInv, Placed
    <3> QED BY <1>2, <1>4, <2>3, <3>1 DEF Tells, Undecided, Live
  <2>4. CASE q # p /\ ~At(q, "idle") /\ proc[q].delivery = d
    <3>1. /\ proc'[q] = proc[q] /\ Tells(q, proc[q])
      BY <1>1, <2>4 DEF ReportInv
    <3>2. status # "PENDING" => ~Works(q)
      BY <2>4 DEF CallInv, Alone
    <3>3. ~Undecided(d)'
      BY <1>2 DEF Undecided
    <3>4. rows[d].status = "SENT" => status = "SENT"
      BY DEF Undecided, Tells, ReportInv
    <3> QED BY <1>2, <1>4, <2>4, <3>1, <3>2, <3>3, <3>4
            DEF Tells, Live, Works, Holding
  <2> QED BY <2>1, <2>2, <2>3, <2>4
<1> QED BY <1>5, <1>6 DEF ReportInv

(* A row that is READY becomes somebody's.                                 *)
LEMMA ReportBegins ==
  ASSUME TypeOK, ClaimInv, ReportInv, NEW p \in Procs, ~At(p, "idle"),
         NEW step \in {"removed", "recheck"}, BeginDispatch(p, step),
         step = "removed" => ~enabled,
         UNCHANGED <<queue, events, enabled, operational>>
  PROVE  ReportInv'
<1> DEFINE d == proc[p].delivery
           l == [proc[p] EXCEPT !.pc = step, !.attempt = rows[d].attempts + 1]
<1>1. d \in Deliveries /\ rows[d] \in Row /\ proc[p] \in Local
  BY DEF TypeOK, ClaimInv, Placed
<1>2. /\ Ready(d) /\ proc' = [proc EXCEPT ![p] = l]
      /\ rows' = [rows EXCEPT ![d] = Dispatched(p)]
  BY <1>1 DEF BeginDispatch, Claimable, Become, Ready
<1>3. /\ Dispatched(p).status = "PENDING"
      /\ Dispatched(p).dispatch = "DISPATCHING" /\ Dispatched(p).owner = p
      /\ l.pc = step /\ l.delivery = d
  BY <1>1, <1>2 DEF Dispatched, Row, Ready, Local
<1> HIDE DEF l
<1>4. /\ rows'[d] = Dispatched(p) /\ proc'[p] = l
      /\ \A x \in Deliveries \ {d} : rows'[x] = rows[x]
      /\ \A q \in Procs \ {p} : proc'[q] = proc[q]
  BY <1>1, <1>2 DEF TypeOK
<1>5. Undecided(d) /\ ~Done(d)
  BY <1>2 DEF Undecided, Ready, Done
<1>6. \A x \in Deliveries, q \in Procs :
        x # d /\ Works(q)' /\ proc'[q].delivery = x
          => Works(q) /\ proc[q].delivery = x
  BY <1>3, <1>4 DEF Works
<1>7. \A x \in Deliveries : Done(x) => x # d /\ Done(x)'
  BY <1>4, <1>5, <1>6, DoneStays
<1>8. Acked'
  BY <1>7 DEF ReportInv, Acked, Live
<1>9. ASSUME NEW q \in Procs PROVE Tells(q, proc[q])'
  <2>1. CASE q = p
    BY <1>3, <1>4, <2>1 DEF Tells, Live, Holding, Working, Telling
  <2>2. CASE q # p /\ At(q, "idle")
    BY <1>4, <2>2 DEF Tells, Holding, Working, Telling
  <2>3. CASE q # p /\ ~At(q, "idle") /\ proc[q].delivery # d
    <3>1. /\ proc'[q] = proc[q] /\ Tells(q, proc[q])
          /\ proc[q].delivery \in Deliveries
      BY <1>4, <2>3 DEF ReportInv, ClaimInv, Placed
    <3> QED BY <1>4, <1>7, <2>3, <3>1 DEF Tells, Undecided, Live
  <2>4. CASE q # p /\ ~At(q, "idle") /\ proc[q].delivery = d
    <3>1. /\ proc'[q] = proc[q] /\ Tells(q, proc[q])
      BY <1>4, <2>4 DEF ReportInv
    <3>2. proc[q].pc \notin Holding
      BY <1>2, <2>4, <3>1 DEF Tells, Ready
    <3>3. proc[q].pc \notin {"refund", "accept"} \cup Telling
      BY <1>5, <2>4, <3>1 DEF Tells
    <3> QED BY <1>5, <2>4, <3>1, <3>2, <3>3
            DEF Tells, Live, Holding, Telling
  <2> QED BY <2>1, <2>2, <2>3, <2>4
<1> QED BY <1>8, <1>9 DEF ReportInv

(* The rows change by themselves, or an invocation ends.                   *)
LEMMA ReportRows ==
  ASSUME TypeOK, ClaimInv, ReportInv, UNCHANGED <<queue, events>>,
         operational' => operational, enabled' => enabled,
         \A q \in Procs : proc'[q] = proc[q] \/ proc'[q].pc = "idle",
         \A d \in Deliveries :
           \/ /\ rows'[d].status = rows[d].status
              /\ rows'[d].dispatch = rows[d].dispatch
              /\ \/ rows'[d].owner = rows[d].owner
                 \/ \E q \in Procs : rows[d].owner = q /\ proc'[q].pc = "idle"
           \/ /\ rows[d].status = "PENDING" /\ rows'[d].status = "FAILED"
              /\ ~operational'
  PROVE  ReportInv'
<1>1. \A q \in Procs : Works(q)' => Works(q) /\ proc'[q] = proc[q]
  BY DEF Works, Working
<1>2. ASSUME NEW d \in Deliveries, Done(d), Live' PROVE Done(d)'
  BY <1>1, <1>2 DEF Done, Live
<1>3. Acked'
  BY <1>2 DEF ReportInv, Acked, Live
<1>4. ASSUME NEW q \in Procs PROVE Tells(q, proc[q])'
  <2>1. CASE proc'[q].pc = "idle"
    BY <2>1 DEF Tells, Holding, Working, Telling
  <2>2. CASE proc'[q].pc # "idle"
    <3>1. /\ proc'[q] = proc[q] /\ Tells(q, proc[q])
          /\ proc[q].delivery \in Deliveries
      BY <2>2 DEF ReportInv, ClaimInv, Placed
    <3> QED BY <1>2, <2>2, <3>1 DEF Tells, Undecided, Live
  <2> QED BY <2>1, <2>2
<1> QED BY <1>3, <1>4 DEF ReportInv

(* The row of an invocation that has lost its claim is judged already.     *)
LEMMA Lost ==
  ASSUME TypeOK, ReportInv, NEW p \in Procs, proc[p].pc \in Holding, ~Owns(p)
  PROVE  ~Undecided(proc[p].delivery)
BY DEF ReportInv, Tells, Owns, Undecided

LEMMA ReportTryAgain ==
  ASSUME TypeOK, ClaimInv, CallInv, ReportInv, NEW p \in Procs, TryAgain(p)
  PROVE  ReportInv'
<1> DEFINE d == proc[p].delivery
<1>1. /\ d \in Deliveries /\ proc' = [proc EXCEPT ![p] = Idle]
      /\ UNCHANGED <<queue, events, enabled, operational>>
      /\ proc[p].pc \in Holding
  BY DEF TryAgain, RetryLater, Become, ClaimInv, Placed, workspace, Holding,
         Working
<1>2. CASE ~Owns(p)
  <2>1. rows' = rows
    BY <1>2 DEF TryAgain, FinishDispatch
  <2> QED BY <1>1, <2>1, IdleLocal, ReportMoves
          DEF Tells, Holding, Working, Telling
<1>3. CASE Owns(p)
  <2>1. rows' = [rows EXCEPT ![d] = Settled(rows[d], "PENDING", "READY")]
    BY <1>1, <1>3 DEF TryAgain, FinishDispatch, TypeOK
  <2>2. /\ \A x \in Deliveries \ {d} : rows'[x] = rows[x]
        /\ rows'[d].status = "PENDING"
    <3>1. rows[d] \in Row
      BY <1>1 DEF TypeOK
    <3>2. Settled(rows[d], "PENDING", "READY").status = "PENDING"
      BY <3>1 DEF Settled, Row
    <3> QED BY <1>1, <2>1, <3>2 DEF TypeOK
  <2>3. proc'[p] = Idle /\ \A q \in Procs \ {p} : proc'[q] = proc[q]
    BY <1>1 DEF TypeOK
  <2>4. \A x \in Deliveries, q \in Procs :
          Works(q)' /\ proc'[q].delivery = x => Works(q) /\ proc[q].delivery = x
    BY <2>3, IdleLocal DEF Works, Working
  <2>5. Undecided(d) /\ ~Done(d)
    BY <1>3 DEF Undecided, Owns, Done
  <2>6. \A x \in Deliveries : Done(x) => x # d /\ Done(x)'
    BY <1>1, <2>2, <2>4, <2>5, DoneStays
  <2>7. Acked'
    BY <1>1, <2>6 DEF ReportInv, Acked, Live
  <2>8. ASSUME NEW q \in Procs PROVE Tells(q, proc[q])'
    <3>1. CASE proc'[q].pc = "idle"
      BY <3>1 DEF Tells, Holding, Working, Telling
    <3>2. CASE proc'[q].pc # "idle"
      <4>1. /\ q # p /\ proc'[q] = proc[q] /\ Tells(q, proc[q])
            /\ proc[q].delivery \in Deliveries
        BY <2>3, <3>2, IdleLocal DEF ReportInv, ClaimInv, Placed
      <4>2. CASE proc[q].delivery = d
        <5>1. ~Works(q)
          BY <1>1, <4>1, <4>2 DEF CallInv, Alone, Works, Holding
        <5>2. proc[q].pc \notin Telling /\ ~(At(q, "ack") /\ Live)
          BY <2>5, <4>1, <4>2 DEF Tells
        <5> QED BY <1>1, <4>1, <4>2, <5>1, <5>2
                DEF Tells, Live, Works, Working, Holding
      <4>3. CASE proc[q].delivery # d
        BY <1>1, <2>2, <2>6, <4>1, <4>3 DEF Tells, Undecided, Live
      <4> QED BY <4>2, <4>3
    <3> QED BY <3>1, <3>2
  <2> QED BY <2>7, <2>8 DEF ReportInv
<1> QED BY <1>2, <1>3

(* The claim is ended by the invocation that holds it, or was lost.        *)
LEMMA ReportFinishes ==
  ASSUME TypeOK, ClaimInv, CallInv, ReportInv, NEW p \in Procs,
         \/ FinishRemoved(p) \/ Skip(p) \/ FinishStopped(p) \/ Failed(p)
         \/ MarkAmbiguous(p) \/ Sent(p)
  PROVE  ReportInv'
<1> DEFINE d == proc[p].delivery
<1>1. /\ d \in Deliveries /\ proc[p].pc \in Holding /\ ~At(p, "idle")
      /\ UNCHANGED <<queue, events, enabled, operational>>
      /\ Works(p) /\ Tells(p, proc[p])
  BY DEF FinishRemoved, Skip, FinishStopped, Failed, MarkAmbiguous, Sent,
         ClaimInv, Placed, workspace, Holding, Working, Works, ReportInv
<1>2. PICK status \in {"PENDING", "SENT", "FAILED"},
           dispatch \in {"AMBIGUOUS", "CONFIRMED"} :
        /\ FinishDispatch(p, status, dispatch)
        /\ (status = "PENDING") = (dispatch = "AMBIGUOUS")
        /\ FinishRemoved(p) \/ Skip(p) \/ FinishStopped(p) \/ Failed(p)
             => status = "FAILED" /\ dispatch = "CONFIRMED"
        /\ MarkAmbiguous(p) => status = "PENDING"
        /\ Sent(p) => status = "SENT"
  <2>1. CASE FinishRemoved(p) \/ Skip(p) \/ FinishStopped(p) \/ Failed(p)
    BY <2>1 DEF FinishRemoved, Skip, FinishStopped, Failed, MarkAmbiguous, Sent
  <2>2. CASE MarkAmbiguous(p)
    BY <2>2 DEF FinishRemoved, Skip, FinishStopped, Failed, MarkAmbiguous, Sent
  <2>3. CASE Sent(p)
    BY <2>3 DEF FinishRemoved, Skip, FinishStopped, Failed, MarkAmbiguous, Sent
  <2> QED BY <2>1, <2>2, <2>3
<1>3. CASE Owns(p)
  <2>1. /\ rows' = [rows EXCEPT ![d] = Settled(rows[d], status, dispatch)]
        /\ Undecided(d)
    BY <1>1, <1>2, <1>3 DEF FinishDispatch, TypeOK, Owns, Undecided
  <2>2. \E l \in Local : /\ proc' = [proc EXCEPT ![p] = l] /\ l.delivery = d
                         /\ \/ l.pc = "refund"
                            \/ l.pc = "conclude" /\ l.result = "FAILED"
                            \/ /\ l.pc = "reconcile"
                               /\ l.result = "SENT" => status = "SENT"
    <3>1. CASE FinishRemoved(p) \/ MarkAmbiguous(p)
      <4>1. Report(p, "FAILED")
        BY <1>3, <3>1 DEF FinishRemoved, MarkAmbiguous
      <4> QED BY <4>1, ReportGives
    <3>4. CASE Skip(p) \/ FinishStopped(p)
      <4>1. Conclude(p)
        BY <1>3, <3>4 DEF Skip, FinishStopped
      <4> QED BY <4>1, ConcludeGives
    <3>2. CASE Sent(p)
      <4>1. Report(p, "SENT") /\ status = "SENT"
        BY <1>2, <1>3, <3>2 DEF Sent
      <4> QED BY <4>1, ReportGives
    <3>3. CASE Failed(p)
      <4>1. Goto(p, "refund") /\ "refund" \in Steps
        BY <3>3 DEF Failed, Steps
      <4> QED BY <4>1, GotoGives
    <3> QED BY <3>1, <3>2, <3>3, <3>4
  <2> QED BY <1>1, <1>2, <2>1, <2>2, ReportSettles
<1>4. CASE ~Owns(p)
  <2>1. rows' = rows /\ ~Undecided(d)
    BY <1>1, <1>2, <1>4, Lost DEF FinishDispatch
  <2>2. CASE FinishRemoved(p) \/ FinishStopped(p) \/ MarkAmbiguous(p)
    <3>1. Goto(p, "ack") /\ "ack" \in Steps
      BY <1>4, <2>2 DEF FinishRemoved, FinishStopped, MarkAmbiguous, Steps
    <3>2. PICK l \in Local : /\ proc' = [proc EXCEPT ![p] = l] /\ l.pc = "ack"
                             /\ l.delivery = d
      BY <3>1, GotoGives
    <3>3. Live => Done(l.delivery)'
      <4>1. CASE FinishRemoved(p) \/ FinishStopped(p)
        BY <1>1, <4>1 DEF FinishRemoved, FinishStopped, Tells
      <4>2. CASE MarkAmbiguous(p) /\ Live
        <5>1. rows[d].status = "PENDING" /\ rows[d].dispatch = "AMBIGUOUS"
          BY <1>1, <2>1, <4>2
             DEF Tells, Live, Undecided, Holding, Over, MarkAmbiguous
        <5>2. proc'[p] = l /\ \A q \in Procs \ {p} : proc'[q] = proc[q]
          BY <3>2 DEF TypeOK
        <5>3. \A q \in Procs : Works(q)' => proc'[q].delivery # d
          BY <1>1, <3>2, <5>2 DEF CallInv, Alone, Works, Working
        <5> QED BY <2>1, <3>2, <5>1, <5>3 DEF Done
      <4> QED BY <2>2, <4>1, <4>2
    <3>4. l.pc \notin Working
      BY <3>2 DEF Working
    <3> QED BY <1>1, <2>1, <3>2, <3>3, <3>4, ReportMoves
  <2>3. CASE Skip(p)
    <3>1. Conclude(p)
      BY <2>3 DEF Skip
    <3>2. PICK l \in Local : /\ proc' = [proc EXCEPT ![p] = l]
                             /\ l.pc = "conclude" /\ l.result = "FAILED"
                             /\ l.delivery = d
      BY <3>1, ConcludeGives
    <3>3. Tells(p, l)
      BY <2>1, <3>2 DEF Tells, Holding, Over
    <3> QED BY <1>1, <2>1, <3>2, <3>3, ReportMoves
  <2>4. CASE Failed(p) \/ Sent(p)
    <3>1. PICK step \in {"refund", "accept"} :
            Goto(p, step) /\ (step = "accept" => Sent(p))
      BY <1>4, <2>4 DEF Failed, Sent
    <3>2. step \in Steps
      BY DEF Steps
    <3>3. PICK l \in Local : /\ proc' = [proc EXCEPT ![p] = l] /\ l.pc = step
                             /\ l.delivery = d
      BY <3>1, <3>2, GotoGives
    <3>4. Tells(p, l)
      BY <1>1, <2>1, <3>1, <3>3 DEF Tells, Holding, Working, Telling, Over, Sent
    <3> QED BY <1>1, <2>1, <3>3, <3>4, ReportMoves
  <2> QED BY <2>2, <2>3, <2>4
<1> QED BY <1>3, <1>4

(* An invocation goes on with its claim.                                   *)
LEMMA ReportHolds ==
  ASSUME TypeOK, ClaimInv, ReportInv,
         UNCHANGED <<rows, queue, events, enabled, operational>>,
         NEW p \in Procs, proc[p].pc \in Holding \cup {"conclude"},
         NEW l \in Local, proc' = [proc EXCEPT ![p] = l], l.pc \in Holding,
         l.delivery = proc[p].delivery,
         l.pc \in {"removed", "stopped"} => ~Live,
         l.pc \in Over \/ proc[p].pc \notin Over
  PROVE  ReportInv'
<1>1. l.delivery \in Deliveries
  BY DEF ClaimInv, Placed, Holding, Working
<1>2. Works(p)
  BY DEF Works, Holding, Working
<1>3. Tells(p, l)
  <2>1. CASE proc[p].pc \in Holding
    BY <2>1 DEF ReportInv, Tells, Holding, Working, Telling
  <2>2. CASE At(p, "conclude")
    <3>1. ~Undecided(l.delivery) /\ l.pc \in Over
      BY <2>2 DEF ReportInv, Tells, Telling, Over
    <3> QED BY <3>1 DEF Tells, Undecided, Holding, Working, Telling, Over
  <2> QED BY <2>1, <2>2
<1>4. l.pc # "ack"
  BY DEF Holding, Working
<1> QED BY <1>1, <1>2, <1>3, <1>4, ReportMoves

LEMMA ReportRead ==
  ASSUME TypeOK, ClaimInv, ReportInv, NEW p \in Procs,
         \/ ReadRow(p) \/ ReadChannel(p) \/ NotRemovable(p)
         \/ CheckOperational(p) \/ BeginRefused(p) \/ NotStale(p)
         \/ AcceptRefused(p)
  PROVE  ReportInv'
<1> DEFINE d == proc[p].delivery
<1>1. /\ UNCHANGED <<rows, queue, events, enabled, operational>>
      /\ d \in Deliveries /\ Tells(p, proc[p]) /\ rows[d] \in Row
  BY DEF ReadOnly, workspace, ReadRow, ReadChannel, NotRemovable, ReportInv,
         CheckOperational, BeginRefused, NotStale, AcceptRefused, ClaimInv,
         Placed, TypeOK
<1>2. CASE NotStale(p) \/ AcceptRefused(p)
  <2>1. proc' = [proc EXCEPT ![p] = Idle]
    BY <1>2 DEF NotStale, AcceptRefused, RetryLater, Become
  <2> QED BY <1>1, <2>1, IdleLocal, ReportMoves
          DEF Tells, Holding, Working, Telling
<1>3. CASE ReadRow(p) /\ (rows[d].status # "PENDING" \/ rows[d].dispatch = "AMBIGUOUS")
  <2>1. PICK result \in {"SENT", "FAILED"} :
          Report(p, result) /\ (result = "SENT" => rows[d].status = "SENT")
    BY <1>3 DEF ReadRow
  <2>2. PICK l \in Local : /\ proc' = [proc EXCEPT ![p] = l]
                           /\ l.pc = "reconcile" /\ l.result = result
                           /\ l.delivery = d
    BY <2>1, ReportGives
  <2>3. Tells(p, l) /\ l.pc \notin Working
    BY <1>3, <2>1, <2>2 DEF Tells, Undecided, Holding, Working, Telling
  <2> QED BY <1>1, <2>2, <2>3, ReportMoves
<1>4. ASSUME NEW step \in Steps \ Working, Goto(p, step),
             step = "remove" => ~enabled, step = "ack" => ~Live
      PROVE  ReportInv'
  <2>1. PICK l \in Local : /\ proc' = [proc EXCEPT ![p] = l] /\ l.pc = step
                           /\ l.delivery = d
    BY <1>4, GotoGives
  <2>2. Tells(p, l) /\ l.pc \notin Working
    BY <1>4, <2>1 DEF Tells, Holding, Working, Telling, Steps
  <2> QED BY <1>1, <1>4, <2>1, <2>2, ReportMoves
<1>5. CASE ReadRow(p) /\ ~(rows[d].status # "PENDING" \/ rows[d].dispatch = "AMBIGUOUS")
  <2>1. Goto(p, "channel") /\ "channel" \in Steps \ Working
    BY <1>5 DEF ReadRow, Steps, Working
  <2> QED BY <1>4, <2>1
<1>6. CASE ReadChannel(p) \/ NotRemovable(p) \/ CheckOperational(p) \/ BeginRefused(p)
  <2>1. \E step \in Steps \ Working :
          /\ Goto(p, step)
          /\ step = "remove" => ~enabled
          /\ step = "ack" => ~Live
    BY <1>1, <1>6 DEF ReadChannel, NotRemovable, CheckOperational, BeginRefused,
                      Steps, Working, Tells, Live
  <2> QED BY <1>4, <2>1
<1> QED BY <1>2, <1>3, <1>5, <1>6

LEMMA ReportSend ==
  ASSUME TypeOK, ClaimInv, ReportInv, NEW p \in Procs, NEW answer \in Answer,
         NEW accepts \in BOOLEAN, Send(p, answer, accepts)
  PROVE  ReportInv'
<1>1. /\ UNCHANGED <<rows, queue, events, enabled, operational>>
      /\ proc[p].pc \in Holding \ Over
  BY DEF workspace, Holding, Working, Over, Send
<1>2. proc[p] \in Local
  BY DEF TypeOK
<1>3. PICK l \in Local : /\ l.pc = "send" /\ l.delivery = proc[p].delivery
                         /\ l = [proc[p] EXCEPT !.pc = "send",
                                                !.answer = answer]
  BY <1>2, SendLocal
<1>4. proc' = [proc EXCEPT ![p] = l]
  BY <1>3 DEF Send, Become
<1>5. l.pc \in Holding /\ l.pc \notin {"removed", "stopped"}
  BY <1>3 DEF Holding, Working
<1> QED BY <1>1, <1>3, <1>4, <1>5, ReportHolds

LEMMA ReportWork ==
  ASSUME TypeOK, ClaimInv, CallInv, ReportInv, NEW p \in Procs,
         \/ Recheck(p) \/ ReadCharge(p) \/ Debit(p)
         \/ NotDebited(p) \/ LastCheck(p) \/ StopRefund(p) \/ Answered(p)
         \/ Throw(p)
         \/ RefundThrows(p) /\ At(p, "stopRefund")
  PROVE  ReportInv'
<1>1. /\ UNCHANGED <<rows, queue, events, enabled, operational>>
      /\ proc[p].pc \in Holding \cup {"conclude"}
  <2>1. CASE Recheck(p) \/ ReadCharge(p) \/ NotDebited(p)
             \/ LastCheck(p)
    BY <2>1 DEF ReadOnly, workspace, Holding, Working, Recheck, ReadCharge,
                NotDebited, LastCheck
  <2>2. CASE ~(\/ Recheck(p) \/ ReadCharge(p)
               \/ NotDebited(p) \/ LastCheck(p))
    BY <2>2 DEF workspace, Holding, Working, Debit, StopRefund, Answered,
                Throw, RefundThrows
  <2> QED BY <2>1, <2>2
<1>2. At(p, "stopRefund") => ~operational
  BY DEF CallInv, Fits, Working
<1>3. PICK step \in Steps : /\ Goto(p, step) /\ step \in Holding
                            /\ step \in {"removed", "stopped"} => ~operational
                            /\ step \in Over \/ proc[p].pc \notin Over
  BY <1>2
     DEF Steps, Holding, Working, Over, Recheck, ReadCharge, Debit,
         NotDebited, LastCheck, StopRefund, Answered, AfterError, Throw,
         RefundThrows
<1>4. PICK l \in Local : /\ proc' = [proc EXCEPT ![p] = l] /\ l.pc = step
                         /\ l.delivery = proc[p].delivery
  BY <1>3, GotoGives
<1> QED BY <1>1, <1>3, <1>4, ReportHolds DEF Live

LEMMA ReportEnds ==
  ASSUME TypeOK, ClaimInv, CallInv, ReportInv, NEW p \in Procs,
         \/ RefundFailed(p) \/ Reconcile(p) \/ Ack(p)
         \/ RefundThrows(p) /\ At(p, "refund")
  PROVE  ReportInv'
<1> DEFINE d == proc[p].delivery
<1>1. /\ UNCHANGED <<rows, enabled, operational>> /\ events \subseteq events'
      /\ d \in Deliveries /\ Tells(p, proc[p]) /\ rows[d] \in Row
      /\ proc[p] \in Local
  BY DEF workspace, RefundFailed, RefundThrows, Reconcile, Ack, ClaimInv, Placed,
         TypeOK, ReportInv
<1>2. CASE RefundFailed(p) \/ RefundThrows(p)
  <2>1. Report(p, "FAILED") /\ At(p, "refund") /\ UNCHANGED queue
    BY <1>2 DEF RefundFailed, RefundThrows, Reconcile, Ack
  <2>2. PICK l \in Local : /\ proc' = [proc EXCEPT ![p] = l]
                           /\ l.pc = "reconcile" /\ l.result = "FAILED"
                           /\ l.delivery = d
    BY <2>1, ReportGives
  <2>3. Tells(p, l) /\ l.pc \notin Working
    BY <1>1, <2>1, <2>2 DEF Tells, Holding, Working, Telling
  <2> QED BY <1>1, <2>1, <2>2, <2>3, ReportMoves
<1>3. CASE Reconcile(p)
  <2>1. Goto(p, "ack") /\ "ack" \in Steps /\ UNCHANGED queue
    BY <1>3 DEF Reconcile, Steps
  <2>2. PICK l \in Local : /\ proc' = [proc EXCEPT ![p] = l] /\ l.pc = "ack"
                           /\ l.delivery = d
    BY <2>1, GotoGives
  <2>3. /\ proc[p].result \in {"SENT", "FAILED"} /\ ~Undecided(d)
        /\ proc[p].result = "SENT" => rows[d].status = "SENT"
        /\ <<d, proc[p].result>> \in events'
    BY <1>1, <1>3 DEF Reconcile, Tells, ClaimInv, Placed, Local, Telling
  <2>4. Done(l.delivery)'
    BY <1>1, <2>2, <2>3 DEF Done, Undecided
  <2>5. l.pc \notin Working
    BY <2>2 DEF Working
  <2> QED BY <1>1, <2>1, <2>2, <2>4, <2>5, ReportMoves
<1>4. CASE Ack(p)
  <2>1. /\ proc' = [proc EXCEPT ![p] = Idle] /\ queue' = queue \ {d}
        /\ proc[p].pc = "ack" /\ UNCHANGED events
    BY <1>4 DEF Ack, Become
  <2>2. proc'[p] = Idle /\ \A q \in Procs \ {p} : proc'[q] = proc[q]
    BY <2>1 DEF TypeOK
  <2>3. Live => Done(d)
    BY <1>1, <2>1 DEF Tells
  <2>4. Live => \A x \in Deliveries : x = d => Done(x)'
    <3>1. \A x \in Deliveries, q \in Procs :
            Works(q)' /\ proc'[q].delivery = x
              => Works(q) /\ proc[q].delivery = x
      BY <2>2, IdleLocal DEF Works, Working
    <3> QED BY <1>1, <2>3, <3>1, DoneStays
  <2> QED BY <1>1, <2>1, <2>4, IdleLocal, ReportMoves
          DEF Tells, Holding, Working, Telling
<1> QED BY <1>2, <1>3, <1>4

LEMMA ReportJudges ==
  ASSUME TypeOK, ClaimInv, CallInv, ReportInv, NEW p \in Procs,
         MarkStale(p) \/ Accept(p)
  PROVE  ReportInv'
<1>1. PICK d \in Deliveries : proc[p].delivery = d
  BY DEF MarkStale, Accept, ClaimInv, Placed
<1>2. UNCHANGED <<queue, events, enabled, operational>> /\ ~At(p, "idle")
  BY DEF MarkStale, Accept, workspace
<1>3. CASE MarkStale(p)
  <2>1. /\ rows' = [rows EXCEPT ![d] = Settled(rows[d], "PENDING", "AMBIGUOUS")]
        /\ Undecided(d) /\ Report(p, "FAILED")
    BY <1>1, <1>3 DEF MarkStale, Stale, Undecided, TypeOK
  <2>2. PICK l \in Local : /\ proc' = [proc EXCEPT ![p] = l]
                           /\ l.pc = "reconcile" /\ l.result = "FAILED"
                           /\ l.delivery = d
    BY <1>1, <2>1, ReportGives
  <2> QED BY <1>1, <1>2, <2>1, <2>2, ReportSettles
<1>4. CASE Accept(p)
  <2>1. /\ rows' = [rows EXCEPT ![d] = Settled(rows[d], "SENT", "CONFIRMED")]
        /\ At(p, "accept") /\ rows[d].dispatch = "AMBIGUOUS" /\ Report(p, "SENT")
        /\ Works(p)
    BY <1>1, <1>4 DEF Accept, TypeOK, Works, Working
  <2>2. PICK l \in Local : /\ proc' = [proc EXCEPT ![p] = l]
                           /\ l.pc = "reconcile" /\ l.delivery = d
    BY <1>1, <2>1, ReportGives
  <2> QED BY <1>1, <1>2, <2>1, <2>2, ReportSettles
<1> QED BY <1>3, <1>4

LEMMA ReportNext ==
  TypeOK /\ ClaimInv /\ CallInv /\ ReportInv /\ [Next]_vars => ReportInv'
<1> SUFFICES ASSUME TypeOK, ClaimInv, CallInv, ReportInv, [Next]_vars
             PROVE  ReportInv'
  OBVIOUS
<1>1. ASSUME NEW p \in Procs, ClaimRemoved(p) \/ Begin(p)
      PROVE  ReportInv'
  <2>1. PICK step \in {"removed", "recheck"} :
          BeginDispatch(p, step) /\ (step = "removed" => At(p, "remove"))
    BY <1>1 DEF ClaimRemoved, Begin
  <2>2. /\ UNCHANGED <<queue, events, enabled, operational>> /\ ~At(p, "idle")
        /\ At(p, "remove") => ~enabled
    BY <1>1 DEF ClaimRemoved, Begin, workspace, ReportInv, Tells
  <2> QED BY <2>1, <2>2, ReportBegins
<1>2. ASSUME NEW p \in Procs, RefundThrows(p) PROVE ReportInv'
  BY <1>2, ReportWork, ReportEnds DEF RefundThrows
<1>3. ASSUME NEW p \in Procs, Stop(p) PROVE ReportInv'
  <2>1. /\ UNCHANGED <<queue, events, enabled, operational>>
        /\ proc' = [proc EXCEPT ![p] = Idle]
    BY <1>3 DEF Stop, Become, workspace
  <2>2. proc'[p].pc = "idle" /\ \A q \in Procs \ {p} : proc'[q] = proc[q]
    BY <2>1, IdleLocal DEF TypeOK
  <2>3. ASSUME NEW d \in Deliveries
        PROVE  /\ rows'[d].status = rows[d].status
               /\ rows'[d].dispatch = rows[d].dispatch
               /\ rows'[d].owner = rows[d].owner \/ rows[d].owner = p
    <3>1. rows[d] \in Row
      BY DEF TypeOK
    <3> QED BY <1>3, <3>1 DEF Stop, Forget, Row
  <2> QED BY <2>1, <2>2, <2>3, ReportRows
<1>4. ASSUME NEW p \in Procs, NEW d \in Deliveries, Deliver(p, d)
      PROVE  ReportInv'
  <2>1. UNCHANGED <<rows, queue, events, enabled, operational>>
    BY <1>4 DEF Deliver, ReadOnly, workspace
  <2>2. PICK l \in Local : /\ proc' = [proc EXCEPT ![p] = l] /\ l.pc = "row"
                           /\ l.delivery = d
    BY <1>4, IdleLocal DEF Deliver, Become
  <2>3. Tells(p, l) /\ l.pc \notin Working
    BY <2>2 DEF Tells, Holding, Working, Telling
  <2> QED BY <2>1, <2>2, <2>3, ReportMoves
<1>5. ASSUME NEW d \in Deliveries, LeaseEnds(d) PROVE ReportInv'
  <2>1. rows[d] \in Row /\ rows' = [rows EXCEPT ![d].leased = FALSE]
    BY <1>5 DEF LeaseEnds, TypeOK
  <2>2. \A x \in Deliveries : /\ rows'[x].owner = rows[x].owner
                              /\ rows'[x].status = rows[x].status
                              /\ rows'[x].dispatch = rows[x].dispatch
    BY <2>1 DEF Row, TypeOK
  <2> QED BY <1>5, <2>2, ReportRows DEF LeaseEnds, workspace
<1>6. CASE Tombstone
  <2>1. ASSUME NEW x \in Deliveries
        PROVE  \/ /\ rows'[x].status = rows[x].status
                  /\ rows'[x].dispatch = rows[x].dispatch
                  /\ rows'[x].owner = rows[x].owner
               \/ /\ rows[x].status = "PENDING" /\ rows'[x].status = "FAILED"
                  /\ ~operational'
    <3>1. rows[x] \in Row /\ ~operational'
      BY <1>6 DEF TypeOK, Tombstone
    <3> QED BY <1>6, <3>1 DEF Tombstone, Settled, Row
  <2>2. UNCHANGED <<queue, events, enabled, proc>> /\ ~operational'
    BY <1>6 DEF Tombstone
  <2> QED BY <2>1, <2>2, ReportRows
<1>7. CASE UNCHANGED vars \/ DayPasses \/ DisableChannel \/ TurnPaidOff
  <2>1. /\ UNCHANGED <<queue, events, proc, rows, operational>>
        /\ enabled' => enabled
    BY <1>7 DEF vars, DayPasses, DisableChannel, TurnPaidOff
  <2> QED BY <2>1, ReportRows
<1>8. ASSUME NEW p \in Procs, Step(p) PROVE ReportInv'
  <2>1. CASE \/ ReadRow(p) \/ ReadChannel(p) \/ NotRemovable(p)
             \/ CheckOperational(p) \/ BeginRefused(p) \/ NotStale(p)
             \/ AcceptRefused(p)
    BY <2>1, ReportRead
  <2>2. CASE \/ Recheck(p) \/ ReadCharge(p) \/ Debit(p)
             \/ NotDebited(p) \/ LastCheck(p) \/ StopRefund(p) \/ Answered(p)
    BY <2>2, ReportWork
  <2>3. CASE RefundFailed(p) \/ Reconcile(p) \/ Ack(p)
    BY <2>3, ReportEnds
  <2>4. CASE \/ FinishRemoved(p) \/ Skip(p) \/ FinishStopped(p) \/ Failed(p)
             \/ MarkAmbiguous(p) \/ Sent(p)
    BY <2>4, ReportFinishes
  <2> QED BY <1>1, <1>8, <2>1, <2>2, <2>3, <2>4, ReportJudges, ReportTryAgain
          DEF Step
<1>9. ASSUME NEW p \in Procs, Throw(p) PROVE ReportInv'
  BY <1>9, ReportWork
<1> QED BY <1>2, <1>3, <1>4, <1>5, <1>6, <1>7, <1>8, <1>9, ReportSend DEF Next

(* No message is acknowledged before its delivery is decided and, when it  *)
(* is sent or failed, reported to the incident.                            *)
THEOREM AckedReported == Spec => []AckedIsReported
<1>1. TypeOK /\ ReportInv => AckedIsReported
  BY DEF ReportInv, Acked, Live, Done, AckedIsReported
<1> QED BY <1>1, TypeInit, TypeNext, CallInit, CallNext, ReportInit, ReportNext,
           PTL DEF Spec
-----------------------------------------------------------------------------
(* What is known to be sent was accepted. *)

(* What an invocation with local state l has heard of the provider.        *)
Heard(l) ==
  l.pc \in {"sent", "accept"} \/ (l.pc = "send" /\ l.answer = "accepted")
    => l.delivery \in accepted

HeardInv ==
  /\ \A d \in Deliveries : rows[d].status = "SENT" => d \in accepted
  /\ \A p \in Procs : Heard(proc[p])

LEMMA HeardInit == Init => HeardInv
BY DEF Init, HeardInv, Heard, Idle, Fresh

(* An invocation moves, and no row becomes SENT unless it was accepted.    *)
LEMMA HeardMoves ==
  ASSUME TypeOK, HeardInv, NEW p \in Procs, NEW l \in Local,
         proc' = [proc EXCEPT ![p] = l], accepted \subseteq accepted', Heard(l)',
         \A d \in Deliveries : rows'[d].status = "SENT"
           => rows[d].status = "SENT" \/ d \in accepted'
  PROVE  HeardInv'
<1>1. proc'[p] = l /\ \A q \in Procs \ {p} : proc'[q] = proc[q]
  BY DEF TypeOK
<1>2. ASSUME NEW q \in Procs PROVE Heard(proc[q])'
  <2>1. CASE q = p
    BY <1>1, <2>1 DEF Heard
  <2>2. CASE q # p
    BY <1>1, <2>2 DEF Heard, HeardInv
  <2> QED BY <2>1, <2>2
<1> QED BY <1>2 DEF HeardInv

(* Steps that hear nothing of the provider.                                *)
Deaf == Steps \ {"sent", "accept", "send"}

LEMMA HeardElsewhere ==
  ASSUME TypeOK, HeardInv, NEW p \in Procs, UNCHANGED accepted,
         \/ \E step \in Deaf : Goto(p, step)
         \/ \E result \in {"SENT", "FAILED"} : Report(p, result)
         \/ Conclude(p)
         \/ Become(p, Idle),
         \A d \in Deliveries : rows'[d].status = "SENT"
           => rows[d].status = "SENT" \/ d \in accepted
  PROVE  HeardInv'
<1>1. PICK l \in Local : /\ proc' = [proc EXCEPT ![p] = l]
                        /\ l.pc \notin {"sent", "accept", "send"}
  <2>1. CASE \E step \in Deaf : Goto(p, step)
    BY <2>1, GotoGives DEF Deaf
  <2>2. CASE \E result \in {"SENT", "FAILED"} : Report(p, result)
    BY <2>2, ReportGives
  <2>3. CASE Become(p, Idle)
    BY <2>3, IdleLocal DEF Become
  <2>4. CASE Conclude(p)
    BY <2>4, ConcludeGives
  <2> QED BY <2>1, <2>2, <2>3, <2>4
<1>2. Heard(l)'
  BY <1>1 DEF Heard
<1> QED BY <1>1, <1>2, HeardMoves

LEMMA Finishes ==
  ASSUME TypeOK, ClaimInv, NEW p \in Procs, ~At(p, "idle"),
         NEW status \in {"PENDING", "SENT", "FAILED"},
         NEW dispatch \in {"READY", "AMBIGUOUS", "CONFIRMED"},
         FinishDispatch(p, status, dispatch)
  PROVE  \/ UNCHANGED rows
         \/ /\ Owns(p)
            /\ rows' = [rows EXCEPT ![proc[p].delivery] =
                          Settled(rows[proc[p].delivery], status, dispatch)]
<1>1. proc[p].delivery \in Deliveries
  BY DEF ClaimInv, Placed
<1> QED BY <1>1 DEF FinishDispatch, TypeOK

LEMMA SettledGives ==
  ASSUME TypeOK, NEW d \in Deliveries,
         NEW status \in {"PENDING", "SENT", "FAILED"},
         NEW dispatch \in {"READY", "AMBIGUOUS", "CONFIRMED"},
         rows' = [rows EXCEPT ![d] = Settled(rows[d], status, dispatch)]
  PROVE  /\ rows'[d].status = status /\ rows'[d].dispatch = dispatch
         /\ \A x \in Deliveries \ {d} : rows'[x] = rows[x]
<1>1. rows[d] \in Row
  BY DEF TypeOK
<1> QED BY <1>1 DEF TypeOK, Settled, Row

LEMMA HeardStep ==
  ASSUME TypeOK, ClaimInv, HeardInv, NEW p \in Procs, Step(p)
  PROVE  HeardInv'
<1>0. ASSUME ~At(p, "idle") PROVE proc[p].delivery \in Deliveries
  BY <1>0 DEF ClaimInv, Placed
<1>1. CASE \/ ReadRow(p) \/ ReadChannel(p) \/ NotRemovable(p)
           \/ CheckOperational(p) \/ BeginRefused(p) \/ NotStale(p)
           \/ Recheck(p) \/ ReadCharge(p) \/ NotDebited(p) \/ LastCheck(p)
           \/ AcceptRefused(p)
  <2>1. UNCHANGED <<rows, accepted>>
    BY <1>1 DEF ReadOnly, provider, ReadRow, ReadChannel, NotRemovable,
                CheckOperational, BeginRefused, NotStale, Recheck, ReadCharge,
                NotDebited, LastCheck, AcceptRefused
  <2>2. \/ \E step \in Deaf : Goto(p, step)
        \/ \E result \in {"SENT", "FAILED"} : Report(p, result)
        \/ Become(p, Idle)
    BY <1>1 DEF Deaf, Steps, RetryLater, ReadRow, ReadChannel, NotRemovable,
                CheckOperational, BeginRefused, NotStale, Recheck, ReadCharge,
                NotDebited, LastCheck, AcceptRefused
  <2> QED BY <2>1, <2>2, HeardElsewhere
<1>2. CASE Debit(p) \/ StopRefund(p) \/ RefundFailed(p) \/ Reconcile(p) \/ Ack(p)
  <2>1. UNCHANGED <<rows, accepted>>
    BY <1>2 DEF provider, Debit, StopRefund, RefundFailed, Reconcile, Ack
  <2>2. \/ \E step \in Deaf : Goto(p, step)
        \/ \E result \in {"SENT", "FAILED"} : Report(p, result)
        \/ Become(p, Idle)
    BY <1>2 DEF Deaf, Steps, Debit, StopRefund, RefundFailed, Reconcile, Ack
  <2> QED BY <2>1, <2>2, HeardElsewhere
<1>3. CASE ClaimRemoved(p) \/ Begin(p)
  <2> DEFINE d == proc[p].delivery
  <2>1. PICK step \in {"removed", "recheck"} : BeginDispatch(p, step)
    BY <1>3 DEF ClaimRemoved, Begin
  <2>2. d \in Deliveries /\ accepted' = accepted
    BY <1>0, <1>3 DEF ClaimRemoved, Begin, provider
  <2>3. rows[d] \in Row /\ rows[d].status = "PENDING"
    BY <2>1, <2>2 DEF BeginDispatch, Claimable, TypeOK
  <2>4. rows'[d].status = "PENDING"
        /\ \A x \in Deliveries \ {d} : rows'[x] = rows[x]
    BY <2>1, <2>2, <2>3 DEF BeginDispatch, Dispatched, TypeOK, Row
  <2>5. PICK l : /\ l = [proc[p] EXCEPT !.pc = step,
                                        !.attempt = rows[d].attempts + 1]
                 /\ proc' = [proc EXCEPT ![p] = l]
    BY <2>1 DEF BeginDispatch, Become
  <2>6. l.pc = step
    BY <2>5 DEF TypeOK, Local
  <2>7. ASSUME NEW q \in Procs PROVE Heard(proc[q])'
    <3>1. CASE q = p
      BY <2>1, <2>5, <2>6, <3>1 DEF Heard, TypeOK
    <3>2. CASE q # p
      BY <2>2, <2>5, <3>2 DEF Heard, TypeOK, HeardInv
    <3> QED BY <3>1, <3>2
  <2> QED BY <2>2, <2>4, <2>7 DEF HeardInv
<1>4. CASE FinishRemoved(p) \/ Skip(p) \/ FinishStopped(p) \/ TryAgain(p)
           \/ Failed(p) \/ MarkAmbiguous(p)
  <2>1. UNCHANGED accepted /\ ~At(p, "idle")
    BY <1>4 DEF provider, FinishRemoved, Skip, FinishStopped, TryAgain, Failed,
                MarkAmbiguous
  <2>2. \/ \E step \in Deaf : Goto(p, step)
        \/ \E result \in {"SENT", "FAILED"} : Report(p, result)
        \/ Conclude(p)
        \/ Become(p, Idle)
    BY <1>4 DEF Deaf, Steps, RetryLater, FinishRemoved, Skip, FinishStopped,
                TryAgain, Failed, MarkAmbiguous
  <2>3. PICK status \in {"PENDING", "FAILED"},
             dispatch \in {"READY", "AMBIGUOUS", "CONFIRMED"} :
          FinishDispatch(p, status, dispatch)
    BY <1>4 DEF FinishRemoved, Skip, FinishStopped, TryAgain, Failed,
                MarkAmbiguous
  <2>4. \A d \in Deliveries : rows'[d].status = "SENT" => rows[d].status = "SENT"
    BY <1>0, <2>1, <2>3, Finishes, SettledGives
  <2> QED BY <2>1, <2>2, <2>4, HeardElsewhere
<1>5. CASE Sent(p)
  <2>1. UNCHANGED accepted /\ proc[p].pc = "sent"
        /\ FinishDispatch(p, "SENT", "CONFIRMED")
    BY <1>5 DEF provider, Sent
  <2>2. proc[p].delivery \in accepted
    BY <2>1 DEF HeardInv, Heard
  <2>3. \A d \in Deliveries : rows'[d].status = "SENT"
          => rows[d].status = "SENT" \/ d \in accepted
    BY <1>0, <2>1, <2>2, Finishes, SettledGives
  <2>4. CASE Report(p, "SENT")
    BY <2>1, <2>3, <2>4, HeardElsewhere
  <2>5. CASE Goto(p, "accept")
    <3>1. PICK l \in Local : /\ proc' = [proc EXCEPT ![p] = l]
                            /\ l.delivery = proc[p].delivery
      BY <2>5, GotoGives DEF Steps
    <3>2. Heard(l)'
      BY <2>1, <2>2, <3>1 DEF Heard
    <3> QED BY <2>1, <2>3, <3>1, <3>2, HeardMoves
  <2> QED BY <1>5, <2>4, <2>5 DEF Sent
<1>6. CASE MarkStale(p) \/ Accept(p)
  <2> DEFINE d == proc[p].delivery
  <2>1. /\ UNCHANGED accepted /\ d \in Deliveries
        /\ \E result \in {"SENT", "FAILED"} : Report(p, result)
    BY <1>0, <1>6 DEF provider, MarkStale, Accept
  <2>2. CASE MarkStale(p)
    <3>1. rows' = [rows EXCEPT ![d] = Settled(rows[d], "PENDING", "AMBIGUOUS")]
      BY <2>1, <2>2 DEF MarkStale, TypeOK
    <3>2. \A x \in Deliveries : rows'[x].status = "SENT" => rows[x].status = "SENT"
      BY <2>1, <3>1, SettledGives
    <3> QED BY <2>1, <3>2, HeardElsewhere
  <2>3. CASE Accept(p)
    <3>1. rows' = [rows EXCEPT ![d] = Settled(rows[d], "SENT", "CONFIRMED")]
      BY <2>1, <2>3 DEF Accept, TypeOK
    <3>2. d \in accepted
      BY <2>3 DEF Accept, HeardInv, Heard
    <3>3. \A x \in Deliveries : rows'[x].status = "SENT"
            => rows[x].status = "SENT" \/ x \in accepted
      BY <2>1, <3>1, <3>2, SettledGives
    <3> QED BY <2>1, <3>3, HeardElsewhere
  <2> QED BY <1>6, <2>2, <2>3
<1>7. CASE Answered(p)
  <2> DEFINE answer == proc[p].answer
             step == IF answer = "accepted" THEN "sent" ELSE AfterError(p, answer)
  <2>1. UNCHANGED <<rows, accepted>> /\ proc[p].pc = "send" /\ Goto(p, step)
    BY <1>7 DEF Answered
  <2>2. step \in Steps /\ (step \in {"sent", "accept", "send"} => answer = "accepted")
    BY DEF AfterError, Steps
  <2> HIDE DEF step
  <2>3. PICK l \in Local : /\ proc' = [proc EXCEPT ![p] = l] /\ l.pc = step
                          /\ l.delivery = proc[p].delivery
    BY <2>1, <2>2, GotoGives
  <2>4. Heard(l)'
    BY <2>1, <2>2, <2>3 DEF Heard, HeardInv
  <2> QED BY <2>1, <2>3, <2>4, HeardMoves
<1> QED BY <1>1, <1>2, <1>3, <1>4, <1>5, <1>6, <1>7 DEF Step

LEMMA HeardNext == TypeOK /\ ClaimInv /\ HeardInv /\ [Next]_vars => HeardInv'
<1> SUFFICES ASSUME TypeOK, ClaimInv, HeardInv, [Next]_vars
             PROVE  HeardInv'
  OBVIOUS
<1>1. ASSUME NEW p \in Procs, Throw(p) \/ RefundThrows(p)
      PROVE  HeardInv'
  <2>1. UNCHANGED <<rows, accepted>>
    BY <1>1 DEF Throw, RefundThrows, provider
  <2>2. \/ \E step \in Deaf : Goto(p, step)
        \/ \E result \in {"SENT", "FAILED"} : Report(p, result)
    BY <1>1 DEF Throw, RefundThrows, AfterError, Deaf, Steps
  <2> QED BY <2>1, <2>2, HeardElsewhere
<1>2. ASSUME NEW p \in Procs, Stop(p)
      PROVE  HeardInv'
  <2>1. UNCHANGED accepted /\ Become(p, Idle)
    BY <1>2 DEF Stop, provider
  <2>2. ASSUME NEW d \in Deliveries
        PROVE  rows'[d].status = rows[d].status
    <3>1. rows[d] \in Row
      BY DEF TypeOK
    <3> QED BY <1>2, <3>1 DEF Stop, Forget, Row
  <2> QED BY <2>1, <2>2, HeardElsewhere
<1>3. ASSUME NEW p \in Procs, NEW d \in Deliveries, Deliver(p, d)
      PROVE  HeardInv'
  <2>1. UNCHANGED <<rows, accepted>>
    BY <1>3 DEF Deliver, ReadOnly, provider
  <2>2. PICK l \in Local : proc' = [proc EXCEPT ![p] = l] /\ l.pc = "row"
    BY <1>3, IdleLocal DEF Deliver, Become
  <2>3. Heard(l)'
    BY <2>2 DEF Heard
  <2> QED BY <2>1, <2>2, <2>3, HeardMoves
<1>4. ASSUME NEW p \in Procs, NEW answer \in Answer, NEW accepts \in BOOLEAN,
             Send(p, answer, accepts)
      PROVE  HeardInv'
  <2>1. /\ UNCHANGED rows /\ (answer = "accepted" => accepts)
        /\ accepted' = IF accepts THEN accepted \cup {proc[p].delivery} ELSE accepted
    BY <1>4 DEF Send
  <2>2. proc[p] \in Local
    BY DEF TypeOK
  <2>3. PICK l \in Local : /\ l.pc = "send" /\ l.delivery = proc[p].delivery
                          /\ l.answer = answer
                          /\ l = [proc[p] EXCEPT !.pc = "send",
                                                 !.answer = answer]
    BY <2>2, SendLocal
  <2>4. Heard(l)'
    BY <2>1, <2>3 DEF Heard
  <2> QED BY <1>4, <2>1, <2>3, <2>4, HeardMoves DEF Send, Become
<1>5. ASSUME NEW d \in Deliveries, LeaseEnds(d)
      PROVE  HeardInv'
  <2>1. rows[d] \in Row /\ rows' = [rows EXCEPT ![d].leased = FALSE]
        /\ UNCHANGED <<proc, accepted>>
    BY <1>5 DEF LeaseEnds, TypeOK, provider
  <2>2. \A x \in Deliveries : rows'[x].status = rows[x].status
    BY <2>1 DEF Row, TypeOK
  <2> QED BY <2>1, <2>2 DEF HeardInv, Heard
<1>6. CASE Tombstone
  <2>1. ASSUME NEW x \in Deliveries, rows'[x].status = "SENT"
        PROVE  rows[x].status = "SENT"
    <3>1. rows[x] \in Row
      BY DEF TypeOK
    <3> QED BY <1>6, <2>1, <3>1 DEF Tombstone, Settled, Row
  <2>2. UNCHANGED <<proc, accepted>>
    BY <1>6 DEF Tombstone, provider
  <2> QED BY <2>1, <2>2 DEF HeardInv, Heard
<1>7. CASE UNCHANGED vars \/ DayPasses \/ DisableChannel \/ TurnPaidOff
  <2>1. UNCHANGED <<rows, proc, accepted>>
    BY <1>7 DEF vars, DayPasses, DisableChannel, TurnPaidOff, provider
  <2> QED BY <2>1 DEF HeardInv, Heard
<1> QED BY <1>1, <1>2, <1>3, <1>4, <1>5, <1>6, <1>7, HeardStep DEF Next

-----------------------------------------------------------------------------
(* The deliveries implement DeliveryContract. *)

LEMMA Seen ==
  ASSUME NEW d \in Deliveries
  PROVE  /\ rows[d].status # "PENDING" => Outcome[d] = rows[d].status
         /\ rows[d].status = "PENDING" /\ rows[d].dispatch = "AMBIGUOUS"
              => Outcome[d] = "UNCLEAR"
         /\ Undecided(d) => Outcome[d] = "WAITING"
BY DEF Outcome, Undecided

(* Rows that keep their status, and their doubt, look as before.           *)
LEMMA SeenAlike ==
  ASSUME \A d \in Deliveries :
           /\ rows'[d].status = rows[d].status
           /\ rows'[d].dispatch = "AMBIGUOUS" <=> rows[d].dispatch = "AMBIGUOUS"
  PROVE  Outcome' = Outcome
<1>1. \A d \in Deliveries : Outcome'[d] = Outcome[d]
  BY DEF Outcome
<1> QED BY <1>1 DEF Outcome

LEMMA SeenSettled ==
  ASSUME TypeOK, NEW d \in Deliveries,
         NEW status \in {"PENDING", "SENT", "FAILED"},
         NEW dispatch \in {"READY", "AMBIGUOUS", "CONFIRMED"},
         rows' = [rows EXCEPT ![d] = Settled(rows[d], status, dispatch)]
  PROVE  /\ status # "PENDING" => Outcome' = [Outcome EXCEPT ![d] = status]
         /\ status = "PENDING" /\ dispatch = "AMBIGUOUS"
              => Outcome' = [Outcome EXCEPT ![d] = "UNCLEAR"]
         /\ status = "PENDING" /\ dispatch # "AMBIGUOUS"
              => Outcome' = [Outcome EXCEPT ![d] = "WAITING"]
<1>1. /\ rows'[d].status = status /\ rows'[d].dispatch = dispatch
      /\ \A x \in Deliveries \ {d} : rows'[x] = rows[x]
  BY SettledGives
<1>2. \A x \in Deliveries \ {d} : Outcome'[x] = Outcome[x]
  BY <1>1 DEF Outcome
<1>3. /\ status # "PENDING" => Outcome'[d] = status
      /\ status = "PENDING" /\ dispatch = "AMBIGUOUS" => Outcome'[d] = "UNCLEAR"
      /\ status = "PENDING" /\ dispatch # "AMBIGUOUS" => Outcome'[d] = "WAITING"
  BY <1>1 DEF Outcome
<1>4. /\ Outcome = [x \in Deliveries |-> Outcome[x]]
      /\ Outcome' = [x \in Deliveries |-> Outcome'[x]]
  BY DEF Outcome
<1>5. ASSUME NEW v, Outcome'[d] = v
      PROVE  Outcome' = [Outcome EXCEPT ![d] = v]
  BY <1>2, <1>4, <1>5
<1> QED BY <1>3, <1>5

(* What DeliveryContract sees besides the rows.                            *)
seen == <<operational, balance, charged, refunded, recent, provider, events>>

LEMMA ContractStill ==
  ASSUME Outcome' = Outcome, UNCHANGED seen
  PROVE  UNCHANGED Contract!vars
BY DEF seen, provider, Contract!vars

LEMMA ContractInit == Init => Contract!Init
<1> SUFFICES ASSUME Init PROVE Contract!Init
  OBVIOUS
<1>1. \A d \in Deliveries : rows[d] = Fresh
  BY DEF Init
<1>2. Outcome = [d \in Deliveries |-> "WAITING"]
  BY <1>1 DEF Outcome, Fresh
<1> QED BY <1>2 DEF Init, Contract!Init

-----------------------------------------------------------------------------

(* beginDispatch shows nothing: the delivery still waits.                  *)
LEMMA SimulateClaim ==
  ASSUME TypeOK, ClaimInv, NEW p \in Procs, ClaimRemoved(p) \/ Begin(p)
  PROVE  UNCHANGED Contract!vars
<1> DEFINE d == proc[p].delivery
<1>1. d \in Deliveries /\ rows[d] \in Row
  BY DEF ClaimInv, Placed, ClaimRemoved, Begin, TypeOK
<1>2. /\ rows[d].status = "PENDING" /\ rows[d].dispatch = "READY"
      /\ rows' = [rows EXCEPT ![d] = Dispatched(p)]
  BY DEF ClaimRemoved, Begin, BeginDispatch, Claimable
<1>3. /\ rows'[d].status = "PENDING" /\ rows'[d].dispatch = "DISPATCHING"
      /\ \A x \in Deliveries \ {d} : rows'[x] = rows[x]
  BY <1>1, <1>2 DEF Dispatched, Row, TypeOK
<1>4. Outcome' = Outcome
  BY <1>2, <1>3, SeenAlike
<1>5. UNCHANGED seen
  BY DEF ClaimRemoved, Begin, workspace, ledger, seen
<1> QED BY <1>4, <1>5, ContractStill

(* An invocation that owns a row fails it only when every call it and its  *)
(* predecessors made was rejected.                                         *)
LEMMA SimulateFail ==
  ASSUME TypeOK, ClaimInv, CallInv, NEW p \in Procs,
         FinishRemoved(p) \/ Skip(p) \/ FinishStopped(p) \/ Failed(p)
  PROVE  UNCHANGED Contract!vars \/ \E d \in Deliveries : Contract!GiveUp(d)
<1> DEFINE d == proc[p].delivery
<1>1. /\ ~At(p, "idle") /\ proc[p].pc \in Clean
      /\ FinishDispatch(p, "FAILED", "CONFIRMED") /\ UNCHANGED seen
  BY DEF FinishRemoved, Skip, FinishStopped, Failed, Clean, Working, seen,
         workspace, ledger
<1>2. d \in Deliveries
  BY <1>1 DEF ClaimInv, Placed
<1>3. CASE UNCHANGED rows
  BY <1>1, <1>3, SeenAlike, ContractStill
<1>4. CASE /\ Owns(p)
           /\ rows' = [rows EXCEPT ![d] = Settled(rows[d], "FAILED", "CONFIRMED")]
  <2>1. Outcome[d] = "WAITING"
    BY <1>2, <1>4, Seen DEF Owns, Undecided
  <2>2. Outcome' = [Outcome EXCEPT ![d] = "FAILED"]
    BY <1>2, <1>4, SeenSettled
  <2>3. calls[d] = rejections[d]
    <3>1. calls[d] <= rejections[d] /\ rejections[d] <= calls[d]
      BY <1>1, <1>2 DEF CallInv, Fits, Counted, Clean
    <3> QED BY <1>2, <3>1 DEF TypeOK
  <2>4. Contract!GiveUp(d)
    BY <1>1, <2>1, <2>2, <2>3
       DEF Contract!GiveUp, Contract!Refused, Contract!Decide, seen, provider
  <2> QED BY <1>2, <2>4
<1> QED BY <1>1, <1>3, <1>4, Finishes

LEMMA SimulateAgain ==
  ASSUME TypeOK, ClaimInv, NEW p \in Procs, TryAgain(p)
  PROVE  UNCHANGED Contract!vars
<1> DEFINE d == proc[p].delivery
<1>1. /\ ~At(p, "idle") /\ FinishDispatch(p, "PENDING", "READY")
      /\ UNCHANGED seen
  BY DEF TryAgain, seen, workspace, ledger
<1>2. d \in Deliveries
  BY <1>1 DEF ClaimInv, Placed
<1>3. CASE UNCHANGED rows
  BY <1>1, <1>3, SeenAlike, ContractStill
<1>4. CASE /\ Owns(p)
           /\ rows' = [rows EXCEPT ![d] = Settled(rows[d], "PENDING", "READY")]
  <2>1. /\ rows'[d].status = "PENDING" /\ rows'[d].dispatch = "READY"
        /\ \A x \in Deliveries \ {d} : rows'[x] = rows[x]
    BY <1>2, <1>4, SettledGives
  <2>2. Outcome' = Outcome
    BY <1>4, <2>1, SeenAlike DEF Owns
  <2> QED BY <1>1, <2>2, ContractStill
<1> QED BY <1>1, <1>3, <1>4, Finishes

(* By its own worker, or by one that finds the lease at its end.           *)
LEMMA SimulateDoubt ==
  ASSUME TypeOK, ClaimInv, NEW p \in Procs, MarkAmbiguous(p) \/ MarkStale(p)
  PROVE  UNCHANGED Contract!vars \/ \E d \in Deliveries : Contract!Doubt(d)
<1> DEFINE d == proc[p].delivery
<1>1. ~At(p, "idle") /\ UNCHANGED seen
  BY DEF MarkAmbiguous, MarkStale, seen, workspace, ledger
<1>2. d \in Deliveries
  BY <1>1 DEF ClaimInv, Placed
<1>3. CASE UNCHANGED rows
  BY <1>1, <1>3, SeenAlike, ContractStill
<1>4. CASE /\ Undecided(d)
           /\ rows' = [rows EXCEPT ![d] = Settled(rows[d], "PENDING", "AMBIGUOUS")]
  <2>1. Outcome[d] = "WAITING"
    BY <1>2, <1>4, Seen
  <2>2. Outcome' = [Outcome EXCEPT ![d] = "UNCLEAR"]
    BY <1>2, <1>4, SeenSettled
  <2>3. Contract!Doubt(d)
    BY <1>1, <2>1, <2>2 DEF Contract!Doubt, Contract!Decide, seen, provider
  <2> QED BY <1>2, <2>3
<1>5. CASE MarkAmbiguous(p)
  <2>1. FinishDispatch(p, "PENDING", "AMBIGUOUS")
    BY <1>5 DEF MarkAmbiguous
  <2>2. Owns(p) => Undecided(d)
    BY DEF Owns, Undecided
  <2> QED BY <1>1, <1>3, <1>4, <2>1, <2>2, Finishes
<1>6. CASE MarkStale(p)
  <2>1. Undecided(d)
    BY <1>6 DEF MarkStale, Stale, Undecided
  <2>2. rows' = [rows EXCEPT ![d] = Settled(rows[d], "PENDING", "AMBIGUOUS")]
    BY <1>2, <1>6 DEF MarkStale, TypeOK
  <2> QED BY <1>4, <2>1, <2>2
<1> QED BY <1>5, <1>6

(* Also after the row was given up to doubt: recordProviderAcceptance.     *)
LEMMA SimulateSent ==
  ASSUME TypeOK, ClaimInv, HeardInv, NEW p \in Procs, Sent(p) \/ Accept(p)
  PROVE  UNCHANGED Contract!vars \/ \E d \in Deliveries : Contract!Succeed(d)
<1> DEFINE d == proc[p].delivery
<1>1. ~At(p, "idle") /\ UNCHANGED seen /\ d \in accepted
  BY DEF Sent, Accept, seen, workspace, ledger, HeardInv, Heard
<1>2. d \in Deliveries
  BY <1>1 DEF ClaimInv, Placed
<1>3. CASE UNCHANGED rows
  BY <1>1, <1>3, SeenAlike, ContractStill
<1>4. CASE /\ rows[d].status = "PENDING"
           /\ rows' = [rows EXCEPT ![d] = Settled(rows[d], "SENT", "CONFIRMED")]
  <2>1. Outcome[d] \in {"WAITING", "UNCLEAR"}
    BY <1>2, <1>4, Seen DEF Undecided
  <2>2. Outcome' = [Outcome EXCEPT ![d] = "SENT"]
    BY <1>2, <1>4, SeenSettled
  <2>3. Contract!Succeed(d)
    BY <1>1, <2>1, <2>2
       DEF Contract!Succeed, Contract!Undecided, Contract!Decide, seen, provider
  <2> QED BY <1>2, <2>3
<1>5. CASE Sent(p)
  <2>1. FinishDispatch(p, "SENT", "CONFIRMED")
    BY <1>5 DEF Sent
  <2>2. Owns(p) => rows[d].status = "PENDING"
    BY DEF Owns
  <2> QED BY <1>1, <1>3, <1>4, <2>1, <2>2, Finishes
<1>6. CASE Accept(p)
  <2>1. rows[d].status = "PENDING"
    BY <1>6 DEF Accept
  <2>2. rows' = [rows EXCEPT ![d] = Settled(rows[d], "SENT", "CONFIRMED")]
    BY <1>2, <1>6 DEF Accept, TypeOK
  <2> QED BY <1>4, <2>1, <2>2
<1> QED BY <1>5, <1>6

(* The charge: nobody else has charged the delivery meanwhile, and unless  *)
(* the workspace is under deletion it is still undecided.                  *)
LEMMA SimulateDebit ==
  ASSUME TypeOK, ClaimInv, ReportInv, Scrubbed, NEW p \in Procs, Debit(p)
  PROVE  \E d \in Deliveries : Contract!Take(d)
<1> DEFINE d == proc[p].delivery
<1>1. d \in Deliveries /\ proc[p].pc = "debit"
  BY DEF Debit, ClaimInv, Placed
<1>2. d \notin charged
  BY <1>1 DEF Debit, Scrubbed, Paying
<1>3. operational => Outcome[d] \in {"WAITING", "UNCLEAR"}
  <2>1. operational => rows[d].status = "PENDING"
    BY <1>1 DEF ReportInv, Tells, Working, Over
  <2> QED BY <1>1, <2>1, Seen DEF Undecided
<1>4. Outcome' = Outcome
  BY SeenAlike DEF Debit
<1>5. /\ balance >= 1 /\ Cardinality(recent \ refunded) < DailyLimit
      /\ balance' = balance - 1 /\ charged' = charged \cup {d}
      /\ recent' = recent \cup {d}
      /\ UNCHANGED <<operational, refunded, provider, events>>
  <2>1. DailyLimit > Cardinality(recent \ refunded)
    BY DEF Debit, Affordable, Unrefunded
  <2>2. Cardinality(recent \ refunded) < DailyLimit
    BY <2>1
  <2> QED BY <2>2 DEF Debit, Affordable, workspace
<1>6. Contract!Take(d)
  BY <1>2, <1>3, <1>4, <1>5 DEF Contract!Take, Contract!Undecided,
     Contract!Cardinality, Cardinality, provider
<1> QED BY <1>1, <1>6

(* The call: whoever is about to make it has a paid delivery, every        *)
(* earlier call of which was rejected, and which is undecided unless the   *)
(* workspace was tombstoned since the last check.                          *)
LEMMA SimulateSend ==
  ASSUME TypeOK, ClaimInv, CallInv, ReportInv, NEW p \in Procs,
         NEW answer \in Answer, NEW accepts \in BOOLEAN, Send(p, answer, accepts)
  PROVE  \E d \in Deliveries : Contract!Ask(d, accepts)
<1> DEFINE d == proc[p].delivery
<1>1. d \in Deliveries /\ proc[p].pc = "call"
  BY DEF Send, ClaimInv, Placed
<1>2. /\ calls[d] \in Nat /\ rejections[d] \in Nat
      /\ rows[d].attempts \in 0..MaxAttempts /\ keyed \subseteq charged
  BY <1>1 DEF TypeOK, Row
<1>3. operational => Outcome[d] \in {"WAITING", "UNCLEAR"}
  <2>1. operational => rows[d].status = "PENDING"
    BY <1>1 DEF ReportInv, Tells, Working, Over
  <2> QED BY <1>1, <2>1, Seen DEF Undecided
<1>4. /\ d \in charged \ refunded
      /\ calls[d] <= rejections[d] /\ calls[d] < rows[d].attempts
  BY <1>1, <1>2 DEF CallInv, Fits, Working, Clean, Before
<1>5. rejections[d] <= calls[d]
  BY <1>1 DEF CallInv, Counted
<1>6. calls[d] = rejections[d] /\ calls[d] < MaxAttempts
  BY <1>2, <1>4, <1>5 DEF MaxAttempts
<1>7. Outcome' = Outcome
  BY SeenAlike DEF Send
<1>8. Contract!Ask(d, accepts)
  BY <1>1, <1>3, <1>4, <1>6, <1>7
     DEF Send, Contract!Ask, Contract!Undecided, Contract!Refused, workspace,
         ledger
<1> QED BY <1>1, <1>8

LEMMA SimulateAnswer ==
  ASSUME TypeOK, ClaimInv, CallInv, NEW p \in Procs, Answered(p)
  PROVE  UNCHANGED Contract!vars \/ \E d \in Deliveries : Contract!Reject(d)
<1> DEFINE d == proc[p].delivery
<1>1. d \in Deliveries /\ proc[p].pc = "send"
  BY DEF Answered, ClaimInv, Placed
<1>2. Outcome' = Outcome
  BY SeenAlike DEF Answered
<1>3. UNCHANGED <<operational, ledger, events, calls, accepted>>
  BY DEF Answered, workspace
<1>4. CASE proc[p].answer = "rejected"
  <2>1. d \notin accepted /\ rejections[d] < calls[d]
    BY <1>1, <1>4 DEF CallInv, Fits, Working
  <2>2. rejections' = [rejections EXCEPT ![d] = @ + 1]
    BY <1>4 DEF Answered
  <2>3. Contract!Reject(d)
    BY <1>2, <1>3, <2>1, <2>2 DEF Contract!Reject, ledger
  <2> QED BY <1>1, <2>3
<1>5. CASE proc[p].answer # "rejected"
  <2>1. rejections' = rejections
    BY <1>5 DEF Answered
  <2> QED BY <1>2, <1>3, <2>1, ContractStill DEF seen, provider, ledger
<1> QED BY <1>4, <1>5

(* Only what has failed, or is in doubt without a call that may have been  *)
(* accepted, is refunded.                                                  *)
LEMMA SimulateRefund ==
  ASSUME TypeOK, ClaimInv, CallInv, ReportInv, HeardInv, NEW p \in Procs,
         StopRefund(p) \/ RefundFailed(p)
  PROVE  UNCHANGED Contract!vars \/ \E d \in Deliveries : Contract!GiveBack(d)
<1> DEFINE d == proc[p].delivery
<1>1. /\ d \in Deliveries /\ keyed \subseteq charged
      /\ calls[d] \in Nat /\ rejections[d] \in Nat
  BY DEF StopRefund, RefundFailed, ClaimInv, Placed, TypeOK
<1>2. Outcome' = Outcome
  BY SeenAlike DEF StopRefund, RefundFailed
<1>3. UNCHANGED <<operational, events, provider>> /\ Refund(d)
  BY DEF StopRefund, RefundFailed, workspace
<1>4. CASE ~(operational /\ d \in keyed \ refunded)
  <2>1. UNCHANGED ledger
    BY <1>3, <1>4 DEF Refund
  <2> QED BY <1>2, <1>3, <2>1, ContractStill DEF seen, ledger
<1>5. CASE operational /\ d \in keyed \ refunded
  <2>1. proc[p].pc = "refund"
    <3>1. proc[p].pc = "stopRefund" => ~operational
      BY DEF CallInv, Fits, Working
    <3> QED BY <1>5, <3>1 DEF StopRefund, RefundFailed
  <2>2. calls[d] <= rejections[d] /\ rejections[d] <= calls[d]
    BY <1>1, <2>1 DEF CallInv, Fits, Counted, Clean, Working
  <2>3. calls[d] = rejections[d]
    BY <1>1, <2>2
  <2>4. rows[d].status # "SENT"
    BY <1>1, <2>2 DEF HeardInv, CallInv, Counted
  <2>5. rows[d].status \in {"PENDING", "FAILED"}
    BY <1>1, <2>4 DEF TypeOK, Row
  <2>6. ~Undecided(d)
    BY <2>1 DEF ReportInv, Tells
  <2>7. Outcome[d] \in {"FAILED", "UNCLEAR"}
    BY <1>1, <2>5, <2>6, Seen DEF Undecided
  <2>8. /\ balance' = balance + 1 /\ refunded' = refunded \cup {d}
        /\ UNCHANGED <<charged, recent>>
    BY <1>3, <1>5 DEF Refund
  <2>9. Contract!GiveBack(d)
    BY <1>1, <1>2, <1>3, <1>5, <2>3, <2>7, <2>8
       DEF Contract!GiveBack, Contract!Refused, provider
  <2> QED BY <1>1, <2>9
<1> QED BY <1>4, <1>5

LEMMA SimulateReconcile ==
  ASSUME TypeOK, ClaimInv, ReportInv, NEW p \in Procs, Reconcile(p)
  PROVE  \E d \in Deliveries, result \in {"SENT", "FAILED"} :
           Contract!Tell(d, result)
<1> DEFINE d == proc[p].delivery
           result == proc[p].result
<1>1. /\ d \in Deliveries /\ proc[p].pc \in Telling
      /\ result \in {"SENT", "FAILED"} /\ rows[d] \in Row
  BY DEF Reconcile, ClaimInv, Placed, TypeOK, Local, Telling
<1>2. ~Undecided(d) /\ (result = "SENT" => rows[d].status = "SENT")
  BY <1>1 DEF ReportInv, Tells
<1>3. (result = "SENT" => Outcome[d] = "SENT") /\ Outcome[d] # "WAITING"
  BY <1>1, <1>2, Seen DEF Undecided, Row
<1>4. Outcome' = Outcome
  BY SeenAlike DEF Reconcile
<1>5. Contract!Tell(d, result)
  BY <1>3, <1>4 DEF Reconcile, Contract!Tell, workspace, ledger, provider
<1> QED BY <1>1, <1>5

LEMMA SimulateTombstone ==
  ASSUME TypeOK, Tombstone
  PROVE  Contract!Close
<1>1. ASSUME NEW d \in Deliveries
      PROVE  Outcome'[d] = IF Outcome[d] \in {"WAITING", "UNCLEAR"}
                           THEN "FAILED" ELSE Outcome[d]
  <2>1. rows[d] \in Row
    BY DEF TypeOK
  <2>2. CASE rows[d].status = "PENDING"
    <3>1. rows'[d].status = "FAILED"
      BY <2>1, <2>2 DEF Tombstone, Settled, Row
    <3> QED BY <2>2, <3>1 DEF Outcome
  <2>3. CASE rows[d].status # "PENDING"
    <3>1. rows'[d] = rows[d] /\ rows[d].status \in {"SENT", "FAILED"}
      BY <2>1, <2>3 DEF Tombstone, Row
    <3> QED BY <2>3, <3>1 DEF Outcome
  <2> QED BY <2>2, <2>3
<1>2. Outcome' = [d \in Deliveries |-> IF Outcome[d] \in {"WAITING", "UNCLEAR"}
                                       THEN "FAILED" ELSE Outcome[d]]
  BY <1>1 DEF Outcome
<1> QED BY <1>2 DEF Tombstone, Contract!Close, Contract!Undecided, ledger,
                    provider

(* The steps DeliveryContract does not see.                                *)
LEMMA SimulateQuiet ==
  ASSUME TypeOK,
         \/ \E p \in Procs :
              \/ ReadRow(p) \/ ReadChannel(p) \/ NotRemovable(p)
              \/ CheckOperational(p) \/ BeginRefused(p) \/ NotStale(p)
              \/ Recheck(p) \/ ReadCharge(p) \/ NotDebited(p) \/ LastCheck(p)
              \/ AcceptRefused(p) \/ Ack(p) \/ Throw(p) \/ RefundThrows(p)
              \/ Stop(p) \/ \E d \in Deliveries : Deliver(p, d)
         \/ \E d \in Deliveries : LeaseEnds(d)
         \/ DisableChannel \/ TurnPaidOff \/ UNCHANGED vars
  PROVE  UNCHANGED Contract!vars
<1>1. ASSUME NEW p \in Procs,
             \/ ReadRow(p) \/ ReadChannel(p) \/ NotRemovable(p)
             \/ CheckOperational(p) \/ BeginRefused(p) \/ NotStale(p)
             \/ Recheck(p) \/ ReadCharge(p) \/ NotDebited(p) \/ LastCheck(p)
             \/ AcceptRefused(p) \/ \E d \in Deliveries : Deliver(p, d)
      PROVE  UNCHANGED Contract!vars
  <2>1. UNCHANGED seen /\ UNCHANGED rows
    BY <1>1 DEF ReadOnly, workspace, ledger, seen, ReadRow, ReadChannel,
                NotRemovable, CheckOperational, BeginRefused, NotStale, Recheck,
                ReadCharge, NotDebited, LastCheck, AcceptRefused, Deliver
  <2> QED BY <2>1, SeenAlike, ContractStill
<1>2. ASSUME NEW p \in Procs, Ack(p) \/ Throw(p) \/ RefundThrows(p)
      PROVE  UNCHANGED Contract!vars
  <2>1. UNCHANGED seen /\ UNCHANGED rows
    BY <1>2 DEF workspace, ledger, seen, Ack, Throw, RefundThrows
  <2> QED BY <2>1, SeenAlike, ContractStill
<1>3. ASSUME NEW p \in Procs, Stop(p)
      PROVE  UNCHANGED Contract!vars
  <2>1. UNCHANGED seen
    BY <1>3 DEF workspace, ledger, seen, Stop
  <2>2. ASSUME NEW d \in Deliveries
        PROVE  /\ rows'[d].status = rows[d].status
               /\ rows'[d].dispatch = rows[d].dispatch
    <3>1. rows[d] \in Row
      BY DEF TypeOK
    <3> QED BY <1>3, <3>1 DEF Stop, Forget, Row
  <2>3. Outcome' = Outcome
    BY <2>2, SeenAlike
  <2> QED BY <2>1, <2>3, ContractStill
<1>4. ASSUME NEW d \in Deliveries, LeaseEnds(d)
      PROVE  UNCHANGED Contract!vars
  <2>1. rows[d] \in Row /\ rows' = [rows EXCEPT ![d].leased = FALSE]
    BY <1>4 DEF LeaseEnds, TypeOK
  <2>2. UNCHANGED seen
    BY <1>4 DEF workspace, ledger, seen, LeaseEnds
  <2>3. \A x \in Deliveries : /\ rows'[x].status = rows[x].status
                             /\ rows'[x].dispatch = rows[x].dispatch
    BY <2>1 DEF Row, TypeOK
  <2>4. Outcome' = Outcome
    BY <2>3, SeenAlike
  <2> QED BY <2>2, <2>4, ContractStill
<1>5. CASE DisableChannel \/ TurnPaidOff \/ UNCHANGED vars
  <2>1. UNCHANGED seen /\ UNCHANGED rows
    BY <1>5 DEF ledger, seen, DisableChannel, TurnPaidOff, vars, provider
  <2> QED BY <2>1, SeenAlike, ContractStill
<1> QED BY <1>1, <1>2, <1>3, <1>4, <1>5

LEMMA Simulation ==
  /\ TypeOK /\ ClaimInv /\ CallInv /\ Scrubbed /\ ReportInv /\ HeardInv
  /\ [Next]_vars
  => [Contract!Next]_(Contract!vars)
<1> SUFFICES ASSUME TypeOK, ClaimInv, CallInv, Scrubbed, ReportInv, HeardInv,
                    [Next]_vars
             PROVE  Contract!Next \/ UNCHANGED Contract!vars
  OBVIOUS
<1>1. ASSUME NEW p \in Procs, Step(p)
      PROVE  Contract!Next \/ UNCHANGED Contract!vars
  <2>1. CASE ClaimRemoved(p) \/ Begin(p)
    BY <2>1, SimulateClaim
  <2>2. CASE FinishRemoved(p) \/ Skip(p) \/ FinishStopped(p) \/ Failed(p)
    BY <2>2, SimulateFail DEF Contract!Next
  <2>3. CASE TryAgain(p)
    BY <2>3, SimulateAgain
  <2>4. CASE MarkAmbiguous(p) \/ MarkStale(p)
    BY <2>4, SimulateDoubt DEF Contract!Next
  <2>5. CASE Sent(p) \/ Accept(p)
    BY <2>5, SimulateSent DEF Contract!Next
  <2>6. CASE Debit(p)
    BY <2>6, SimulateDebit DEF Contract!Next
  <2>7. CASE Answered(p)
    BY <2>7, SimulateAnswer DEF Contract!Next
  <2>8. CASE StopRefund(p) \/ RefundFailed(p)
    BY <2>8, SimulateRefund DEF Contract!Next
  <2>9. CASE Reconcile(p)
    BY <2>9, SimulateReconcile DEF Contract!Next
  <2> QED BY <1>1, <2>1, <2>2, <2>3, <2>4, <2>5, <2>6, <2>7, <2>8, <2>9,
             SimulateQuiet DEF Step
<1>2. ASSUME NEW p \in Procs, NEW answer \in Answer, NEW accepts \in BOOLEAN,
             Send(p, answer, accepts)
      PROVE  Contract!Next
  BY <1>2, SimulateSend DEF Contract!Next
<1>3. CASE DayPasses
  <2>1. Outcome' = Outcome
    BY <1>3, SeenAlike DEF DayPasses
  <2>2. Contract!NextDay
    BY <1>3, <2>1 DEF DayPasses, Contract!NextDay, provider
  <2> QED BY <2>2 DEF Contract!Next
<1>4. CASE Tombstone
  BY <1>4, SimulateTombstone DEF Contract!Next
<1> QED BY <1>1, <1>2, <1>3, <1>4, SimulateQuiet DEF Next

(* However many consumers overlap, and whatever leases, evictions, errors, *)
(* settings and the deletion of the workspace do, each statement and each  *)
(* call is one step of the delivery contract or none: credit is taken once *)
(* and before the call, a call follows rejected ones only, an outcome is   *)
(* final unless in doubt, and what is SENT was accepted.                   *)
THEOREM DeliveryKeepsContract == Spec => ImplementsDelivery
<1>1. Init => Contract!Init
  BY ContractInit
<1>2. /\ TypeOK /\ ClaimInv /\ CallInv /\ Scrubbed /\ ReportInv /\ HeardInv
      /\ [Next]_vars
      => [Contract!Next]_(Contract!vars)
  BY Simulation
<1> QED
  BY <1>1, <1>2, TypeInit, TypeNext, CallInit, CallNext, PayInit, PayNext,
     ReportInit, ReportNext, HeardInit, HeardNext, PTL
     DEF Spec, ImplementsDelivery, Contract!Spec
=============================================================================
