------------------------- MODULE QueueOutboxProofs -------------------------
(***************************************************************************)
(* Proofs about QueueOutbox for any number of invocations, redrives,       *)
(* failures, messages and faults.                                          *)
(***************************************************************************)
EXTENDS QueueOutbox, NaturalsInduction, WellFoundedInduction, TLAPS

Sent == 1..sends
Publishing == {"send", "mark", "fail"}

(* What the rows and the messages know of each other.  A message has a      *)
(* greater number than the row it was sent from, and an acknowledged dead   *)
(* letter has a row of its own number: so the greatest row there is stands  *)
(* for the work, or its message does.                                       *)
Linked ==
  /\ rows[0].there
  /\ \A r \in Rows : rows[r].there => r <= sends
  /\ \A r \in Rows : rows[r].quarantined => rows[r].there
  /\ \A r \in Rows : rows[r].published => \E m \in Sent : messages[m].row = r
  /\ \A m \in Ids : messages[m].place # "none" <=> m <= sends
  /\ \A m \in Sent : messages[m].row < m
  /\ \A m \in Ids : messages[m].place = "gone" /\ ~handled => rows[m].there

(* What an invocation knows of its row. *)
Knows(local) ==
  /\ local.pc # "idle" => rows[local.row].there
  /\ local.msg # 0 => rows[local.msg].there
  /\ local.pc = "mark" => \E m \in Sent : messages[m].row = local.row
  /\ local.pc \in Publishing => Valid(rows[local.row].count)

Working == \A p \in Procs : Knows(proc[p])

Bounded == \A m \in Sent : Valid(messages[m].count)

Inv == TypeOK /\ Linked /\ Working /\ Bounded

-----------------------------------------------------------------------------
LEMMA CreatedIsRow ==
  ASSUME NEW c \in Nat
  PROVE  /\ Created(c) \in Row
         /\ Created(c).there
         /\ Created(c).count = c
         /\ ~Created(c).published
         /\ ~Created(c).quarantined
         /\ ~Created(c).lapsed
         /\ Created(c).failures = 0
         /\ Created(c).claim = "free"
  BY DEF Created, Absent, Row

LEMMA InitInv == ASSUME Init PROVE Inv
<1> USE OutboxAssumption DEF OutboxAssumption
<1>0. 0 \in Rows /\ Ids \subseteq Rows
  BY DEF Rows, Ids
<1>1. /\ rows[0] = Created(0)
      /\ \A r \in Rows : r # 0 => rows[r] = Absent
      /\ \A m \in Ids : messages[m] = Unsent
  BY <1>0 DEF Init
<1>2. /\ Absent \in Row
      /\ ~Absent.there /\ ~Absent.published /\ ~Absent.quarantined
  BY DEF Absent, Row
<1>3. Unsent \in Message /\ Unsent.place = "none" /\ Idle \in Local
  BY <1>0 DEF Unsent, Message, Idle, Local
<1>4. TypeOK
  <2>1. rows \in [Rows -> Row]
    BY <1>2, CreatedIsRow DEF Init
  <2>2. messages \in [Ids -> Message] /\ proc \in [Procs -> Local]
    BY <1>3 DEF Init
  <2>3. sends \in 0..MaxSends /\ faults \in Nat
    BY DEF Init
  <2>4. handled \in BOOLEAN /\ purging \in BOOLEAN
    BY DEF Init
  <2> QED BY <2>1, <2>2, <2>3, <2>4 DEF TypeOK
<1>5. Linked
  <2>1. sends = 0 /\ Sent = {}
    BY DEF Init, Sent
  <2>2. \A r \in Rows : ~rows[r].published /\ ~rows[r].quarantined
    BY <1>1, <1>2, CreatedIsRow
  <2>3. rows[0].there /\ \A r \in Rows : rows[r].there => r = 0
    BY <1>1, <1>2, CreatedIsRow
  <2>4. \A m \in Ids : messages[m].place = "none" /\ ~(m <= sends)
    BY <1>1, <1>3, <2>1 DEF Ids
  <2> QED BY <2>1, <2>2, <2>3, <2>4 DEF Linked
<1>6. Working
  BY DEF Init, Working, Knows, Idle, Publishing
<1>7. Bounded
  BY DEF Init, Bounded, Sent
<1> QED BY <1>4, <1>5, <1>6, <1>7 DEF Inv

-----------------------------------------------------------------------------
(* Type correctness of the parts of a step. *)

LEMMA RowFields ==
  ASSUME TypeOK, NEW r \in Rows
  PROVE  /\ rows[r] \in Row
         /\ rows[r].there \in BOOLEAN
         /\ rows[r].count \in Nat
         /\ rows[r].claim \in {"free", "held", "stale"}
         /\ rows[r].lapsed \in BOOLEAN
         /\ rows[r].failures \in Nat
         /\ rows[r].published \in BOOLEAN
         /\ rows[r].quarantined \in BOOLEAN
  BY DEF TypeOK, Row

LEMMA LocalFields ==
  ASSUME TypeOK, NEW p \in Procs
  PROVE  /\ proc[p] \in Local
         /\ proc[p].row \in Rows
         /\ proc[p].msg \in Rows
         /\ proc[p].pc \in {"idle", "publish", "send", "mark", "fail",
                            "reject", "limit", "ack"}
  BY DEF TypeOK, Local

LEMMA MessageFields ==
  ASSUME TypeOK, NEW m \in Ids
  PROVE  /\ messages[m] \in Message
         /\ messages[m].row \in Rows
         /\ messages[m].count \in Nat
         /\ messages[m].place \in {"none", "queue", "dlq", "parked", "gone"}
  BY DEF TypeOK, Message

LEMMA UpdateEffect ==
  ASSUME TypeOK, NEW r \in Rows, NEW row \in Row, Update(r, row)
  PROVE  /\ rows' \in [Rows -> Row]
         /\ \A q \in Rows : q # r => rows'[q] = rows[q]
         /\ rows[r].published => rows'[r] = rows[r]
         /\ ~rows[r].published => rows'[r] = row
  BY DEF TypeOK, Update

LEMMA BecomeEffect ==
  ASSUME TypeOK, NEW p \in Procs, NEW local \in Local, Become(p, local)
  PROVE  /\ proc' \in [Procs -> Local]
         /\ \A q \in Procs : q # p => proc'[q] = proc[q]
         /\ proc'[p] = local
  BY DEF TypeOK, Become

LEMMA GotoEffect ==
  ASSUME TypeOK, NEW p \in Procs,
         NEW step \in {"idle", "publish", "send", "mark", "fail", "reject",
                       "limit", "ack"},
         Goto(p, step)
  PROVE  /\ proc' \in [Procs -> Local]
         /\ \A q \in Procs : q # p => proc'[q] = proc[q]
         /\ proc'[p].pc = step
         /\ proc'[p].row = proc[p].row
         /\ proc'[p].msg = proc[p].msg
  BY LocalFields DEF TypeOK, Goto, Become, Local

LEMMA IdleIsLocal == Idle \in Local /\ Idle.pc = "idle" /\ Idle.msg = 0
  BY OutboxAssumption DEF Idle, Local, Rows

(* publishById returns to nothing or to the acknowledgement. *)
LEMMA ReturnEffect ==
  ASSUME TypeOK, NEW p \in Procs, Return(p), Knows(proc[p]), ~At(p, "idle")
  PROVE  /\ proc' \in [Procs -> Local]
         /\ \A q \in Procs : q # p => proc'[q] = proc[q]
         /\ Knows(proc'[p])
         /\ proc'[p].pc \notin Publishing
  <1>1. CASE proc[p].msg = 0
    BY <1>1, IdleIsLocal, BecomeEffect DEF Return, Knows, Publishing
  <1>2. CASE proc[p].msg # 0
    BY <1>2, GotoEffect DEF Return, Knows, Publishing, At
  <1> QED BY <1>1, <1>2

-----------------------------------------------------------------------------
(* A step that moves no message and inserts no row keeps the invariant when *)
(* the invocations still know enough and what it publishes was sent.        *)
LEMMA Frame ==
  ASSUME Inv,
         rows' \in [Rows -> Row],
         proc' \in [Procs -> Local],
         faults' \in Nat,
         purging' \in BOOLEAN,
         UNCHANGED <<messages, sends, handled>>,
         \A r \in Rows : /\ rows'[r].there <=> rows[r].there
                         /\ rows'[r].count = rows[r].count
                         /\ rows'[r].quarantined => rows[r].there
                         /\ rows'[r].published =>
                              \E m \in Sent : messages[m].row = r,
         \A p \in Procs : Knows(proc'[p])
  PROVE  Inv'
<1>1. TypeOK'
  BY DEF Inv, TypeOK
<1>2. Sent' = Sent
  BY DEF Sent
<1>3. Linked'
  <2>1. 0 \in Rows /\ Ids \subseteq Rows
    BY OutboxAssumption DEF Rows, Ids
  <2> QED BY <1>2, <2>1 DEF Inv, Linked
<1>4. Working'
  <2> SUFFICES ASSUME NEW p \in Procs PROVE Knows(proc[p])'
    BY DEF Working
  <2>1. proc'[p].row \in Rows /\ proc'[p].msg \in Rows
    BY DEF Local
  <2> QED BY <1>2, <2>1 DEF Knows, Valid
<1>5. Bounded'
  BY <1>2 DEF Inv, Bounded, Valid
<1> QED BY <1>1, <1>3, <1>4, <1>5 DEF Inv

(* What the invariant says of the row an update is about. *)
LEMMA UpdateSound ==
  ASSUME Inv, NEW r \in Rows, rows[r].there,
         NEW row \in Row, Update(r, row),
         row.there, row.count = rows[r].count,
         row.published => \E m \in Sent : messages[m].row = r
  PROVE  /\ rows' \in [Rows -> Row]
         /\ \A q \in Rows :
              /\ rows'[q].there <=> rows[q].there
              /\ rows'[q].count = rows[q].count
              /\ rows'[q].quarantined => rows[q].there
              /\ rows'[q].published => \E m \in Sent : messages[m].row = q
  <1>1. TypeOK /\ Linked
    BY DEF Inv
  <1>2. /\ rows' \in [Rows -> Row]
        /\ \A q \in Rows : q # r => rows'[q] = rows[q]
        /\ rows[r].published => rows'[r] = rows[r]
        /\ ~rows[r].published => rows'[r] = row
    BY <1>1, UpdateEffect
  <1> QED BY <1>1, <1>2 DEF Linked

(* A step of one invocation leaves the others what they know. *)
LEMMA OthersKnow ==
  ASSUME Inv, NEW p \in Procs, Knows(proc'[p]),
         \A q \in Procs : q # p => proc'[q] = proc[q]
  PROVE  \A q \in Procs : Knows(proc'[q])
  <1> SUFFICES ASSUME NEW q \in Procs PROVE Knows(proc'[q])
    OBVIOUS
  <1>1. Knows(proc[q])
    BY DEF Inv, Working
  <1>2. CASE q = p
    BY <1>2
  <1>3. CASE q # p
    <2>1. proc'[q] = proc[q]
      BY <1>3
    <2> QED BY <1>1, <2>1
  <1> QED BY <1>2, <1>3

LEMMA ClaimInv ==
  ASSUME Inv, NEW p \in Procs, NEW r \in Rows, Claim(p, r),
         proc[p].msg # 0 => rows[proc[p].msg].there
  PROVE  Inv'
<1>1. TypeOK /\ Linked
  BY DEF Inv
<1>2. rows[r].there /\ ~rows[r].published /\ ~rows[r].quarantined
  BY DEF Claim, Claimable, Pending
<1> DEFINE row == [rows[r] EXCEPT !.claim = "held"]
<1>3. /\ row \in Row /\ row.there /\ row.count = rows[r].count
      /\ ~row.published
  BY <1>1, <1>2, RowFields DEF Row
<1>4. Update(r, row)
  BY <1>2 DEF Claim, Update
<1>5. /\ rows' \in [Rows -> Row]
      /\ \A q \in Rows :
           /\ rows'[q].there <=> rows[q].there
           /\ rows'[q].count = rows[q].count
           /\ rows'[q].quarantined => rows[q].there
           /\ rows'[q].published => \E m \in Sent : messages[m].row = q
  <2> HIDE DEF row
  <2> QED BY <1>2, <1>3, <1>4, UpdateSound
<1>6. PICK local \in Local :
        /\ Become(p, local)
        /\ local.row = r
        /\ local.msg = proc[p].msg
        /\ \/ local.pc = "send" /\ Valid(rows[r].count)
           \/ local.pc = "reject"
  <2> DEFINE next == [proc[p] EXCEPT !.row = r,
                        !.pc = IF Valid(rows[r].count) THEN "send" ELSE "reject"]
  <2>1. /\ next \in Local /\ next.row = r /\ next.msg = proc[p].msg
        /\ \/ next.pc = "send" /\ Valid(rows[r].count)
           \/ next.pc = "reject"
    BY <1>1, LocalFields DEF Local
  <2>2. Become(p, next)
    BY DEF Claim
  <2> QED BY <2>1, <2>2
<1>7. /\ proc' \in [Procs -> Local]
      /\ \A q \in Procs : q # p => proc'[q] = proc[q]
      /\ proc'[p] = local
  BY <1>1, <1>6, BecomeEffect
<1>8. Knows(local)
  BY <1>2, <1>6 DEF Knows, Publishing
<1>9. \A q \in Procs : Knows(proc'[q])
  BY <1>7, <1>8, OthersKnow
<1>10. /\ faults' \in Nat /\ purging' \in BOOLEAN
       /\ UNCHANGED <<messages, sends, handled>>
  BY <1>1 DEF Claim, TypeOK
<1> QED BY <1>5, <1>7, <1>9, <1>10, Frame

(* The three steps that write the outcome of a publication to its row. *)
LEMMA OutcomeInv ==
  ASSUME Inv, NEW p \in Procs, ~At(p, "idle"),
         NEW row \in Row, Update(proc[p].row, row),
         row.there, row.count = rows[proc[p].row].count,
         row.published => \/ At(p, "mark")
                          \/ rows[proc[p].row].published,
         Return(p),
         UNCHANGED <<messages, sends, handled, purging, faults>>
  PROVE  Inv'
<1>1. TypeOK /\ Linked /\ Knows(proc[p])
  BY DEF Inv, Working
<1>2. proc[p].row \in Rows /\ rows[proc[p].row].there
  BY <1>1, LocalFields DEF Knows, At
<1>3. row.published => \E m \in Sent : messages[m].row = proc[p].row
  BY <1>1, <1>2 DEF Knows, At, Linked
<1>4. PICK r \in Rows : r = proc[p].row
  BY <1>2
<1>5. /\ rows' \in [Rows -> Row]
      /\ \A q \in Rows :
           /\ rows'[q].there <=> rows[q].there
           /\ rows'[q].count = rows[q].count
           /\ rows'[q].quarantined => rows[q].there
           /\ rows'[q].published => \E m \in Sent : messages[m].row = q
  BY <1>2, <1>3, <1>4, UpdateSound
<1>6. /\ proc' \in [Procs -> Local]
      /\ \A q \in Procs : q # p => proc'[q] = proc[q]
      /\ Knows(proc'[p])
  BY <1>1, ReturnEffect
<1>7. \A q \in Procs : Knows(proc'[q])
  BY <1>6, OthersKnow
<1>8. faults' \in Nat /\ purging' \in BOOLEAN
  BY <1>1 DEF TypeOK
<1> QED BY <1>5, <1>6, <1>7, <1>8, Frame

LEMMA OutcomesInv ==
  ASSUME Inv, NEW p \in Procs,
         Reject(p) \/ MarkPublished(p) \/ RecordFailure(p) \/ RedriveLimit(p)
  PROVE  Inv'
<1>1. TypeOK /\ Linked /\ Knows(proc[p])
  BY DEF Inv, Working
<1>2. ~At(p, "idle")
  BY DEF Reject, MarkPublished, RecordFailure, RedriveLimit, At
<1>3. PICK r \in Rows : r = proc[p].row /\ rows[r].there
  BY <1>1, <1>2, LocalFields DEF Knows, At
<1>4. CASE Reject(p) \/ RedriveLimit(p)
  <2> DEFINE row == [rows[r] EXCEPT !.quarantined = TRUE, !.claim = "free"]
  <2>1. /\ row \in Row /\ row.there /\ row.count = rows[r].count
        /\ row.published = rows[r].published
    BY <1>1, <1>3, RowFields DEF Row
  <2>2. Update(r, row) /\ Return(p)
    BY <1>3, <1>4 DEF Reject, RedriveLimit
  <2>3. UNCHANGED <<messages, sends, handled, purging, faults>>
    BY <1>4 DEF Reject, RedriveLimit
  <2> HIDE DEF row
  <2> QED BY <1>2, <1>3, <2>1, <2>2, <2>3, OutcomeInv
<1>5. CASE MarkPublished(p)
  <2> DEFINE row == [rows[r] EXCEPT !.published = TRUE, !.claim = "free"]
  <2>1. row \in Row /\ row.there /\ row.count = rows[r].count
    BY <1>1, <1>3, RowFields DEF Row
  <2>2. Update(r, row) /\ Return(p) /\ At(p, "mark")
    BY <1>3, <1>5 DEF MarkPublished
  <2>3. UNCHANGED <<messages, sends, handled, purging, faults>>
    BY <1>5 DEF MarkPublished
  <2> HIDE DEF row
  <2> QED BY <1>2, <1>3, <2>1, <2>2, <2>3, OutcomeInv
<1>6. CASE RecordFailure(p)
  <2> DEFINE failures == rows[r].failures + 1
             full == (failures >= MaxFailures)
             row == [rows[r] EXCEPT !.failures = failures, !.claim = "free",
                                    !.quarantined = full]
  <2>1. failures \in Nat /\ full \in BOOLEAN
    BY <1>1, <1>3, RowFields
  <2> HIDE DEF failures, full
  <2>2. rows[r] \in Row /\ rows[r].there
    BY <1>1, <1>3, RowFields
  <2>3. row \in Row
    BY <2>1, <2>2 DEF Row
  <2>4. row.there
    BY <2>2 DEF Row
  <2>5. row.count = rows[r].count
    BY <2>2 DEF Row
  <2>6. row.published = rows[r].published
    BY <2>2 DEF Row
  <2>7. Update(r, row) /\ Return(p)
    BY <1>3, <1>6 DEF RecordFailure, failures, full
  <2>8. UNCHANGED <<messages, sends, handled, purging, faults>>
    BY <1>6 DEF RecordFailure
  <2> HIDE DEF row
  <2> QED BY <1>2, <1>3, <2>3, <2>4, <2>5, <2>6, <2>7, <2>8, OutcomeInv
<1> QED BY <1>4, <1>5, <1>6

(* Steps that touch only the invocation. *)
LEMMA LocalInv ==
  ASSUME Inv, NEW p \in Procs,
         UNCHANGED <<rows, messages, sends, handled, purging>>,
         faults' \in Nat, proc' \in [Procs -> Local],
         \A q \in Procs : q # p => proc'[q] = proc[q],
         Knows(proc'[p])
  PROVE  Inv'
<1>1. TypeOK /\ Linked
  BY DEF Inv
<1>2. \A q \in Procs : Knows(proc'[q])
  BY OthersKnow
<1>3. rows' \in [Rows -> Row] /\ purging' \in BOOLEAN
  BY <1>1 DEF TypeOK
<1>4. \A r \in Rows : /\ rows'[r].there <=> rows[r].there
                      /\ rows'[r].count = rows[r].count
                      /\ rows'[r].quarantined => rows[r].there
                      /\ rows'[r].published =>
                           \E m \in Sent : messages[m].row = r
  BY <1>1 DEF Linked
<1> QED BY <1>2, <1>3, <1>4, Frame

LEMMA WaitingInv ==
  ASSUME Inv, NEW p \in Procs,
         SendFails(p) \/ RedriveSkips(p) \/ CallFails(p) \/ Evict(p)
  PROVE  Inv'
<1>1. TypeOK /\ Knows(proc[p])
  BY DEF Inv, Working
<1>2. UNCHANGED <<rows, messages, sends, handled, purging>>
  BY DEF SendFails, RedriveSkips, CallFails, Evict
<1>3. faults' \in Nat
  BY <1>1 DEF SendFails, RedriveSkips, CallFails, Evict, TypeOK
<1>4. CASE Return(p) /\ ~At(p, "idle")
  BY <1>1, <1>2, <1>3, <1>4, ReturnEffect, LocalInv
<1>5. CASE Goto(p, "fail") /\ proc[p].pc \in Publishing
  <2>1. /\ proc' \in [Procs -> Local]
        /\ \A q \in Procs : q # p => proc'[q] = proc[q]
        /\ proc'[p].pc = "fail"
        /\ proc'[p].row = proc[p].row
        /\ proc'[p].msg = proc[p].msg
    BY <1>1, <1>5, GotoEffect
  <2>2. Knows(proc'[p])
    BY <1>1, <1>5, <2>1 DEF Knows, Publishing
  <2> QED BY <1>2, <1>3, <2>1, <2>2, LocalInv
<1>6. CASE Become(p, Idle)
  <2>1. /\ proc' \in [Procs -> Local]
        /\ \A q \in Procs : q # p => proc'[q] = proc[q]
        /\ proc'[p] = Idle
    BY <1>1, <1>6, BecomeEffect, IdleIsLocal
  <2>2. Knows(proc'[p])
    BY <2>1, IdleIsLocal DEF Knows, Publishing
  <2> QED BY <1>2, <1>3, <2>1, <2>2, LocalInv
<1> QED BY <1>4, <1>5, <1>6
        DEF SendFails, RedriveSkips, CallFails, Evict, At, Publishing

LEMMA LeaseInv ==
  ASSUME Inv, NEW r \in Rows, LeaseEnds(r)
  PROVE  Inv'
<1>1. TypeOK /\ Linked /\ Working
  BY DEF Inv
<1>2. /\ rows' \in [Rows -> Row]
      /\ \A q \in Rows : /\ rows'[q].there = rows[q].there
                         /\ rows'[q].count = rows[q].count
                         /\ rows'[q].quarantined = rows[q].quarantined
                         /\ rows'[q].published = rows[q].published
  BY <1>1 DEF LeaseEnds, TypeOK, Row
<1>3. /\ faults' \in Nat /\ purging' \in BOOLEAN /\ proc' \in [Procs -> Local]
      /\ UNCHANGED <<messages, sends, handled>>
      /\ proc' = proc
  BY <1>1 DEF LeaseEnds, TypeOK
<1>4. \A p \in Procs : Knows(proc'[p])
  BY <1>1, <1>3 DEF Working
<1>5. \A q \in Rows : /\ rows'[q].there <=> rows[q].there
                      /\ rows'[q].count = rows[q].count
                      /\ rows'[q].quarantined => rows[q].there
                      /\ rows'[q].published =>
                           \E m \in Sent : messages[m].row = q
  BY <1>1, <1>2 DEF Linked
<1> QED BY <1>2, <1>3, <1>4, <1>5, Frame

LEMMA TombstoneInv == ASSUME Inv, Tombstone PROVE Inv'
<1>1. TypeOK /\ Linked /\ Working
  BY DEF Inv
<1>2. ASSUME NEW q \in Rows
      PROVE  /\ rows'[q] \in Row
             /\ rows'[q].there = rows[q].there
             /\ rows'[q].count = rows[q].count
             /\ rows'[q].quarantined => rows[q].there
             /\ rows'[q].published = rows[q].published
  <2> DEFINE row == [rows[q] EXCEPT !.quarantined = TRUE, !.claim = "free"]
  <2>1. rows[q] \in Row /\ (rows[q].quarantined => rows[q].there)
    BY <1>1, RowFields DEF Linked
  <2>2. rows'[q] = IF Pending(q) THEN row ELSE rows[q]
    BY DEF Tombstone
  <2>3. Pending(q) => rows[q].there
    BY DEF Pending
  <2>4. row \in Row
    BY <2>1 DEF Row
  <2>5. row.there = rows[q].there
    BY <2>1 DEF Row
  <2>6. row.count = rows[q].count
    BY <2>1 DEF Row
  <2>7. row.published = rows[q].published
    BY <2>1 DEF Row
  <2> HIDE DEF row
  <2>8. CASE Pending(q)
    BY <2>2, <2>3, <2>4, <2>5, <2>6, <2>7, <2>8
  <2>9. CASE ~Pending(q)
    BY <2>1, <2>2, <2>9
  <2> QED BY <2>8, <2>9
<1>3. /\ faults' \in Nat /\ purging' \in BOOLEAN /\ proc' \in [Procs -> Local]
      /\ UNCHANGED <<messages, sends, handled>>
      /\ proc' = proc
  BY <1>1 DEF Tombstone, TypeOK
<1>4. \A p \in Procs : Knows(proc'[p])
  BY <1>1, <1>3 DEF Working
<1>5. \A q \in Rows : /\ rows'[q].there <=> rows[q].there
                      /\ rows'[q].count = rows[q].count
                      /\ rows'[q].quarantined => rows[q].there
                      /\ rows'[q].published =>
                           \E m \in Sent : messages[m].row = q
  BY <1>1, <1>2 DEF Linked
<1>6. rows' \in [Rows -> Row]
  BY <1>2 DEF Tombstone
<1> QED BY <1>3, <1>4, <1>5, <1>6, Frame

-----------------------------------------------------------------------------
(* A message moves: it keeps its row and its count, and it is gone only when *)
(* the work is executed or has a row of the message's number.                *)
LEMMA MoveInv ==
  ASSUME Inv, NEW m \in Ids,
         NEW place \in {"queue", "dlq", "parked", "gone"},
         messages[m].place # "none",
         messages' = [messages EXCEPT ![m].place = place],
         UNCHANGED <<rows, sends, purging, faults>>,
         handled' \in BOOLEAN, handled => handled',
         place = "gone" /\ ~handled' => rows[m].there,
         proc' \in [Procs -> Local],
         \A q \in Procs : Knows(proc'[q])
  PROVE  Inv'
<1>1. TypeOK /\ Linked /\ Working /\ Bounded
  BY DEF Inv
<1>2. Sent' = Sent /\ Sent \subseteq Ids
  BY <1>1, OutboxAssumption DEF Sent, TypeOK, Ids
<1>3. /\ messages' \in [Ids -> Message]
      /\ \A n \in Ids : /\ messages'[n].row = messages[n].row
                        /\ messages'[n].count = messages[n].count
                        /\ n # m => messages'[n] = messages[n]
      /\ messages'[m].place = place
  BY <1>1 DEF TypeOK, Message
<1>4. TypeOK'
  BY <1>1, <1>3 DEF TypeOK
<1>5. Linked'
  <2>1. \A r \in Rows : rows'[r].published =>
          \E n \in Sent' : messages'[n].row = r
    BY <1>1, <1>2, <1>3 DEF Linked
  <2>2. \A n \in Ids : messages'[n].place # "none" <=> n <= sends'
    BY <1>1, <1>3 DEF Linked
  <2>3. \A n \in Sent' : messages'[n].row < n
    BY <1>1, <1>2, <1>3 DEF Linked
  <2>4. \A n \in Ids : messages'[n].place = "gone" /\ ~handled'
                       => rows'[n].there
    BY <1>1, <1>3 DEF Linked
  <2> QED BY <1>1, <2>1, <2>2, <2>3, <2>4 DEF Linked
<1>6. Working'
  BY <1>2, <1>3 DEF Working, Knows, Valid
<1>7. Bounded'
  BY <1>1, <1>2, <1>3 DEF Bounded, Valid
<1> QED BY <1>4, <1>5, <1>6, <1>7 DEF Inv

LEMMA QueuesInv ==
  ASSUME Inv, NEW m \in Ids, Consume(m) \/ DeadLetter(m) \/ Park(m)
  PROVE  Inv'
<1>1. TypeOK /\ Linked /\ Working /\ Bounded
  BY DEF Inv
<1>2. /\ proc' \in [Procs -> Local]
      /\ \A q \in Procs : Knows(proc'[q])
      /\ UNCHANGED <<rows, sends, purging, faults>>
  BY <1>1 DEF Consume, DeadLetter, Park, TypeOK, Working
<1>3. messages[m].place # "none"
  BY DEF Consume, DeadLetter, Park
<1>4. CASE DeadLetter(m)
  <2>1. messages' = [messages EXCEPT ![m].place = "dlq"]
    BY <1>4 DEF DeadLetter
  <2>2. handled' \in BOOLEAN /\ (handled => handled')
    BY <1>1, <1>4 DEF DeadLetter, TypeOK
  <2> QED BY <1>2, <1>3, <2>1, <2>2, MoveInv
<1>5. CASE Park(m)
  <2>1. messages' = [messages EXCEPT ![m].place = "parked"]
    BY <1>5 DEF Park
  <2>2. handled' \in BOOLEAN /\ (handled => handled')
    BY <1>1, <1>5 DEF Park, TypeOK
  <2> QED BY <1>2, <1>3, <2>1, <2>2, MoveInv
<1>6. CASE Consume(m)
  <2>1. m \in Sent
    BY <1>1, <1>3 DEF Linked, Sent, Ids, TypeOK
  <2>2. /\ Valid(messages[m].count) /\ handled' = TRUE
        /\ messages' \in {messages, [messages EXCEPT ![m].place = "gone"]}
    BY <1>1, <1>6, <2>1 DEF Consume, Bounded
  <2>3. messages' = [messages EXCEPT ![m].place = "gone"]
        \/ messages' = [messages EXCEPT ![m].place = "queue"]
    BY <1>1, <1>6, <2>2, MessageFields DEF TypeOK, Message, Consume
  <2> QED BY <1>2, <1>3, <2>2, <2>3, MoveInv
<1> QED BY <1>4, <1>5, <1>6

LEMMA AckInv == ASSUME Inv, NEW p \in Procs, Ack(p) PROVE Inv'
<1>1. TypeOK /\ Linked /\ Knows(proc[p])
  BY DEF Inv, Working
<1>2. PICK m \in Rows : m = proc[p].msg
  BY <1>1, LocalFields
<1>3. /\ proc' \in [Procs -> Local]
      /\ \A q \in Procs : q # p => proc'[q] = proc[q]
      /\ proc'[p] = Idle
  BY <1>1, BecomeEffect, IdleIsLocal DEF Ack
<1>4. Knows(proc'[p])
  BY <1>3, IdleIsLocal DEF Knows, Publishing
<1>5. \A q \in Procs : Knows(proc'[q])
  BY <1>3, <1>4, OthersKnow
<1>6. /\ messages' = [messages EXCEPT ![m].place = "gone"]
      /\ UNCHANGED <<rows, sends, handled, purging, faults>>
  BY <1>2 DEF Ack
<1>7. handled' \in BOOLEAN /\ (handled => handled') /\ faults' \in Nat
  BY <1>1, <1>6 DEF TypeOK
<1>8. CASE m = 0
  <2>1. messages' = messages
    BY <1>1, <1>6, <1>8, OutboxAssumption DEF TypeOK, Ids
  <2> QED BY <1>3, <1>4, <1>6, <1>7, <2>1, LocalInv
<1>9. CASE m # 0
  <2>1. m \in Ids /\ rows[m].there
    BY <1>1, <1>2, <1>9, OutboxAssumption DEF Rows, Ids, Knows
  <2>2. messages[m].place # "none"
    BY <1>1, <2>1 DEF Linked, Rows, Ids
  <2> QED BY <1>3, <1>5, <1>6, <1>7, <2>1, <2>2, MoveInv
<1> QED BY <1>8, <1>9

LEMMA RedriveInv ==
  ASSUME Inv, NEW p \in Procs, NEW m \in Ids, Redrive(p, m)
  PROVE  Inv'
<1>1. TypeOK /\ Linked /\ Working /\ Bounded
  BY DEF Inv
<1>2. m \in Rows /\ m <= sends /\ m # 0 /\ m \in Sent
  BY <1>1, OutboxAssumption DEF Redrive, Linked, Rows, Ids, Sent, TypeOK
<1> DEFINE count == messages[m].count
           created == IF Valid(count) THEN count + 1 ELSE count
<1>3. created \in Nat
  BY <1>1, MessageFields
<1>4. /\ Created(created) \in Row /\ Created(created).there
      /\ ~Created(created).published /\ ~Created(created).quarantined
  <2> HIDE DEF created
  <2> QED BY <1>3, CreatedIsRow
<1>5. /\ rows' \in [Rows -> Row]
      /\ \A r \in Rows : r # m => rows'[r] = rows[r]
      /\ rows[m].there => rows'[m] = rows[m]
      /\ ~rows[m].there => rows'[m] = Created(created)
  <2>1. rows' = IF rows[m].there THEN rows
                ELSE [rows EXCEPT ![m] = Created(created)]
    BY DEF Redrive
  <2> HIDE DEF created
  <2> QED BY <1>1, <1>2, <1>4, <2>1 DEF TypeOK
<1>6. PICK local \in Local :
        /\ Become(p, local)
        /\ local.pc \in {"publish", "limit"}
        /\ local.row = m
        /\ local.msg = m
  <2> DEFINE next == [pc |-> IF Valid(count) /\ count < MaxRedrives
                             THEN "publish" ELSE "limit",
                      row |-> m, msg |-> m]
  <2>1. /\ next \in Local /\ next.pc \in {"publish", "limit"}
        /\ next.row = m /\ next.msg = m
    BY <1>2 DEF Local
  <2>2. Become(p, next)
    BY DEF Redrive
  <2> QED BY <2>1, <2>2
<1>7. /\ proc' \in [Procs -> Local]
      /\ \A q \in Procs : q # p => proc'[q] = proc[q]
      /\ proc'[p] = local
  BY <1>1, <1>6, BecomeEffect
<1>8. UNCHANGED <<messages, sends, handled, purging, faults>> /\ Sent' = Sent
  BY DEF Redrive, Sent
<1>9. \A r \in Rows : /\ rows[r].there => rows'[r] = rows[r]
                      /\ rows'[r].there <=> (rows[r].there \/ r = m)
                      /\ rows[r] # rows'[r] => /\ ~rows'[r].published
                                               /\ ~rows'[r].quarantined
  <2> HIDE DEF created
  <2> QED BY <1>4, <1>5
<1>10. TypeOK'
  BY <1>1, <1>5, <1>7, <1>8 DEF TypeOK
<1>11. Linked'
  <2>1. \A r \in Rows : rows'[r].there => r <= sends'
    BY <1>1, <1>2, <1>8, <1>9 DEF Linked
  <2>2. \A r \in Rows : rows'[r].quarantined => rows'[r].there
    BY <1>1, <1>8, <1>9 DEF Linked
  <2>3. \A r \in Rows : rows'[r].published =>
          \E n \in Sent' : messages'[n].row = r
    BY <1>1, <1>8, <1>9 DEF Linked
  <2>4. 0 \in Rows /\ Ids \subseteq Rows
    BY OutboxAssumption DEF Rows, Ids
  <2>5. rows'[0].there /\ \A n \in Ids : rows[n].there => rows'[n].there
    BY <1>1, <1>9, <2>4 DEF Linked
  <2> QED BY <1>1, <1>8, <2>1, <2>2, <2>3, <2>5 DEF Linked
<1>12. Working'
  <2> SUFFICES ASSUME NEW q \in Procs PROVE Knows(proc[q])'
    BY DEF Working
  <2>1. CASE q = p
    <3>1. proc'[q].row = m /\ proc'[q].msg = m /\ proc'[q].pc \notin Publishing
      BY <1>6, <1>7, <2>1 DEF Publishing
    <3>2. rows'[m].there
      BY <1>2, <1>9
    <3> QED BY <3>1, <3>2 DEF Knows, Publishing
  <2>2. CASE q # p
    <3>1. proc'[q] = proc[q] /\ Knows(proc[q])
      BY <1>1, <1>7, <2>2 DEF Working
    <3>2. proc[q].row \in Rows /\ proc[q].msg \in Rows
      BY <1>1, LocalFields
    <3>3. proc[q].pc \in Publishing => rows[proc[q].row].there
      BY <3>1 DEF Knows, Publishing
    <3> QED BY <1>8, <1>9, <3>1, <3>2, <3>3 DEF Knows, Valid
  <2> QED BY <2>1, <2>2
<1>13. Bounded'
  BY <1>1, <1>8 DEF Bounded, Valid
<1> QED BY <1>10, <1>11, <1>12, <1>13 DEF Inv

LEMMA SendInv == ASSUME Inv, NEW p \in Procs, Send(p) PROVE Inv'
<1>1. TypeOK /\ Linked /\ Working /\ Bounded /\ Knows(proc[p])
  BY DEF Inv, Working
<1>2. PICK r \in Rows : r = proc[p].row
  BY <1>1, LocalFields
<1>3. rows[r].there /\ r <= sends /\ Valid(rows[r].count)
  BY <1>1, <1>2 DEF Send, At, Knows, Publishing, Linked
<1>4. PICK n : n = sends + 1
  OBVIOUS
<1>5. /\ n \in Ids /\ sends' = n /\ sends \in Nat
      /\ Sent' = Sent \cup {n} /\ n \notin Sent /\ Sent' \subseteq Ids
      /\ \A m \in Ids : m # n => (m <= n <=> m <= sends)
      /\ n \in Nat /\ r < n
  BY <1>1, <1>3, <1>4, OutboxAssumption DEF Send, TypeOK, Ids, Sent, Rows
<1> DEFINE new == [place |-> "queue", row |-> r, count |-> rows[r].count]
<1>6. /\ new \in Message /\ new.place = "queue" /\ new.row = r
      /\ new.count = rows[r].count
  BY <1>1, RowFields DEF Message
<1>7. /\ messages' \in [Ids -> Message]
      /\ \A m \in Ids : m # n => messages'[m] = messages[m]
      /\ messages'[n] = new
  <2>1. messages' = [messages EXCEPT ![n] = new]
    BY <1>2, <1>4 DEF Send
  <2> HIDE DEF new
  <2> QED BY <1>1, <1>5, <1>6, <2>1 DEF TypeOK
<1> HIDE DEF new
<1>8. PICK answer \in {"mark", "fail"} : Goto(p, answer)
  BY DEF Send
<1>9. /\ proc' \in [Procs -> Local]
      /\ \A q \in Procs : q # p => proc'[q] = proc[q]
      /\ proc'[p].pc = answer
      /\ proc'[p].row = r
      /\ proc'[p].msg = proc[p].msg
  BY <1>1, <1>2, <1>8, GotoEffect
<1>10. UNCHANGED <<rows, handled, purging, faults>>
  BY DEF Send
<1>11. \A x : (\E m \in Sent : messages[m].row = x)
              => \E m \in Sent' : messages'[m].row = x
  BY <1>5, <1>7
<1>12. TypeOK'
  BY <1>1, <1>5, <1>7, <1>9, <1>10 DEF TypeOK, Ids
<1>13. Linked'
  <2>1. \A x \in Rows : rows'[x].there => x <= sends'
    BY <1>1, <1>4, <1>5, <1>10 DEF Linked, Rows
  <2>2. \A x \in Rows : rows'[x].published =>
          \E m \in Sent' : messages'[m].row = x
    BY <1>1, <1>10, <1>11 DEF Linked
  <2>3. \A m \in Ids : messages'[m].place # "none" <=> m <= sends'
    BY <1>1, <1>5, <1>6, <1>7 DEF Linked
  <2>4. \A m \in Sent' : messages'[m].row < m
    BY <1>1, <1>5, <1>6, <1>7 DEF Linked
  <2>5. \A m \in Ids : messages'[m].place = "gone" /\ ~handled'
                       => rows'[m].there
    BY <1>1, <1>6, <1>7, <1>10 DEF Linked
  <2> QED BY <1>1, <1>10, <2>1, <2>2, <2>3, <2>4, <2>5 DEF Linked
<1>14. Working'
  <2> SUFFICES ASSUME NEW q \in Procs PROVE Knows(proc[q])'
    BY DEF Working
  <2>1. CASE q = p
    <3>1. \E m \in Sent' : messages'[m].row = proc'[q].row
      BY <1>5, <1>6, <1>7, <1>9, <2>1
    <3> QED BY <1>1, <1>2, <1>3, <1>9, <1>10, <2>1, <3>1 DEF Knows, Valid
  <2>2. CASE q # p
    <3>1. proc'[q] = proc[q] /\ Knows(proc[q])
      BY <1>1, <1>9, <2>2 DEF Working
    <3> QED BY <1>10, <1>11, <3>1 DEF Knows, Valid
  <2> QED BY <2>1, <2>2
<1>15. Bounded'
  BY <1>1, <1>3, <1>5, <1>6, <1>7 DEF Bounded, Valid
<1> QED BY <1>12, <1>13, <1>14, <1>15 DEF Inv

-----------------------------------------------------------------------------
LEMMA StepInv == Inv /\ [Next]_vars => Inv'
<1> SUFFICES ASSUME Inv, [Next]_vars PROVE Inv'
  OBVIOUS
<1>1. TypeOK /\ Linked /\ Working /\ Bounded
  BY DEF Inv
<1>2. ASSUME NEW p \in Procs, Step(p) PROVE Inv'
  <2>1. CASE RedriveClaims(p)
    <3>1. proc[p].row \in Rows /\ Knows(proc[p])
      BY <1>1, LocalFields DEF Working
    <3> QED BY <2>1, <3>1, ClaimInv DEF RedriveClaims, Knows
  <2> QED BY <1>2, <2>1, OutcomesInv, WaitingInv, SendInv, AckInv DEF Step
<1>3. ASSUME NEW p \in Procs, CallFails(p) \/ Evict(p) PROVE Inv'
  BY <1>3, WaitingInv
<1>4. ASSUME NEW p \in Procs, NEW r \in Rows, Publish(p, r) PROVE Inv'
  <2>1. Knows(proc[p])
    BY <1>1 DEF Working
  <2> QED BY <1>4, <2>1, ClaimInv DEF Publish, Knows
<1>5. ASSUME NEW p \in Procs, NEW m \in Ids, Redrive(p, m) PROVE Inv'
  BY <1>5, RedriveInv
<1>6. ASSUME NEW m \in Ids, Consume(m) \/ DeadLetter(m) \/ Park(m) PROVE Inv'
  BY <1>6, QueuesInv
<1>7. ASSUME NEW r \in Rows, LeaseEnds(r) PROVE Inv'
  BY <1>7, LeaseInv
<1>8. CASE Tombstone
  BY <1>8, TombstoneInv
<1>9. CASE UNCHANGED vars
  BY <1>1, <1>9 DEF vars, Inv, TypeOK, Linked, Working, Knows, Bounded, Valid,
                    Sent
<1> QED BY <1>2, <1>3, <1>4, <1>5, <1>6, <1>7, <1>8, <1>9 DEF Next

THEOREM OutboxInvariant == Spec => []Inv
<1>1. Init => Inv
  BY InitInv
<1>2. Inv /\ [Next]_vars => Inv'
  BY StepInv
<1> QED BY <1>1, <1>2, PTL DEF Spec

(* The rows, the messages and the invocations keep their types. *)
THEOREM OutboxTypeCorrect == Spec => []TypeOK
<1>1. Inv => TypeOK
  BY DEF Inv
<1> QED BY <1>1, OutboxInvariant, PTL

(* No row above the redrive limit reaches a queue, whoever finds it first. *)
THEOREM RedrivesAreBounded == Spec => []RedriveBounded
<1>1. Inv => RedriveBounded
  BY DEF Inv, Bounded, Linked, RedriveBounded, Valid, Sent, Ids, TypeOK
<1> QED BY <1>1, OutboxInvariant, PTL

(* A non-empty set of rows has a greatest. *)
LEMMA GreatestRow ==
  ASSUME NEW T \in SUBSET Rows, T # {}
  PROVE  \E r \in T : \A q \in T : q <= r
<1> DEFINE D == {MaxSends - r : r \in T}
<1>1. T \subseteq Nat /\ \A r \in T : MaxSends - r \in Nat
  BY OutboxAssumption DEF Rows
<1>2. D \subseteq Nat /\ D # {}
  BY <1>1
<1>3. PICK d \in D : \A e \in D : ~ (<<e, d>> \in OpToRel(<, Nat))
  <2> HIDE DEF D
  <2> QED BY <1>2, NatLessThanWellFounded, WFMin
<1>4. \A e \in D : ~ (e < d)
  BY <1>2, <1>3 DEF OpToRel
<1>5. PICK r \in T : d = MaxSends - r
  OBVIOUS
<1>6. \A q \in T : q <= r
  BY <1>1, <1>4, <1>5, OutboxAssumption
<1> QED BY <1>5, <1>6

(* The greatest row there is stands for the work: it is not published, or   *)
(* a message was sent from it, which is in flight, since an acknowledged    *)
(* one would have a greater row.                                            *)
LEMMA GreatestRowStands == Inv => NothingLost
<1> SUFFICES ASSUME Inv, ~handled PROVE NothingLost
  BY DEF NothingLost
<1>1. TypeOK /\ Linked
  BY DEF Inv
<1> DEFINE T == {r \in Rows : rows[r].there}
<1>2. T \in SUBSET Rows /\ T # {}
  BY <1>1, OutboxAssumption DEF Linked, Rows
<1>3. PICK r \in T : \A q \in T : q <= r
  <2> HIDE DEF T
  <2> QED BY <1>2, GreatestRow
<1>4. CASE ~rows[r].published
  BY <1>3, <1>4 DEF NothingLost
<1>5. CASE rows[r].published
  <2>1. PICK m \in Sent : messages[m].row = r
    BY <1>1, <1>5 DEF Linked
  <2>2. /\ m \in Ids /\ m \in Rows /\ r \in Nat /\ m \in Nat
        /\ r < m /\ messages[m].place # "none"
    BY <1>1, <2>1, OutboxAssumption DEF Linked, Sent, Ids, Rows, TypeOK
  <2>3. ~rows[m].there
    BY <1>3, <2>2
  <2>4. messages[m].place # "gone"
    BY <1>1, <2>2, <2>3 DEF Linked
  <2>5. messages[m].place \in InFlight
    BY <1>1, <2>2, <2>4, MessageFields DEF InFlight
  <2> QED BY <2>2, <2>5 DEF NothingLost
<1> QED BY <1>4, <1>5

(* Whatever is evicted, fails, lapses or races, work that no consumer has   *)
(* executed keeps a row or a message.                                       *)
THEOREM WorkIsNotLost == Spec => []NothingLost
<1>1. Inv => NothingLost
  BY GreatestRowStands
<1> QED BY <1>1, OutboxInvariant, PTL

-----------------------------------------------------------------------------
(* A row quarantined for its failures or its payload stays so: a publisher  *)
(* that records a failure holds a valid payload, and its failure counts on. *)
LEMMA StepQuarantine ==
  ASSUME Inv, [Next]_vars, NEW r \in Rows, rows[r].quarantined,
         rows[r].failures >= MaxFailures \/ ~Valid(rows[r].count)
  PROVE  rows'[r].quarantined
<1>1. TypeOK /\ Linked /\ Working
  BY DEF Inv
<1>2. ASSUME rows' = rows PROVE rows'[r].quarantined
  BY <1>2
<1>4. ASSUME NEW q \in Rows, NEW row \in Row, Update(q, row),
             q = r => row.quarantined
      PROVE  rows'[r].quarantined
  BY <1>1, <1>4, UpdateEffect
<1>5. ASSUME NEW p \in Procs, Reject(p) \/ RedriveLimit(p)
      PROVE  rows'[r].quarantined
  <2>1. PICK q \in Rows : q = proc[p].row
    BY <1>1, LocalFields
  <2> DEFINE row == [rows[q] EXCEPT !.quarantined = TRUE, !.claim = "free"]
  <2>2. row \in Row /\ row.quarantined
    BY <1>1, RowFields DEF Row
  <2>3. Update(q, row)
    BY <1>5, <2>1 DEF Reject, RedriveLimit
  <2> HIDE DEF row
  <2> QED BY <1>4, <2>2, <2>3
<1>6. ASSUME NEW p \in Procs, MarkPublished(p) PROVE rows'[r].quarantined
  <2>1. PICK q \in Rows : q = proc[p].row
    BY <1>1, LocalFields
  <2> DEFINE row == [rows[q] EXCEPT !.published = TRUE, !.claim = "free"]
  <2>2. row \in Row /\ (q = r => row.quarantined)
    BY <1>1, RowFields DEF Row
  <2>3. Update(q, row)
    BY <1>6, <2>1 DEF MarkPublished
  <2> HIDE DEF row
  <2> QED BY <1>4, <2>2, <2>3
<1>7. ASSUME NEW p \in Procs, RecordFailure(p) PROVE rows'[r].quarantined
  <2>1. PICK q \in Rows : q = proc[p].row
    BY <1>1, LocalFields
  <2>2. Valid(rows[q].count)
    BY <1>1, <1>7, <2>1 DEF Working, Knows, RecordFailure, At, Publishing
  <2> DEFINE failures == rows[q].failures + 1
             row == [rows[q] EXCEPT !.failures = failures, !.claim = "free",
                                    !.quarantined = failures >= MaxFailures]
  <2>3. failures \in Nat /\ (failures >= MaxFailures) \in BOOLEAN
    BY <1>1, RowFields
  <2>4. q = r => failures >= MaxFailures
    BY <1>1, <2>2, RowFields, OutboxAssumption
  <2>5. row \in Row /\ (q = r => row.quarantined)
    <3> HIDE DEF failures
    <3> QED BY <1>1, <2>3, <2>4, RowFields DEF Row
  <2>6. Update(q, row)
    BY <1>7, <2>1 DEF RecordFailure
  <2> HIDE DEF row
  <2> QED BY <1>4, <2>5, <2>6
<1>8. ASSUME NEW p \in Procs, NEW q \in Rows, Claim(p, q)
      PROVE  rows'[r].quarantined
  BY <1>1, <1>8 DEF Claim, Claimable, Pending, TypeOK, Row
<1>9. ASSUME NEW p \in Procs, NEW m \in Ids, Redrive(p, m)
      PROVE  rows'[r].quarantined
  <2>1. rows[r].there
    BY <1>1 DEF Linked
  <2> QED BY <1>1, <1>9, <2>1 DEF Redrive, TypeOK
<1>10. ASSUME NEW q \in Rows, LeaseEnds(q) PROVE rows'[r].quarantined
  BY <1>1, <1>10 DEF LeaseEnds, TypeOK, Row
<1>11. CASE Tombstone
  BY <1>1, <1>11 DEF Tombstone, Pending
<1>12. ASSUME NEW p \in Procs, Step(p) PROVE rows'[r].quarantined
  <2>1. CASE RedriveClaims(p)
    BY <1>1, <1>8, <2>1, LocalFields DEF RedriveClaims
  <2>2. CASE Send(p) \/ SendFails(p) \/ RedriveSkips(p) \/ Ack(p)
    BY <1>2, <2>2 DEF Send, SendFails, RedriveSkips, Ack
  <2> QED BY <1>5, <1>6, <1>7, <1>12, <2>1, <2>2 DEF Step
<1>13. ASSUME NEW p \in Procs, CallFails(p) \/ Evict(p)
       PROVE  rows'[r].quarantined
  BY <1>2, <1>13 DEF CallFails, Evict
<1>14. ASSUME NEW m \in Ids, Consume(m) \/ DeadLetter(m) \/ Park(m)
       PROVE  rows'[r].quarantined
  BY <1>2, <1>14 DEF Consume, DeadLetter, Park
<1>15. CASE UNCHANGED vars
  BY <1>2, <1>15 DEF vars
<1> QED BY <1>8, <1>9, <1>10, <1>11, <1>12, <1>13, <1>14, <1>15
        DEF Next, Publish

(* Nothing takes back a quarantine that failures or a payload earned. *)
THEOREM QuarantineHolds == Spec => QuarantineIsFinal
<1>1. Inv /\ [Next]_vars =>
        [\A r \in Rows :
           /\ rows[r].quarantined
           /\ rows[r].failures >= MaxFailures \/ ~Valid(rows[r].count)
           => rows'[r].quarantined]_vars
  BY StepQuarantine
<1> QED BY <1>1, OutboxInvariant, PTL DEF Spec, QuarantineIsFinal

-----------------------------------------------------------------------------
(* Copies of a row.  While no claim of it has lapsed and no failure was     *)
(* recorded, one invocation at most is publishing it, it cannot be claimed  *)
(* again, and it has been sent at most once.                                *)
Clean(r) == ~rows[r].lapsed /\ rows[r].failures = 0
Busy(p, r) == proc[p].pc \in Publishing /\ proc[p].row = r
SentFrom(r) == {m \in Sent : messages[m].row = r}

SoleAt(r) ==
  /\ \A p, q \in Procs : Busy(p, r) /\ Busy(q, r) => p = q
  /\ \A p \in Procs : Busy(p, r) => ~Claimable(r)
  /\ SentFrom(r) # {} => ~Claimable(r)
  /\ \A p \in Procs : Busy(p, r) /\ At(p, "send") => SentFrom(r) = {}
  /\ \A m, n \in SentFrom(r) : m = n

Sole ==
  /\ \A m \in Sent : rows[messages[m].row].there
  /\ \A r \in Rows : Clean(r) => SoleAt(r)

LEMMA InitSole == Init => Sole
  BY DEF Init, Sole, SoleAt, Busy, SentFrom, Sent, Publishing, Idle

(* A step that sends nothing, starts no publication and makes no clean row  *)
(* claimable.                                                               *)
LEMMA QuietStep ==
  ASSUME Sole,
         \A p \in Procs : proc'[p].pc \in Publishing =>
           /\ proc[p].pc \in Publishing
           /\ proc'[p].row = proc[p].row
           /\ proc'[p].pc = "send" => proc[p].pc = "send",
         Sent' = Sent,
         \A m \in Sent : /\ messages'[m].row = messages[m].row
                         /\ rows[messages[m].row].there =>
                              rows'[messages[m].row].there,
         \A r \in Rows : Clean(r)' => /\ Clean(r)
                                      /\ Claimable(r)' => Claimable(r)
  PROVE  Sole'
<1>1. \A m \in Sent' : rows'[messages'[m].row].there
  BY DEF Sole
<1>2. ASSUME NEW r \in Rows, Clean(r)' PROVE SoleAt(r)'
  <2>1. Clean(r) /\ SoleAt(r) /\ (Claimable(r)' => Claimable(r))
    BY <1>2 DEF Sole
  <2>2. SentFrom(r)' = SentFrom(r)
    BY DEF SentFrom
  <2>3. \A p \in Procs : Busy(p, r)' => Busy(p, r)
    BY DEF Busy
  <2>4. \A p \in Procs : Busy(p, r)' /\ At(p, "send")' => At(p, "send")
    BY DEF Busy, At
  <2> QED BY <2>1, <2>2, <2>3, <2>4 DEF SoleAt
<1> QED BY <1>1, <1>2 DEF Sole

LEMMA ClaimSole ==
  ASSUME Inv, Sole, NEW p \in Procs, NEW r \in Rows, Claim(p, r),
         proc[p].pc \notin Publishing
  PROVE  Sole'
<1>1. TypeOK /\ Linked
  BY DEF Inv
<1>2. Claimable(r) /\ rows' = [rows EXCEPT ![r].claim = "held"]
      /\ UNCHANGED <<messages, sends>>
  BY DEF Claim
<1>3. /\ \A q \in Rows : q # r => rows'[q] = rows[q]
      /\ \A q \in Rows : /\ rows'[q].lapsed = rows[q].lapsed
                         /\ rows'[q].failures = rows[q].failures
                         /\ rows'[q].there = rows[q].there
      /\ rows'[r].claim = "held"
  BY <1>1, <1>2 DEF TypeOK, Row
<1>4. /\ \A q \in Procs : q # p => proc'[q] = proc[q]
      /\ proc'[p].row = r
  BY <1>1, LocalFields DEF Claim, Become, TypeOK, Local
<1>5. Sent' = Sent /\ \A q : SentFrom(q)' = SentFrom(q)
  BY <1>2 DEF Sent, SentFrom
<1>6. \A m \in Sent' : rows'[messages'[m].row].there
  <2> SUFFICES ASSUME NEW m \in Sent PROVE rows'[messages[m].row].there
    BY <1>2, <1>5
  <2>1. messages[m].row \in Rows
    BY <1>1, MessageFields, OutboxAssumption DEF Sent, Ids, TypeOK
  <2> QED BY <1>3, <2>1 DEF Sole
<1>7. ASSUME NEW q \in Rows, Clean(q)' PROVE SoleAt(q)'
  <2>1. Clean(q) /\ SoleAt(q)
    BY <1>3, <1>7 DEF Sole, Clean
  <2>2. CASE q = r
    <3>1. ~Claimable(q)'
      BY <1>3, <2>2 DEF Claimable
    <3>2. SentFrom(q) = {} /\ \A x \in Procs : ~Busy(x, q)
      BY <1>2, <2>1, <2>2 DEF SoleAt
    <3>3. \A x \in Procs : Busy(x, q)' => x = p
      BY <1>4, <3>2 DEF Busy
    <3> QED BY <1>5, <3>1, <3>2, <3>3 DEF SoleAt
  <2>3. CASE q # r
    <3>1. Claimable(q)' <=> Claimable(q)
      BY <1>3, <2>3 DEF Claimable, Pending
    <3>2. \A x \in Procs : Busy(x, q)' => Busy(x, q) /\ (At(x, "send")' <=> At(x, "send"))
      BY <1>4, <2>3 DEF Busy, At
    <3> QED BY <1>5, <2>1, <3>1, <3>2 DEF SoleAt
  <2> QED BY <2>2, <2>3
<1> QED BY <1>6, <1>7 DEF Sole

LEMMA SendSole ==
  ASSUME Inv, Sole, NEW p \in Procs, Send(p)
  PROVE  Sole'
<1>1. TypeOK /\ Linked /\ Knows(proc[p])
  BY DEF Inv, Working
<1>2. PICK r \in Rows : r = proc[p].row
  BY <1>1, LocalFields
<1>3. rows[r].there /\ Busy(p, r) /\ At(p, "send")
  BY <1>1, <1>2 DEF Send, At, Knows, Publishing, Busy
<1>4. PICK n : n = sends + 1
  OBVIOUS
<1>5. n \in Ids /\ Sent' = Sent \cup {n} /\ n \notin Sent /\ Sent \subseteq Ids
  BY <1>1, <1>4, OutboxAssumption DEF Send, TypeOK, Ids, Sent
<1>6. /\ \A m \in Ids : m # n => messages'[m] = messages[m]
      /\ messages'[n].row = r
  BY <1>1, <1>2, <1>4, <1>5 DEF Send, TypeOK
<1>7. /\ SentFrom(r)' = SentFrom(r) \cup {n}
      /\ \A q : q # r => SentFrom(q)' = SentFrom(q)
  <2>1. \A m \in Sent : messages'[m].row = messages[m].row
    BY <1>5, <1>6
  <2> QED BY <1>5, <1>6, <2>1 DEF SentFrom
<1>8. rows' = rows
  BY DEF Send
<1>9. /\ \A q \in Procs : q # p => proc'[q] = proc[q]
      /\ proc'[p].pc \in {"mark", "fail"}
      /\ proc'[p].row = r
  BY <1>1, <1>2, GotoEffect DEF Send
<1>10. \A m \in Sent' : rows'[messages'[m].row].there
  BY <1>3, <1>5, <1>6, <1>8 DEF Sole
<1>11. ASSUME NEW q \in Rows, Clean(q)' PROVE SoleAt(q)'
  <2>1. Clean(q) /\ SoleAt(q)
    BY <1>8, <1>11 DEF Sole, Clean
  <2>2. Claimable(q)' <=> Claimable(q)
    BY <1>8 DEF Claimable, Pending
  <2>3. \A x \in Procs : Busy(x, q)' => Busy(x, q)
    BY <1>3, <1>9 DEF Busy
  <2>4. \A x \in Procs : Busy(x, q)' /\ At(x, "send")' => x # p /\ At(x, "send")
    BY <1>9 DEF At
  <2>5. CASE q = r
    <3>1. SentFrom(r) = {} /\ ~Claimable(r)
      BY <1>3, <2>1, <2>5 DEF SoleAt
    <3>2. \A x \in Procs : Busy(x, q) => x = p
      BY <1>3, <2>1, <2>5 DEF SoleAt
    <3> QED BY <1>7, <2>1, <2>2, <2>3, <2>4, <2>5, <3>1, <3>2 DEF SoleAt
  <2>6. CASE q # r
    BY <1>7, <2>1, <2>2, <2>3, <2>4, <2>6 DEF SoleAt
  <2> QED BY <2>5, <2>6
<1> QED BY <1>10, <1>11 DEF Sole

LEMMA RedriveSole ==
  ASSUME Inv, Sole, NEW p \in Procs, NEW m \in Ids, Redrive(p, m)
  PROVE  Sole'
<1>1. TypeOK /\ Linked /\ Working
  BY DEF Inv
<1>2. /\ \A q \in Procs : q # p => proc'[q] = proc[q]
      /\ proc'[p].pc \notin Publishing
  BY <1>1 DEF Redrive, Become, TypeOK, Publishing
<1>3. UNCHANGED <<messages, sends>> /\ Sent' = Sent
      /\ \A r : SentFrom(r)' = SentFrom(r)
  BY DEF Redrive, Sent, SentFrom
<1>4. \A r \in Rows : rows[r].there => rows'[r] = rows[r]
  BY <1>1 DEF Redrive, TypeOK
<1>5. \A r \in Rows : r # m => rows'[r] = rows[r]
  BY <1>1 DEF Redrive, TypeOK
<1>6. \A n \in Sent : messages[n].row \in Rows
  BY <1>1, MessageFields, OutboxAssumption DEF Sent, Ids, TypeOK
<1>7. \A n \in Sent' : rows'[messages'[n].row].there
  BY <1>3, <1>4, <1>6 DEF Sole
<1>8. \A q \in Procs, r \in Rows : Busy(q, r) => rows[r].there
  BY <1>1 DEF Working, Knows, Busy, Publishing
<1>9. \A r \in Rows : SentFrom(r) # {} => rows[r].there
  BY DEF Sole, SentFrom
<1>10. \A q \in Procs, r \in Rows : Busy(q, r)' => Busy(q, r) /\ q # p
  BY <1>2 DEF Busy
<1>11. ASSUME NEW r \in Rows, Clean(r)' PROVE SoleAt(r)'
  <2>1. CASE rows'[r] = rows[r]
    <3>1. Clean(r) /\ SoleAt(r) /\ (Claimable(r)' <=> Claimable(r))
      BY <1>11, <2>1 DEF Sole, Clean, Claimable, Pending
    <3>2. \A q \in Procs : Busy(q, r)' /\ At(q, "send")' => At(q, "send")
      BY <1>2, <1>10 DEF At
    <3> QED BY <1>3, <1>10, <3>1, <3>2 DEF SoleAt
  <2>2. CASE rows'[r] # rows[r]
    <3>1. SentFrom(r)' = {} /\ \A q \in Procs : ~Busy(q, r)'
      BY <1>3, <1>4, <1>8, <1>9, <1>10, <2>2
    <3> QED BY <3>1 DEF SoleAt
  <2> QED BY <2>1, <2>2
<1> QED BY <1>7, <1>11 DEF Sole

(* The writes of an outcome end the publication, and leave a row that is    *)
(* published, quarantined or no longer clean.                               *)
LEMMA OutcomeSole ==
  ASSUME Inv, Sole, NEW p \in Procs, NEW r \in Rows, NEW row \in Row,
         r = proc[p].row, rows[r].there, row.there,
         Update(r, row), Return(p), ~At(p, "idle"),
         UNCHANGED <<messages, sends>>,
         row.lapsed = rows[r].lapsed,
         \/ /\ row.failures = rows[r].failures
            /\ row.published \/ row.quarantined
         \/ row.failures > 0
  PROVE  Sole'
<1>1. TypeOK /\ Linked /\ Knows(proc[p])
  BY DEF Inv, Working
<1>2. /\ \A q \in Procs : q # p => proc'[q] = proc[q]
      /\ proc'[p].pc \notin Publishing
  BY <1>1, ReturnEffect
<1>3. /\ \A q \in Rows : q # r => rows'[q] = rows[q]
      /\ rows[r].published => rows'[r] = rows[r]
      /\ ~rows[r].published => rows'[r] = row
  BY <1>1, UpdateEffect
<1>4. \A q \in Procs : proc'[q].pc \in Publishing => proc'[q] = proc[q]
  BY <1>2
<1>5. \A q \in Rows : Clean(q)' => Clean(q) /\ (Claimable(q)' => Claimable(q))
  <2> SUFFICES ASSUME NEW q \in Rows, Clean(q)'
               PROVE  Clean(q) /\ (Claimable(q)' => Claimable(q))
    OBVIOUS
  <2>1. CASE rows'[q] = rows[q]
    BY <2>1 DEF Clean, Claimable, Pending
  <2>2. CASE rows'[q] # rows[q]
    <3>1. q = r /\ rows'[q] = row
      BY <1>3, <2>2
    <3>2. /\ row.failures = rows[r].failures
          /\ row.published \/ row.quarantined
      BY <3>1 DEF Clean
    <3> QED BY <3>1, <3>2 DEF Clean, Claimable, Pending
  <2> QED BY <2>1, <2>2
<1>6. \A q \in Rows : rows[q].there => rows'[q].there
  BY <1>3
<1>7. \A m \in Sent : messages[m].row \in Rows
  BY <1>1, MessageFields, OutboxAssumption DEF Sent, Ids, TypeOK
<1>8. Sent' = Sent
  BY DEF Sent
<1> QED BY <1>4, <1>5, <1>6, <1>7, <1>8, QuietStep

LEMMA OutcomesSole ==
  ASSUME Inv, Sole, NEW p \in Procs,
         Reject(p) \/ MarkPublished(p) \/ RecordFailure(p) \/ RedriveLimit(p)
  PROVE  Sole'
<1>1. TypeOK /\ Linked /\ Knows(proc[p])
  BY DEF Inv, Working
<1>2. /\ ~At(p, "idle") /\ Return(p)
      /\ UNCHANGED <<messages, sends>>
  BY DEF Reject, MarkPublished, RecordFailure, RedriveLimit, At
<1>3. PICK r \in Rows : r = proc[p].row /\ rows[r].there
  BY <1>1, <1>2, LocalFields DEF Knows, At
<1>4. CASE Reject(p) \/ RedriveLimit(p)
  <2> DEFINE row == [rows[r] EXCEPT !.quarantined = TRUE, !.claim = "free"]
  <2>1. /\ row \in Row /\ row.there /\ row.quarantined
        /\ row.lapsed = rows[r].lapsed
        /\ row.failures = rows[r].failures
    BY <1>1, <1>3, RowFields DEF Row
  <2>2. Update(r, row)
    BY <1>3, <1>4 DEF Reject, RedriveLimit
  <2> HIDE DEF row
  <2> QED BY <1>2, <1>3, <2>1, <2>2, OutcomeSole
<1>5. CASE MarkPublished(p)
  <2> DEFINE row == [rows[r] EXCEPT !.published = TRUE, !.claim = "free"]
  <2>1. /\ row \in Row /\ row.there /\ row.published
        /\ row.lapsed = rows[r].lapsed
        /\ row.failures = rows[r].failures
    BY <1>1, <1>3, RowFields DEF Row
  <2>2. Update(r, row)
    BY <1>3, <1>5 DEF MarkPublished
  <2> HIDE DEF row
  <2> QED BY <1>2, <1>3, <2>1, <2>2, OutcomeSole
<1>6. CASE RecordFailure(p)
  <2> DEFINE failures == rows[r].failures + 1
             full == (failures >= MaxFailures)
             row == [rows[r] EXCEPT !.failures = failures, !.claim = "free",
                                    !.quarantined = full]
  <2>1. /\ failures \in Nat /\ failures > 0
        /\ full \in BOOLEAN
    BY <1>1, <1>3, RowFields
  <2> HIDE DEF failures, full
  <2>2. rows[r] \in Row /\ rows[r].there
    BY <1>1, <1>3, RowFields
  <2>3. row \in Row
    BY <2>1, <2>2 DEF Row
  <2>4. row.there
    BY <2>2 DEF Row
  <2>5. row.lapsed = rows[r].lapsed
    BY <2>2 DEF Row
  <2>6. row.failures > 0
    BY <2>1, <2>2 DEF Row
  <2>7. Update(r, row)
    BY <1>3, <1>6 DEF RecordFailure, failures, full
  <2> HIDE DEF row
  <2> QED BY <1>2, <1>3, <2>3, <2>4, <2>5, <2>6, <2>7, OutcomeSole
<1> QED BY <1>4, <1>5, <1>6

LEMMA WaitingSole ==
  ASSUME Inv, Sole, NEW p \in Procs,
         SendFails(p) \/ RedriveSkips(p) \/ CallFails(p) \/ Evict(p) \/ Ack(p)
  PROVE  Sole'
<1>1. TypeOK /\ Knows(proc[p])
  BY DEF Inv, Working
<1>2. rows' = rows /\ sends' = sends
  BY DEF SendFails, RedriveSkips, CallFails, Evict, Ack
<1>3. \A m \in Ids : messages'[m].row = messages[m].row
  BY <1>1 DEF SendFails, RedriveSkips, CallFails, Evict, Ack, TypeOK, Message
<1>4. /\ \A q \in Procs : q # p => proc'[q] = proc[q]
      /\ proc'[p].pc \in Publishing => /\ proc[p].pc \in Publishing
                                       /\ proc'[p].pc = "fail"
                                       /\ proc'[p].row = proc[p].row
  <2>1. CASE Return(p) /\ ~At(p, "idle")
    BY <1>1, <2>1, ReturnEffect
  <2>2. CASE Goto(p, "fail") /\ proc[p].pc \in Publishing
    BY <1>1, <2>2, GotoEffect
  <2>3. CASE Become(p, Idle)
    BY <1>1, <2>3, BecomeEffect, IdleIsLocal DEF Publishing
  <2> QED BY <2>1, <2>2, <2>3
          DEF SendFails, RedriveSkips, CallFails, Evict, Ack, At, Publishing
<1>5. Sent' = Sent /\ Sent \subseteq Ids
  BY <1>1, <1>2, OutboxAssumption DEF Sent, Ids, TypeOK
<1>6. \A r \in Rows : Clean(r)' => Clean(r) /\ (Claimable(r)' => Claimable(r))
  BY <1>2 DEF Clean, Claimable, Pending
<1>7. \A q \in Procs : proc'[q].pc \in Publishing =>
        /\ proc[q].pc \in Publishing
        /\ proc'[q].row = proc[q].row
        /\ proc'[q].pc = "send" => proc[q].pc = "send"
  BY <1>4
<1> QED BY <1>2, <1>3, <1>5, <1>6, <1>7, QuietStep

LEMMA SurroundingsSole ==
  ASSUME Inv, Sole, proc' = proc,
         \/ \E m \in Ids : Consume(m) \/ DeadLetter(m) \/ Park(m)
         \/ \E r \in Rows : LeaseEnds(r)
         \/ Tombstone
         \/ UNCHANGED vars
  PROVE  Sole'
<1>1. TypeOK /\ Linked
  BY DEF Inv
<1>2. sends' = sends
  BY DEF Consume, DeadLetter, Park, LeaseEnds, Tombstone, vars
<1>3. \A m \in Ids : messages'[m].row = messages[m].row
  <2>1. CASE messages' = messages
    BY <2>1
  <2>2. ASSUME NEW n \in Ids, NEW place,
               messages' = [messages EXCEPT ![n].place = place]
        PROVE  \A m \in Ids : messages'[m].row = messages[m].row
    BY <1>1, <2>2 DEF TypeOK, Message
  <2> QED BY <2>1, <2>2
          DEF Consume, DeadLetter, Park, LeaseEnds, Tombstone, vars
<1>4. \A r \in Rows : /\ rows'[r].there = rows[r].there
                      /\ Clean(r)' => Clean(r)
                      /\ Clean(r)' /\ Claimable(r)' => Claimable(r)
  <2>1. CASE rows' = rows
    BY <2>1 DEF Clean, Claimable, Pending
  <2>2. ASSUME NEW q \in Rows, LeaseEnds(q)
        PROVE  \A r \in Rows : /\ rows'[r].there = rows[r].there
                               /\ Clean(r)' => Clean(r)
                               /\ Clean(r)' /\ Claimable(r)' => Claimable(r)
    BY <1>1, <2>2 DEF LeaseEnds, TypeOK, Row, Clean, Claimable, Pending
  <2>3. CASE Tombstone
    BY <1>1, <2>3 DEF Tombstone, TypeOK, Row, Clean, Claimable, Pending
  <2> QED BY <2>1, <2>2, <2>3 DEF Consume, DeadLetter, Park, vars
<1>5. Sent' = Sent /\ Sent \subseteq Ids
  BY <1>1, <1>2, OutboxAssumption DEF Sent, Ids, TypeOK
<1>6. \A m \in Sent : messages[m].row \in Rows
  BY <1>1, <1>5, MessageFields
<1> QED BY <1>3, <1>4, <1>5, <1>6, QuietStep

LEMMA StepSole == Inv /\ Sole /\ [Next]_vars => Sole'
<1> SUFFICES ASSUME Inv, Sole, [Next]_vars PROVE Sole'
  OBVIOUS
<1>1. TypeOK
  BY DEF Inv
<1>2. ASSUME NEW p \in Procs, Step(p) PROVE Sole'
  <2>1. CASE RedriveClaims(p)
    <3>1. proc[p].row \in Rows /\ proc[p].pc \notin Publishing
      BY <1>1, <2>1, LocalFields DEF RedriveClaims, At, Publishing
    <3> QED BY <2>1, <3>1, ClaimSole DEF RedriveClaims
  <2> QED BY <1>2, <2>1, OutcomesSole, WaitingSole, SendSole DEF Step
<1>3. ASSUME NEW p \in Procs, CallFails(p) \/ Evict(p) PROVE Sole'
  BY <1>3, WaitingSole
<1>4. ASSUME NEW p \in Procs, NEW r \in Rows, Publish(p, r) PROVE Sole'
  <2>1. proc[p].pc \notin Publishing
    BY <1>4 DEF Publish, At, Publishing
  <2> QED BY <1>4, <2>1, ClaimSole DEF Publish
<1>5. ASSUME NEW p \in Procs, NEW m \in Ids, Redrive(p, m) PROVE Sole'
  BY <1>5, RedriveSole
<1>6. ASSUME \/ \E m \in Ids : Consume(m) \/ DeadLetter(m) \/ Park(m)
             \/ \E r \in Rows : LeaseEnds(r)
             \/ Tombstone
             \/ UNCHANGED vars
      PROVE  Sole'
  <2>1. proc' = proc
    BY <1>6 DEF Consume, DeadLetter, Park, LeaseEnds, Tombstone, vars
  <2> QED BY <1>6, <2>1, SurroundingsSole
<1> QED BY <1>2, <1>3, <1>4, <1>5, <1>6 DEF Next

(* Racing invocations do not send a row twice by themselves. *)
THEOREM DuplicatesHaveCauses == Spec => []DuplicateHasCause
<1>1. Inv /\ Sole => DuplicateHasCause
  <2> SUFFICES ASSUME Inv, Sole, NEW m \in Ids, NEW n \in Ids, m # n,
                      messages[m].place # "none", messages[n].place # "none",
                      messages[m].row = messages[n].row
               PROVE  \/ rows[messages[m].row].lapsed
                      \/ rows[messages[m].row].failures > 0
    BY DEF DuplicateHasCause
  <2>1. TypeOK /\ Linked
    BY DEF Inv
  <2>2. PICK r \in Rows : r = messages[m].row
    BY <2>1, MessageFields
  <2>3. m \in SentFrom(r) /\ n \in SentFrom(r)
    BY <2>1, <2>2 DEF Linked, SentFrom, Sent, Ids, TypeOK
  <2>4. ~Clean(r)
    BY <2>3 DEF Sole, SoleAt
  <2> QED BY <2>1, <2>2, <2>4, RowFields DEF Clean
<1>2. Init => Sole
  BY InitSole
<1>3. Inv /\ Sole /\ [Next]_vars => Sole'
  BY StepSole
<1> QED BY <1>1, <1>2, <1>3, OutboxInvariant, PTL DEF Spec
=============================================================================
