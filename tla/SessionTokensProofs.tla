------------------------ MODULE SessionTokensProofs ------------------------
(***************************************************************************)
(* Proofs about SessionTokens, for any number of overlapping requests,     *)
(* tokens, resets and ticks, any grace and any limits.                     *)
(*                                                                         *)
(* The argument follows chains, not tokens.  A chain is the work of one    *)
(* login; it is dead once it has no live token, and stays dead, since a    *)
(* rotation needs a live one.  Whatever revokes a session kills every      *)
(* chain and makes a new user, so a request that read the user before is   *)
(* left with a dead chain and can insert nothing.                          *)
(***************************************************************************)
EXTENDS SessionTokens, FiniteSetTheorems, TLAPS

USE DEF At, Become

Refreshing == {"find", "walk", "user", "rotate"}
Using == Refreshing \cup {"return"}
Opening == {"confirm", "revoke"}
Uses(p) == proc[p].pc \in Using
Opens(p) == proc[p].pc \in Opening
Family(p) == tokens[proc[p].token].chain

(* A session was the user once.                                            *)
Former(session) ==
  /\ session.version <= user.version
  /\ session.version = user.version => session = user

Dead(c) == \A t \in DOMAIN tokens : tokens[t].chain = c => ~Live(t)

(* The live token of a chain is of the present session.                    *)
Current(c) ==
  \A t \in DOMAIN tokens :
    tokens[t].chain = c /\ Live(t) => tokens[t].session = user

(* A token is alone in its chain and nobody has it.                        *)
Solo(t) ==
  /\ ~tokens[t].held
  /\ \A u \in DOMAIN tokens : tokens[u].chain = tokens[t].chain => u = t

(* What a request with local state l relies on.                            *)
Carries(l) ==
  /\ l.now \in 0..clock
  /\ Former(l.session)
  /\ l.pc \in Using \cup Opening => l.token \in DOMAIN tokens
  /\ l.pc = "walk" => /\ l.walk \in DOMAIN tokens
                      /\ ~Live(l.walk)
                      /\ tokens[l.walk].chain = tokens[l.token].chain
  /\ l.pc = "find" => l.walk = l.token /\ l.lost = 0
  /\ l.pc \in Using => Current(tokens[l.token].chain)
  /\ l.pc = "rotate" \/ (l.pc = "walk" /\ l.lost > 0)
       => l.session = user \/ Dead(tokens[l.token].chain)
  /\ l.pc \in Opening => /\ Solo(l.token)
                         /\ tokens[l.token].session = l.session
  /\ l.pc = "revoke" => l.session # user

(* A login shares its token with no other request until it returns it.     *)
Apart ==
  \A p, q \in Procs :
    p # q /\ Opens(p) /\ (Uses(q) \/ Opens(q)) => Family(q) # Family(p)

Chained ==
  \A t \in DOMAIN tokens :
    /\ tokens[t].chain \in 1..t
    /\ tokens[t].next # 0 => tokens[tokens[t].next].chain = tokens[t].chain

Headed ==
  /\ \A t, u \in DOMAIN tokens :
       Live(t) /\ Live(u) /\ tokens[t].chain = tokens[u].chain => t = u
  /\ \A t \in DOMAIN tokens :
       tokens[t].session = user => ~Dead(tokens[t].chain)

Honoured ==
  /\ user.version >= 1
  /\ \A t \in DOMAIN tokens :
       /\ Former(tokens[t].session)
       /\ tokens[t].held => Current(tokens[t].chain)

TokensInv == Chained /\ Headed /\ Honoured
Inv == TypeOK /\ TokensInv /\ Apart /\ \A p \in Procs : Carries(proc[p])

-----------------------------------------------------------------------------
(* Types, and how the actions change tokens and requests. *)

LEMMA Rows ==
  ASSUME TypeOK
  PROVE  /\ DOMAIN tokens = 1..Len(tokens) /\ Len(tokens) \in Nat
         /\ \A t \in DOMAIN tokens : tokens[t] \in Token
BY DEF TypeOK

LEMMA IdleLocal == Idle \in Local /\ Nothing \in User
BY DEF Idle, Local, Nothing, User

LEMMA Moves ==
  ASSUME TypeOK, NEW p \in Procs, NEW l \in Local,
         proc' = [proc EXCEPT ![p] = l]
  PROVE  /\ proc' \in [Procs -> Local] /\ proc'[p] = l
         /\ \A q \in Procs \ {p} : proc'[q] = proc[q]
BY DEF TypeOK

LEMMA Marks ==
  ASSUME TypeOK, NEW t \in DOMAIN tokens, NEW row \in Token,
         tokens' = [tokens EXCEPT ![t] = row]
  PROVE  /\ tokens' \in Seq(Token) /\ DOMAIN tokens' = DOMAIN tokens
         /\ Len(tokens') = Len(tokens) /\ tokens'[t] = row
         /\ \A u \in DOMAIN tokens \ {t} : tokens'[u] = tokens[u]
BY DEF TypeOK

LEMMA Adds ==
  ASSUME TypeOK, NEW before \in Seq(Token), Len(before) = Len(tokens),
         NEW row \in Token, NEW new, new = Len(tokens) + 1,
         tokens' = Append(before, row)
  PROVE  /\ tokens' \in Seq(Token) /\ DOMAIN tokens' = DOMAIN tokens \cup {new}
         /\ Len(tokens') = new /\ tokens'[new] = row
         /\ \A u \in DOMAIN tokens : tokens'[u] = before[u]
<1>1. /\ DOMAIN before = 1..Len(tokens) /\ DOMAIN tokens = 1..Len(tokens)
      /\ Len(tokens) \in Nat
  BY Rows
<1>2. tokens' \in Seq(Token) /\ Len(tokens') = new
  BY <1>1
<1>3. tokens'[new] = row /\ \A u \in 1..Len(tokens) : tokens'[u] = before[u]
  BY <1>1
<1>4. DOMAIN tokens' = 1..new
  BY <1>2
<1>5. 1..new = (1..Len(tokens)) \cup {new}
  BY <1>1
<1> QED BY <1>1, <1>2, <1>3, <1>4, <1>5

(* A rotation, in the terms of the tokens.                                 *)
LEMMA RotateGives ==
  ASSUME Inv, NEW p \in Procs, Rotate(p)
  PROVE  \E t \in DOMAIN tokens, new \in Nat :
           /\ t = proc[p].token /\ new = Len(tokens) + 1
           /\ Live(t) /\ new \notin DOMAIN tokens
           /\ DOMAIN tokens' = DOMAIN tokens \cup {new}
           /\ tokens' \in Seq(Token) /\ Len(tokens') = new
           /\ tokens'[new] = New(proc[p].session, tokens[t].chain)
           /\ tokens'[t] = [tokens[t] EXCEPT !.revokedAt = proc[p].now,
                                             !.next = new]
           /\ \A u \in DOMAIN tokens \ {t} : tokens'[u] = tokens[u]
<1>0. PICK t, new : t = proc[p].token /\ new = Len(tokens) + 1
  OBVIOUS
<1>1. /\ t \in DOMAIN tokens /\ Live(t) /\ new \notin DOMAIN tokens
      /\ tokens[t] \in Token /\ new \in Nat
  BY <1>0, Rows DEF Inv, Carries, Using, Refreshing, Rotate, Rotatable
<1>2. /\ New(proc[p].session, tokens[t].chain) \in Token
      /\ [tokens[t] EXCEPT !.revokedAt = proc[p].now, !.next = new] \in Token
  <2>1. proc[p].session \in User /\ proc[p].now \in Int /\ Never \in Int
    BY DEF Inv, TypeOK, Local, Never
  <2> QED BY <1>1, <2>1 DEF New, Token
<1> DEFINE row == [tokens[t] EXCEPT !.revokedAt = proc[p].now, !.next = new]
           before == [tokens EXCEPT ![t] = row]
<1>3. tokens' = Append(before, New(proc[p].session, tokens[t].chain))
  BY <1>0, <1>1 DEF Rotate
<1>4. /\ before \in Seq(Token) /\ Len(before) = Len(tokens)
      /\ before[t] = row /\ \A u \in DOMAIN tokens \ {t} : before[u] = tokens[u]
  BY <1>1, <1>2 DEF Inv, TypeOK
<1> HIDE DEF before, row
<1>5. /\ tokens' \in Seq(Token) /\ DOMAIN tokens' = DOMAIN tokens \cup {new}
      /\ Len(tokens') = new
      /\ tokens'[new] = New(proc[p].session, tokens[t].chain)
      /\ \A u \in DOMAIN tokens : tokens'[u] = before[u]
  BY <1>0, <1>2, <1>3, <1>4, Adds DEF Inv
<1>6. tokens'[t] = row /\ \A u \in DOMAIN tokens \ {t} : tokens'[u] = tokens[u]
  BY <1>1, <1>4, <1>5
<1>7. tokens'[t] = [tokens[t] EXCEPT !.revokedAt = proc[p].now, !.next = new]
  BY <1>6 DEF row
<1> QED BY <1>0, <1>1, <1>5, <1>6, <1>7

LEMMA InsertGives ==
  ASSUME Inv, NEW p \in Procs, InsertToken(p),
         NEW new, new = Len(tokens) + 1
  PROVE  /\ new \notin DOMAIN tokens /\ new \in Nat \ {0}
         /\ DOMAIN tokens' = DOMAIN tokens \cup {new}
         /\ tokens' \in Seq(Token) /\ Len(tokens') = new
         /\ tokens'[new] = New(proc[p].session, new)
         /\ \A u \in DOMAIN tokens : tokens'[u] = tokens[u]
<1>1. new \notin DOMAIN tokens /\ new \in Nat \ {0}
  BY Rows DEF Inv
<1>2. New(proc[p].session, new) \in Token
  <2>1. proc[p].session \in User /\ Never \in Int
    BY DEF Inv, TypeOK, Local, Never
  <2> QED BY <1>1, <2>1 DEF New, Token
<1>3. tokens \in Seq(Token) /\ tokens' = Append(tokens, New(proc[p].session, new))
  BY DEF Inv, TypeOK, InsertToken
<1> QED BY <1>1, <1>2, <1>3, Adds DEF Inv

LEMMA RevokeGives ==
  ASSUME TypeOK, NEW at \in 0..clock, tokens' = RevokedAll(at)
  PROVE  /\ tokens' \in Seq(Token) /\ DOMAIN tokens' = DOMAIN tokens
         /\ Len(tokens') = Len(tokens)
         /\ \A t \in DOMAIN tokens :
              /\ tokens'[t].revokedAt # Never
              /\ tokens'[t].chain = tokens[t].chain
              /\ tokens'[t].next = tokens[t].next
              /\ tokens'[t].session = tokens[t].session
              /\ tokens'[t].held = tokens[t].held
<1>1. /\ DOMAIN tokens = 1..Len(tokens) /\ Len(tokens) \in Nat
      /\ at \in Int /\ at # Never
      /\ \A t \in DOMAIN tokens : tokens[t] \in Token
  BY Rows DEF TypeOK, Never
<1> DEFINE row(t) == [tokens[t] EXCEPT
                        !.revokedAt = IF Live(t) THEN at ELSE @,
                        !.known = FALSE]
<1>2. \A t \in DOMAIN tokens :
        /\ row(t) \in Token /\ row(t).revokedAt # Never
        /\ row(t).chain = tokens[t].chain /\ row(t).next = tokens[t].next
        /\ row(t).session = tokens[t].session /\ row(t).held = tokens[t].held
  <2> SUFFICES ASSUME NEW t \in DOMAIN tokens, NEW r \in Token, r = tokens[t]
               PROVE  /\ row(t) \in Token /\ row(t).revokedAt # Never
                      /\ row(t).chain = r.chain /\ row(t).next = r.next
                      /\ row(t).session = r.session /\ row(t).held = r.held
    BY <1>1
  <2>1. PICK mark \in Int :
          mark # Never /\ mark = IF Live(t) THEN at ELSE r.revokedAt
    BY <1>1 DEF Live, Token
  <2>2. row(t) = [r EXCEPT !.revokedAt = mark, !.known = FALSE]
    BY <2>1
  <2> HIDE DEF row
  <2> QED BY <2>1, <2>2 DEF Token
<1>3. tokens' = [t \in 1..Len(tokens) |-> row(t)]
  BY <1>1 DEF RevokedAll
<1> HIDE DEF row
<1>4. tokens' \in [1..Len(tokens) -> Token]
  BY <1>1, <1>2, <1>3
<1>5. tokens' \in Seq(Token) /\ Len(tokens') = Len(tokens)
  BY <1>1, <1>4
<1> QED BY <1>1, <1>2, <1>3, <1>5

-----------------------------------------------------------------------------
(* Steps that change no token. *)

LEMMA Quiet ==
  ASSUME Inv, UNCHANGED <<user, tokens, clock, resets>>,
         excused' \in BOOLEAN, mistaken' \in BOOLEAN,
         NEW p \in Procs, NEW l \in Local, proc' = [proc EXCEPT ![p] = l],
         Carries(l),
         l.pc \in Opening => Opens(p) /\ l.token = proc[p].token,
         l.pc \in Using => \/ tokens[l.token].held
                           \/ /\ Uses(p) \/ Opens(p)
                              /\ tokens[l.token].chain = Family(p)
  PROVE  Inv'
<1>1. /\ proc' \in [Procs -> Local] /\ proc'[p] = l
      /\ \A q \in Procs \ {p} : proc'[q] = proc[q]
  BY Moves DEF Inv
<1>2. TypeOK' /\ TokensInv'
  BY <1>1 DEF Inv, TypeOK, TokensInv, Chained, Headed, Honoured, Former, Dead,
              Current, Live
<1>3. ASSUME NEW q \in Procs PROVE Carries(proc[q])'
  <2>1. PICK m : m = proc'[q] /\ Carries(m)
    BY <1>1 DEF Inv
  <2>2. Carries(m)'
    BY <2>1 DEF Carries, Former, Current, Dead, Live, Solo
  <2> QED BY <2>1, <2>2 DEF Carries
<1>4. Apart'
  <2> SUFFICES ASSUME NEW a \in Procs, NEW b \in Procs, a # b,
                      Opens(a)', (Uses(b) \/ Opens(b))'
               PROVE  (Family(a) # Family(b))'
    BY DEF Apart
  <2>1. CASE a = p
    BY <1>1, <2>1 DEF Inv, Apart, Opens, Uses, Family
  <2>2. CASE b = p
    <3>1. Opens(a) /\ proc'[a] = proc[a]
      BY <1>1, <2>2 DEF Opens
    <3>2. CASE tokens[l.token].held /\ l.pc \in Using
      <4>1. Solo(proc[a].token) /\ l.token \in DOMAIN tokens
        BY <3>1, <3>2 DEF Inv, Carries, Opens
      <4> QED BY <1>1, <2>2, <3>1, <3>2, <4>1 DEF Solo, Family
    <3>3. CASE ~(tokens[l.token].held /\ l.pc \in Using)
      <4>1. Uses(p) \/ Opens(p)
        BY <1>1, <2>2, <3>3 DEF Uses, Opens
      <4>2. tokens[l.token].chain = Family(p)
        BY <1>1, <2>2, <3>3 DEF Uses, Opens, Family
      <4> QED BY <1>1, <2>2, <3>1, <4>1, <4>2 DEF Inv, Apart, Family
    <3> QED BY <3>2, <3>3
  <2>3. CASE a # p /\ b # p
    BY <1>1, <2>3 DEF Inv, Apart, Opens, Uses, Family
  <2> QED BY <2>1, <2>2, <2>3
<1> QED BY <1>2, <1>3, <1>4 DEF Inv

LEMMA InvTick == ASSUME Inv, Tick PROVE Inv'
<1>1. TypeOK' /\ TokensInv' /\ Apart'
  BY SessionAssumption
     DEF Tick, Inv, TypeOK, TokensInv, Chained, Headed, Honoured, Former,
         Dead, Current, Live, Apart, Uses, Opens, Family
<1>2. ASSUME NEW q \in Procs PROVE Carries(proc[q])'
  <2>1. Carries(proc[q]) /\ proc' = proc
    BY DEF Inv, Tick
  <2>2. proc[q].now \in 0..clock'
    BY <2>1 DEF Carries, Tick, Inv, TypeOK
  <2> QED BY <2>1, <2>2
          DEF Carries, Tick, Former, Current, Dead, Live, Solo
<1> QED BY <1>1, <1>2 DEF Inv

LEMMA IdleCarries ==
  ASSUME Inv
  PROVE  /\ Carries(Idle) /\ Idle.pc = "idle" /\ Former(Nothing)
         /\ \A l : l.pc \in {"idle", "reuse", "logout"} /\ l.now \in 0..clock
                     /\ l.session = Nothing => Carries(l)
<1>1. clock \in Nat /\ user.version \in Nat /\ user.version >= 1
  BY SessionAssumption DEF Inv, TypeOK, User, TokensInv, Honoured
<1>2. Former(Nothing)
  BY <1>1 DEF Former, Nothing
<1>3. Idle.pc = "idle" /\ Idle.now = 0 /\ Idle.session = Nothing
  BY DEF Idle
<1> QED BY <1>1, <1>2, <1>3 DEF Carries, Using, Refreshing, Opening

(* A request that ends, or goes on without a token.                        *)
LEMMA InvEnds ==
  ASSUME Inv, UNCHANGED <<user, tokens, clock, resets>>,
         excused' \in BOOLEAN, mistaken' \in BOOLEAN,
         NEW p \in Procs, NEW pc \in {"idle", "reuse", "logout"},
         NEW now \in 0..clock,
         proc' = [proc EXCEPT ![p] = [Idle EXCEPT !.pc = pc, !.now = now]]
  PROVE  Inv'
<1> DEFINE l == [Idle EXCEPT !.pc = pc, !.now = now]
<1>1. l \in Local /\ l.pc = pc /\ l.now = now /\ l.session = Nothing
  <2>1. now \in Int /\ Idle.session = Nothing
    BY SessionAssumption DEF Idle, Inv, TypeOK
  <2> QED BY <2>1, IdleLocal DEF Local
<1> HIDE DEF l
<1>2. Carries(l)
  BY <1>1, IdleCarries
<1> QED BY <1>1, <1>2, Quiet DEF l, Using, Refreshing, Opening

LEMMA InvQuits ==
  ASSUME Inv, UNCHANGED <<user, tokens, clock, resets, history>>,
         NEW p \in Procs, proc' = [proc EXCEPT ![p] = Idle]
  PROVE  Inv'
<1>1. excused' \in BOOLEAN /\ mistaken' \in BOOLEAN
  BY DEF Inv, TypeOK, history
<1> QED BY <1>1, IdleCarries, IdleLocal, Quiet DEF Using, Refreshing, Opening

LEMMA FindLocal ==
  ASSUME NEW t \in Nat, NEW now \in Int
  PROVE  [Idle EXCEPT !.pc = "find", !.token = t, !.walk = t,
                      !.now = now] \in Local
BY IdleLocal DEF Idle, Local

LEMMA InvPresent ==
  ASSUME Inv, NEW p \in Procs, NEW t \in DOMAIN tokens, Present(p, t)
  PROVE  Inv'
<1> DEFINE l == [Idle EXCEPT !.pc = "find", !.token = t, !.walk = t,
                             !.now = clock]
<1>1. t \in Nat /\ clock \in Nat
  BY Rows, SessionAssumption DEF Inv, TypeOK
<1>2. /\ l \in Local /\ l.pc = "find" /\ l.token = t /\ l.now = clock
      /\ l.session = Nothing /\ l.walk = t /\ l.lost = 0
  <2>1. PICK i \in Local : i = Idle /\ i.session = Nothing /\ i.lost = 0
    BY IdleLocal DEF Idle
  <2>2. l = [i EXCEPT !.pc = "find", !.token = t, !.walk = t, !.now = clock]
    BY <2>1
  <2> HIDE DEF l
  <2>3. clock \in Int
    BY <1>1
  <2>4. l \in Local
    BY <1>1, <2>3, FindLocal DEF l
  <2>5. /\ l.pc = "find" /\ l.token = t /\ l.now = clock
        /\ l.session = i.session /\ l.walk = t /\ l.lost = i.lost
    BY <2>1, <2>2 DEF Local
  <2> QED BY <2>1, <2>4, <2>5
<1> HIDE DEF l
<1>3. tokens[t].held /\ Current(tokens[t].chain)
  BY DEF Present, Inv, TokensInv, Honoured
<1>4. Carries(l)
  BY <1>1, <1>2, <1>3, IdleCarries DEF Carries, Using, Refreshing, Opening
<1>5. /\ UNCHANGED <<user, tokens, clock, resets>>
      /\ excused' \in BOOLEAN /\ mistaken' \in BOOLEAN
      /\ proc' = [proc EXCEPT ![p] = l]
  BY DEF Present, surroundings, Inv, TypeOK, TooLate, l
<1> QED BY <1>2, <1>3, <1>4, <1>5, Quiet DEF Opening

(* A refresh that goes on to step with a token of its chain.               *)
LEMMA InvRefresh ==
  ASSUME Inv, UNCHANGED <<user, tokens, clock, resets, history>>,
         NEW p \in Procs, Uses(p), NEW l \in Local,
         proc' = [proc EXCEPT ![p] = l],
         l.pc \in Refreshing \ {"find"}, l.now = proc[p].now,
         l.token \in DOMAIN tokens, tokens[l.token].chain = Family(p),
         l.pc = "walk" => /\ l.walk \in DOMAIN tokens /\ ~Live(l.walk)
                          /\ tokens[l.walk].chain = Family(p),
         Former(l.session),
         l.pc = "rotate" \/ (l.pc = "walk" /\ l.lost > 0)
           => l.session = user \/ Dead(Family(p))
  PROVE  Inv'
<1>1. Current(Family(p)) /\ proc[p].now \in 0..clock
  BY DEF Inv, Carries, Uses, Family
<1>2. Carries(l)
  BY <1>1 DEF Carries, Using, Refreshing, Opening
<1>3. excused' \in BOOLEAN /\ mistaken' \in BOOLEAN
  BY DEF Inv, TypeOK, history
<1> QED BY <1>2, <1>3, Quiet DEF Opening, Refreshing

LEMMA InvStepQuiet ==
  ASSUME Inv, NEW p \in Procs,
         \/ FindByHash(p) \/ Walk(p) \/ ReadUser(p) \/ RotationLost(p)
  PROVE  Inv'
<1>1. PICK m : m = proc[p] /\ m \in Local /\ Carries(m)
  BY DEF Inv, TypeOK
<1>2. UNCHANGED <<user, tokens, clock, resets, history>>
  BY DEF FindByHash, Walk, ReadUser, RotationLost, surroundings
<1>3. /\ Uses(p) /\ m.token \in DOMAIN tokens /\ m.token \in Nat
      /\ Family(p) = tokens[m.token].chain
  BY <1>1, Rows
     DEF FindByHash, Walk, ReadUser, RotationLost, Uses, Using, Refreshing,
         Carries, Family, Inv, Local
<1>4. Former(m.session) /\ Former(user)
  BY <1>1 DEF Carries, Former, Inv, TypeOK, User
<1>5. CASE FindByHash(p)
  <2>1. CASE ~Known(m.token)
    BY <1>1, <1>2, <1>5, <2>1, InvQuits DEF FindByHash
  <2>2. CASE Known(m.token) /\ Live(m.token)
    <3> DEFINE l == [m EXCEPT !.pc = "user", !.walk = 0]
    <3>1. /\ l \in Local /\ l.pc = "user" /\ l.token = m.token
          /\ l.now = m.now /\ l.session = m.session
      BY <1>1 DEF Local
    <3>2. proc' = [proc EXCEPT ![p] = l]
      BY <1>1, <1>5, <2>2 DEF FindByHash
    <3> HIDE DEF l
    <3> QED BY <1>1, <1>2, <1>3, <1>4, <3>1, <3>2, InvRefresh DEF Refreshing
  <2>3. CASE Known(m.token) /\ ~Live(m.token)
    <3> DEFINE l == [m EXCEPT !.pc = "walk"]
    <3>1. /\ l \in Local /\ l.pc = "walk" /\ l.token = m.token
          /\ l.now = m.now /\ l.session = m.session /\ l.walk = m.walk
          /\ l.lost = m.lost
      BY <1>1 DEF Local
    <3>2. proc' = [proc EXCEPT ![p] = l]
      BY <1>1, <1>5, <2>3 DEF FindByHash
    <3> HIDE DEF l
    <3>3. m.walk = m.token /\ m.lost = 0
      BY <1>1, <1>5 DEF FindByHash, Carries
    <3>4. /\ l.walk \in DOMAIN tokens /\ ~Live(l.walk)
          /\ tokens[l.walk].chain = Family(p) /\ ~(l.lost > 0)
      BY <1>3, <2>3, <3>1, <3>3
    <3>5. /\ l.pc \in Refreshing \ {"find"} /\ l.pc # "rotate"
          /\ l.now = proc[p].now /\ l.token \in DOMAIN tokens
          /\ tokens[l.token].chain = Family(p) /\ Former(l.session)
      BY <1>1, <1>3, <1>4, <3>1 DEF Refreshing
    <3> QED BY <1>2, <1>3, <3>1, <3>2, <3>4, <3>5, InvRefresh
  <2> QED BY <2>1, <2>2, <2>3
<1>6. CASE ReadUser(p)
  <2> DEFINE l == [m EXCEPT !.pc = "rotate", !.session = user]
  <2>1. /\ l \in Local /\ l.pc = "rotate" /\ l.token = m.token
        /\ l.now = m.now /\ l.session = user
    BY <1>1 DEF Local, Inv, TypeOK
  <2>2. proc' = [proc EXCEPT ![p] = l]
    BY <1>1, <1>6 DEF ReadUser
  <2> HIDE DEF l
  <2> QED BY <1>1, <1>2, <1>3, <1>4, <2>1, <2>2, InvRefresh DEF Refreshing
<1>7. CASE RotationLost(p)
  <2>0. PICK lost \in Nat : lost = m.lost + 1
    BY <1>1 DEF Local
  <2> DEFINE l == [m EXCEPT !.pc = "walk", !.walk = m.token, !.hops = 0,
                            !.lost = lost]
  <2>1. /\ l \in Local /\ l.pc = "walk" /\ l.token = m.token
        /\ l.now = m.now /\ l.session = m.session /\ l.walk = m.token
    BY <1>1, <1>3 DEF Local
  <2>2. proc' = [proc EXCEPT ![p] = l]
    BY <1>1, <1>7, <2>0 DEF RotationLost
  <2> HIDE DEF l
  <2>3. /\ ~Live(m.token)
        /\ m.session = user \/ Dead(Family(p))
    BY <1>1, <1>3, <1>7 DEF RotationLost, Rotatable, Carries
  <2> QED BY <1>1, <1>2, <1>3, <1>4, <2>1, <2>2, <2>3, InvRefresh
          DEF Refreshing
<1>8. CASE Walk(p)
  <2> DEFINE next == tokens[m.walk].next
  <2>1. /\ m.walk \in DOMAIN tokens /\ tokens[m.walk].chain = Family(p)
        /\ next # 0 /\ m.lost \in Nat
    BY <1>1, <1>3, <1>8 DEF Walk, OffTheChain, Carries, Local
  <2>2. /\ next \in DOMAIN tokens /\ next \in Nat
        /\ tokens[next].chain = Family(p)
    BY <2>1, Rows DEF Inv, TypeOK, TokensInv, Chained
  <2>3. CASE ~Live(next)
    <3>0. PICK hops \in Nat : hops = m.hops + 1
      BY <1>1 DEF Local
    <3> DEFINE l == [m EXCEPT !.walk = next, !.hops = hops]
    <3>1. /\ l \in Local /\ l.pc = "walk" /\ l.token = m.token
          /\ l.now = m.now /\ l.session = m.session /\ l.walk = next
          /\ l.lost = m.lost
      BY <1>1, <1>8, <2>2 DEF Local, Walk
    <3>2. proc' = [proc EXCEPT ![p] = l]
      BY <1>1, <1>8, <2>3, <3>0 DEF Walk
    <3> HIDE DEF l
    <3>3. m.lost > 0 => m.session = user \/ Dead(Family(p))
      BY <1>1, <1>3, <1>8 DEF Carries, Walk
    <3> QED BY <1>1, <1>2, <1>3, <1>4, <2>2, <2>3, <3>1, <3>2, <3>3,
               InvRefresh DEF Refreshing
  <2>4. CASE Live(next) /\ m.lost = RotationAttempts
    BY <1>1, <1>2, <1>8, <2>4, InvQuits DEF Walk
  <2>5. CASE Live(next) /\ m.lost # RotationAttempts
    <3> DEFINE step == IF m.lost = 0 THEN "user" ELSE "rotate"
               l == [m EXCEPT !.token = next, !.walk = 0, !.hops = 0,
                              !.pc = step]
    <3>1. /\ l \in Local /\ l.pc = step /\ l.token = next
          /\ l.now = m.now /\ l.session = m.session
          /\ step \in {"user", "rotate"}
      BY <1>1, <2>2 DEF Local
    <3>2. proc' = [proc EXCEPT ![p] = l]
      BY <1>1, <1>8, <2>5 DEF Walk
    <3>3. step = "rotate" => m.session = user \/ Dead(Family(p))
      BY <1>1, <1>3, <1>8, <2>1 DEF Carries, Walk
    <3> HIDE DEF l, step
    <3> QED BY <1>1, <1>2, <1>3, <1>4, <2>2, <3>1, <3>2, <3>3, InvRefresh
            DEF Refreshing
  <2> QED BY <2>3, <2>4, <2>5
<1> QED BY <1>5, <1>6, <1>7, <1>8

LEMMA InvVerify ==
  ASSUME Inv, NEW p \in Procs, VerifyPassword(p)
  PROVE  Inv'
<1> DEFINE l == [Idle EXCEPT !.pc = "insert", !.session = user]
<1>1. user \in User /\ Former(user) /\ clock \in Nat
  BY SessionAssumption DEF Inv, TypeOK, Former, User
<1>2. l \in Local /\ l.pc = "insert" /\ l.now = 0 /\ l.session = user
  <2>1. PICK i \in Local : i = Idle /\ i.now = 0
    BY IdleLocal DEF Idle
  <2> QED BY <1>1, <2>1 DEF Local
<1>3. /\ UNCHANGED <<user, tokens, clock, resets>>
      /\ excused' \in BOOLEAN /\ mistaken' \in BOOLEAN
      /\ proc' = [proc EXCEPT ![p] = l]
  BY DEF VerifyPassword, surroundings, history, Inv, TypeOK
<1> HIDE DEF l
<1>4. Carries(l)
  BY <1>1, <1>2 DEF Carries, Using, Refreshing, Opening
<1> QED BY <1>2, <1>3, <1>4, Quiet DEF Using, Refreshing, Opening

LEMMA InvConfirm ==
  ASSUME Inv, NEW p \in Procs, Confirm(p)
  PROVE  Inv'
<1>1. PICK m : m = proc[p] /\ m \in Local /\ Carries(m) /\ m.pc = "confirm"
  BY DEF Inv, TypeOK, Confirm
<1>2. /\ UNCHANGED <<user, tokens, clock, resets>>
      /\ excused' \in BOOLEAN /\ mistaken' \in BOOLEAN
  BY DEF Confirm, surroundings, history, Inv, TypeOK
<1>3. /\ Opens(p) /\ m.token \in DOMAIN tokens /\ Solo(m.token)
      /\ tokens[m.token].session = m.session
      /\ Family(p) = tokens[m.token].chain /\ m.token \in Nat
  BY <1>1, Rows DEF Opens, Opening, Carries, Family, Inv
<1>4. CASE user = m.session
  <2> DEFINE l == [Idle EXCEPT !.pc = "return", !.token = m.token]
  <2>1. /\ l \in Local /\ l.pc = "return" /\ l.token = m.token /\ l.now = 0
        /\ l.session = Nothing
    <3>1. PICK i \in Local : i = Idle /\ i.now = 0 /\ i.session = Nothing
      BY IdleLocal DEF Idle
    <3> QED BY <1>3, <3>1 DEF Local
  <2>2. proc' = [proc EXCEPT ![p] = l]
    BY <1>1, <1>4 DEF Confirm
  <2> HIDE DEF l
  <2>3. Current(tokens[m.token].chain)
    BY <1>3, <1>4 DEF Current, Solo
  <2>4. Carries(l)
    BY <1>3, <2>1, <2>3, IdleCarries, SessionAssumption
       DEF Carries, Using, Refreshing, Opening, Inv, TypeOK
  <2> QED BY <1>2, <1>3, <2>1, <2>2, <2>4, Quiet DEF Opening
<1>5. CASE user # m.session
  <2> DEFINE l == [m EXCEPT !.pc = "revoke"]
  <2>1. /\ l \in Local /\ l.pc = "revoke" /\ l.token = m.token
        /\ l.now = m.now /\ l.session = m.session
    BY <1>1 DEF Local
  <2>2. proc' = [proc EXCEPT ![p] = l]
    BY <1>1, <1>5 DEF Confirm
  <2> HIDE DEF l
  <2>3. Carries(l)
    BY <1>1, <1>3, <1>5, <2>1 DEF Carries, Using, Refreshing, Opening
  <2> QED BY <1>1, <1>2, <1>3, <2>1, <2>2, <2>3, Quiet
          DEF Using, Refreshing
<1> QED BY <1>4, <1>5

-----------------------------------------------------------------------------
(* Steps that change tokens. *)

(* What the requests carry survives, in the terms of one local state.      *)
LEMMA InvFromParts ==
  ASSUME Inv, NEW p \in Procs, NEW l \in Local, proc' = [proc EXCEPT ![p] = l],
         TypeOK', TokensInv', Carries(l)',
         \A q \in Procs \ {p} : \A m : m = proc[q] => Carries(m)',
         DOMAIN tokens \subseteq DOMAIN tokens',
         \A t \in DOMAIN tokens : tokens'[t].chain = tokens[t].chain,
         l.pc \in Using \cup Opening =>
           \/ /\ l.pc \notin Opening
              /\ l.token \in DOMAIN tokens'
              /\ \A q \in Procs \ {p} : Opens(q) =>
                   tokens'[l.token].chain # Family(q)
           \/ \A t \in DOMAIN tokens : tokens[t].chain # tokens'[l.token].chain
  PROVE  Inv'
<1>1. proc'[p] = l /\ \A q \in Procs \ {p} : proc'[q] = proc[q]
  BY Moves DEF Inv
<1>2. ASSUME NEW q \in Procs PROVE Carries(proc[q])'
  <2>1. PICK m : m = proc'[q] /\ Carries(m)'
    BY <1>1
  <2> QED BY <2>1 DEF Carries
<1>3. ASSUME NEW q \in Procs \ {p}, Uses(q) \/ Opens(q)
      PROVE  proc[q].token \in DOMAIN tokens /\ Family(q)' = Family(q)
  <2>1. proc[q].token \in DOMAIN tokens
    BY <1>3 DEF Inv, Carries, Uses, Opens
  <2> QED BY <1>1, <2>1 DEF Family
<1>4. Apart'
  <2> SUFFICES ASSUME NEW a \in Procs, NEW b \in Procs, a # b,
                      Opens(a)', (Uses(b) \/ Opens(b))'
               PROVE  (Family(a) # Family(b))'
    BY DEF Apart
  <2>1. CASE a # p /\ b # p
    BY <1>1, <1>3, <2>1 DEF Inv, Apart, Opens, Uses
  <2>2. CASE a = p
    <3>1. Uses(b) \/ Opens(b)
      BY <1>1, <2>2 DEF Uses, Opens
    <3> QED BY <1>1, <1>3, <2>2, <3>1 DEF Opens, Family
  <2>3. CASE b = p
    <3>1. Opens(a)
      BY <1>1, <2>3 DEF Opens
    <3> QED BY <1>1, <1>3, <2>3, <3>1 DEF Opens, Uses, Family
  <2> QED BY <2>1, <2>2, <2>3
<1> QED BY <1>2, <1>4 DEF Inv

(* The token p rotates is of the present session.                          *)
LEMMA RotatesCurrent ==
  ASSUME Inv, NEW p \in Procs, Rotate(p)
  PROVE  proc[p].session = user
<1>1. proc[p].token \in DOMAIN tokens /\ Live(proc[p].token)
  BY RotateGives
<1> QED BY <1>1 DEF Inv, Carries, Rotate, Dead

LEMMA RotateFields ==
  ASSUME Inv, NEW p \in Procs, Rotate(p)
  PROVE  \E t \in DOMAIN tokens, new \in Nat :
           /\ t = proc[p].token /\ new = Len(tokens) + 1
           /\ Live(t) /\ tokens'[t].revokedAt = proc[p].now
           /\ new \notin DOMAIN tokens /\ tokens'[new].revokedAt = Never
           /\ DOMAIN tokens' = DOMAIN tokens \cup {new}
           /\ tokens' \in Seq(Token) /\ Len(tokens') = new
           /\ tokens'[new].chain = Family(p) /\ ~tokens'[new].held
           /\ tokens'[new].session = user /\ tokens'[new].next = 0
           /\ tokens'[t].next = new
           /\ \A u \in DOMAIN tokens :
                /\ tokens'[u].chain = tokens[u].chain
                /\ tokens'[u].held = tokens[u].held
                /\ tokens'[u].session = tokens[u].session
           /\ \A u \in DOMAIN tokens \ {t} :
                /\ tokens'[u].next = tokens[u].next
                /\ tokens'[u].revokedAt = tokens[u].revokedAt
           /\ user' = user /\ clock' = clock
<1>1. PICK t \in DOMAIN tokens, new \in Nat :
        /\ t = proc[p].token /\ new = Len(tokens) + 1
        /\ Live(t) /\ new \notin DOMAIN tokens
        /\ DOMAIN tokens' = DOMAIN tokens \cup {new}
        /\ tokens' \in Seq(Token) /\ Len(tokens') = new
        /\ tokens'[new] = New(proc[p].session, tokens[t].chain)
        /\ tokens'[t] = [tokens[t] EXCEPT !.revokedAt = proc[p].now,
                                          !.next = new]
        /\ \A u \in DOMAIN tokens \ {t} : tokens'[u] = tokens[u]
  BY RotateGives
<1>2. tokens[t] \in Token /\ proc[p].session = user
  BY <1>1, Rows, RotatesCurrent DEF Inv
<1>3. /\ tokens'[t].next = new /\ tokens'[t].revokedAt = proc[p].now
      /\ tokens'[t].chain = tokens[t].chain /\ tokens'[t].held = tokens[t].held
      /\ tokens'[t].session = tokens[t].session
  BY <1>1, <1>2 DEF Token
<1>4. /\ tokens'[new].chain = Family(p) /\ ~tokens'[new].held
      /\ tokens'[new].session = user /\ tokens'[new].next = 0
      /\ tokens'[new].revokedAt = Never
  BY <1>1, <1>2 DEF New, Family
<1>5. user' = user /\ clock' = clock
  BY DEF Rotate, surroundings
<1> QED BY <1>1, <1>2, <1>3, <1>4, <1>5

LEMMA InvRotate ==
  ASSUME Inv, NEW p \in Procs, Rotate(p)
  PROVE  Inv'
<1>0. PICK t \in DOMAIN tokens, new \in Nat :
        /\ t = proc[p].token /\ new = Len(tokens) + 1
        /\ Live(t) /\ tokens'[t].revokedAt = proc[p].now
        /\ new \notin DOMAIN tokens /\ tokens'[new].revokedAt = Never
        /\ DOMAIN tokens' = DOMAIN tokens \cup {new}
        /\ tokens' \in Seq(Token) /\ Len(tokens') = new
        /\ tokens'[new].chain = Family(p) /\ ~tokens'[new].held
        /\ tokens'[new].session = user /\ tokens'[new].next = 0
        /\ tokens'[t].next = new
        /\ \A u \in DOMAIN tokens :
             /\ tokens'[u].chain = tokens[u].chain
             /\ tokens'[u].held = tokens[u].held
             /\ tokens'[u].session = tokens[u].session
        /\ \A u \in DOMAIN tokens \ {t} :
             /\ tokens'[u].next = tokens[u].next
             /\ tokens'[u].revokedAt = tokens[u].revokedAt
        /\ user' = user /\ clock' = clock
  BY RotateFields
<1>1. ~Live(t)' /\ Live(new)'
  BY <1>0 DEF Live, Inv, Carries, Never
<1>2. /\ new <= MaxTokens
      /\ DOMAIN tokens = 1..Len(tokens) /\ Len(tokens) \in Nat
      /\ UNCHANGED <<excused, mistaken, resets>>
  BY <1>0, Rows DEF Rotate, history, surroundings, Inv
<1> DEFINE l == [Idle EXCEPT !.pc = "return", !.token = new]
<1>3. /\ l \in Local /\ l.pc = "return" /\ l.token = new /\ l.now = 0
      /\ l.session = Nothing
  <2>1. PICK i \in Local : i = Idle /\ i.now = 0 /\ i.session = Nothing
    BY IdleLocal DEF Idle
  <2> QED BY <1>0, <1>1, <2>1 DEF Local
<1>4. proc' = [proc EXCEPT ![p] = l]
  BY <1>0 DEF Rotate
<1> HIDE DEF l
<1>5. TypeOK'
  <2>1. proc' \in [Procs -> Local]
    BY <1>3, <1>4, Moves DEF Inv
  <2>2. ASSUME NEW u \in DOMAIN tokens'
        PROVE  /\ tokens'[u].next \in {0} \cup ((u + 1)..Len(tokens'))
               /\ tokens'[u].revokedAt = Never => tokens'[u].next = 0
    <3>1. CASE u = t
      BY <1>0, <1>1, <1>2, <3>1 DEF Live
    <3>2. CASE u = new
      BY <1>0, <1>1, <3>2
    <3>3. CASE u \in DOMAIN tokens \ {t}
      BY <1>0, <1>1, <1>2, <3>3 DEF Inv, TypeOK
    <3> QED BY <1>0, <1>1, <3>1, <3>2, <3>3
  <2> QED BY <1>0, <1>1, <1>2, <2>1, <2>2 DEF Inv, TypeOK
<1>6. Chained'
  <2>1. new >= 1 /\ Family(p) \in 1..new
    BY <1>0, <1>1, <1>2 DEF Inv, TokensInv, Chained, Family
  <2>2. \A u \in DOMAIN tokens : tokens[u].next # 0 => tokens[u].next \in DOMAIN tokens
    BY <1>2 DEF Inv, TypeOK
  <2> QED BY <1>0, <1>1, <2>1, <2>2 DEF Inv, TokensInv, Chained, Family
<1>7. Headed'
  <2>1. ASSUME NEW a \in DOMAIN tokens', NEW b \in DOMAIN tokens',
               Live(a)', Live(b)', tokens'[a].chain = tokens'[b].chain
        PROVE  a = b
    BY <1>0, <1>1, <2>1 DEF Inv, TokensInv, Headed, Live, Family
  <2>2. ASSUME NEW u \in DOMAIN tokens', tokens'[u].session = user'
        PROVE  ~Dead(tokens[u].chain)'
    <3>1. CASE tokens'[u].chain = Family(p)
      BY <1>0, <1>1, <3>1 DEF Dead
    <3>2. CASE tokens'[u].chain # Family(p)
      <4>1. u \in DOMAIN tokens /\ tokens[u].chain # Family(p)
        BY <1>0, <1>1, <3>2
      <4>2. PICK h \in DOMAIN tokens : Live(h) /\ tokens[h].chain = tokens[u].chain
        BY <1>0, <1>1, <2>2, <4>1 DEF Inv, TokensInv, Headed, Dead
      <4>3. h # t
        BY <1>0, <4>1, <4>2 DEF Family
      <4> QED BY <1>0, <1>1, <4>1, <4>2, <4>3 DEF Dead, Live
    <3> QED BY <3>1, <3>2
  <2> QED BY <2>1, <2>2 DEF Headed
<1>8. \A c : Current(c) => Current(c)'
  BY <1>0, <1>1 DEF Current, Live
<1>9. Honoured'
  <2>1. Former(user)
    BY DEF Inv, TypeOK, User, Former
  <2>2. ASSUME NEW u \in DOMAIN tokens'
        PROVE  /\ Former(tokens[u].session)'
               /\ tokens'[u].held => Current(tokens[u].chain)'
    BY <1>0, <1>1, <1>8, <2>1 DEF Inv, TokensInv, Honoured, Former
  <2> QED BY <1>0, <1>1, <2>2 DEF Inv, TokensInv, Honoured
<1>10. ASSUME NEW q \in Procs \ {p}, NEW m, m = proc[q]
       PROVE  Carries(m)'
  <2>1. Carries(m)
    BY <1>10 DEF Inv
  <2>2. m.pc \in Opening => tokens[m.token].chain # Family(p)
    BY <1>10 DEF Inv, Apart, Opens, Uses, Using, Refreshing, Family, Rotate
  <2>3. m.now \in 0..clock' /\ Former(m.session)'
    BY <1>0, <1>1, <2>1 DEF Carries, Former
  <2>4. m.pc \in Using \cup Opening =>
          /\ m.token \in DOMAIN tokens /\ m.token \in DOMAIN tokens'
          /\ tokens'[m.token].chain = tokens[m.token].chain
          /\ tokens'[m.token].session = tokens[m.token].session
    BY <1>0, <1>1, <2>1 DEF Carries
  <2>5. m.pc = "walk" => /\ m.walk \in DOMAIN tokens' /\ ~Live(m.walk)'
                         /\ tokens'[m.walk].chain = tokens'[m.token].chain
    BY <1>0, <1>1, <2>1, <2>4 DEF Carries, Using, Refreshing, Live
  <2>6. m.pc \in Using => Current(tokens[m.token].chain)'
    BY <1>8, <2>1, <2>4 DEF Carries
  <2>7. m.pc = "rotate" \/ (m.pc = "walk" /\ m.lost > 0)
          => m.session = user' \/ Dead(tokens[m.token].chain)'
    <3>1. \A c : Dead(c) => Dead(c)'
      BY <1>0, <1>1 DEF Dead, Live, Family
    <3> QED BY <1>0, <1>1, <2>1, <2>4, <3>1 DEF Carries, Using, Refreshing
  <2>8. m.pc \in Opening => Solo(m.token)' /\ tokens'[m.token].session = m.session
    BY <1>0, <1>1, <2>1, <2>2, <2>4 DEF Carries, Solo
  <2>9. /\ m.pc = "revoke" => m.session # user'
        /\ m.pc = "find" => m.walk = m.token /\ m.lost = 0
    BY <1>0, <1>1, <2>1 DEF Carries
  <2> QED BY <2>3, <2>4, <2>5, <2>6, <2>7, <2>8, <2>9 DEF Carries
<1>11. Carries(l)'
  <2>1. Current(Family(p))
    BY DEF Inv, Carries, Rotate, Using, Refreshing, Family
  <2>2. Former(Nothing)' /\ 0 \in 0..clock'
    BY <1>0, <1>1, IdleCarries, SessionAssumption DEF Former, Inv, TypeOK
  <2>3. Current(tokens[new].chain)'
    BY <1>0, <1>1, <1>8, <2>1
  <2> QED BY <1>0, <1>1, <1>3, <2>2, <2>3
          DEF Carries, Using, Refreshing, Opening
<1>12. \A q \in Procs \ {p} : Opens(q) => tokens'[new].chain # Family(q)
  BY <1>0, <1>1 DEF Inv, Apart, Uses, Using, Refreshing, Rotate
<1>13. TokensInv'
  BY <1>6, <1>7, <1>9 DEF TokensInv
<1>14. /\ l.pc \notin Opening /\ l.token \in DOMAIN tokens'
       /\ \A q \in Procs \ {p} : Opens(q) => tokens'[l.token].chain # Family(q)
       /\ DOMAIN tokens \subseteq DOMAIN tokens'
       /\ \A u \in DOMAIN tokens : tokens'[u].chain = tokens[u].chain
  BY <1>0, <1>1, <1>3, <1>12 DEF Opening
<1> QED BY <1>3, <1>4, <1>5, <1>10, <1>11, <1>13, <1>14, InvFromParts

LEMMA InsertLocal ==
  ASSUME NEW m \in Local, NEW t \in Nat, NEW now \in Int
  PROVE  [m EXCEPT !.pc = "confirm", !.token = t, !.now = now] \in Local
BY DEF Local

LEMMA InvInsert ==
  ASSUME Inv, NEW p \in Procs, InsertToken(p)
  PROVE  Inv'
<1>0. PICK new : new = Len(tokens) + 1
  OBVIOUS
<1>1. /\ new \notin DOMAIN tokens /\ new \in Nat \ {0}
      /\ DOMAIN tokens' = DOMAIN tokens \cup {new}
      /\ tokens' \in Seq(Token) /\ Len(tokens') = new
      /\ tokens'[new] = New(proc[p].session, new)
      /\ \A u \in DOMAIN tokens : tokens'[u] = tokens[u]
  BY <1>0, InsertGives
<1>2. /\ new <= MaxTokens /\ At(p, "insert")
      /\ DOMAIN tokens = 1..Len(tokens) /\ Len(tokens) \in Nat
      /\ UNCHANGED <<user, clock, excused, mistaken, resets>>
  BY <1>0, Rows DEF InsertToken, history, surroundings, Inv
<1>3. /\ tokens'[new].chain = new /\ ~tokens'[new].held /\ Live(new)'
      /\ tokens'[new].session = proc[p].session /\ tokens'[new].next = 0
  BY <1>1 DEF New, Live
<1>4. PICK m \in Local, now \in Nat : m = proc[p] /\ Carries(m) /\ now = clock
  BY SessionAssumption DEF Inv, TypeOK
<1> DEFINE l == [m EXCEPT !.pc = "confirm", !.token = new, !.now = now]
<1>5. /\ l \in Local /\ l.pc = "confirm" /\ l.token = new /\ l.now = now
      /\ l.session = m.session
  <2>1. l \in Local
    <3>1. new \in Nat /\ now \in Int
      BY <1>1
    <3> QED BY <3>1, InsertLocal, Zenon
  <2>2. /\ l.pc = "confirm" /\ l.token = new /\ l.now = now
        /\ l.session = m.session
    BY DEF Local
  <2> QED BY <2>1, <2>2
<1>6. proc' = [proc EXCEPT ![p] = l]
  BY <1>0, <1>4 DEF InsertToken
<1> HIDE DEF l
<1>7. \A u \in DOMAIN tokens : tokens[u].chain # new
  BY <1>0, <1>2 DEF Inv, TokensInv, Chained
<1>8. TypeOK'
  <2>1. proc' \in [Procs -> Local]
    BY <1>5, <1>6, Moves DEF Inv
  <2>2. ASSUME NEW u \in DOMAIN tokens'
        PROVE  /\ tokens'[u].next \in {0} \cup ((u + 1)..Len(tokens'))
               /\ tokens'[u].revokedAt = Never => tokens'[u].next = 0
    BY <1>0, <1>1, <1>2, <1>3 DEF Inv, TypeOK
  <2> QED BY <1>0, <1>1, <1>2, <2>1, <2>2 DEF Inv, TypeOK
<1>9. Chained'
  <2>1. \A u \in DOMAIN tokens : tokens[u].next # 0 => tokens[u].next \in DOMAIN tokens
    BY <1>2 DEF Inv, TypeOK
  <2> QED BY <1>0, <1>1, <1>3, <2>1 DEF Inv, TokensInv, Chained
<1>10. Headed'
  <2>1. ASSUME NEW a \in DOMAIN tokens', NEW b \in DOMAIN tokens',
               Live(a)', Live(b)', tokens'[a].chain = tokens'[b].chain
        PROVE  a = b
    BY <1>1, <1>3, <1>7, <2>1 DEF Inv, TokensInv, Headed, Live
  <2>2. ASSUME NEW u \in DOMAIN tokens', tokens'[u].session = user'
        PROVE  ~Dead(tokens[u].chain)'
    <3>1. CASE u = new
      BY <1>1, <1>3, <3>1 DEF Dead
    <3>2. CASE u \in DOMAIN tokens
      <4>1. PICK h \in DOMAIN tokens : Live(h) /\ tokens[h].chain = tokens[u].chain
        BY <1>1, <1>2, <2>2, <3>2 DEF Inv, TokensInv, Headed, Dead
      <4> QED BY <1>1, <3>2, <4>1 DEF Dead, Live
    <3> QED BY <1>1, <3>1, <3>2
  <2> QED BY <2>1, <2>2 DEF Headed
<1>11. \A c : c # new => /\ Current(c) => Current(c)'
                         /\ Dead(c) => Dead(c)'
  BY <1>1, <1>2, <1>3 DEF Current, Dead, Live
<1>12. Honoured'
  <2>1. Former(m.session)
    BY <1>4 DEF Carries
  <2>2. ASSUME NEW u \in DOMAIN tokens'
        PROVE  /\ Former(tokens[u].session)'
               /\ tokens'[u].held => Current(tokens[u].chain)'
    BY <1>1, <1>2, <1>3, <1>4, <1>7, <1>11, <2>1
       DEF Inv, TokensInv, Honoured, Former
  <2> QED BY <1>1, <1>2, <2>2 DEF Inv, TokensInv, Honoured
<1>13. ASSUME NEW q \in Procs \ {p}, NEW k, k = proc[q]
       PROVE  Carries(k)'
  <2>1. Carries(k)
    BY <1>13 DEF Inv
  <2>2. k.now \in 0..clock' /\ Former(k.session)'
    BY <1>2, <2>1 DEF Carries, Former
  <2>3. k.pc \in Using \cup Opening =>
          /\ k.token \in DOMAIN tokens /\ k.token \in DOMAIN tokens'
          /\ tokens'[k.token] = tokens[k.token] /\ tokens[k.token].chain # new
    BY <1>1, <1>7, <2>1 DEF Carries
  <2>4. k.pc = "walk" => /\ k.walk \in DOMAIN tokens' /\ ~Live(k.walk)'
                         /\ tokens'[k.walk].chain = tokens'[k.token].chain
    BY <1>1, <2>1, <2>3 DEF Carries, Using, Refreshing, Live
  <2>5. k.pc \in Using => Current(tokens[k.token].chain)'
    BY <1>11, <2>1, <2>3 DEF Carries
  <2>6. k.pc = "rotate" \/ (k.pc = "walk" /\ k.lost > 0)
          => k.session = user' \/ Dead(tokens[k.token].chain)'
    BY <1>2, <1>11, <2>1, <2>3 DEF Carries, Using, Refreshing
  <2>7. k.pc \in Opening => Solo(k.token)' /\ tokens'[k.token].session = k.session
    BY <1>1, <1>3, <2>1, <2>3 DEF Carries, Solo
  <2>8. /\ k.pc = "revoke" => k.session # user'
        /\ k.pc = "find" => k.walk = k.token /\ k.lost = 0
    BY <1>2, <2>1 DEF Carries
  <2> QED BY <2>2, <2>3, <2>4, <2>5, <2>6, <2>7, <2>8 DEF Carries
<1>14. Carries(l)'
  <2>1. Former(l.session)' /\ l.now \in 0..clock'
    BY <1>2, <1>4, <1>5 DEF Carries, Former
  <2>2. Solo(new)'
    BY <1>1, <1>3, <1>7 DEF Solo
  <2> QED BY <1>1, <1>3, <1>4, <1>5, <2>1, <2>2
          DEF Carries, Using, Refreshing, Opening
<1>15. TokensInv'
  BY <1>9, <1>10, <1>12 DEF TokensInv
<1>16. /\ \A u \in DOMAIN tokens : tokens[u].chain # tokens'[l.token].chain
       /\ DOMAIN tokens \subseteq DOMAIN tokens'
       /\ \A u \in DOMAIN tokens : tokens'[u].chain = tokens[u].chain
  BY <1>1, <1>3, <1>5, <1>7
<1> QED BY <1>5, <1>6, <1>8, <1>13, <1>14, <1>15, <1>16, InvFromParts

(* The token of a request is marked: it may be held or revoked by it.      *)
LEMMA CarriesMarked ==
  ASSUME Inv, NEW p \in Procs, Uses(p) \/ Opens(p),
         NEW t \in DOMAIN tokens, t = proc[p].token,
         DOMAIN tokens' = DOMAIN tokens, Live(t)' => Live(t),
         tokens'[t].chain = tokens[t].chain,
         tokens'[t].session = tokens[t].session,
         \A u \in DOMAIN tokens \ {t} : tokens'[u] = tokens[u],
         UNCHANGED <<user, clock>>,
         NEW q \in Procs \ {p}, NEW m, m = proc[q]
  PROVE  Carries(m)'
<1>1. Carries(m)
  BY DEF Inv
<1>2. \A u \in DOMAIN tokens : /\ Live(u)' => Live(u)
                               /\ tokens'[u].chain = tokens[u].chain
                               /\ tokens'[u].session = tokens[u].session
  BY DEF Live
<1>3. \A c : /\ Current(c) => Current(c)'
             /\ Dead(c) => Dead(c)'
  BY <1>2 DEF Current, Dead
<1>4. m.pc \in Using \cup Opening => m.token \in DOMAIN tokens
  BY <1>1 DEF Carries
<1>5. m.pc = "walk" => /\ m.walk \in DOMAIN tokens' /\ ~Live(m.walk)'
                       /\ tokens'[m.walk].chain = tokens'[m.token].chain
  BY <1>1, <1>2, <1>4 DEF Carries, Using, Refreshing
<1>6. m.pc \in Using => Current(tokens[m.token].chain)'
  BY <1>1, <1>2, <1>3, <1>4 DEF Carries
<1>7. m.pc = "rotate" \/ (m.pc = "walk" /\ m.lost > 0)
        => m.session = user' \/ Dead(tokens[m.token].chain)'
  BY <1>1, <1>2, <1>3, <1>4 DEF Carries, Using, Refreshing
<1>8. m.pc \in Opening => Solo(m.token)' /\ tokens'[m.token].session = m.session
  <2>1. m.pc \in Opening => m.token # t
    BY DEF Inv, Apart, Opens, Family
  <2> QED BY <1>1, <1>2, <1>4, <2>1 DEF Carries, Solo
<1>9. /\ m.now \in 0..clock' /\ Former(m.session)'
      /\ m.pc = "revoke" => m.session # user'
      /\ m.pc = "find" => m.walk = m.token /\ m.lost = 0
  BY <1>1 DEF Carries, Former
<1> QED BY <1>4, <1>5, <1>6, <1>7, <1>8, <1>9 DEF Carries

LEMMA InvReturn ==
  ASSUME Inv, NEW p \in Procs, Return(p)
  PROVE  Inv'
<1>1. PICK t \in DOMAIN tokens :
        t = proc[p].token /\ Uses(p) /\ Current(tokens[t].chain)
  BY DEF Inv, Carries, Return, Uses, Using
<1>2. PICK r \in Token : r = tokens[t]
  BY Rows DEF Inv
<1> DEFINE row == [r EXCEPT !.held = TRUE]
<1>3. /\ row \in Token /\ row.chain = r.chain /\ row.session = r.session
      /\ row.next = r.next /\ row.revokedAt = r.revokedAt
  BY DEF Token
<1>4. tokens' = [tokens EXCEPT ![t] = row]
  BY <1>1, <1>2 DEF Return
<1> HIDE DEF row
<1>5. /\ tokens' \in Seq(Token) /\ DOMAIN tokens' = DOMAIN tokens
      /\ Len(tokens') = Len(tokens) /\ tokens'[t] = row
      /\ \A u \in DOMAIN tokens \ {t} : tokens'[u] = tokens[u]
  BY <1>3, <1>4, Marks DEF Inv
<1>6. /\ UNCHANGED <<user, clock, resets, excused, mistaken>>
      /\ proc' = [proc EXCEPT ![p] = Idle]
  BY DEF Return, history, surroundings
<1>7. \A u \in DOMAIN tokens :
        /\ tokens'[u].chain = tokens[u].chain
        /\ tokens'[u].session = tokens[u].session
        /\ tokens'[u].next = tokens[u].next
        /\ tokens'[u].revokedAt = tokens[u].revokedAt
        /\ u # t => tokens'[u].held = tokens[u].held
  BY <1>2, <1>3, <1>5
<1>8. TypeOK'
  <2>1. proc' \in [Procs -> Local]
    BY <1>6, Moves, IdleLocal DEF Inv
  <2> QED BY <1>5, <1>6, <1>7, <2>1 DEF Inv, TypeOK
<1>9. TokensInv'
  <2>1. DOMAIN tokens' = DOMAIN tokens /\ user' = user
    BY <1>5, <1>6
  <2>2. \A u \in DOMAIN tokens : tokens[u].next # 0 => tokens[u].next \in DOMAIN tokens
    BY Rows DEF Inv, TypeOK
  <2>3. Chained'
    BY <1>7, <2>1, <2>2 DEF Inv, TokensInv, Chained
  <2>4. Headed'
    BY <1>7, <2>1 DEF Inv, TokensInv, Headed, Live, Dead
  <2>5. \A c : Current(c) => Current(c)'
    BY <1>7, <2>1 DEF Current, Live
  <2>6. ASSUME NEW u \in DOMAIN tokens, tokens'[u].held
        PROVE  Current(tokens[u].chain)'
    <3>1. Current(tokens[u].chain)
      BY <1>1, <1>7, <2>6 DEF Inv, TokensInv, Honoured
    <3> QED BY <1>7, <2>5, <3>1
  <2>7. Honoured'
    BY <1>7, <2>1, <2>6 DEF Inv, TokensInv, Honoured, Former
  <2> QED BY <2>3, <2>4, <2>7 DEF TokensInv
<1>10. Live(t)' => Live(t)
  BY <1>7 DEF Live
<1>11. ASSUME NEW q \in Procs \ {p}, NEW m, m = proc[q]
       PROVE  Carries(m)'
  BY <1>1, <1>5, <1>6, <1>7, <1>10, <1>11, CarriesMarked
<1>12. Carries(Idle)'
  BY <1>6, IdleCarries
     DEF Carries, Former, Using, Refreshing, Opening
<1>13. Idle.pc \notin Using \cup Opening
  BY DEF Idle, Using, Refreshing, Opening
<1> QED BY <1>5, <1>6, <1>7, <1>8, <1>9, <1>11, <1>12, <1>13, IdleLocal,
           InvFromParts

(* A login that gives up its session revokes the one token of its chain.   *)
LEMMA InvRevokeOwn ==
  ASSUME Inv, NEW p \in Procs, RevokeOwn(p)
  PROVE  Inv'
<1>1. PICK m \in Local : m = proc[p] /\ Carries(m) /\ m.pc = "revoke"
  BY DEF Inv, TypeOK, RevokeOwn
<1>2. PICK t \in DOMAIN tokens :
        /\ t = m.token /\ Solo(t) /\ Opens(p)
        /\ tokens[t].session # user
  BY <1>1 DEF Carries, Opening, Opens
<1>3. PICK r \in Token, now \in Int :
        r = tokens[t] /\ now = m.now /\ now # Never
  BY <1>1, Rows, SessionAssumption DEF Inv, Local, Carries, Never, TypeOK
<1> DEFINE row == [r EXCEPT !.revokedAt = now, !.next = 0]
<1>4. /\ row \in Token /\ row.chain = r.chain /\ row.session = r.session
      /\ row.next = 0 /\ row.revokedAt = now /\ row.held = r.held
  BY DEF Token
<1>5. tokens' = [tokens EXCEPT ![t] = row]
  BY <1>1, <1>2, <1>3 DEF RevokeOwn
<1> HIDE DEF row
<1>6. /\ tokens' \in Seq(Token) /\ DOMAIN tokens' = DOMAIN tokens
      /\ Len(tokens') = Len(tokens) /\ tokens'[t] = row
      /\ \A u \in DOMAIN tokens \ {t} : tokens'[u] = tokens[u]
  BY <1>4, <1>5, Marks DEF Inv
<1>7. /\ UNCHANGED <<user, clock, resets, excused, mistaken>>
      /\ proc' = [proc EXCEPT ![p] = Idle]
  BY DEF RevokeOwn, history, surroundings
<1>8. /\ ~Live(t)' /\ tokens'[t].next = 0
      /\ \A u \in DOMAIN tokens :
           /\ tokens'[u].chain = tokens[u].chain
           /\ tokens'[u].session = tokens[u].session
           /\ tokens'[u].held = tokens[u].held
           /\ Live(u)' => Live(u)
  BY <1>3, <1>4, <1>6 DEF Live
<1>9. TypeOK'
  <2>1. proc' \in [Procs -> Local]
    BY <1>7, Moves, IdleLocal DEF Inv
  <2>2. ASSUME NEW u \in DOMAIN tokens
        PROVE  /\ tokens'[u].next \in {0} \cup ((u + 1)..Len(tokens'))
               /\ tokens'[u].revokedAt = Never => tokens'[u].next = 0
    BY <1>4, <1>6 DEF Inv, TypeOK
  <2> QED BY <1>6, <1>7, <2>1, <2>2 DEF Inv, TypeOK
<1>10. TokensInv'
  <2>1. DOMAIN tokens' = DOMAIN tokens /\ user' = user
    BY <1>6, <1>7
  <2>2. \A u \in DOMAIN tokens : tokens[u].next # 0 => tokens[u].next \in DOMAIN tokens
    BY Rows DEF Inv, TypeOK
  <2>3. Chained'
    BY <1>6, <1>8, <2>1, <2>2 DEF Inv, TokensInv, Chained
  <2>4. ASSUME NEW u \in DOMAIN tokens, tokens'[u].session = user
        PROVE  ~Dead(tokens[u].chain)'
    <3>1. PICK h \in DOMAIN tokens : Live(h) /\ tokens[h].chain = tokens[u].chain
      BY <1>8, <2>4 DEF Inv, TokensInv, Headed, Dead
    <3>2. h # t
      BY <1>2, <1>8, <2>4, <3>1 DEF Solo
    <3>3. Live(h)' /\ tokens'[h].chain = tokens'[u].chain
      BY <1>6, <1>8, <3>1, <3>2 DEF Live
    <3> QED BY <2>1, <3>3 DEF Dead
  <2>5. Headed'
    BY <1>8, <2>1, <2>4 DEF Inv, TokensInv, Headed
  <2>6. \A c : Current(c) => Current(c)'
    BY <1>8, <2>1 DEF Current
  <2>7. Honoured'
    BY <1>8, <2>1, <2>6 DEF Inv, TokensInv, Honoured, Former
  <2> QED BY <2>3, <2>5, <2>7 DEF TokensInv
<1>11. ASSUME NEW q \in Procs \ {p}, NEW k, k = proc[q]
       PROVE  Carries(k)'
  BY <1>1, <1>2, <1>6, <1>7, <1>8, <1>11, CarriesMarked
<1>12. Carries(Idle)'
  BY <1>7, IdleCarries
     DEF Carries, Former, Using, Refreshing, Opening
<1>13. Idle.pc \notin Using \cup Opening
  BY DEF Idle, Using, Refreshing, Opening
<1> QED BY <1>6, <1>7, <1>8, <1>9, <1>10, <1>11, <1>12, <1>13, IdleLocal,
           InvFromParts

(* Every session ends: the chains are dead and the user is a new one.      *)
LEMMA InvRevoke ==
  ASSUME Inv, NEW at \in 0..clock, tokens' = RevokedAll(at),
         NEW u2 \in User, user' = u2, u2.version = user.version + 1,
         clock' = clock, resets' \in 0..MaxResets,
         excused' \in BOOLEAN, mistaken' \in BOOLEAN,
         proc' \in [Procs -> Local],
         \A q \in Procs : proc'[q] = proc[q] \/ proc'[q] = Idle
  PROVE  Inv'
<1>1. /\ tokens' \in Seq(Token) /\ DOMAIN tokens' = DOMAIN tokens
      /\ Len(tokens') = Len(tokens)
      /\ \A t \in DOMAIN tokens :
           /\ tokens'[t].revokedAt # Never
           /\ tokens'[t].chain = tokens[t].chain
           /\ tokens'[t].next = tokens[t].next
           /\ tokens'[t].session = tokens[t].session
           /\ tokens'[t].held = tokens[t].held
  BY RevokeGives DEF Inv
<1>2. \A t \in DOMAIN tokens' : ~Live(t)'
  BY <1>1 DEF Live
<1>3. TypeOK'
  BY <1>1 DEF Inv, TypeOK
<1>4. \A s \in User : Former(s) => /\ s # u2 /\ s.version < u2.version
                                   /\ Former(s)'
  <2>1. user.version \in Nat
    BY DEF Inv, TypeOK, User
  <2> QED BY <2>1 DEF Former, User
<1>5. \A c : Current(c)' /\ Dead(c)'
  BY <1>2 DEF Current, Dead
<1>6. TokensInv'
  <2>1. \A t \in DOMAIN tokens : tokens[t].session \in User /\ Former(tokens[t].session)
    BY Rows DEF Inv, Token, TokensInv, Honoured
  <2>2. \A t \in DOMAIN tokens : tokens[t].next # 0 => tokens[t].next \in DOMAIN tokens
    BY Rows DEF Inv, TypeOK
  <2>3. Chained'
    BY <1>1, <2>2 DEF Inv, TokensInv, Chained
  <2>4. \A t \in DOMAIN tokens : tokens'[t].session # user'
    BY <1>1, <1>4, <2>1
  <2>5. Headed'
    BY <1>1, <1>2, <2>4 DEF Headed
  <2>6. user'.version >= 1
    BY DEF Inv, TypeOK, User, TokensInv, Honoured
  <2>7. \A t \in DOMAIN tokens : Former(tokens[t].session)'
    <3> SUFFICES ASSUME NEW t \in DOMAIN tokens, NEW s, s = tokens[t].session
                 PROVE  Former(s)' /\ s = tokens'[t].session
      BY <1>1 DEF Former
    <3> QED BY <1>1, <1>4, <2>1
  <2>8. Honoured'
    BY <1>1, <1>5, <2>6, <2>7 DEF Honoured
  <2> QED BY <2>3, <2>5, <2>8 DEF TokensInv
<1>7. ASSUME NEW m \in Local, Carries(m) PROVE Carries(m)'
  <2>1. m.session \in User /\ m.session # u2 /\ Former(m.session)'
    <3>1. m.session \in User /\ Former(m.session)
      BY <1>7 DEF Local, Carries
    <3> QED BY <1>4, <3>1 DEF Former
  <2>2. m.pc \in Opening => Solo(m.token)' /\ tokens'[m.token].session = m.session
    BY <1>1, <1>7 DEF Carries, Solo
  <2>3. m.pc = "walk" => /\ m.walk \in DOMAIN tokens' /\ ~Live(m.walk)'
                         /\ tokens'[m.walk].chain = tokens'[m.token].chain
    BY <1>1, <1>2, <1>7 DEF Carries, Using, Refreshing
  <2> QED BY <1>1, <1>5, <1>7, <2>1, <2>2, <2>3 DEF Carries
<1>8. ASSUME NEW q \in Procs PROVE Carries(proc[q])'
  <2>1. PICK m \in Local : m = proc'[q] /\ (m = proc[q] \/ m = Idle)
    OBVIOUS
  <2>2. Carries(m)
    BY <2>1, IdleCarries DEF Inv
  <2> QED BY <1>7, <2>1, <2>2 DEF Carries
<1>9. Apart'
  <2> SUFFICES ASSUME NEW a \in Procs, NEW b \in Procs, a # b,
                      Opens(a)', (Uses(b) \/ Opens(b))'
               PROVE  (Family(a) # Family(b))'
    BY DEF Apart
  <2>1. proc'[a] = proc[a] /\ proc'[b] = proc[b]
    BY IdleCarries DEF Opens, Uses, Opening, Using, Refreshing
  <2>2. Opens(a) /\ (Uses(b) \/ Opens(b))
    BY <2>1 DEF Opens, Uses
  <2>3. proc[a].token \in DOMAIN tokens /\ proc[b].token \in DOMAIN tokens
    BY <2>2 DEF Inv, Carries, Opens, Uses
  <2> QED BY <1>1, <2>1, <2>2, <2>3 DEF Inv, Apart, Family
<1> QED BY <1>3, <1>6, <1>8, <1>9 DEF Inv

LEMMA InvRevokes ==
  ASSUME Inv,
         \/ ResetPassword
         \/ \E p \in Procs : Reuse(p) \/ Logout(p)
  PROVE  Inv'
<1>1. CASE ResetPassword
  <2>1. user' \in User /\ user'.version = user.version + 1
    BY <1>1 DEF ResetPassword, User, Inv, TypeOK
  <2>2. /\ clock \in 0..clock /\ clock' = clock /\ resets' \in 0..MaxResets
        /\ excused' \in BOOLEAN /\ mistaken' \in BOOLEAN
        /\ tokens' = RevokedAll(clock) /\ proc' = proc
        /\ proc' \in [Procs -> Local]
    BY <1>1, SessionAssumption DEF ResetPassword, Inv, TypeOK
  <2> QED BY <2>1, <2>2, InvRevoke
<1>2. ASSUME NEW p \in Procs, Reuse(p) \/ Logout(p) PROVE Inv'
  <2>1. user' \in User /\ user'.version = user.version + 1
    BY <1>2 DEF Reuse, Logout, RevokeAll, User, Inv, TypeOK
  <2>2. /\ proc[p].now \in 0..clock /\ UNCHANGED <<clock, resets>>
        /\ excused' \in BOOLEAN /\ mistaken' \in BOOLEAN
        /\ tokens' = RevokedAll(proc[p].now)
        /\ proc' = [proc EXCEPT ![p] = Idle]
    BY <1>2 DEF Reuse, Logout, RevokeAll, surroundings, Inv, TypeOK, Carries
  <2>3. /\ proc' \in [Procs -> Local] /\ proc'[p] = Idle
        /\ \A q \in Procs \ {p} : proc'[q] = proc[q]
    BY <2>2, Moves, IdleLocal DEF Inv
  <2> QED BY <2>1, <2>2, <2>3, InvRevoke DEF Inv, TypeOK
<1> QED BY <1>1, <1>2

LEMMA InvNext == Inv /\ [Next]_vars => Inv'
<1> SUFFICES ASSUME Inv, [Next]_vars PROVE Inv'
  OBVIOUS
<1>1. CASE UNCHANGED vars
  <2>1. TypeOK' /\ TokensInv' /\ Apart'
    BY <1>1 DEF vars, Inv, TypeOK, TokensInv, Chained, Headed, Honoured,
                Former, Dead, Current, Live, Apart, Uses, Opens, Family
  <2>2. ASSUME NEW q \in Procs PROVE Carries(proc[q])'
    BY <1>1 DEF vars, Inv, Carries, Former, Current, Dead, Live, Solo
  <2> QED BY <2>1, <2>2 DEF Inv
<1>2. ASSUME NEW p \in Procs, Step(p) PROVE Inv'
  <2>1. CASE FindByHash(p) \/ Walk(p) \/ ReadUser(p) \/ RotationLost(p)
    BY <2>1, InvStepQuiet
  <2>2. CASE WalkEnds(p)
    <3>1. /\ proc[p].now \in 0..clock
          /\ UNCHANGED <<user, tokens, clock, resets>>
          /\ excused' \in BOOLEAN /\ mistaken' \in BOOLEAN
          /\ proc' = [proc EXCEPT ![p] =
                        [Idle EXCEPT !.pc = "reuse", !.now = proc[p].now]]
      BY <2>2 DEF WalkEnds, surroundings, Inv, TypeOK, Carries
    <3>2. PICK now \in 0..clock : now = proc[p].now
      BY <3>1
    <3> QED BY <3>1, <3>2, InvEnds
  <2>3. CASE Stop(p)
    BY <2>3, InvQuits DEF Stop, surroundings
  <2>4. CASE Reuse(p) \/ Logout(p)
    BY <2>4, InvRevokes
  <2> QED BY <1>2, <2>1, <2>2, <2>3, <2>4, InvRotate, InvReturn, InvVerify,
             InvInsert, InvConfirm, InvRevokeOwn DEF Step
<1>3. ASSUME NEW p \in Procs, NEW t \in DOMAIN tokens, FindForLogout(p, t)
      PROVE  Inv'
  <2>1. PICK now \in 0..clock : now = clock
    BY SessionAssumption DEF Inv, TypeOK
  <2>2. /\ UNCHANGED <<user, tokens, clock, resets>>
        /\ excused' \in BOOLEAN /\ mistaken' \in BOOLEAN
        /\ proc' = [proc EXCEPT ![p] =
                      [Idle EXCEPT !.pc = "logout", !.now = now]]
    BY <1>3, <2>1 DEF FindForLogout, history, surroundings, Inv, TypeOK
  <2> QED BY <2>2, InvEnds
<1> QED BY <1>1, <1>2, <1>3, InvPresent, InvRevokes, InvTick DEF Next

LEMMA InvInit == Init => Inv
<1> SUFFICES ASSUME Init PROVE Inv
  OBVIOUS
<1>1. /\ tokens = << >> /\ DOMAIN tokens = {} /\ Len(tokens) = 0
      /\ tokens \in Seq(Token)
  BY DEF Init
<1>2. /\ user \in User /\ user.version = 1 /\ clock = 0 /\ 0 \in 0..clock
      /\ \A p \in Procs : proc[p] = Idle
  BY DEF Init, User
<1>3. TypeOK
  <2>1. proc \in [Procs -> Local]
    BY IdleLocal DEF Init
  <2>2. clock \in 0..MaxClock /\ resets \in 0..MaxResets /\ Len(tokens) <= MaxTokens
    BY <1>1, SessionAssumption DEF Init
  <2> QED BY <1>1, <1>2, <2>1, <2>2 DEF Init, TypeOK
<1>4. TokensInv
  BY <1>1, <1>2 DEF TokensInv, Chained, Headed, Honoured
<1>5. Idle.pc = "idle" /\ Idle.now = 0 /\ Idle.session = Nothing
  BY DEF Idle
<1>6. Former(Nothing)
  BY <1>2 DEF Former, Nothing
<1>7. Carries(Idle)
  BY <1>2, <1>5, <1>6 DEF Carries, Using, Refreshing, Opening
<1>8. Apart
  BY <1>2, <1>5 DEF Apart, Opens, Opening
<1> QED BY <1>2, <1>3, <1>4, <1>7, <1>8 DEF Inv

LEMMA Invariance == Spec => []Inv
<1>1. Init => Inv
  BY InvInit
<1>2. Inv /\ [Next]_vars => Inv'
  BY InvNext
<1> QED BY <1>1, <1>2, PTL DEF Spec

-----------------------------------------------------------------------------
(* Theorems. *)

(* Every state is well typed: chains only grow forward, a live token has   *)
(* no successor, and no more tokens are inserted than the bound allows.    *)
THEOREM TypeCorrect == Spec => []TypeOK
<1>1. Inv => TypeOK
  BY DEF Inv
<1> QED BY <1>1, Invariance, PTL

(* A live token that a client has is of the present password and           *)
(* auth_version, for any overlap of logins, refreshes, logouts and resets. *)
THEOREM HeldCurrent == Spec => []HeldIsCurrent
<1>1. Inv => HeldIsCurrent
  BY DEF Inv, TokensInv, Honoured, Current, HeldIsCurrent
<1> QED BY <1>1, Invariance, PTL

(* Racing and interrupted refreshes neither fork a chain nor end it.       *)
THEOREM SingleHead == Spec => []OneHead
<1>1. ASSUME Inv PROVE OneHead
  <2> SUFFICES ASSUME NEW t \in DOMAIN tokens, tokens[t].session = user
               PROVE  Cardinality(Heads(tokens[t].chain)) = 1
    BY DEF OneHead
  <2>1. PICK h \in DOMAIN tokens : Live(h) /\ tokens[h].chain = tokens[t].chain
    BY <1>1 DEF Inv, TokensInv, Headed, Dead
  <2>2. Heads(tokens[t].chain) = {h}
    BY <1>1, <2>1 DEF Inv, TokensInv, Headed, Heads, Chain
  <2> QED BY <2>2, FS_Singleton
<1> QED BY <1>1, Invariance, PTL

-----------------------------------------------------------------------------
(* A race within the grace is not a reuse.  As long as nothing excuses a   *)
(* reuse, every request under way began in the present tick, so the token  *)
(* it stands on was live then or revoked within the grace; and a revoked   *)
(* token leads to one that is live or was revoked no earlier.              *)

InTime(t, now) == Live(t) \/ tokens[t].revokedAt >= now - Grace

Leading ==
  \A t \in DOMAIN tokens : ~Live(t) =>
    /\ tokens[t].revokedAt <= clock
    /\ tokens[t].next # 0
    /\ \/ Live(tokens[t].next)
       \/ tokens[tokens[t].next].revokedAt >= tokens[t].revokedAt

(* A request with local state l.                                           *)
Timely(l) ==
  /\ l.pc \notin {"revoke", "reuse"}
  /\ l.pc \in {"insert", "confirm"} => l.session = user
  /\ l.pc \in Refreshing => l.now = clock
  /\ l.pc \in {"find", "user", "rotate"} => InTime(l.token, l.now)
  /\ l.pc = "walk" => InTime(l.walk, l.now)

Unexcused == Leading /\ \A p \in Procs : Timely(proc[p])
ExcuseInv == ~mistaken /\ (~excused => Unexcused)

LEMMA IdleTimely == Timely(Idle) /\ Idle.pc = "idle"
BY DEF Timely, Idle, Refreshing

(* A request moves and the tokens stay.                                    *)
LEMMA UnexcusedMoves ==
  ASSUME Inv, Unexcused, UNCHANGED <<user, tokens, clock>>,
         NEW p \in Procs, NEW l, proc' = [proc EXCEPT ![p] = l], Timely(l)
  PROVE  Unexcused'
<1>1. proc'[p] = l /\ \A q \in Procs \ {p} : proc'[q] = proc[q]
  BY DEF Inv, TypeOK
<1>2. Leading'
  BY DEF Unexcused, Leading, Live
<1>3. ASSUME NEW q \in Procs PROVE Timely(proc[q])'
  <2>1. PICK m : m = proc'[q] /\ Timely(m)
    BY <1>1 DEF Unexcused
  <2> QED BY <2>1 DEF Timely, InTime, Live
<1> QED BY <1>2, <1>3 DEF Unexcused

LEMMA UnexcusedRefresh ==
  ASSUME Inv, Unexcused, NEW p \in Procs,
         \/ FindByHash(p) \/ Walk(p) \/ ReadUser(p) \/ RotationLost(p)
  PROVE  Unexcused'
<1>1. PICK m \in Local : m = proc[p] /\ Carries(m) /\ Timely(m)
  BY DEF Inv, TypeOK, Unexcused
<1>2. UNCHANGED <<user, tokens, clock>>
  BY DEF FindByHash, Walk, ReadUser, RotationLost, surroundings
<1>3. CASE FindByHash(p)
  <2>1. m.pc = "find" /\ m.walk = m.token /\ InTime(m.token, m.now) /\ m.now = clock
    BY <1>1, <1>3 DEF FindByHash, Carries, Timely, Refreshing
  <2>2. PICK l : /\ proc' = [proc EXCEPT ![p] = l]
                 /\ \/ l = Idle
                    \/ l = [m EXCEPT !.pc = "user", !.walk = 0]
                    \/ l = [m EXCEPT !.pc = "walk"]
    BY <1>1, <1>3 DEF FindByHash
  <2>3. Timely(l)
    <3>1. CASE l = [m EXCEPT !.pc = "user", !.walk = 0]
      <4>1. l.pc = "user" /\ l.token = m.token /\ l.now = m.now
        BY <3>1 DEF Local
      <4> QED BY <2>1, <4>1 DEF Timely
    <3>2. CASE l = [m EXCEPT !.pc = "walk"]
      <4>1. l.pc = "walk" /\ l.walk = m.walk /\ l.now = m.now
        BY <3>2 DEF Local
      <4> QED BY <2>1, <4>1 DEF Timely
    <3> QED BY <2>2, <3>1, <3>2, IdleTimely
  <2> QED BY <1>2, <2>2, <2>3, UnexcusedMoves
<1>4. CASE ReadUser(p)
  <2> DEFINE l == [m EXCEPT !.pc = "rotate", !.session = user]
  <2>1. l.pc = "rotate" /\ l.token = m.token /\ l.now = m.now
    BY <1>1 DEF Local
  <2>2. proc' = [proc EXCEPT ![p] = l]
    BY <1>1, <1>4 DEF ReadUser
  <2> HIDE DEF l
  <2>3. InTime(m.token, m.now) /\ m.now = clock
    BY <1>1, <1>4 DEF ReadUser, Timely, Refreshing
  <2>4. Timely(l)
    BY <2>1, <2>3 DEF Timely
  <2> QED BY <1>2, <2>2, <2>4, UnexcusedMoves
<1>5. CASE RotationLost(p)
  <2> DEFINE l == [m EXCEPT !.pc = "walk", !.walk = m.token, !.hops = 0,
                            !.lost = m.lost + 1]
  <2>1. l.pc = "walk" /\ l.walk = m.token /\ l.now = m.now
    BY <1>1 DEF Local
  <2>2. proc' = [proc EXCEPT ![p] = l]
    BY <1>1, <1>5 DEF RotationLost
  <2> HIDE DEF l
  <2>3. InTime(m.token, m.now) /\ m.now = clock
    BY <1>1, <1>5 DEF RotationLost, Timely, Refreshing
  <2>4. Timely(l)
    BY <2>1, <2>3 DEF Timely
  <2> QED BY <1>2, <2>2, <2>4, UnexcusedMoves
<1>6. CASE Walk(p)
  <2> DEFINE next == tokens[m.walk].next
  <2>1. /\ m.pc = "walk" /\ m.walk \in DOMAIN tokens /\ ~Live(m.walk)
        /\ InTime(m.walk, m.now) /\ m.now = clock
    BY <1>1, <1>6 DEF Walk, Carries, Timely, Refreshing
  <2>2. next \in DOMAIN tokens
    BY <2>1, Rows DEF Inv, TypeOK, Unexcused, Leading
  <2>3. InTime(next, m.now)
    <3>1. CASE Live(next)
      BY <3>1 DEF InTime
    <3>2. CASE ~Live(next)
      <4>1. /\ tokens[next].revokedAt >= tokens[m.walk].revokedAt
            /\ tokens[m.walk].revokedAt >= m.now - Grace
        BY <2>1, <3>2 DEF Unexcused, Leading, InTime
      <4>2. /\ tokens[next].revokedAt \in Int /\ m.now \in Int /\ Grace \in Int
            /\ tokens[m.walk].revokedAt \in Int
        BY <1>1, <2>1, <2>2, Rows, SessionAssumption DEF Inv, Token, Local
      <4> QED BY <4>1, <4>2 DEF InTime
    <3> QED BY <3>1, <3>2
  <2>4. PICK l : /\ proc' = [proc EXCEPT ![p] = l]
                 /\ \/ l = Idle
                    \/ l = [m EXCEPT !.walk = next, !.hops = @ + 1]
                    \/ \E step \in {"user", "rotate"} :
                         l = [m EXCEPT !.token = next, !.walk = 0, !.hops = 0,
                                       !.pc = step]
    <3>1. PICK step \in {"user", "rotate"} :
            step = IF proc[p].lost = 0 THEN "user" ELSE "rotate"
      OBVIOUS
    <3> QED BY <1>1, <1>6, <3>1 DEF Walk
  <2> HIDE DEF next
  <2>5. Timely(l)
    <3>1. CASE l = [m EXCEPT !.walk = next, !.hops = @ + 1]
      <4>1. l.pc = "walk" /\ l.walk = next /\ l.now = m.now
        BY <2>1, <3>1 DEF Local
      <4> QED BY <2>1, <2>3, <4>1 DEF Timely
    <3>2. ASSUME NEW step \in {"user", "rotate"},
                 l = [m EXCEPT !.token = next, !.walk = 0, !.hops = 0,
                               !.pc = step]
          PROVE  Timely(l)
      <4>1. l.pc = step /\ l.token = next /\ l.now = m.now
        BY <3>2 DEF Local
      <4> QED BY <2>1, <2>3, <4>1 DEF Timely
    <3> QED BY <2>4, <3>1, <3>2, IdleTimely
  <2> QED BY <1>2, <2>4, <2>5, UnexcusedMoves
<1> QED BY <1>3, <1>4, <1>5, <1>6

(* The walk does not end while nothing excuses a reuse.                    *)
LEMMA WalkGoesOn ==
  ASSUME Inv, Unexcused, NEW p \in Procs, WalkEnds(p)
  PROVE  proc[p].hops = WalkLimit
<1>1. PICK m \in Local : m = proc[p] /\ Carries(m) /\ Timely(m) /\ m.pc = "walk"
  BY DEF Inv, TypeOK, Unexcused, WalkEnds
<1>2. /\ m.walk \in DOMAIN tokens /\ ~Live(m.walk)
      /\ tokens[m.walk].next # 0
  BY <1>1 DEF Carries, Unexcused, Leading
<1>3. ~TooLate(m.walk, m.now)
  <2>1. /\ tokens[m.walk].revokedAt \in Int /\ m.now \in Int /\ Grace \in Int
        /\ tokens[m.walk].revokedAt >= m.now - Grace
    BY <1>1, <1>2, Rows, SessionAssumption DEF Inv, Token, Local, Timely, InTime
  <2> QED BY <2>1 DEF TooLate
<1> QED BY <1>1, <1>2, <1>3 DEF WalkEnds, OffTheChain

LEMMA UnexcusedRotate ==
  ASSUME Inv, Unexcused, NEW p \in Procs, Rotate(p)
  PROVE  Unexcused'
<1>0. PICK t \in DOMAIN tokens, new \in Nat :
        /\ t = proc[p].token /\ new = Len(tokens) + 1
        /\ Live(t) /\ tokens'[t].revokedAt = proc[p].now
        /\ new \notin DOMAIN tokens /\ tokens'[new].revokedAt = Never
        /\ DOMAIN tokens' = DOMAIN tokens \cup {new}
        /\ tokens' \in Seq(Token) /\ Len(tokens') = new
        /\ tokens'[new].chain = Family(p) /\ ~tokens'[new].held
        /\ tokens'[new].session = user /\ tokens'[new].next = 0
        /\ tokens'[t].next = new
        /\ \A u \in DOMAIN tokens :
             /\ tokens'[u].chain = tokens[u].chain
             /\ tokens'[u].held = tokens[u].held
             /\ tokens'[u].session = tokens[u].session
        /\ \A u \in DOMAIN tokens \ {t} :
             /\ tokens'[u].next = tokens[u].next
             /\ tokens'[u].revokedAt = tokens[u].revokedAt
        /\ user' = user /\ clock' = clock
  BY RotateFields
<1>1. PICK now \in Nat : now = clock /\ proc[p].now = now /\ now # Never
  <2>1. proc[p].now = clock /\ clock \in Nat
    BY SessionAssumption DEF Unexcused, Timely, Rotate, Refreshing, Inv, TypeOK
  <2> QED BY <2>1 DEF Never
<1>2. ~Live(t)' /\ Live(new)' /\ tokens'[t].revokedAt = now
  BY <1>0, <1>1 DEF Live
<1>3. Leading'
  <2> SUFFICES ASSUME NEW u \in DOMAIN tokens', ~Live(u)'
               PROVE  /\ tokens'[u].revokedAt <= now /\ tokens'[u].next # 0
                      /\ \/ tokens'[tokens'[u].next].revokedAt = Never
                         \/ tokens'[tokens'[u].next].revokedAt >= tokens'[u].revokedAt
    BY <1>0, <1>1 DEF Leading, Live
  <2>1. CASE u = t
    BY <1>0, <1>1, <1>2, <2>1
  <2>2. CASE u # t
    <3>1. u \in DOMAIN tokens /\ ~Live(u)
      BY <1>0, <1>2, <2>2 DEF Live
    <3>2. PICK v : v = tokens[u].next /\ v # 0
      BY <3>1 DEF Unexcused, Leading
    <3>3. v \in DOMAIN tokens
      BY <3>1, <3>2, Rows DEF Inv, TypeOK
    <3>4. /\ tokens[u].revokedAt <= now
          /\ Live(v) \/ tokens[v].revokedAt >= tokens[u].revokedAt
      BY <1>1, <3>1, <3>2 DEF Unexcused, Leading
    <3>5. tokens'[u].next = v /\ tokens'[u].revokedAt = tokens[u].revokedAt
      BY <1>0, <2>2, <3>1, <3>2
    <3>6. CASE v = t
      <4>1. tokens[u].revokedAt \in Int
        BY <3>1, Rows DEF Inv, Token
      <4> QED BY <1>1, <1>2, <3>2, <3>4, <3>5, <3>6, <4>1
    <3>7. CASE v # t
      <4>1. tokens'[v].revokedAt = tokens[v].revokedAt
        BY <1>0, <3>3, <3>7
      <4> QED BY <3>2, <3>4, <3>5, <4>1 DEF Live
    <3> QED BY <3>6, <3>7
  <2> QED BY <2>1, <2>2
<1> DEFINE l == [Idle EXCEPT !.pc = "return", !.token = new]
<1>4. l.pc = "return"
  BY DEF Idle
<1>5. proc'[p] = l /\ \A q \in Procs \ {p} : proc'[q] = proc[q]
  BY <1>0 DEF Rotate, Inv, TypeOK
<1> HIDE DEF l
<1>6. \A u \in DOMAIN tokens : InTime(u, now) => InTime(u, now)'
  <2> SUFFICES ASSUME NEW u \in DOMAIN tokens, InTime(u, now)
               PROVE  InTime(u, now)'
    OBVIOUS
  <2>1. CASE u = t
    <3>1. now >= now - Grace
      BY <1>1, SessionAssumption
    <3> QED BY <1>2, <2>1, <3>1 DEF InTime
  <2>2. CASE u # t
    BY <1>0, <2>2 DEF InTime, Live
  <2> QED BY <2>1, <2>2
<1>7. ASSUME NEW q \in Procs PROVE Timely(proc[q])'
  <2>1. CASE q = p
    <3>1. Timely(l)'
      BY <1>4 DEF Timely, Refreshing
    <3> QED BY <1>5, <2>1, <3>1 DEF Timely
  <2>2. CASE q # p
    <3>1. PICK m : m = proc[q] /\ m = proc'[q] /\ Timely(m) /\ Carries(m)
      BY <1>5, <2>2 DEF Unexcused, Inv
    <3>2. m.pc \in Refreshing => m.now = now /\ m.token \in DOMAIN tokens
      BY <1>1, <3>1 DEF Timely, Carries, Using
    <3>3. m.pc = "walk" => m.walk \in DOMAIN tokens
      BY <3>1 DEF Carries
    <3>4. m.pc \in {"find", "user", "rotate"} => InTime(m.token, m.now)'
      BY <1>6, <3>1, <3>2 DEF Timely, Refreshing
    <3>5. m.pc = "walk" => InTime(m.walk, m.now)'
      BY <1>6, <3>1, <3>2, <3>3 DEF Timely, Refreshing
    <3>6. /\ m.pc \notin {"revoke", "reuse"}
          /\ m.pc \in {"insert", "confirm"} => m.session = user'
          /\ m.pc \in Refreshing => m.now = clock'
      BY <1>0, <3>1 DEF Timely
    <3>7. Timely(m)'
      BY <3>4, <3>5, <3>6 DEF Timely
    <3> QED BY <3>1, <3>7 DEF Timely
  <2> QED BY <2>1, <2>2
<1> QED BY <1>3, <1>7 DEF Unexcused

(* The other steps that change tokens or the clock.                        *)
LEMMA UnexcusedRest ==
  ASSUME Inv, Unexcused,
         \/ Tick /\ ~excused'
         \/ \E p \in Procs : Return(p) \/ InsertToken(p)
  PROVE  Unexcused'
<1>1. CASE Tick /\ ~excused'
  <2>1. /\ UNCHANGED <<user, tokens, proc>> /\ clock' = clock + 1
        /\ \A q \in Procs : proc[q].pc = "idle"
    BY <1>1 DEF Tick
  <2>2. Leading'
    <3>1. \A t \in DOMAIN tokens : tokens[t].revokedAt \in Int
      BY Rows DEF Inv, Token
    <3>2. clock \in Int
      BY DEF Inv, TypeOK
    <3> QED BY <2>1, <3>1, <3>2 DEF Unexcused, Leading, Live
  <2>3. \A q \in Procs : Timely(proc[q])'
    BY <2>1 DEF Timely, Refreshing
  <2> QED BY <2>2, <2>3 DEF Unexcused
<1>2. ASSUME NEW p \in Procs, Return(p) PROVE Unexcused'
  <2>1. PICK t \in DOMAIN tokens : t = proc[p].token
    BY <1>2 DEF Inv, Carries, Return, Using
  <2>2. PICK r \in Token : r = tokens[t]
    BY Rows DEF Inv
  <2> DEFINE row == [r EXCEPT !.held = TRUE]
  <2>3. row \in Token /\ row.next = r.next /\ row.revokedAt = r.revokedAt
    BY DEF Token
  <2>4. tokens' = [tokens EXCEPT ![t] = row]
    BY <1>2, <2>1, <2>2 DEF Return
  <2> HIDE DEF row
  <2>5. /\ DOMAIN tokens' = DOMAIN tokens
        /\ \A u \in DOMAIN tokens :
             /\ tokens'[u].next = tokens[u].next
             /\ tokens'[u].revokedAt = tokens[u].revokedAt
    BY <2>2, <2>3, <2>4, Marks DEF Inv
  <2>6. UNCHANGED <<user, clock>> /\ proc' = [proc EXCEPT ![p] = Idle]
    BY <1>2 DEF Return, surroundings
  <2>7. Leading'
    <3>1. \A u \in DOMAIN tokens : tokens[u].next # 0 => tokens[u].next \in DOMAIN tokens
      BY Rows DEF Inv, TypeOK
    <3> QED BY <2>5, <2>6, <3>1 DEF Unexcused, Leading, Live
  <2>8. ASSUME NEW q \in Procs PROVE Timely(proc[q])'
    <3>1. PICK m : /\ m = proc'[q] /\ Timely(m)
                   /\ m.pc \in Refreshing => m.token \in DOMAIN tokens
                   /\ m.pc = "walk" => m.walk \in DOMAIN tokens
      <4>1. proc'[p] = Idle /\ \A k \in Procs \ {p} : proc'[k] = proc[k]
        BY <2>6 DEF Inv, TypeOK
      <4> QED BY <4>1, IdleTimely
              DEF Unexcused, Inv, Carries, Using, Refreshing
    <3>2. \A u \in DOMAIN tokens : InTime(u, m.now) => InTime(u, m.now)'
      BY <2>5 DEF InTime, Live
    <3>3. /\ m.pc \in {"find", "user", "rotate"} => InTime(m.token, m.now)'
          /\ m.pc = "walk" => InTime(m.walk, m.now)'
      BY <3>1, <3>2 DEF Timely, Refreshing
    <3> QED BY <2>6, <3>1, <3>3 DEF Timely
  <2> QED BY <2>7, <2>8 DEF Unexcused
<1>3. ASSUME NEW p \in Procs, InsertToken(p) PROVE Unexcused'
  <2>0. PICK new : new = Len(tokens) + 1
    OBVIOUS
  <2>1. /\ new \notin DOMAIN tokens /\ DOMAIN tokens' = DOMAIN tokens \cup {new}
        /\ tokens'[new] = New(proc[p].session, new)
        /\ \A u \in DOMAIN tokens : tokens'[u] = tokens[u]
    BY <1>3, <2>0, InsertGives
  <2>2. Live(new)' /\ UNCHANGED <<user, clock>>
    <3>1. tokens'[new].revokedAt = Never
      BY <2>1 DEF New
    <3>2. UNCHANGED <<user, clock>>
      BY <1>3 DEF InsertToken, surroundings
    <3> QED BY <3>1, <3>2 DEF Live
  <2>3. Leading'
    <3>1. \A u \in DOMAIN tokens : tokens[u].next # 0 => tokens[u].next \in DOMAIN tokens
      BY Rows DEF Inv, TypeOK
    <3> QED BY <2>1, <2>2, <3>1 DEF Unexcused, Leading, Live
  <2>4. PICK m \in Local : m = proc[p] /\ Timely(m) /\ m.pc = "insert"
    BY <1>3 DEF Inv, TypeOK, Unexcused, InsertToken
  <2> DEFINE l == [m EXCEPT !.pc = "confirm", !.token = new, !.now = clock]
  <2>5. l.pc = "confirm" /\ l.session = m.session
    BY DEF Local
  <2>6. proc' = [proc EXCEPT ![p] = l]
    BY <1>3, <2>0, <2>4 DEF InsertToken
  <2> HIDE DEF l
  <2>7. PICK k : k = l
    OBVIOUS
  <2>8. proc'[p] = k /\ \A q \in Procs \ {p} : proc'[q] = proc[q]
    BY <2>6, <2>7 DEF Inv, TypeOK
  <2>9. ASSUME NEW q \in Procs PROVE Timely(proc[q])'
    <3>1. CASE q = p
      <4>1. k.pc = "confirm" /\ k.session = user'
        BY <2>2, <2>4, <2>5, <2>7 DEF Timely
      <4>2. Timely(k)'
        BY <4>1 DEF Timely, Refreshing
      <4> QED BY <2>8, <3>1, <4>2 DEF Timely
    <3>2. CASE q # p
      <4>1. PICK i : /\ i = proc'[q] /\ Timely(i)
                     /\ i.pc \in Refreshing => i.token \in DOMAIN tokens
                     /\ i.pc = "walk" => i.walk \in DOMAIN tokens
        BY <2>8, <3>2 DEF Unexcused, Inv, Carries, Using, Refreshing
      <4>2. \A u \in DOMAIN tokens : InTime(u, i.now) => InTime(u, i.now)'
        BY <2>1 DEF InTime, Live
      <4>3. /\ i.pc \in {"find", "user", "rotate"} => InTime(i.token, i.now)'
            /\ i.pc = "walk" => InTime(i.walk, i.now)'
        BY <4>1, <4>2 DEF Timely, Refreshing
      <4> QED BY <2>2, <4>1, <4>3 DEF Timely
    <3> QED BY <3>1, <3>2
  <2> QED BY <2>3, <2>9 DEF Unexcused
<1> QED BY <1>1, <1>2, <1>3

LEMMA UnexcusedGoes ==
  ASSUME Inv, Unexcused, NEW p \in Procs,
         \/ VerifyPassword(p) \/ Confirm(p) \/ Stop(p)
         \/ \E t \in DOMAIN tokens : \/ Present(p, t) /\ ~excused'
                                     \/ FindForLogout(p, t)
  PROVE  Unexcused'
<1>1. PICK m \in Local : m = proc[p] /\ Timely(m)
  BY DEF Inv, TypeOK, Unexcused
<1>2. UNCHANGED <<user, tokens, clock>>
  BY DEF VerifyPassword, Confirm, Stop, Present, FindForLogout, surroundings
<1>3. PICK now \in Nat : now = clock
  BY SessionAssumption DEF Inv, TypeOK
<1>4. CASE Stop(p)
  BY <1>2, <1>4, IdleTimely, UnexcusedMoves DEF Stop
<1>5. CASE VerifyPassword(p)
  <2>1. PICK u : u = user
    OBVIOUS
  <2> DEFINE l == [Idle EXCEPT !.pc = "insert", !.session = u]
  <2>2. l.pc = "insert" /\ l.session = u /\ proc' = [proc EXCEPT ![p] = l]
    BY <1>5, <2>1 DEF Idle, VerifyPassword
  <2> HIDE DEF l
  <2>3. Timely(l)
    BY <2>1, <2>2 DEF Timely, Refreshing
  <2> QED BY <1>2, <2>2, <2>3, UnexcusedMoves
<1>6. CASE Confirm(p)
  <2> DEFINE l == [Idle EXCEPT !.pc = "return", !.token = m.token]
  <2>1. l.pc = "return" /\ user = m.session
    BY <1>1, <1>6 DEF Idle, Confirm, Timely
  <2>2. proc' = [proc EXCEPT ![p] = l]
    BY <1>1, <1>6, <2>1 DEF Confirm
  <2> HIDE DEF l
  <2>3. Timely(l)
    BY <2>1 DEF Timely, Refreshing
  <2> QED BY <1>2, <2>2, <2>3, UnexcusedMoves
<1>7. ASSUME NEW t \in DOMAIN tokens, FindForLogout(p, t) PROVE Unexcused'
  <2> DEFINE l == [Idle EXCEPT !.pc = "logout", !.now = now]
  <2>1. l.pc = "logout" /\ proc' = [proc EXCEPT ![p] = l]
    BY <1>3, <1>7 DEF Idle, FindForLogout
  <2> HIDE DEF l
  <2>2. Timely(l)
    BY <2>1 DEF Timely, Refreshing
  <2> QED BY <1>2, <2>1, <2>2, UnexcusedMoves
<1>8. ASSUME NEW t \in DOMAIN tokens, Present(p, t), ~excused'
      PROVE  Unexcused'
  <2> DEFINE l == [Idle EXCEPT !.pc = "find", !.token = t, !.walk = t,
                               !.now = now]
  <2>1. l.pc = "find" /\ l.token = t /\ l.now = now
    BY DEF Idle
  <2>2. proc' = [proc EXCEPT ![p] = l]
    BY <1>3, <1>8 DEF Present
  <2> HIDE DEF l
  <2>3. ~TooLate(t, now)
    BY <1>3, <1>8 DEF Present
  <2>4. tokens[t].revokedAt \in Int /\ now - Grace \in Int
    BY Rows, SessionAssumption DEF Inv, Token
  <2>5. InTime(t, now)
    BY <2>3, <2>4 DEF TooLate, InTime
  <2>6. Timely(l)
    BY <1>3, <2>1, <2>5 DEF Timely
  <2> QED BY <1>2, <2>2, <2>6, UnexcusedMoves
<1> QED BY <1>4, <1>5, <1>6, <1>7, <1>8

LEMMA ExcuseNext == Inv /\ ExcuseInv /\ [Next]_vars => ExcuseInv'
<1> SUFFICES ASSUME Inv, ExcuseInv, [Next]_vars PROVE ExcuseInv'
  OBVIOUS
<1>1. excused => excused'
  <2>1. excused \in BOOLEAN
    BY DEF Inv, TypeOK
  <2> QED BY <2>1 DEF Next, Step, FindByHash, Walk, WalkEnds, ReadUser, Rotate,
             RotationLost, Return, Reuse, VerifyPassword, InsertToken, Confirm,
             RevokeOwn, Logout, Stop, Present, FindForLogout, ResetPassword,
             Tick, history, vars
<1>2. ~mistaken'
  <2>1. CASE \E p \in Procs : Reuse(p)
    <3>1. PICK p \in Procs : Reuse(p) /\ proc[p].pc = "reuse"
      BY <2>1 DEF Reuse
    <3>2. excused
      BY <3>1 DEF ExcuseInv, Unexcused, Timely
    <3> QED BY <3>1, <3>2 DEF Reuse, ExcuseInv
  <2>2. CASE ~(\E p \in Procs : Reuse(p))
    BY <2>2 DEF ExcuseInv, Next, Step, FindByHash, Walk, WalkEnds, ReadUser,
                Rotate, RotationLost, Return, VerifyPassword, InsertToken,
                Confirm, RevokeOwn, Logout, Stop, Present, FindForLogout,
                ResetPassword, Tick, history, vars
  <2> QED BY <2>1, <2>2
<1>3. ASSUME ~excused' PROVE Unexcused'
  <2>1. Unexcused /\ ~excused
    BY <1>1, <1>3 DEF ExcuseInv
  <2>2. CASE UNCHANGED vars
    <3>1. Leading'
      BY <2>1, <2>2 DEF vars, Unexcused, Leading, Live
    <3>2. ASSUME NEW q \in Procs PROVE Timely(proc[q])'
      BY <2>1, <2>2 DEF vars, Unexcused, Timely, InTime, Live
    <3> QED BY <3>1, <3>2 DEF Unexcused
  <2>3. ASSUME NEW p \in Procs, Step(p) PROVE Unexcused'
    <3>1. ~Reuse(p) /\ ~RevokeOwn(p)
      BY <2>1 DEF Unexcused, Timely, Reuse, RevokeOwn
    <3>2. ~Logout(p)
      BY <1>3 DEF Logout
    <3>3. ~WalkEnds(p)
      BY <1>3, <2>1, WalkGoesOn DEF WalkEnds
    <3> QED BY <2>1, <2>3, <3>1, <3>2, <3>3, UnexcusedRefresh,
               UnexcusedRotate, UnexcusedRest, UnexcusedGoes DEF Step
  <2>4. CASE ResetPassword
    BY <1>3, <2>4 DEF ResetPassword
  <2>5. CASE Tick
    BY <1>3, <2>1, <2>5, UnexcusedRest
  <2>6. ASSUME NEW p \in Procs, NEW t \in DOMAIN tokens,
               Present(p, t) \/ FindForLogout(p, t)
        PROVE  Unexcused'
    BY <1>3, <2>1, <2>6, UnexcusedGoes
  <2> QED BY <2>2, <2>3, <2>4, <2>5, <2>6 DEF Next
<1> QED BY <1>2, <1>3 DEF ExcuseInv

(* Clients that race or repeat a refresh within the grace are not taken    *)
(* for thieves, for any grace and any limits of the walk and the retries.  *)
THEOREM RaceNotReuse == Spec => []RaceIsNotReuse
<1>1. Init => ExcuseInv
  <2>1. ASSUME Init PROVE ~mistaken /\ Leading
    BY <2>1 DEF Init, Leading
  <2>2. ASSUME Init, NEW q \in Procs PROVE Timely(proc[q])
    BY <2>2, IdleTimely DEF Init
  <2> QED BY <2>1, <2>2 DEF ExcuseInv, Unexcused
<1>2. Inv /\ ExcuseInv /\ [Next]_vars => ExcuseInv'
  BY ExcuseNext
<1>3. ExcuseInv => RaceIsNotReuse
  BY DEF ExcuseInv, RaceIsNotReuse
<1> QED BY <1>1, <1>2, <1>3, Invariance, PTL DEF Spec
=============================================================================
