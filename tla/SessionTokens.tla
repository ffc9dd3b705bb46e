--------------------------- MODULE SessionTokens ---------------------------
(***************************************************************************)
(* The sessions of one user: a login opens a chain of refresh tokens, each *)
(* refresh rotates the live head of its chain, and a logout, a password    *)
(* reset or a detected reuse revokes them all.  Requests overlap, stop at  *)
(* every await and may be cut off anywhere; clients race, repeat requests  *)
(* whose response was lost and present old tokens.                         *)
(*                                                                         *)
(* A token is named by its position; tokens do not expire.                 *)
(***************************************************************************)
EXTENDS Integers, Sequences, FiniteSets

CONSTANTS
  Procs,            (* requests that may overlap                         *)
  Grace,            (* REFRESH_REUSE_GRACE_MS, in ticks                  *)
  WalkLimit,        (* CHAIN_WALK_LIMIT                                  *)
  RotationAttempts, (* ROTATION_ATTEMPTS                                 *)
  MaxTokens,        (* bound: refresh tokens inserted                    *)
  MaxResets,        (* bound: password resets                            *)
  MaxClock          (* bound: ticks                                      *)

ASSUME SessionAssumption ==
  /\ Grace \in Nat
  /\ WalkLimit \in Nat \ {0}
  /\ RotationAttempts \in Nat \ {0}
  /\ MaxTokens \in Nat
  /\ MaxResets \in Nat
  /\ MaxClock \in Nat

VARIABLES
  user,     (* password and auth_version of the user                     *)
  tokens,   (* refresh_tokens                                            *)
  clock,
  proc,     (* local state of every request                              *)
  resets,   (* password resets so far                                    *)
  excused,  (* history: there has been a reason to detect a reuse        *)
  mistaken  (* history: a reuse was detected without one                 *)

vars == <<user, tokens, clock, proc, resets, excused, mistaken>>

(* Before any time; the revoked_at of a live token.                        *)
Never == -1

User == [password : Nat, version : Nat]

(* chain is the first token of the chain, session the user its session was *)
(* opened or refreshed for; held once a client has the token; known while  *)
(* the hash is that of the token.                                          *)
Token == [revokedAt : Int, next : Nat, chain : Nat, session : User,
          held : BOOLEAN, known : BOOLEAN]

(* token is presented, rotated or inserted; walk is where the walk along   *)
(* the chain is, lost how many rotations were lost.                        *)
Local == [pc : {"idle", "find", "walk", "user", "rotate", "return", "reuse",
                "verify", "insert", "confirm", "revoke", "logout"},
          token : Nat, walk : Nat, hops : Nat, lost : Nat, now : Int,
          session : User]
Nothing == [password |-> 0, version |-> 0]
Idle == [pc |-> "idle", token |-> 0, walk |-> 0, hops |-> 0, lost |-> 0,
         now |-> 0, session |-> Nothing]

TypeOK ==
  /\ user \in User
  /\ tokens \in Seq(Token)
  /\ Len(tokens) <= MaxTokens
  /\ \A t \in DOMAIN tokens :
       /\ tokens[t].next \in {0} \cup ((t + 1)..Len(tokens))
       /\ tokens[t].revokedAt = Never => tokens[t].next = 0
  /\ clock \in 0..MaxClock
  /\ proc \in [Procs -> Local]
  /\ resets \in 0..MaxResets
  /\ excused \in BOOLEAN
  /\ mistaken \in BOOLEAN

Init ==
  /\ user = [password |-> 1, version |-> 1]
  /\ tokens = << >>
  /\ clock = 0
  /\ proc = [p \in Procs |-> Idle]
  /\ resets = 0
  /\ excused = FALSE
  /\ mistaken = FALSE

-----------------------------------------------------------------------------
(* Helpers. *)

At(p, step) == proc[p].pc = step
Become(p, local) == proc' = [proc EXCEPT ![p] = local]

Live(t) == tokens[t].revokedAt = Never
Known(t) == t \in DOMAIN tokens /\ tokens[t].known
Chain(c) == {t \in DOMAIN tokens : tokens[t].chain = c}
Heads(c) == {t \in Chain(c) : Live(t)}

New(session, chain) ==
  [revokedAt |-> Never, next |-> 0, chain |-> chain, session |-> session,
   held |-> FALSE, known |-> TRUE]

(* SessionSecurityRepo.statements: every token is revoked and loses its    *)
(* hash.                                                                   *)
RevokedAll(at) ==
  [t \in DOMAIN tokens |->
     [tokens[t] EXCEPT !.revokedAt = IF Live(t) THEN at ELSE @,
                       !.known = FALSE]]

(* revokeAllForUser, for a request that knows the time as at.              *)
RevokeAll(at) ==
  /\ tokens' = RevokedAll(at)
  /\ user' = [user EXCEPT !.version = @ + 1]

history == <<excused, mistaken>>
surroundings == <<clock, resets>>

-----------------------------------------------------------------------------
(* Refresh. *)

TooLate(t, now) == ~Live(t) /\ tokens[t].revokedAt < now - Grace

(* Any token a client has been given is presented, by it or by a thief;    *)
(* one that has lost its hash would be refused at once.                    *)
Present(p, t) ==
  /\ At(p, "idle")
  /\ tokens[t].held
  /\ Known(t)
  /\ Become(p, [Idle EXCEPT !.pc = "find", !.token = t, !.walk = t,
                            !.now = clock])
  /\ excused' = (excused \/ TooLate(t, clock))
  /\ UNCHANGED <<user, tokens, mistaken, surroundings>>

FindByHash(p) ==
  LET t == proc[p].token IN
  /\ At(p, "find")
  /\ Become(p, CASE ~Known(t) -> Idle
                 [] Known(t) /\ Live(t) -> [proc[p] EXCEPT !.pc = "user", !.walk = 0]
                 [] OTHER -> [proc[p] EXCEPT !.pc = "walk"])
  /\ UNCHANGED <<user, tokens, history, surroundings>>

(* One hop of liveHeadWithinGrace.  The fields of a revoked token do not   *)
(* change, so the walk needs only its name.                                *)
OffTheChain(p) ==
  LET t == proc[p].walk IN
  TooLate(t, proc[p].now) \/ tokens[t].next = 0 \/ proc[p].hops = WalkLimit

Walk(p) ==
  LET next == tokens[proc[p].walk].next IN
  /\ At(p, "walk")
  /\ ~OffTheChain(p)
  /\ Become(p,
       CASE ~Live(next) -> [proc[p] EXCEPT !.walk = next, !.hops = @ + 1]
         [] Live(next) /\ proc[p].lost = RotationAttempts -> Idle
         [] OTHER -> [proc[p] EXCEPT !.token = next, !.walk = 0, !.hops = 0,
                        !.pc = IF proc[p].lost = 0 THEN "user" ELSE "rotate"])
  /\ UNCHANGED <<user, tokens, history, surroundings>>

WalkEnds(p) ==
  /\ At(p, "walk")
  /\ OffTheChain(p)
  /\ Become(p, [Idle EXCEPT !.pc = "reuse", !.now = proc[p].now])
  /\ excused' = (excused \/ proc[p].hops = WalkLimit)
  /\ UNCHANGED <<user, tokens, mistaken, surroundings>>

ReadUser(p) ==
  /\ At(p, "user")
  /\ Become(p, [proc[p] EXCEPT !.pc = "rotate", !.session = user])
  /\ UNCHANGED <<user, tokens, history, surroundings>>

(* Mutant: the claim does not look whether the token was revoked.          *)
RotatableAnyhow(t) == t \in DOMAIN tokens

(* The WHERE of the claim in rotate.                                       *)
Rotatable(t) == Live(t)

(* Mutant: the token is replaced but not revoked.                          *)
RotateUnrevoked(p) ==
  LET t == proc[p].token
      new == Len(tokens) + 1 IN
  /\ At(p, "rotate")
  /\ Rotatable(t)
  /\ new <= MaxTokens
  /\ tokens' = Append([tokens EXCEPT ![t].next = new],
                      New(proc[p].session, tokens[t].chain))
  /\ Become(p, [Idle EXCEPT !.pc = "return", !.token = new])
  /\ UNCHANGED <<user, history, surroundings>>

(* rotate: claim and insert in one batch.                                  *)
Rotate(p) ==
  LET t == proc[p].token
      new == Len(tokens) + 1 IN
  /\ At(p, "rotate")
  /\ Rotatable(t)
  /\ new <= MaxTokens
  /\ tokens' = Append([tokens EXCEPT ![t].revokedAt = proc[p].now,
                                     ![t].next = new],
                      New(proc[p].session, tokens[t].chain))
  /\ Become(p, [Idle EXCEPT !.pc = "return", !.token = new])
  /\ UNCHANGED <<user, history, surroundings>>

(* Mutant: a lost rotation is taken for a reuse.                           *)
RotationLostReuse(p) ==
  /\ At(p, "rotate")
  /\ ~Rotatable(proc[p].token)
  /\ Become(p, [Idle EXCEPT !.pc = "reuse", !.now = proc[p].now])
  /\ UNCHANGED <<user, tokens, history, surroundings>>

(* Another request rotated the token, or revoked it.                       *)
RotationLost(p) ==
  /\ At(p, "rotate")
  /\ ~Rotatable(proc[p].token)
  /\ Become(p, [proc[p] EXCEPT !.pc = "walk", !.walk = proc[p].token,
                               !.hops = 0, !.lost = @ + 1])
  /\ UNCHANGED <<user, tokens, history, surroundings>>

(* The response arrives.                                                   *)
Return(p) ==
  /\ At(p, "return")
  /\ tokens' = [tokens EXCEPT ![proc[p].token].held = TRUE]
  /\ Become(p, Idle)
  /\ UNCHANGED <<user, history, surroundings>>

Reuse(p) ==
  /\ At(p, "reuse")
  /\ RevokeAll(proc[p].now)
  /\ Become(p, Idle)
  /\ mistaken' = (mistaken \/ ~excused)
  /\ UNCHANGED <<excused, surroundings>>

-----------------------------------------------------------------------------
(* Login, verify email, logout and password reset. *)

(* The password is right for the user that was read.                       *)
VerifyPassword(p) ==
  /\ At(p, "idle")
  /\ Len(tokens) < MaxTokens
  /\ Become(p, [Idle EXCEPT !.pc = "insert", !.session = user])
  /\ UNCHANGED <<user, tokens, history, surroundings>>

(* Mutant: the session is returned as soon as its token is inserted.       *)
InsertTokenTrusting(p) ==
  LET new == Len(tokens) + 1 IN
  /\ At(p, "insert")
  /\ new <= MaxTokens
  /\ tokens' = Append(tokens, New(proc[p].session, new))
  /\ Become(p, [Idle EXCEPT !.pc = "return", !.token = new])
  /\ UNCHANGED <<user, history, surroundings>>

InsertToken(p) ==
  LET new == Len(tokens) + 1 IN
  /\ At(p, "insert")
  /\ new <= MaxTokens
  /\ tokens' = Append(tokens, New(proc[p].session, new))
  /\ Become(p, [proc[p] EXCEPT !.pc = "confirm", !.token = new,
                               !.now = clock])
  /\ UNCHANGED <<user, history, surroundings>>

(* The user is read again: a reset may have come in between.               *)
Confirm(p) ==
  /\ At(p, "confirm")
  /\ Become(p, IF user = proc[p].session
               THEN [Idle EXCEPT !.pc = "return", !.token = proc[p].token]
               ELSE [proc[p] EXCEPT !.pc = "revoke"])
  /\ UNCHANGED <<user, tokens, history, surroundings>>

RevokeOwn(p) ==
  /\ At(p, "revoke")
  /\ tokens' = [tokens EXCEPT ![proc[p].token].revokedAt = proc[p].now,
                              ![proc[p].token].next = 0]
  /\ Become(p, Idle)
  /\ UNCHANGED <<user, history, surroundings>>

(* Logout finds the token by its hash, whether it is live or not.          *)
FindForLogout(p, t) ==
  /\ At(p, "idle")
  /\ tokens[t].held
  /\ Known(t)
  /\ Become(p, [Idle EXCEPT !.pc = "logout", !.now = clock])
  /\ UNCHANGED <<user, tokens, history, surroundings>>

Logout(p) ==
  /\ At(p, "logout")
  /\ RevokeAll(proc[p].now)
  /\ excused' = TRUE
  /\ Become(p, Idle)
  /\ UNCHANGED <<mistaken, surroundings>>

(* resetPasswordAndRevokeAll, after a reset link was used up.              *)
ResetPassword ==
  /\ resets < MaxResets
  /\ resets' = resets + 1
  /\ tokens' = RevokedAll(clock)
  /\ user' = [password |-> user.password + 1, version |-> user.version + 1]
  /\ excused' = TRUE
  /\ UNCHANGED <<clock, proc, mistaken>>

-----------------------------------------------------------------------------

(* The request is cut off, or its response lost.                           *)
Stop(p) ==
  /\ ~At(p, "idle")
  /\ Become(p, Idle)
  /\ UNCHANGED <<user, tokens, history, surroundings>>

Tick ==
  /\ clock < MaxClock
  /\ clock' = clock + 1
  /\ excused' = (excused \/ \E p \in Procs : ~At(p, "idle"))
  /\ UNCHANGED <<user, tokens, proc, resets, mistaken>>

Step(p) ==
  \/ FindByHash(p) \/ Walk(p) \/ WalkEnds(p) \/ ReadUser(p) \/ Rotate(p)
  \/ RotationLost(p) \/ Return(p) \/ Reuse(p) \/ VerifyPassword(p)
  \/ InsertToken(p) \/ Confirm(p) \/ RevokeOwn(p) \/ Logout(p) \/ Stop(p)

Next ==
  \/ \E p \in Procs : Step(p)
  \/ \E p \in Procs : \E t \in DOMAIN tokens : Present(p, t) \/ FindForLogout(p, t)
  \/ ResetPassword
  \/ Tick

Spec == Init /\ [][Next]_vars

-----------------------------------------------------------------------------
(* Properties. *)

(* A live token that a client has belongs to a session of the present      *)
(* password and auth_version: a login that verified the old password while *)
(* a reset ran, or a refresh that was under way during a logout, leaves    *)
(* nobody with a session (login.ts:77-97, refresh_token_repo.ts rotate).   *)
HeldIsCurrent ==
  \A t \in DOMAIN tokens :
    tokens[t].held /\ Live(t) => tokens[t].session = user

(* As long as nothing was revoked, a chain whose token a client has been   *)
(* given has exactly one live token: racing refreshes do not fork it, and  *)
(* a request cut off in the middle of one does not end it.                 *)
OneHead ==
  \A t \in DOMAIN tokens :
    tokens[t].held /\ tokens[t].session = user
      => Cardinality(Heads(tokens[t].chain)) = 1

(* Clients that present the same token at once, or again after a lost      *)
(* response, within the grace are not taken for thieves: a reuse is found  *)
(* only after a token was presented too late, after a logout or a reset    *)
(* under way, after a request that outlived a tick of the clock, or when   *)
(* the chain grew past the walk limit (refresh.ts, liveHeadWithinGrace).   *)
RaceIsNotReuse == ~mistaken
=============================================================================
