--------------------------- MODULE AccountsProofs ---------------------------
(* Proofs about Accounts, for every value of its constants.                *)
EXTENDS Accounts, FiniteSetTheorems, TLAPS

-----------------------------------------------------------------------------
(* The inductive invariant.                                                *)

NeedUser    == {"find", "isLocked", "compare", "failRead", "failWrite", "success", "touch",
                "giveCode", "checkSelf", "createIdentity", "findOwner", "countOthers",
                "unbindWrite"}
NeedAccount == {"delState", "findIdentity", "storePending", "register", "checkSelf",
                "createIdentity", "findOwner", "countOthers", "unbindWrite"}
LinkPcs     == {"find", "isLocked", "compare", "success"}

\* What a request q knows: who it is about, and from where it goes on.
Knows(q) ==
  /\ q.pc \in NeedUser => q.user \in Users
  /\ q.pc \in NeedAccount => q.account \in Accounts
  /\ q.pc \in LinkPcs /\ q.op = "link" => q.account \in Accounts
  /\ q.pc = "delState" => q.code \in Codes

Aimed == \A p \in Requests : Knows(req[p])

\* A removed user stays removed: a callback that found its identity after the
\* removal does not get as far as a code.
GoneIsRemoved ==
  \A p \in Requests :
    req[p].gone => req[p].pc = "touch" /\ user[req[p].user].state = "removed"

Unbinding(p) == req[p].pc \in UnbindPcs

\* An unbind that is not stale is about an identity its user has.
UnbindsOwn ==
  \A p \in Requests : Unbinding(p) /\ ~req[p].stale => identity[req[p].account] = req[p].user

UnbindsNoticed ==
  \A p, q \in Requests :
    p # q /\ Unbinding(p) /\ Unbinding(q) /\ req[p].user = req[q].user => req[p].user \in raced

\* What the count has found is there until the write.
HasOther(u, a) == user[u].credential \/ \E b \in Accounts : b # a /\ identity[b] = u

CountHolds ==
  \A p \in Requests : req[p].pc = "unbindWrite" /\ ~req[p].stale =>
    HasOther(req[p].user, req[p].account) \/ req[p].user \in raced

Parts == Aimed /\ GoneIsRemoved /\ UnbindsOwn /\ UnbindsNoticed /\ CountHolds /\ AlwaysAWayIn

IInv == TypeOK /\ Parts

-----------------------------------------------------------------------------
\* A request that has not begun.
LEMMA Beginning == IdleRequest \in Request /\ IdleRequest.pc = "idle" /\ ~IdleRequest.gone
  BY DEF IdleRequest, Request, Pcs

LEMMA NoKeyIsCode == NoKey \in Code /\ About(NoKey)
  BY DEF NoKey, Code, About

LEMMA Initially == Init => IInv
<1> SUFFICES ASSUME Init PROVE IInv
  OBVIOUS
<1>1. TypeOK
  <2>1. AbsentUser \in User
    BY DEF AbsentUser, User
  <2>2. guess \in [Users -> Guess]
    BY DEF Init, Guess
  <2>3. now \in 1 .. MaxTime
    BY AccountsAssumption DEF Init
  <2> QED BY <2>1, <2>2, <2>3, Beginning, NoKeyIsCode DEF Init, TypeOK
<1>2. Aimed /\ GoneIsRemoved /\ UnbindsOwn /\ UnbindsNoticed /\ CountHolds
  BY Beginning DEF Init, Aimed, Knows, GoneIsRemoved, UnbindsOwn, UnbindsNoticed, CountHolds,
     Unbinding, NeedUser, NeedAccount, LinkPcs, UnbindPcs
<1>3. AlwaysAWayIn
  BY DEF Init, AlwaysAWayIn, Exists, AbsentUser
<1> QED BY <1>1, <1>2, <1>3 DEF IInv, Parts

LEMMA Summed ==
  IInv => TypeOK /\ AlwaysAWayIn /\ RemovedGetNoTokens
  BY DEF IInv, Parts, GoneIsRemoved, RemovedGetNoTokens

-----------------------------------------------------------------------------
(* All steps but the write of an unbind: requests go on, users and         *)
(* identities are added, codes come and go.                                *)

USE DEF IInv, Parts, TypeOK

CodesTyped == code' \in [Codes -> Code] /\ \A c \in Codes : About(code'[c])

\* What happens to the users and the identities.
Grows ==
  /\ user' \in [Users -> User] /\ identity' \in [Accounts -> Users \cup {NoUser}]
  /\ \A u \in Users :
       /\ user[u].state = "removed" => user'[u].state = "removed"
       /\ user[u].credential => user'[u].credential
       /\ user'[u].state = "live" =>
            \/ user[u].state = "live" \/ user'[u].credential
            \/ \E b \in Accounts : identity'[b] = u
  /\ \A a \in Accounts : identity[a] # NoUser => identity'[a] = identity[a]

\* A request p may become q: what the invariant says of q.
MayBecome(p, q, overlaps) ==
  /\ Knows(q)
  /\ q.gone => q.pc = "touch" /\ user[q.user].state = "removed"
  /\ q.pc \in UnbindPcs =>
       /\ ~q.stale => identity[q.account] = q.user
       /\ \A r \in Requests \ {p} :
            Unbinding(r) /\ req[r].user = q.user => q.user \in overlaps
       /\ q.pc = "unbindWrite" /\ ~q.stale =>
            HasOther(q.user, q.account) \/ q.user \in overlaps

\* A step without a request.
LEMMA GrowthKeeps ==
  ASSUME IInv, Grows, CodesTyped, guess' \in [Users -> Guess], now' \in 1 .. MaxTime,
         UNCHANGED <<mix, req, raced>>
  PROVE  IInv'
<1>1. TypeOK'
  BY DEF Grows, CodesTyped
<1>2. Aimed'
  BY DEF Aimed
<1>3. \A p \in Requests : Unbinding(p) => req[p].user \in Users /\ req[p].account \in Accounts
  BY DEF Aimed, Knows, Unbinding, UnbindPcs, NeedUser, NeedAccount
<1>4. GoneIsRemoved'
  BY DEF GoneIsRemoved, Grows, Aimed, Knows, NeedUser
<1>5. UnbindsOwn' /\ UnbindsNoticed'
  BY <1>3, AccountsAssumption DEF UnbindsOwn, UnbindsNoticed, Unbinding, Grows
<1>6. CountHolds'
  <2>1. \A u \in Users, a \in Accounts : HasOther(u, a) => HasOther(u, a)'
    BY AccountsAssumption DEF HasOther, Grows
  <2> QED BY <1>3, <2>1 DEF CountHolds, Unbinding, UnbindPcs
<1>7. AlwaysAWayIn'
  BY AccountsAssumption DEF AlwaysAWayIn, Exists, Owned, Grows
<1> QED BY <1>1, <1>2, <1>4, <1>5, <1>6, <1>7

\* A step of one request.
LEMMA BecomeKeeps ==
  ASSUME IInv, NEW p \in Requests, NEW q \in Request,
         Become(p, q), MayBecome(p, q, raced'),
         Grows, CodesTyped, guess' \in [Users -> Guess],
         raced \subseteq raced', raced' \subseteq Users,
         UNCHANGED <<mix, now>>
  PROVE  IInv'
<1>1. \A r \in Requests : req'[r] = IF r = p THEN q ELSE req[r]
  BY DEF Become
<1>2. TypeOK'
  BY DEF Grows, CodesTyped, Become
<1>3. Aimed'
  BY <1>1 DEF Aimed, MayBecome
<1>4. GoneIsRemoved'
  BY <1>1, <1>3 DEF GoneIsRemoved, Grows, MayBecome, Aimed, Knows, NeedUser
<1>5. \A r \in Requests :
        Unbinding(r)' => req'[r].user \in Users /\ req'[r].account \in Accounts
  BY <1>3 DEF Aimed, Knows, Unbinding, UnbindPcs, NeedUser, NeedAccount
<1>6. UnbindsOwn'
  BY <1>1, <1>5, AccountsAssumption DEF UnbindsOwn, Unbinding, Grows, MayBecome
<1>7. UnbindsNoticed'
  <2> SUFFICES ASSUME NEW r \in Requests, NEW s \in Requests, r # s,
                      Unbinding(r)', Unbinding(s)', req'[r].user = req'[s].user
               PROVE  req'[r].user \in raced'
    BY DEF UnbindsNoticed
  <2>1. CASE r = p
    BY <1>1, <2>1 DEF MayBecome, Unbinding
  <2>2. CASE s = p
    BY <1>1, <2>2 DEF MayBecome, Unbinding
  <2>3. CASE r # p /\ s # p
    BY <1>1, <2>3 DEF UnbindsNoticed, Unbinding
  <2> QED BY <2>1, <2>2, <2>3
<1>8. CountHolds'
  <2>1. \A u \in Users, a \in Accounts : HasOther(u, a) => HasOther(u, a)'
    BY AccountsAssumption DEF HasOther, Grows
  <2> QED BY <1>1, <1>5, <2>1 DEF CountHolds, Unbinding, UnbindPcs, MayBecome
<1>9. AlwaysAWayIn'
  BY AccountsAssumption DEF AlwaysAWayIn, Exists, Owned, Grows
<1> QED BY <1>2, <1>3, <1>4, <1>6, <1>7, <1>8, <1>9

-----------------------------------------------------------------------------
(* What steps have in common.                                              *)

LEMMA SameGrows == ASSUME IInv, UNCHANGED <<user, identity>> PROVE Grows
  BY DEF Grows

LEMMA SameCodes == ASSUME IInv, UNCHANGED code PROVE CodesTyped
  BY DEF CodesTyped

LEMMA TakeTypes == ASSUME IInv, NEW c \in Codes, Take(c) PROVE CodesTyped
  BY NoKeyIsCode DEF Take, CodesTyped

LEMMA PutTypes ==
  ASSUME IInv, NEW c \in Codes, NEW kind \in {"captcha", "login", "bind", "pending", "exchange"},
         NEW of \in Providers \cup Accounts \cup Users \cup {NoUser},
         Put(c, kind, of), About([kind |-> kind, of |-> of, taken |-> 0])
  PROVE  CodesTyped
<1>1. [kind |-> kind, of |-> of, taken |-> 0] \in Code
  BY DEF Code
<1> QED BY <1>1 DEF Put, CodesTyped

LEMMA MayReturn ==
  ASSUME IInv, NEW p \in Requests
  PROVE  IdleRequest \in Request /\ MayBecome(p, IdleRequest, raced)
  BY Beginning DEF MayBecome, Knows, NeedUser, NeedAccount, LinkPcs, UnbindPcs

\* A request that is not an unbind goes on to pc.
LEMMA MayGo ==
  ASSUME IInv, NEW p \in Requests, NEW pc \in Pcs \ UnbindPcs,
         ~req[p].gone, Knows([req[p] EXCEPT !.pc = pc])
  PROVE  /\ [req[p] EXCEPT !.pc = pc] \in Request
         /\ MayBecome(p, [req[p] EXCEPT !.pc = pc], raced)
<1>1. [req[p] EXCEPT !.pc = pc] \in Request
  BY DEF Request
<1>2. [req[p] EXCEPT !.pc = pc].pc = pc /\ [req[p] EXCEPT !.pc = pc].gone = req[p].gone
  BY DEF Request
<1> QED BY <1>1, <1>2 DEF MayBecome

\* A request ends, or goes on, and changes nothing else the invariant knows.
LEMMA ReturnKeeps ==
  ASSUME IInv, NEW p \in Requests, Return(p), Grows, CodesTyped, guess' \in [Users -> Guess],
         UNCHANGED <<mix, raced, now>>
  PROVE  IInv'
  BY MayReturn, BecomeKeeps DEF Return

LEMMA GotoKeeps ==
  ASSUME IInv, NEW p \in Requests, NEW pc \in Pcs \ UnbindPcs,
         Goto(p, pc), ~req[p].gone, Knows([req[p] EXCEPT !.pc = pc]),
         Grows, CodesTyped, guess' \in [Users -> Guess], UNCHANGED <<mix, raced, now>>
  PROVE  IInv'
  BY MayGo, BecomeKeeps DEF Goto

LEMMA QueryKeeps ==
  ASSUME IInv, NEW p \in Requests, NEW pc \in Pcs \ UnbindPcs, NEW ok, Query(p, pc, ok),
         ok => ~req[p].gone /\ Knows([req[p] EXCEPT !.pc = pc])
  PROVE  IInv'
<1>1. Grows /\ CodesTyped /\ guess' \in [Users -> Guess] /\ UNCHANGED <<mix, raced, now>>
  BY SameGrows, SameCodes DEF Query
<1> HIDE DEF IInv
<1> QED BY <1>1, ReturnKeeps, GotoKeeps DEF Query

-----------------------------------------------------------------------------
(* Administrators and codes.                                               *)

LEMMA AdminKeeps ==
  ASSUME IInv, NEW u \in Users, Create(u) \/ SetStatus(u) \/ Remove(u)
  PROVE  IInv'
<1>1. CodesTyped /\ guess' \in [Users -> Guess] /\ now' \in 1 .. MaxTime
      /\ UNCHANGED <<mix, req, raced>>
  BY SameCodes DEF Admin, Create, SetStatus, Remove
<1>2. PICK new \in User :
        /\ user' = [user EXCEPT ![u] = new]
        /\ user[u].state = "removed" => new.state = "removed"
        /\ user[u].credential => new.credential
        /\ new.state = "live" => user[u].state = "live" \/ new.credential
  <2>1. user[u] \in User
    OBVIOUS
  <2>2. CASE Create(u)
    <3> DEFINE new == [user[u] EXCEPT !.state = "live", !.credential = TRUE]
    <3>1. new \in User /\ new.credential /\ user[u].state # "removed"
      BY <2>1, <2>2 DEF User, Create, New
    <3>2. user' = [user EXCEPT ![u] = new]
      BY <2>2 DEF Create
    <3> QED BY <3>1, <3>2
  <2>3. CASE SetStatus(u)
    <3> DEFINE new == [user[u] EXCEPT !.enabled = ~user[u].enabled]
    <3>1. new \in User /\ new.state = user[u].state /\ new.credential = user[u].credential
      BY <2>1 DEF User
    <3>2. user' = [user EXCEPT ![u] = new]
      BY <2>3 DEF SetStatus
    <3> QED BY <3>1, <3>2
  <2>4. CASE Remove(u)
    <3> DEFINE new == [user[u] EXCEPT !.state = "removed"]
    <3>1. new \in User /\ new.state = "removed" /\ new.credential = user[u].credential
      BY <2>1 DEF User
    <3>2. user' = [user EXCEPT ![u] = new]
      BY <2>4 DEF Remove
    <3> QED BY <3>1, <3>2
  <2> QED BY <2>2, <2>3, <2>4
<1>3. Grows
  BY <1>2 DEF Grows, Admin, Create, SetStatus, Remove
<1> QED BY <1>1, <1>3, GrowthKeeps

LEMMA CodeKeeps ==
  ASSUME IInv, NEW c \in Codes,
         \/ GenerateCaptcha(c) \/ CaptchaWrong(c) \/ Exchange(c) \/ Expire(c)
         \/ \E provider \in Providers, mode \in {"login", "bind"} :
              GenerateAuthUrl(c, provider, mode)
  PROVE  IInv'
<1>1. Grows /\ guess' \in [Users -> Guess] /\ now' \in 1 .. MaxTime
      /\ UNCHANGED <<mix, req, raced>>
  BY SameGrows DEF GenerateCaptcha, CaptchaWrong, Exchange, Expire, GenerateAuthUrl
<1>2. CodesTyped
  <2>1. CASE GenerateCaptcha(c)
    BY <2>1, PutTypes DEF GenerateCaptcha, About
  <2>2. CASE CaptchaWrong(c) \/ Exchange(c) \/ Expire(c)
    BY <2>2, TakeTypes DEF CaptchaWrong, Exchange, Expire, Take
  <2>3. ASSUME NEW provider \in Providers, NEW mode \in {"login", "bind"},
               GenerateAuthUrl(c, provider, mode)
        PROVE  CodesTyped
    BY <2>3, PutTypes DEF GenerateAuthUrl, About
  <2> QED BY <2>1, <2>2, <2>3
<1> QED BY <1>1, <1>2, GrowthKeeps

LEMMA TickKeeps == ASSUME IInv, Tick PROVE IInv'
<1>1. Grows /\ CodesTyped /\ guess' \in [Users -> Guess] /\ now' \in 1 .. MaxTime
      /\ UNCHANGED <<mix, req, raced>>
  BY SameGrows, SameCodes, AccountsAssumption DEF Tick
<1> QED BY <1>1, GrowthKeeps

-----------------------------------------------------------------------------
(* Passwords.                                                              *)

\* A request that begins, and is no unbind.
LEMMA BeginKeeps ==
  ASSUME IInv, NEW p \in Requests, NEW q \in Request, Become(p, q),
         Knows(q), ~q.gone, q.pc \notin UnbindPcs,
         CodesTyped, UNCHANGED <<mix, user, identity, guess, raced, now>>
  PROVE  IInv'
<1>1. MayBecome(p, q, raced') /\ Grows
  BY SameGrows DEF MayBecome
<1> QED BY <1>1, BecomeKeeps

LEMMA LoginBeginKeeps ==
  ASSUME IInv, NEW p \in Requests, NEW u \in Users, NEW c \in Codes, LoginBegin(p, u, c)
  PROVE  IInv'
<1> DEFINE q == [IdleRequest EXCEPT !.pc = "find", !.op = "login", !.user = u]
<1>1. /\ q \in Request /\ q.pc = "find" /\ q.op = "login" /\ q.user = u /\ ~q.gone
  BY Beginning DEF Request, Pcs
<1>2. Become(p, q) /\ CodesTyped
  BY TakeTypes DEF LoginBegin
<1> HIDE DEF q, IInv
<1>3. Knows(q) /\ q.pc \notin UnbindPcs
  BY <1>1 DEF Knows, NeedAccount, UnbindPcs
<1> QED BY <1>1, <1>2, <1>3, BeginKeeps DEF LoginBegin

LEMMA FindKeeps == ASSUME IInv, NEW p \in Requests, Find(p) PROVE IInv'
<1>1. req[p] \in Request /\ ~req[p].gone /\ Knows(req[p]) /\ req[p].pc = "find"
  BY DEF Find, GoneIsRemoved, Aimed
<1>2. Knows([req[p] EXCEPT !.pc = "isLocked"])
  BY <1>1 DEF Knows, NeedUser, NeedAccount, LinkPcs, Request
<1>3. "isLocked" \in Pcs \ UnbindPcs
  BY DEF Pcs, UnbindPcs
<1> HIDE DEF IInv
<1> QED BY <1>1, <1>2, <1>3, QueryKeeps DEF Find

\* The attempt on a password, up to what its outcome writes.
LEMMA AttemptKeeps ==
  ASSUME IInv, NEW p \in Requests, CheckLock(p) \/ Compare(p)
  PROVE  IInv'
<1>1. /\ req[p] \in Request /\ ~req[p].gone /\ Knows(req[p])
      /\ req[p].pc \in {"isLocked", "compare"} /\ req[p].user \in Users
  BY DEF CheckLock, Compare, GoneIsRemoved, Aimed, Knows, NeedUser
<1>2. Grows /\ CodesTyped /\ UNCHANGED <<mix, raced, now>>
  BY SameGrows, SameCodes DEF CheckLock, Compare
<1>3. guess' \in [Users -> Guess]
  <2>1. guess[req[p].user] \in Guess
    BY <1>1
  <2>2. CASE CheckLock(p)
    <3> DEFINE met == guess[req[p].user].excused \/ Overlaps(p)
               new == [guess[req[p].user] EXCEPT !.excused = met]
    <3>1. met \in BOOLEAN
      OBVIOUS
    <3>2. guess' = guess \/ guess' = [guess EXCEPT ![req[p].user] = new]
      BY <2>2 DEF CheckLock, Attempt
    <3> HIDE DEF met
    <3>3. new \in Guess
      BY <2>1, <3>1 DEF Guess
    <3> HIDE DEF new
    <3> QED BY <3>2, <3>3
  <2>3. now \in Nat
    OBVIOUS
  <2>4. CASE Compare(p)
    <3> DEFINE g == guess[req[p].user]
               new == Wrong(g)
    <3>1. guess' = guess \/ guess' = [guess EXCEPT ![req[p].user] = new]
      BY <2>4 DEF Compare
    <3> HIDE DEF g
    <3>2. g.wrong + 1 \in Nat
      BY <2>1 DEF Guess, g
    <3>3. new \in Guess
      BY <2>1, <2>3, <3>2 DEF Guess, Wrong, g
    <3> HIDE DEF new
    <3> QED BY <3>1, <3>3
  <2> QED BY <2>2, <2>4
<1>4. ASSUME NEW pc \in {"compare", "success", "failRead"}
      PROVE  pc \in Pcs \ UnbindPcs /\ Knows([req[p] EXCEPT !.pc = pc])
  BY <1>1 DEF Knows, NeedUser, NeedAccount, LinkPcs, Request, Pcs, UnbindPcs
<1>5. Return(p) \/ \E pc \in {"compare", "success", "failRead"} : Goto(p, pc)
  BY DEF CheckLock, Compare, Attempt
<1> HIDE DEF IInv
<1> QED BY <1>1, <1>2, <1>3, <1>4, <1>5, ReturnKeeps, GotoKeeps

LEMMA FailReadKeeps == ASSUME IInv, NEW p \in Requests, FailRead(p) PROVE IInv'
<1> DEFINE u == req[p].user
           q == [req[p] EXCEPT !.pc = "failWrite", !.attempts = user[u].failedAttempts]
<1>1. u \in Users /\ ~req[p].gone
  BY DEF FailRead, Aimed, Knows, NeedUser, GoneIsRemoved
<1>2. q \in Request /\ q.pc = "failWrite" /\ q.user = u /\ ~q.gone
  <2>1. user[u] \in User /\ req[p] \in Request
    BY <1>1
  <2>2. user[u].failedAttempts \in Nat
    BY <2>1 DEF User
  <2> QED BY <1>1, <2>1, <2>2 DEF Request, Pcs
<1>3. Become(p, q) /\ CodesTyped
  BY SameCodes DEF FailRead
<1> HIDE DEF q, IInv
<1>4. Knows(q) /\ q.pc \notin UnbindPcs
  BY <1>1, <1>2 DEF Knows, NeedAccount, UnbindPcs, LinkPcs
<1> QED BY <1>2, <1>3, <1>4, BeginKeeps DEF FailRead

\* recordFailure and recordSuccess leave the user where it is.
LEMMA CountedGrows ==
  ASSUME IInv, NEW u \in Users, NEW n \in Nat, NEW until \in Nat,
         user' = [user EXCEPT ![u].failedAttempts = n, ![u].lockedUntil = until],
         UNCHANGED identity
  PROVE  Grows
<1> DEFINE new == [user[u] EXCEPT !.failedAttempts = n, !.lockedUntil = until]
<1>1. new \in User /\ new.state = user[u].state /\ new.credential = user[u].credential
  BY DEF User
<1>2. user' = [user EXCEPT ![u] = new]
  OBVIOUS
<1> HIDE DEF new
<1> QED BY <1>1, <1>2 DEF Grows

LEMMA FailWriteKeeps == ASSUME IInv, NEW p \in Requests, FailWrite(p) PROVE IInv'
<1> DEFINE u == req[p].user
           n == req[p].attempts + 1
           until == IF ShouldLock(n) THEN now + Duration ELSE user[u].lockedUntil
<1>1. u \in Users /\ n \in Nat /\ until \in Nat
  <2>1. u \in Users /\ req[p] \in Request
    BY DEF FailWrite, Aimed, Knows, NeedUser
  <2>2. user[u] \in User
    BY <2>1
  <2> QED BY <2>1, <2>2, AccountsAssumption DEF Request, User
<1>2. user' = [user EXCEPT ![u].failedAttempts = n, ![u].lockedUntil = until]
  BY DEF FailWrite
<1>3. Grows
  <2> HIDE DEF n, until, u
  <2> QED BY <1>1, <1>2, CountedGrows DEF FailWrite
<1>4. CodesTyped
  BY SameCodes DEF FailWrite
<1> QED BY <1>3, <1>4, ReturnKeeps DEF FailWrite

LEMMA SuccessKeeps == ASSUME IInv, NEW p \in Requests, Success(p) PROVE IInv'
<1> DEFINE u == req[p].user
           pc == IF req[p].op = "link" THEN "checkSelf" ELSE "touch"
<1>1. u \in Users /\ ~req[p].gone /\ req[p] \in Request /\ Knows(req[p]) /\ req[p].pc = "success"
  BY DEF Success, Aimed, Knows, NeedUser, GoneIsRemoved
<1>2. user' = [user EXCEPT ![u].failedAttempts = 0, ![u].lockedUntil = 0]
  BY DEF Success
<1>3. Grows
  BY <1>1, <1>2, CountedGrows DEF Success
<1>4. CodesTyped /\ guess' \in [Users -> Guess]
  <2>1. guess[u] \in Guess
    BY <1>1
  <2>2. guess' = [guess EXCEPT ![u] = [guess[u] EXCEPT !.wrong = 0]]
    BY DEF Success
  <2>3. [guess[u] EXCEPT !.wrong = 0] \in Guess
    BY <2>1 DEF Guess
  <2> QED BY <2>2, <2>3, SameCodes DEF Success
<1>5. pc \in Pcs \ UnbindPcs /\ Knows([req[p] EXCEPT !.pc = pc])
  BY <1>1 DEF Knows, NeedUser, NeedAccount, LinkPcs, Request, Pcs, UnbindPcs
<1>6. Goto(p, pc)
  BY DEF Success, Goto
<1> HIDE DEF IInv, pc
<1> QED BY <1>1, <1>3, <1>4, <1>5, <1>6, GotoKeeps DEF Success

-----------------------------------------------------------------------------
(* Tokens, and signing in with an external account.                        *)

\* A user who is gone is not touched.
LEMMA TouchKeeps == ASSUME IInv, NEW p \in Requests, Touch(p) PROVE IInv'
<1> DEFINE ok == req[p].op = "callback" /\ Exists(req[p].user)
<1>1. req[p] \in Request /\ Knows(req[p]) /\ req[p].pc = "touch"
  BY DEF Touch, Aimed
<1>2. ok => ~req[p].gone
  BY DEF GoneIsRemoved, Exists
<1>3. Knows([req[p] EXCEPT !.pc = "giveCode"]) /\ "giveCode" \in Pcs \ UnbindPcs
  BY <1>1 DEF Knows, NeedUser, NeedAccount, LinkPcs, Request, Pcs, UnbindPcs
<1>4. Query(p, "giveCode", ok)
  BY DEF Touch
<1> HIDE DEF IInv, ok
<1> QED BY <1>2, <1>3, <1>4, QueryKeeps

\* The request stores a code and is done.
LEMMA StoreKeeps ==
  ASSUME IInv, NEW p \in Requests, NEW c \in Codes, GiveCode(p, c) \/ StorePending(p, c)
  PROVE  IInv'
<1>1. Grows /\ Return(p) /\ UNCHANGED <<mix, raced, now>> /\ guess' \in [Users -> Guess]
  BY SameGrows DEF GiveCode, StorePending
<1>2. CodesTyped
  <2>1. CASE GiveCode(p, c)
    <3>1. req[p].user \in Users
      BY <2>1 DEF GiveCode, Aimed, Knows, NeedUser
    <3> QED BY <2>1, <3>1, PutTypes DEF GiveCode, About
  <2>2. CASE StorePending(p, c)
    <3>1. req[p].account \in Accounts
      BY <2>2 DEF StorePending, Aimed, Knows, NeedAccount
    <3> QED BY <2>2, <3>1, PutTypes DEF StorePending, About
  <2> QED BY <2>1, <2>2
<1> QED BY <1>1, <1>2, ReturnKeeps

LEMMA CallbackBeginKeeps ==
  ASSUME IInv, NEW p \in Requests, NEW a \in Accounts, NEW c \in Codes, CallbackBegin(p, a, c)
  PROVE  IInv'
<1> DEFINE q == [IdleRequest EXCEPT !.pc = "delState", !.op = "callback", !.account = a,
                   !.code = c]
           k == [code[c] EXCEPT !.taken = code[c].taken + 1]
<1>1. q \in Request /\ q.pc = "delState" /\ q.account = a /\ q.code = c /\ ~q.gone
  BY Beginning DEF Request, Pcs
<1>2. Become(p, q)
  BY DEF CallbackBegin
<1>3. CodesTyped
  <2>1. code[c] \in Code /\ About(code[c])
    OBVIOUS
  <2>2. k \in Code /\ About(k)
    BY <2>1 DEF Code, About
  <2>3. code' = [code EXCEPT ![c] = k]
    BY DEF CallbackBegin
  <2> HIDE DEF k
  <2> QED BY <2>2, <2>3 DEF CodesTyped
<1> HIDE DEF q, IInv
<1>4. Knows(q) /\ q.pc \notin UnbindPcs
  BY <1>1 DEF Knows, NeedUser, UnbindPcs, LinkPcs
<1> QED BY <1>1, <1>2, <1>3, <1>4, BeginKeeps DEF CallbackBegin

LEMMA DelStateKeeps == ASSUME IInv, NEW p \in Requests, DelState(p) PROVE IInv'
<1> DEFINE q == [req[p] EXCEPT !.pc = "findIdentity", !.code = NoCode]
<1>1. req[p] \in Request /\ Knows(req[p]) /\ req[p].pc = "delState" /\ ~req[p].gone
  BY DEF DelState, Aimed, GoneIsRemoved
<1>2. q \in Request /\ q.pc = "findIdentity" /\ q.account = req[p].account /\ ~q.gone
  BY <1>1 DEF Request, Pcs
<1>3. Become(p, q)
  BY DEF DelState
<1>4. CodesTyped
  BY <1>1, TakeTypes DEF DelState, Knows
<1> HIDE DEF q
<1>5. Knows(q) /\ q.pc \notin UnbindPcs
  BY <1>1, <1>2 DEF Knows, NeedUser, NeedAccount, UnbindPcs, LinkPcs
<1> HIDE DEF IInv
<1> QED BY <1>2, <1>3, <1>4, <1>5, BeginKeeps DEF DelState

\* The one step that may meet a user who is gone, and remembers it.
LEMMA FindIdentityKeeps == ASSUME IInv, NEW p \in Requests, FindIdentity(p) PROVE IInv'
<1> DEFINE u == identity[req[p].account]
           gone == user[u].state = "removed"
           q == [req[p] EXCEPT !.pc = "touch", !.user = u, !.gone = gone]
<1>1. /\ req[p] \in Request /\ Knows(req[p]) /\ req[p].pc = "findIdentity" /\ ~req[p].gone
      /\ req[p].account \in Accounts
  BY DEF FindIdentity, Aimed, GoneIsRemoved, Knows, NeedAccount
<1>2. Grows /\ CodesTyped /\ UNCHANGED <<mix, raced, now>> /\ guess' \in [Users -> Guess]
  BY SameGrows, SameCodes DEF FindIdentity
<1>3. CASE Return(p)
  BY <1>2, <1>3, ReturnKeeps
<1>4. CASE Goto(p, "storePending")
  <2>1. Knows([req[p] EXCEPT !.pc = "storePending"]) /\ "storePending" \in Pcs \ UnbindPcs
    BY <1>1 DEF Knows, NeedUser, NeedAccount, LinkPcs, Request, Pcs, UnbindPcs
  <2> QED BY <1>1, <1>2, <1>4, <2>1, GotoKeeps
<1>5. CASE u # NoUser /\ Become(p, q)
  <2>1. u \in Users
    BY <1>1, <1>5
  <2>2. q \in Request /\ q.pc = "touch" /\ q.user = u /\ (q.gone => gone)
    BY <1>1, <2>1 DEF Request, Pcs
  <2>3. Become(p, q)
    BY <1>5
  <2> HIDE DEF q
  <2>4. MayBecome(p, q, raced')
    BY <2>1, <2>2 DEF MayBecome, Knows, NeedAccount, LinkPcs, UnbindPcs
  <2> QED BY <1>2, <2>2, <2>3, <2>4, BecomeKeeps
<1> QED BY <1>3, <1>4, <1>5 DEF FindIdentity

LEMMA PendingKeeps ==
  ASSUME IInv, NEW p \in Requests, NEW c \in Codes,
         RegisterBegin(p, c) \/ \E u \in Users : LinkBegin(p, u, c)
  PROVE  IInv'
<1> DEFINE a == code[c].of
<1>1. a \in Accounts /\ CodesTyped
  BY TakeTypes DEF RegisterBegin, LinkBegin, ConsumePending, About
<1>2. CASE RegisterBegin(p, c)
  <2> DEFINE begun == [IdleRequest EXCEPT !.pc = "register", !.op = "register"]
             q == [begun EXCEPT !.account = a]
  <2>1. q \in Request /\ q.pc = "register" /\ q.account = a /\ ~q.gone
    BY <1>1, Beginning DEF Request, Pcs
  <2>2. Become(p, q)
    BY <1>2 DEF RegisterBegin, ConsumePending
  <2> HIDE DEF q, a, IInv
  <2>3. Knows(q) /\ q.pc \notin UnbindPcs
    BY <1>1, <2>1 DEF Knows, NeedUser, UnbindPcs, LinkPcs
  <2> QED BY <1>1, <1>2, <2>1, <2>2, <2>3, BeginKeeps DEF RegisterBegin, ConsumePending
<1>3. ASSUME NEW u \in Users, LinkBegin(p, u, c) PROVE IInv'
  <2> DEFINE begun == [IdleRequest EXCEPT !.pc = "find", !.op = "link", !.user = u]
             q == [begun EXCEPT !.account = a]
  <2>1. q \in Request /\ q.pc = "find" /\ q.account = a /\ q.user = u /\ ~q.gone
    BY <1>1, Beginning DEF Request, Pcs
  <2>2. Become(p, q)
    BY <1>3 DEF LinkBegin, ConsumePending
  <2> HIDE DEF q, a, IInv
  <2>3. Knows(q) /\ q.pc \notin UnbindPcs
    BY <1>1, <2>1 DEF Knows, NeedAccount, UnbindPcs, LinkPcs
  <2> QED BY <1>1, <1>3, <2>1, <2>2, <2>3, BeginKeeps DEF LinkBegin, ConsumePending
<1> QED BY <1>2, <1>3

-----------------------------------------------------------------------------
(* Identities come.                                                        *)

LEMMA RegisterKeeps ==
  ASSUME IInv, NEW p \in Requests, NEW u \in Users, Register(p, u) PROVE IInv'
<1> DEFINE a == req[p].account
           q == [req[p] EXCEPT !.pc = "touch", !.user = u]
<1>1. req[p] \in Request /\ a \in Accounts /\ ~req[p].gone
  BY DEF Register, Aimed, GoneIsRemoved, Knows, NeedAccount
<1>2. CodesTyped /\ UNCHANGED <<mix, raced, now>> /\ guess' \in [Users -> Guess]
  BY SameCodes DEF Register
<1>3. CASE MayCreate(u, a)
  <2>1. q \in Request /\ q.pc = "touch" /\ q.user = u /\ ~q.gone
    BY <1>1 DEF Request, Pcs
  <2>2. Become(p, q)
    BY <1>3 DEF Register
  <2>3. Grows
    <3> DEFINE new == [user[u] EXCEPT !.state = "live"]
    <3>1. new \in User /\ user[u].state = "absent" /\ new.credential = user[u].credential
      BY DEF User, Register, New
    <3>2. user' = [user EXCEPT ![u] = new] /\ identity' = [identity EXCEPT ![a] = u]
      BY <1>3 DEF Register
    <3>3. identity[a] = NoUser
      BY <1>3 DEF MayCreate
    <3> HIDE DEF new
    <3> QED BY <1>1, <3>1, <3>2, <3>3 DEF Grows
  <2> HIDE DEF q
  <2>4. MayBecome(p, q, raced')
    BY <2>1 DEF MayBecome, Knows, NeedAccount, LinkPcs, UnbindPcs
  <2> QED BY <1>2, <2>1, <2>2, <2>3, <2>4, BecomeKeeps
<1>4. CASE ~MayCreate(u, a)
  <2>1. Return(p) /\ Grows
    BY <1>4, SameGrows DEF Register
  <2> QED BY <1>2, <2>1, ReturnKeeps
<1> QED BY <1>3, <1>4

LEMMA BindBeginKeeps ==
  ASSUME IInv, NEW p \in Requests, NEW u \in Users, NEW a \in Accounts,
         BindBeginPlain(p, u, a) \/ \E c \in Codes : BindBegin(p, u, a, c)
  PROVE  IInv'
<1> DEFINE q == Binding(u, a)
<1>1. q \in Request /\ q.pc = "findOwner" /\ q.user = u /\ q.account = a /\ ~q.gone
  BY Beginning DEF Binding, Request, Pcs
<1>2. CodesTyped /\ UNCHANGED <<mix, user, identity, guess, raced, now>>
  BY SameCodes, TakeTypes DEF BindBeginPlain, BindBegin
<1>3. Become(p, q) \/ UNCHANGED req
  BY DEF BindBeginPlain, BindBegin
<1>4. Knows(q) /\ q.pc \notin UnbindPcs
  BY <1>1 DEF Knows, UnbindPcs, LinkPcs
<1>5. CASE UNCHANGED req
  <2>1. Grows
    BY <1>2, SameGrows
  <2> QED BY <1>2, <1>5, <2>1, GrowthKeeps
<1> HIDE DEF q, IInv
<1>6. CASE Become(p, q)
  BY <1>1, <1>2, <1>4, <1>6, BeginKeeps
<1> QED BY <1>3, <1>5, <1>6

LEMMA BindChecksKeep ==
  ASSUME IInv, NEW p \in Requests, FindOwner(p) \/ CheckSelf(p) PROVE IInv'
<1>1. /\ req[p] \in Request /\ ~req[p].gone /\ req[p].user \in Users /\ req[p].account \in Accounts
  BY DEF FindOwner, CheckSelf, GoneIsRemoved, Aimed, Knows, NeedUser, NeedAccount
<1>2. ASSUME NEW pc \in {"checkSelf", "createIdentity"}
      PROVE  pc \in Pcs \ UnbindPcs /\ Knows([req[p] EXCEPT !.pc = pc])
  BY <1>1 DEF Knows, NeedUser, NeedAccount, LinkPcs, Request, Pcs, UnbindPcs
<1>3. \E pc \in {"checkSelf", "createIdentity"}, ok \in BOOLEAN : Query(p, pc, ok)
  <2>1. CASE FindOwner(p)
    <3> DEFINE ok == identity[req[p].account] = NoUser
    <3>1. ok \in BOOLEAN /\ Query(p, "checkSelf", ok)
      BY <2>1 DEF FindOwner
    <3> QED BY <3>1
  <2>2. CASE CheckSelf(p)
    <3> DEFINE ok == \A b \in Owned(req[p].user) : ProviderOf[b] # ProviderOf[req[p].account]
    <3>1. ok \in BOOLEAN /\ Query(p, "createIdentity", ok)
      BY <2>2 DEF CheckSelf
    <3> HIDE DEF ok
    <3> QED BY <3>1
  <2> QED BY <2>1, <2>2
<1> HIDE DEF IInv
<1> QED BY <1>1, <1>2, <1>3, QueryKeeps

LEMMA CreateIdentityKeeps ==
  ASSUME IInv, NEW p \in Requests, CreateIdentity(p) PROVE IInv'
<1> DEFINE u == req[p].user
           a == req[p].account
<1>1. req[p] \in Request /\ u \in Users /\ a \in Accounts /\ ~req[p].gone
  BY DEF CreateIdentity, Aimed, GoneIsRemoved, Knows, NeedUser, NeedAccount
<1>2. /\ CodesTyped /\ Grows /\ guess' \in [Users -> Guess] /\ UNCHANGED <<mix, raced, now>>
  <2>1. \/ identity' = identity
        \/ identity[a] = NoUser /\ identity' = [identity EXCEPT ![a] = u]
    BY DEF CreateIdentity, MayCreate
  <2>2. Grows
    BY <1>1, <2>1 DEF CreateIdentity, Grows
  <2> QED BY <2>2, SameCodes DEF CreateIdentity
<1>3. Return(p) \/ Goto(p, "touch")
  BY DEF CreateIdentity
<1>4. Knows([req[p] EXCEPT !.pc = "touch"]) /\ "touch" \in Pcs \ UnbindPcs
  BY <1>1 DEF Knows, NeedUser, NeedAccount, LinkPcs, Request, Pcs, UnbindPcs
<1> HIDE DEF IInv
<1> QED BY <1>1, <1>2, <1>3, <1>4, ReturnKeeps, GotoKeeps

-----------------------------------------------------------------------------
(* Identities go.                                                          *)

LEMMA UnbindBeginKeeps ==
  ASSUME IInv, NEW p \in Requests, NEW u \in Users, NEW a \in Accounts, UnbindBegin(p, u, a)
  PROVE  IInv'
<1> DEFINE q == [IdleRequest EXCEPT !.pc = "countOthers", !.op = "unbind", !.user = u,
                   !.account = a]
<1>1. q \in Request /\ q.pc = "countOthers" /\ q.user = u /\ q.account = a /\ ~q.gone
  BY Beginning DEF Request, Pcs
<1>2. Become(p, q) /\ identity[a] = u
  BY DEF UnbindBegin
<1>3. /\ Grows /\ CodesTyped /\ guess' \in [Users -> Guess] /\ UNCHANGED <<mix, now>>
  BY SameGrows, SameCodes DEF UnbindBegin
<1>4. /\ raced \subseteq raced' /\ raced' \subseteq Users
      /\ \A r \in Requests : Unbinding(r) /\ req[r].user = u => u \in raced'
  BY DEF UnbindBegin, Unbinding
<1> HIDE DEF q
<1>5. MayBecome(p, q, raced')
  BY <1>1, <1>2, <1>4 DEF MayBecome, Knows, LinkPcs
<1> QED BY <1>1, <1>2, <1>3, <1>4, <1>5, BecomeKeeps

LEMMA CountOthersKeeps ==
  ASSUME IInv, NEW p \in Requests, CountOthers(p) PROVE IInv'
<1> DEFINE u == req[p].user
           a == req[p].account
           q == [req[p] EXCEPT !.pc = "unbindWrite"]
<1>1. /\ req[p] \in Request /\ u \in Users /\ a \in Accounts /\ ~req[p].gone /\ Unbinding(p)
  BY DEF CountOthers, Aimed, GoneIsRemoved, Knows, NeedUser, NeedAccount, Unbinding, UnbindPcs
<1>2. Grows /\ CodesTyped /\ guess' \in [Users -> Guess] /\ UNCHANGED <<mix, raced, now>>
  BY SameGrows, SameCodes DEF CountOthers, Query
<1>3. CASE Return(p)
  BY <1>2, <1>3, ReturnKeeps
<1>4. CASE (Owned(u) \ {a} # {} \/ user[u].credential) /\ Goto(p, "unbindWrite")
  <2>1. /\ q \in Request /\ q.pc = "unbindWrite" /\ q.user = u /\ q.account = a /\ ~q.gone
        /\ q.stale = req[p].stale
    BY <1>1 DEF Request, Pcs
  <2>2. Become(p, q)
    BY <1>4 DEF Goto
  <2>3. HasOther(u, a)
    BY <1>4 DEF HasOther, Owned
  <2>4. /\ ~q.stale => identity[a] = u
        /\ \A r \in Requests \ {p} : Unbinding(r) /\ req[r].user = u => u \in raced
    BY <1>1, <2>1 DEF UnbindsOwn, UnbindsNoticed
  <2> HIDE DEF q
  <2>5. MayBecome(p, q, raced')
    BY <1>1, <1>2, <2>1, <2>3, <2>4 DEF MayBecome, Knows, LinkPcs
  <2> QED BY <1>2, <2>1, <2>2, <2>5, BecomeKeeps
<1> QED BY <1>3, <1>4 DEF CountOthers, Query

\* What is removed is its user's own, and leaves another way in: the one that
\* was counted, which only an overlapping unbind takes away.
LEMMA UnbindWriteKeeps ==
  ASSUME IInv, NEW p \in Requests, UnbindWrite(p) PROVE IInv'
<1> DEFINE u == req[p].user
           a == req[p].account
<1>1. CASE req[p].stale
  <2>1. Grows /\ CodesTyped /\ Return(p) /\ UNCHANGED <<mix, raced, guess, now>>
    BY <1>1, SameGrows, SameCodes DEF UnbindWrite
  <2> QED BY <2>1, ReturnKeeps
<1>2. CASE ~req[p].stale
  <2>1. /\ u \in Users /\ a \in Accounts /\ identity[a] = u
        /\ Unbinding(p) /\ req[p].pc = "unbindWrite"
    BY <1>2 DEF UnbindWrite, Aimed, Knows, NeedUser, NeedAccount, UnbindsOwn, Unbinding, UnbindPcs
  <2>2. /\ identity' = [identity EXCEPT ![a] = NoUser]
        /\ UNCHANGED <<mix, user, code, guess, raced, now>>
    BY <1>2 DEF UnbindWrite
  <2>3. /\ req' \in [Requests -> Request]
        /\ req'[p] = IdleRequest
        /\ \A r \in Requests \ {p} :
             /\ req'[r].pc = req[r].pc /\ req'[r].user = req[r].user
             /\ req'[r].account = req[r].account /\ req'[r].gone = req[r].gone
             /\ req'[r].code = req[r].code /\ req'[r].op = req[r].op
             /\ ~req'[r].stale => ~req[r].stale
             /\ Unbinding(r) /\ ~req'[r].stale => req[r].account # a
    <3>1. req' = [r \in Requests |->
                    IF r = p THEN IdleRequest
                    ELSE IF req[r].pc \in UnbindPcs /\ req[r].account = a
                         THEN [req[r] EXCEPT !.stale = TRUE] ELSE req[r]]
      BY <1>2 DEF UnbindWrite
    <3> QED BY <3>1, Beginning DEF Request, Unbinding
  <2>4. HasOther(u, a) \/ u \in raced
    BY <1>2, <2>1 DEF CountHolds
  <2>5. TypeOK'
    BY <2>2, <2>3
  <2>6. Aimed'
    BY <2>3, Beginning DEF Aimed, Knows, NeedUser, NeedAccount, LinkPcs
  <2>7. GoneIsRemoved'
    BY <2>2, <2>3, Beginning DEF GoneIsRemoved
  <2>8. \A r \in Requests : Unbinding(r)' => r # p /\ Unbinding(r)
    BY <2>3, Beginning DEF Unbinding, UnbindPcs
  <2>9. UnbindsOwn'
    BY <2>1, <2>2, <2>3, <2>8 DEF UnbindsOwn, Aimed, Knows, NeedAccount, Unbinding, UnbindPcs
  <2>10. UnbindsNoticed'
    BY <2>2, <2>3, <2>8 DEF UnbindsNoticed
  <2>11. CountHolds'
    <3>1. \A r \in Requests :
            req'[r].pc = "unbindWrite" /\ ~req'[r].stale /\ req'[r].user \notin raced =>
              \/ user[req'[r].user].credential
              \/ \E b \in Accounts : b # req'[r].account /\ identity'[b] = req'[r].user
      <4> SUFFICES ASSUME NEW r \in Requests, req'[r].pc = "unbindWrite", ~req'[r].stale,
                          req'[r].user \notin raced, ~user[req'[r].user].credential
                   PROVE  \E b \in Accounts : b # req'[r].account /\ identity'[b] = req'[r].user
        OBVIOUS
      <4>1. r # p
        BY <2>3, Beginning
      <4>2. /\ req'[r].user = req[r].user /\ req'[r].account = req[r].account
            /\ req[r].pc = "unbindWrite" /\ ~req[r].stale
        BY <2>3, <4>1
      <4>3. req[r].user # u
        BY <2>1, <4>1, <4>2 DEF UnbindsNoticed, Unbinding, UnbindPcs
      <4>4. HasOther(req[r].user, req[r].account)
        BY <4>2 DEF CountHolds
      <4>5. PICK b \in Accounts : b # req[r].account /\ identity[b] = req[r].user
        BY <4>2, <4>4 DEF HasOther
      <4>6. identity'[b] = req[r].user
        BY <2>1, <2>2, <4>3, <4>5
      <4> QED BY <4>2, <4>5, <4>6
    <3> QED BY <2>2, <3>1 DEF CountHolds, HasOther
  <2>12. AlwaysAWayIn'
    BY <2>1, <2>2, <2>4 DEF AlwaysAWayIn, Exists, Owned, HasOther
  <2> QED BY <2>5, <2>6, <2>7, <2>9, <2>10, <2>11, <2>12
<1> QED BY <1>1, <1>2

LEMMA AbortKeeps == ASSUME IInv, NEW p \in Requests, Abort(p) PROVE IInv'
<1>1. Grows /\ Return(p) /\ UNCHANGED <<mix, raced, now>>
  BY SameGrows DEF Abort
<1>2. CodesTyped
  <2> DEFINE c == req[p].code
             k == [code[c] EXCEPT !.taken = code[c].taken - 1]
  <2>1. CASE req[p].pc = "delState" /\ code[c].taken > 0
    <3>1. c \in Codes /\ code[c] \in Code /\ About(code[c])
      BY <2>1 DEF Aimed, Knows
    <3>2. k \in Code /\ About(k)
      BY <2>1, <3>1 DEF Code, About
    <3>3. code' = [code EXCEPT ![c] = k]
      BY <2>1 DEF Abort
    <3> HIDE DEF k, c
    <3> QED BY <3>1, <3>2, <3>3 DEF CodesTyped
  <2>2. CASE ~(req[p].pc = "delState" /\ code[c].taken > 0)
    BY <2>2, SameCodes DEF Abort
  <2> QED BY <2>1, <2>2
<1>3. guess' \in [Users -> Guess]
  <2> DEFINE new == [guess[req[p].user] EXCEPT !.excused = TRUE]
  <2>1. req[p].pc \in {"failRead", "failWrite"} => req[p].user \in Users
    BY DEF Aimed, Knows, NeedUser
  <2>2. req[p].user \in Users => new \in Guess
    BY DEF Guess
  <2>3. guess' = guess \/ (guess' = [guess EXCEPT ![req[p].user] = new] /\ req[p].user \in Users)
    BY <2>1 DEF Abort
  <2> HIDE DEF new
  <2> QED BY <2>2, <2>3
<1> QED BY <1>1, <1>2, <1>3, ReturnKeeps

-----------------------------------------------------------------------------
(* The theorems.                                                           *)

LEMMA Stutters == ASSUME IInv, UNCHANGED vars PROVE IInv'
  BY SameGrows, SameCodes, GrowthKeeps DEF vars

LEMMA StepKeeps == ASSUME IInv, NEW p \in Requests, Step(p) PROVE IInv'
<1>0. mix.accounts \subseteq Accounts
  BY AccountsAssumption DEF Mix
<1>1. ASSUME NEW u \in Users, NEW c \in Codes, LoginBegin(p, u, c) \/ LinkBegin(p, u, c)
      PROVE  IInv'
  BY <1>1, LoginBeginKeeps, PendingKeeps
<1>2. CASE Find(p) \/ CheckLock(p) \/ Compare(p) \/ FailRead(p) \/ FailWrite(p) \/ Success(p)
  BY <1>2, FindKeeps, AttemptKeeps, FailReadKeeps, FailWriteKeeps, SuccessKeeps
<1>3. CASE Touch(p)
  BY <1>3, TouchKeeps
<1>4. ASSUME NEW c \in Codes, GiveCode(p, c) \/ StorePending(p, c) \/ RegisterBegin(p, c)
      PROVE  IInv'
  BY <1>4, StoreKeeps, PendingKeeps
<1>5. ASSUME NEW a \in mix.accounts, NEW c \in Codes, CallbackBegin(p, a, c)
      PROVE  IInv'
  BY <1>0, <1>5, CallbackBeginKeeps
<1>6. CASE DelState(p) \/ FindIdentity(p)
  BY <1>6, DelStateKeeps, FindIdentityKeeps
<1>7. ASSUME NEW u \in Users, Register(p, u)
      PROVE  IInv'
  BY <1>7, RegisterKeeps
<1>8. ASSUME NEW u \in Users, NEW a \in mix.accounts,
             BindBeginPlain(p, u, a) \/ UnbindBegin(p, u, a) \/ \E c \in Codes : BindBegin(p, u, a, c)
      PROVE  IInv'
  BY <1>0, <1>8, BindBeginKeeps, UnbindBeginKeeps
<1>9. CASE FindOwner(p) \/ CheckSelf(p) \/ CreateIdentity(p) \/ CountOthers(p) \/ UnbindWrite(p)
           \/ Abort(p)
  BY <1>9, BindChecksKeep, CreateIdentityKeeps, CountOthersKeeps, UnbindWriteKeeps, AbortKeeps
<1> QED BY <1>1, <1>2, <1>3, <1>4, <1>5, <1>6, <1>7, <1>8, <1>9 DEF Step

LEMMA Inductive == ASSUME IInv, [Next]_vars PROVE IInv'
<1>1. CASE UNCHANGED vars
  BY <1>1, Stutters
<1>2. ASSUME NEW p \in Requests, Step(p) PROVE IInv'
  BY <1>2, StepKeeps
<1>3. ASSUME NEW u \in Users, Create(u) \/ SetStatus(u) \/ Remove(u) PROVE IInv'
  BY <1>3, AdminKeeps
<1>4. ASSUME NEW c \in Codes,
             GenerateCaptcha(c) \/ CaptchaWrong(c) \/ Exchange(c) \/ Expire(c)
      PROVE  IInv'
  BY <1>4, CodeKeeps
<1>5. ASSUME NEW c \in Codes, NEW provider \in {ProviderOf[a] : a \in mix.accounts},
             NEW mode \in {"login", "bind"}, GenerateAuthUrl(c, provider, mode)
      PROVE  IInv'
  <2>1. provider \in Providers
    BY AccountsAssumption DEF Mix, Providers
  <2> QED BY <1>5, <2>1, CodeKeeps
<1>6. CASE Tick
  BY <1>6, TickKeeps
<1> QED BY <1>1, <1>2, <1>3, <1>4, <1>5, <1>6 DEF Next

HIDE DEF IInv, Parts, TypeOK

LEMMA Invariant == Spec => []IInv
  BY Initially, Inductive, PTL DEF Spec

\* The rows of users and identities, the codes of Redis and the requests in
\* progress keep their types; a code is about what its kind says, so that a
\* pending registration always names the account it was stored for.
THEOREM TypeCorrect == Spec => []TypeOK
  BY Invariant, Summed, PTL

\* A user is left with a password or an identity, unless two of its unbinds
\* overlapped: what unbindIdentity counts is there until it removes a row.
THEOREM UsersKeepAWayIn == Spec => []AlwaysAWayIn
  BY Invariant, Summed, PTL

\* A callback that finds the identity of a removed user gets no exchange code:
\* a removed user stays removed, so that the update of its row fails.
THEOREM NothingForTheRemoved == Spec => []RemovedGetNoTokens
  BY Invariant, Summed, PTL


-----------------------------------------------------------------------------
(* Requests that stay away from a step: what the states of handleCallback   *)
(* and the counts of wrong passwords depend on is left alone.               *)

Aside(S) ==
  \A p \in Requests : req'[p] = req[p] \/ (req[p].pc \notin S /\ req'[p].pc \notin S)

CodesSame    == \A c \in Codes : code'[c].taken \in {code[c].taken, 0}
CountersSame ==
  \A u \in Users : /\ user'[u].failedAttempts = user[u].failedAttempts
                   /\ user'[u].lockedUntil = user[u].lockedUntil

Watched == AttemptPcs \cup {"delState"}

LEMMA BecomeAside ==
  ASSUME TypeOK, NEW p \in Requests, NEW q, Become(p, q), NEW S, req[p].pc \notin S, q.pc \notin S
  PROVE  Aside(S)
  BY DEF TypeOK, Become, Aside

LEMMA GotoAside ==
  ASSUME TypeOK, NEW p \in Requests, NEW pc, Goto(p, pc), NEW S, req[p].pc \notin S, pc \notin S
  PROVE  Aside(S)
<1>1. [req[p] EXCEPT !.pc = pc].pc = pc
  BY DEF TypeOK, Request
<1> QED BY <1>1, BecomeAside DEF Goto

LEMMA ReturnAside ==
  ASSUME TypeOK, NEW p \in Requests, Return(p), NEW S, req[p].pc \notin S, "idle" \notin S
  PROVE  Aside(S)
  BY Beginning, BecomeAside DEF Return

LEMMA TakeSame == ASSUME TypeOK, NEW c, Take(c) PROVE CodesSame
<1>1. NoKey.taken = 0
  BY DEF NoKey
<1> QED BY <1>1 DEF TypeOK, Take, CodesSame

LEMMA PutSame == ASSUME TypeOK, NEW c, NEW kind, NEW of, Put(c, kind, of) PROVE CodesSame
<1> DEFINE k == [kind |-> kind, of |-> of, taken |-> 0]
<1>1. k.taken = 0
  OBVIOUS
<1>2. code' = [code EXCEPT ![c] = k]
  BY DEF Put
<1> HIDE DEF k
<1> QED BY <1>1, <1>2 DEF TypeOK, CodesSame

\* A user's row changes and its counters stay.
LEMMA RowsSame ==
  ASSUME TypeOK, NEW u \in Users,
         \/ Create(u) \/ SetStatus(u) \/ Remove(u)
         \/ user' = [user EXCEPT ![u].state = "live"]
  PROVE  CountersSame
<1>1. user[u] \in User
  BY DEF TypeOK
<1>2. PICK row \in {[user[u] EXCEPT !.state = "live", !.credential = TRUE],
                    [user[u] EXCEPT !.enabled = ~user[u].enabled],
                    [user[u] EXCEPT !.state = "removed"], [user[u] EXCEPT !.state = "live"]} :
        user' = [user EXCEPT ![u] = row]
  BY DEF Create, SetStatus, Remove
<1>3. row.failedAttempts = user[u].failedAttempts /\ row.lockedUntil = user[u].lockedUntil
  BY <1>1 DEF User
<1> QED BY <1>2, <1>3 DEF TypeOK, CountersSame

Elsewhere == Aside(Watched) /\ CodesSame /\ CountersSame /\ guess' = guess /\ now' = now

LEMMA PcsWatched ==
  Watched = {"compare", "failRead", "failWrite", "success", "delState"}
  BY DEF Watched, AttemptPcs

LEMMA QueryElsewhere ==
  ASSUME TypeOK, NEW p \in Requests, NEW pc, NEW ok, Query(p, pc, ok), req[p].pc \notin Watched,
         pc \notin Watched
  PROVE  Elsewhere
<1>1. Aside(Watched)
  BY PcsWatched, GotoAside, ReturnAside DEF Query
<1> QED BY <1>1 DEF Query, Elsewhere, CodesSame, CountersSame

LEMMA QueriesElsewhere ==
  ASSUME TypeOK, NEW p \in Requests,
         Find(p) \/ Touch(p) \/ FindOwner(p) \/ CheckSelf(p) \/ CountOthers(p)
  PROVE  Elsewhere
<1> DEFINE Nexts == {"isLocked", "giveCode", "checkSelf", "createIdentity", "unbindWrite"}
<1>1. req[p].pc \notin Watched /\ \E pc \in Nexts : \E ok : Query(p, pc, ok)
  BY PcsWatched DEF Find, Touch, FindOwner, CheckSelf, CountOthers
<1> QED BY <1>1, PcsWatched, QueryElsewhere

LEMMA BeginElsewhere ==
  ASSUME TypeOK, NEW p \in Requests, NEW u, NEW c,
         LoginBegin(p, u, c) \/ LinkBegin(p, u, c) \/ RegisterBegin(p, c)
  PROVE  Elsewhere
<1>1. \E q : /\ Become(p, q) /\ q.pc \in {"find", "register"} /\ req[p].pc = "idle" /\ Take(c)
             /\ UNCHANGED <<user, guess, now>>
  BY DEF LoginBegin, LinkBegin, RegisterBegin, ConsumePending, May, IdleRequest
<1>2. Aside(Watched)
  BY <1>1, PcsWatched, BecomeAside
<1> QED BY <1>1, <1>2, TakeSame DEF Elsewhere, CountersSame

LEMMA StoreElsewhere ==
  ASSUME TypeOK, NEW p \in Requests, NEW c, GiveCode(p, c) \/ StorePending(p, c)
  PROVE  Elsewhere
<1>1. /\ Return(p) /\ req[p].pc \in {"giveCode", "storePending"} /\ UNCHANGED <<user, guess, now>>
      /\ \E kind, of : Put(c, kind, of)
  BY DEF GiveCode, StorePending
<1>2. Aside(Watched)
  BY <1>1, PcsWatched, ReturnAside
<1> QED BY <1>1, <1>2, PutSame DEF Elsewhere, CountersSame

LEMMA BindingPc == \A u, a : Binding(u, a).pc = "findOwner"
  BY DEF Binding, IdleRequest

\* The steps of OAuthService that touch no code.
LEMMA OAuthElsewhere ==
  ASSUME TypeOK, NEW p \in Requests,
         FindIdentity(p) \/ CreateIdentity(p) \/ UnbindWrite(p)
         \/ \E u \in Users : \/ Register(p, u)
                             \/ \E a : BindBeginPlain(p, u, a) \/ UnbindBegin(p, u, a)
  PROVE  Elsewhere
<1>1. code' = code /\ guess' = guess /\ now' = now
  BY DEF FindIdentity, CreateIdentity, UnbindWrite, Register, BindBeginPlain, UnbindBegin
<1>2. CodesSame
  BY <1>1 DEF CodesSame
<1>3. CASE FindIdentity(p)
  <2> DEFINE u == identity[req[p].account]
             q == [req[p] EXCEPT !.pc = "touch", !.user = u, !.gone = user[u].state = "removed"]
  <2>1. req[p].pc = "findIdentity" /\ (Goto(p, "storePending") \/ Return(p) \/ Become(p, q))
    BY <1>3 DEF FindIdentity
  <2>2. q.pc = "touch"
    BY DEF TypeOK, Request
  <2> HIDE DEF q
  <2>3. Aside(Watched)
    BY <2>1, <2>2, PcsWatched, GotoAside, ReturnAside, BecomeAside
  <2> QED BY <1>1, <1>2, <1>3, <2>3 DEF FindIdentity, Elsewhere, CountersSame
<1>4. CASE CreateIdentity(p)
  <2>1. Goto(p, "touch") \/ Return(p)
    BY <1>4 DEF CreateIdentity
  <2>2. Aside(Watched)
    BY <1>4, <2>1, PcsWatched, GotoAside, ReturnAside DEF CreateIdentity
  <2> QED BY <1>1, <1>2, <1>4, <2>2 DEF CreateIdentity, Elsewhere, CountersSame
<1>5. CASE UnbindWrite(p)
  <2>1. Return(p) => Aside(Watched)
    BY <1>5, PcsWatched, ReturnAside DEF UnbindWrite
  <2>2. ASSUME ~Return(p), NEW q \in Requests
        PROVE  req'[q] = req[q] \/ (req[q].pc \in UnbindPcs /\ req'[q].pc \in UnbindPcs \cup {"idle"})
    <3>1. CASE q = p
      BY <1>5, <2>2, <3>1, Beginning DEF UnbindWrite, UnbindPcs
    <3>2. CASE q # p
      <4>1. \/ req'[q] = req[q]
            \/ req[q].pc \in UnbindPcs /\ req'[q] = [req[q] EXCEPT !.stale = TRUE]
        BY <1>5, <2>2, <3>2 DEF UnbindWrite
      <4>2. [req[q] EXCEPT !.stale = TRUE].pc = req[q].pc
        BY DEF TypeOK, Request
      <4> QED BY <4>1, <4>2
    <3> QED BY <3>1, <3>2
  <2>3. Aside(Watched)
    <3>1. Watched \cap (UnbindPcs \cup {"idle"}) = {}
      BY PcsWatched DEF UnbindPcs
    <3> QED BY <2>1, <2>2, <3>1 DEF Aside
  <2> QED BY <1>1, <1>2, <1>5, <2>3 DEF UnbindWrite, Elsewhere, CountersSame
<1>6. ASSUME NEW u \in Users, Register(p, u) PROVE Elsewhere
  <2>1. req[p].pc = "register"
    BY <1>6 DEF Register
  <2>2. CASE Return(p) /\ user' = user
    BY <1>1, <1>2, <2>1, <2>2, PcsWatched, ReturnAside DEF Elsewhere, CountersSame
  <2>3. CASE ~(Return(p) /\ user' = user)
    <3>1. /\ user' = [user EXCEPT ![u].state = "live"]
          /\ Become(p, [req[p] EXCEPT !.pc = "touch", !.user = u])
      BY <1>6, <2>3 DEF Register
    <3>2. [req[p] EXCEPT !.pc = "touch", !.user = u].pc = "touch"
      BY DEF TypeOK, Request
    <3>3. Aside(Watched)
      BY <2>1, <3>1, <3>2, PcsWatched, BecomeAside
    <3> QED BY <1>1, <1>2, <3>1, <3>3, RowsSame DEF Elsewhere
  <2> QED BY <2>2, <2>3
<1>7. ASSUME NEW u \in Users, NEW a, BindBeginPlain(p, u, a) \/ UnbindBegin(p, u, a) PROVE Elsewhere
  <2>1. /\ req[p].pc = "idle" /\ user' = user
        /\ \E q : Become(p, q) /\ q.pc \in {"findOwner", "countOthers"}
    <3> DEFINE q == [IdleRequest EXCEPT !.pc = "countOthers", !.op = "unbind", !.user = u,
                                        !.account = a]
    <3>1. q.pc = "countOthers"
      BY DEF IdleRequest
    <3>2. /\ req[p].pc = "idle" /\ user' = user
          /\ Become(p, q) \/ Become(p, Binding(u, a))
      BY <1>7 DEF BindBeginPlain, UnbindBegin, May
    <3> HIDE DEF q
    <3> QED BY <3>1, <3>2, BindingPc
  <2>2. Aside(Watched)
    BY <2>1, PcsWatched, BecomeAside
  <2> QED BY <1>1, <1>2, <2>1, <2>2 DEF Elsewhere, CountersSame
<1> QED BY <1>3, <1>4, <1>5, <1>6, <1>7

LEMMA BindElsewhere ==
  ASSUME TypeOK, NEW p \in Requests, NEW u, NEW a, NEW c, BindBegin(p, u, a, c) PROVE Elsewhere
<1>1. req[p].pc = "idle" /\ Take(c) /\ UNCHANGED <<user, guess, now>>
  BY DEF BindBegin, May
<1>2. req' = req \/ \E q : Become(p, q) /\ q.pc = "findOwner"
  BY BindingPc DEF BindBegin
<1>3. Aside(Watched)
  BY <1>1, <1>2, PcsWatched, BecomeAside DEF Aside
<1> QED BY <1>1, <1>3, TakeSame DEF Elsewhere, CountersSame

\* Administrators, and codes that are made, used or expire.
LEMMA CodesElsewhere ==
  ASSUME TypeOK, \/ \E u \in Users : Create(u) \/ SetStatus(u) \/ Remove(u)
                 \/ \E c \in Codes : \/ GenerateCaptcha(c) \/ CaptchaWrong(c) \/ Exchange(c) \/ Expire(c)
                                     \/ \E provider, mode : GenerateAuthUrl(c, provider, mode)
  PROVE  Elsewhere
<1>1. Aside(Watched) /\ guess' = guess /\ now' = now
  BY DEF Create, SetStatus, Remove, Admin, GenerateCaptcha, CaptchaWrong, Exchange, Expire,
         GenerateAuthUrl, Aside
<1>2. ASSUME NEW u \in Users, Create(u) \/ SetStatus(u) \/ Remove(u) PROVE Elsewhere
  <2>1. CodesSame
    BY <1>2 DEF Create, SetStatus, Remove, Admin, CodesSame
  <2> QED BY <1>1, <1>2, <2>1, RowsSame DEF Elsewhere
<1>3. ASSUME NEW c \in Codes, \/ GenerateCaptcha(c) \/ CaptchaWrong(c) \/ Exchange(c) \/ Expire(c)
                              \/ \E provider, mode : GenerateAuthUrl(c, provider, mode)
      PROVE  Elsewhere
  <2>1. user' = user /\ (Take(c) \/ \E kind, of : Put(c, kind, of))
    BY <1>3 DEF GenerateCaptcha, CaptchaWrong, Exchange, Expire, GenerateAuthUrl, Take
  <2> QED BY <1>1, <2>1, TakeSame, PutSame DEF Elsewhere, CountersSame
<1> QED BY <1>2, <1>3

-----------------------------------------------------------------------------
(* The codes that requests have gone on with.                              *)

\* The callbacks that have read c and not yet deleted it.
Holders(c) == {p \in Requests : req[p].pc = "delState" /\ req[p].code = c}

LEMMA HoldersFinite == \A c : IsFiniteSet(Holders(c)) /\ Cardinality(Holders(c)) \in Nat
<1> TAKE c
<1>1. IsFiniteSet(Holders(c))
  BY AccountsAssumption, FS_Subset DEF Holders
<1> QED BY <1>1, FS_CardinalityType

LEMMA TakenType == ASSUME TypeOK, NEW c \in Codes PROVE code[c].taken \in Nat
<1>1. code[c] \in Code
  BY DEF TypeOK
<1> QED BY <1>1 DEF Code

LEMMA UsedKept ==
  ASSUME TypeOK, CodesUsedOnce, Aside({"delState"}), CodesSame
  PROVE  CodesUsedOnce'
<1>1. ASSUME NEW c \in Codes PROVE code'[c].taken <= Cardinality(Holders(c)')
  <2>1. Holders(c)' = Holders(c)
    BY DEF Holders, Aside
  <2>2. code[c].taken <= Cardinality(Holders(c))
    BY DEF CodesUsedOnce, Holders
  <2> QED BY <2>1, <2>2, HoldersFinite, TakenType DEF CodesSame
<1> QED BY <1>1 DEF CodesUsedOnce, Holders

LEMMA AttemptsAside ==
  ASSUME TypeOK, NEW p \in Requests,
         CheckLock(p) \/ Compare(p) \/ FailRead(p) \/ FailWrite(p) \/ Success(p)
  PROVE  Aside({"delState"}) /\ CodesSame
<1>1. code' = code /\ req[p].pc # "delState"
  BY DEF CheckLock, Compare, FailRead, FailWrite, Success
<1>2. ASSUME NEW pc \in Pcs, Goto(p, pc), pc # "delState" PROVE Aside({"delState"})
  BY <1>1, <1>2, GotoAside
<1>3. CASE CheckLock(p) \/ Compare(p) \/ FailWrite(p)
  BY <1>1, <1>2, <1>3, ReturnAside DEF CheckLock, Compare, FailWrite, Attempt, CodesSame, Pcs
<1>4. CASE FailRead(p)
  <2> DEFINE q == [req[p] EXCEPT !.pc = "failWrite", !.attempts = user[req[p].user].failedAttempts]
  <2>1. q.pc = "failWrite" /\ Become(p, q)
    BY <1>4 DEF FailRead, TypeOK, Request
  <2> HIDE DEF q
  <2> QED BY <1>1, <2>1, BecomeAside DEF CodesSame
<1>5. CASE Success(p)
  <2> DEFINE pc == IF req[p].op = "link" THEN "checkSelf" ELSE "touch"
  <2>1. pc \in Pcs /\ pc # "delState" /\ Goto(p, pc)
    BY <1>5 DEF Success, Pcs, Goto
  <2> HIDE DEF pc
  <2> QED BY <1>1, <1>2, <2>1 DEF CodesSame
<1> QED BY <1>3, <1>4, <1>5

\* handleCallback reads the state ...
LEMMA CallbackUsed ==
  ASSUME IInv, CodesUsedOnce, NEW p \in Requests, NEW a, NEW c \in Codes, CallbackBegin(p, a, c)
  PROVE  CodesUsedOnce'
<1> DEFINE q == [IdleRequest EXCEPT !.pc = "delState", !.op = "callback", !.account = a, !.code = c]
<1>1. /\ req[p].pc = "idle" /\ Become(p, q)
      /\ code' = [code EXCEPT ![c].taken = code[c].taken + 1]
  BY DEF CallbackBegin, May
<1>2. q.pc = "delState" /\ q.code = c
  BY DEF IdleRequest
<1> HIDE DEF q
<1>3. req'[p] = q /\ \A r \in Requests \ {p} : req'[r] = req[r]
  BY <1>1 DEF Become, IInv, TypeOK
<1>4. p \notin Holders(c) /\ Holders(c)' = Holders(c) \cup {p}
  BY <1>1, <1>2, <1>3 DEF Holders
<1>5. \A d \in Codes \ {c} : Holders(d)' = Holders(d) /\ code'[d] = code[d]
  BY <1>1, <1>2, <1>3 DEF Holders, IInv, TypeOK
<1>6. Cardinality(Holders(c)') = Cardinality(Holders(c)) + 1
  BY <1>4, HoldersFinite, FS_AddElement
<1>7. code'[c].taken = code[c].taken + 1
  BY <1>1 DEF IInv, TypeOK, Code
<1>8. \A d \in Codes : code[d].taken <= Cardinality(Holders(d))
  BY DEF CodesUsedOnce, Holders
<1>9. code'[c].taken <= Cardinality(Holders(c)')
  BY <1>6, <1>7, <1>8, HoldersFinite, TakenType DEF IInv
<1> QED BY <1>5, <1>8, <1>9 DEF CodesUsedOnce, Holders

\* ... and deletes it, or fails before that.
LEMMA DelStateUsed ==
  ASSUME IInv, CodesUsedOnce, NEW p \in Requests, DelState(p)
  PROVE  CodesUsedOnce'
<1> DEFINE q == [req[p] EXCEPT !.pc = "findIdentity", !.code = NoCode]
<1> PICK c \in Codes : c = req[p].code
  BY DEF DelState, IInv, Parts, Aimed, Knows
<1>1. req[p].pc = "delState" /\ Become(p, q) /\ Take(c)
  BY DEF DelState
<1>2. q.pc = "findIdentity"
  BY DEF IInv, TypeOK, Request
<1> HIDE DEF q
<1>3. req'[p] = q /\ \A r \in Requests \ {p} : req'[r] = req[r]
  BY <1>1 DEF Become, IInv, TypeOK
<1>4. \A d \in Codes \ {c} : Holders(d)' = Holders(d) /\ code'[d] = code[d]
  BY <1>1, <1>2, <1>3 DEF Holders, IInv, TypeOK, Take
<1>5. code'[c].taken = 0
  BY <1>1 DEF Take, NoKey, IInv, TypeOK
<1>6. \A d \in Codes : 0 <= Cardinality(Holders(d)')
  <2> TAKE d \in Codes
  <2>1. IsFiniteSet(Holders(d)')
    BY AccountsAssumption, FS_Subset DEF Holders
  <2> QED BY <2>1, FS_CardinalityType
<1>7. \A d \in Codes : code[d].taken <= Cardinality(Holders(d))
  BY DEF CodesUsedOnce, Holders
<1>8. \A d \in Codes : code'[d].taken <= Cardinality(Holders(d)')
  BY <1>4, <1>5, <1>6, <1>7
<1> QED BY <1>8 DEF CodesUsedOnce, Holders

LEMMA AbortUsed ==
  ASSUME IInv, CodesUsedOnce, NEW p \in Requests, Abort(p)
  PROVE  CodesUsedOnce'
<1>1. Return(p) /\ req'[p].pc = "idle" /\ \A r \in Requests \ {p} : req'[r] = req[r]
  BY Beginning DEF Abort, Return, Become, IInv, TypeOK
<1>2. CASE req[p].pc # "delState"
  <2>1. CodesSame
    BY <1>2 DEF Abort, CodesSame
  <2>2. Aside({"delState"})
    BY <1>1, <1>2, ReturnAside DEF IInv
  <2> QED BY <2>1, <2>2, UsedKept DEF IInv
<1>3. CASE req[p].pc = "delState"
  <2> PICK c \in Codes : c = req[p].code
    BY <1>3 DEF IInv, Parts, Aimed, Knows
  <2>1. p \in Holders(c) /\ Holders(c)' = Holders(c) \ {p}
    BY <1>1, <1>3 DEF Holders
  <2>2. Cardinality(Holders(c)') = Cardinality(Holders(c)) - 1
    BY <2>1, HoldersFinite, FS_RemoveElement
  <2>3. \A d \in Codes \ {c} : Holders(d)' = Holders(d) /\ code'[d] = code[d]
    BY <1>1, <1>3 DEF Holders, Abort, IInv, TypeOK
  <2>4. \A d \in Codes : code[d].taken <= Cardinality(Holders(d))
    BY DEF CodesUsedOnce, Holders
  <2>5. code'[c].taken = IF code[c].taken > 0 THEN code[c].taken - 1 ELSE code[c].taken
    BY <1>3, <2>1 DEF Abort, IInv, TypeOK, Code
  <2>6. Cardinality(Holders(c)) # 0
    BY <2>1, HoldersFinite, FS_EmptySet
  <2>7. code'[c].taken <= Cardinality(Holders(c)')
    BY <2>1, <2>2, <2>4, <2>5, <2>6, HoldersFinite, TakenType DEF IInv
  <2> QED BY <2>3, <2>4, <2>7 DEF CodesUsedOnce, Holders
<1> QED BY <1>2, <1>3

\* All steps but those: none reads a state and leaves it where it is.
LEMMA StepElsewhere ==
  ASSUME IInv, NEW p \in Requests, Step(p)
  PROVE  \/ Elsewhere \/ DelState(p) \/ Abort(p)
         \/ \E a \in mix.accounts, c \in Codes : CallbackBegin(p, a, c)
         \/ CheckLock(p) \/ Compare(p) \/ FailRead(p) \/ FailWrite(p) \/ Success(p)
<1>1. ASSUME NEW u \in Users, NEW c \in Codes, LoginBegin(p, u, c) \/ LinkBegin(p, u, c)
      PROVE  Elsewhere
  BY <1>1, BeginElsewhere DEF IInv
<1>2. ASSUME NEW c \in Codes, GiveCode(p, c) \/ StorePending(p, c) \/ RegisterBegin(p, c)
      PROVE  Elsewhere
  BY <1>2, StoreElsewhere, BeginElsewhere DEF IInv
<1>3. ASSUME NEW u \in Users, NEW a, \/ BindBeginPlain(p, u, a) \/ UnbindBegin(p, u, a)
                                     \/ \E c \in Codes : BindBegin(p, u, a, c)
      PROVE  Elsewhere
  BY <1>3, OAuthElsewhere, BindElsewhere DEF IInv
<1>4. ASSUME NEW u \in Users, Register(p, u) PROVE Elsewhere
  BY <1>4, OAuthElsewhere DEF IInv
<1>5. CASE Find(p) \/ Touch(p) \/ FindOwner(p) \/ CheckSelf(p) \/ CountOthers(p)
  BY <1>5, QueriesElsewhere DEF IInv
<1>6. CASE FindIdentity(p) \/ CreateIdentity(p) \/ UnbindWrite(p)
  BY <1>6, OAuthElsewhere DEF IInv
<1> QED BY <1>1, <1>2, <1>3, <1>4, <1>5, <1>6 DEF Step

LEMMA NextElsewhere ==
  ASSUME IInv, [Next]_vars
  PROVE  \/ Elsewhere
         \/ Aside(Watched) /\ UNCHANGED <<user, code, guess>> /\ now' = now + 1
         \/ \E p \in Requests :
              \/ DelState(p) \/ Abort(p)
              \/ \E a \in mix.accounts, c \in Codes : CallbackBegin(p, a, c)
              \/ CheckLock(p) \/ Compare(p) \/ FailRead(p) \/ FailWrite(p) \/ Success(p)
<1>1. CASE UNCHANGED vars
  BY <1>1 DEF vars, Elsewhere, Aside, CodesSame, CountersSame
<1>2. CASE Tick
  BY <1>2 DEF Tick, Aside
<1>3. ASSUME NEW p \in Requests, Step(p)
      PROVE  \/ Elsewhere \/ DelState(p) \/ Abort(p)
             \/ \E a \in mix.accounts, c \in Codes : CallbackBegin(p, a, c)
             \/ CheckLock(p) \/ Compare(p) \/ FailRead(p) \/ FailWrite(p) \/ Success(p)
  BY <1>3, StepElsewhere
<1>4. ASSUME NEW u \in Users, Create(u) \/ SetStatus(u) \/ Remove(u) PROVE Elsewhere
  BY <1>4, CodesElsewhere DEF IInv
<1>5. ASSUME NEW c \in Codes, \/ GenerateCaptcha(c) \/ CaptchaWrong(c) \/ Exchange(c) \/ Expire(c)
                              \/ \E provider, mode : GenerateAuthUrl(c, provider, mode)
      PROVE  Elsewhere
  BY <1>5, CodesElsewhere DEF IInv
<1> QED BY <1>1, <1>2, <1>3, <1>4, <1>5 DEF Next

LEMMA WatchedAside ==
  Aside(Watched) => Aside({"delState"}) /\ Aside(AttemptPcs)
  BY DEF Aside, Watched

LEMMA NextUsed == ASSUME IInv, CodesUsedOnce, [Next]_vars PROVE CodesUsedOnce'
<1>1. TypeOK
  BY DEF IInv
<1>2. CASE Elsewhere
  BY <1>1, <1>2, WatchedAside, UsedKept DEF Elsewhere
<1>3. CASE Aside(Watched) /\ UNCHANGED <<user, code, guess>> /\ now' = now + 1
  BY <1>1, <1>3, WatchedAside, UsedKept DEF CodesSame
<1>4. ASSUME NEW p \in Requests,
             CheckLock(p) \/ Compare(p) \/ FailRead(p) \/ FailWrite(p) \/ Success(p)
      PROVE  CodesUsedOnce'
  BY <1>1, <1>4, AttemptsAside, UsedKept
<1> QED BY <1>2, <1>3, <1>4, NextElsewhere, CallbackUsed, DelStateUsed, AbortUsed

\* No request goes on with a code that another has used: a state that a
\* callback went on with, and no other is about to delete, is gone.
THEOREM CodesWorkOnce == Spec => []CodesUsedOnce
<1>1. Init => CodesUsedOnce
  <2> SUFFICES ASSUME Init, NEW c \in Codes PROVE code[c].taken <= Cardinality(Holders(c))
    BY DEF CodesUsedOnce, Holders
  <2>1. code[c].taken = 0
    BY DEF Init, NoKey
  <2> QED BY <2>1, HoldersFinite
<1> QED BY <1>1, Invariant, NextUsed, PTL DEF Spec

-----------------------------------------------------------------------------
(* The wrong passwords of a user are those that its row counts, as long as  *)
(* no attempts overlap and every failure is written.                        *)

Trying(p, u)  == req[p].pc \in AttemptPcs /\ req[p].user = u
Failing(p, u) == req[p].pc \in {"failRead", "failWrite"} /\ req[p].user = u

Counted(u) ==
  /\ user[u].failedAttempts = guess[u].wrong
  /\ guess[u].wrong >= Threshold => user[u].lockedUntil >= guess[u].last + Duration

CountOf(u) ==
  /\ guess[u].last <= now
  /\ \A p, q \in Requests : Trying(p, u) /\ Trying(q, u) => p = q
  /\ (\A p \in Requests : ~Failing(p, u)) => Counted(u)
  /\ \A p \in Requests : Failing(p, u) => user[u].failedAttempts + 1 = guess[u].wrong
  /\ \A p \in Requests :
       req[p].pc = "failWrite" /\ req[p].user = u => req[p].attempts = user[u].failedAttempts
  /\ \A p \in Requests : req[p].pc = "compare" /\ req[p].user = u => user[u].lockedUntil <= now

CountInv == \A u \in Users : guess[u].excused \/ CountOf(u)

LEMMA CountTypes ==
  ASSUME TypeOK, NEW u \in Users
  PROVE  /\ guess[u].wrong \in Nat /\ guess[u].last \in Nat /\ guess[u].excused \in BOOLEAN
         /\ user[u].failedAttempts \in Nat /\ user[u].lockedUntil \in Nat
         /\ now \in Nat /\ Threshold \in Nat \ {0} /\ Duration \in Nat
<1>1. guess[u] \in Guess /\ user[u] \in User /\ now \in Nat
  BY DEF TypeOK
<1> QED BY <1>1, AccountsAssumption DEF Guess, User

\* The requests that try the user's password are the same, but for some that
\* end without a failure.
LEMMA CountKept ==
  ASSUME TypeOK, NEW u \in Users, CountOf(u), guess'[u] = guess[u], now' \in {now, now + 1},
         user'[u].failedAttempts = user[u].failedAttempts,
         user'[u].lockedUntil = user[u].lockedUntil,
         \A p \in Requests : req'[p] = req[p] \/ (~Failing(p, u) /\ ~Trying(p, u)')
  PROVE  CountOf(u)'
<1>1. \A p \in Requests :
        /\ Trying(p, u)' => Trying(p, u) /\ req'[p] = req[p]
        /\ Failing(p, u)' <=> Failing(p, u)
        /\ req'[p].pc \in {"compare", "failWrite"} /\ req'[p].user = u => Trying(p, u)'
  BY DEF Trying, Failing, AttemptPcs
<1>2. guess'[u].last <= now'
  BY CountTypes DEF CountOf
<1>3. \A p, q \in Requests : Trying(p, u)' /\ Trying(q, u)' => p = q
  BY <1>1 DEF CountOf
<1>4. (\A p \in Requests : ~Failing(p, u)') => Counted(u)'
  BY <1>1 DEF CountOf, Counted
<1>5. \A p \in Requests : Failing(p, u)' => user'[u].failedAttempts + 1 = guess'[u].wrong
  BY <1>1 DEF CountOf
<1>6. \A p \in Requests : req'[p].pc = "failWrite" /\ req'[p].user = u
                            => req'[p].attempts = user'[u].failedAttempts
  BY <1>1 DEF CountOf
<1>7. \A p \in Requests : req'[p].pc = "compare" /\ req'[p].user = u => user'[u].lockedUntil <= now'
  BY <1>1, CountTypes DEF CountOf
<1> QED BY <1>2, <1>3, <1>4, <1>5, <1>6, <1>7 DEF CountOf

\* A step of p on behalf of another user.
LEMMA OtherUser ==
  ASSUME TypeOK, NEW p \in Requests, NEW u \in Users, CountOf(u), req[p].user # u, guess'[u] = guess[u],
         now' = now, user'[u] = user[u], NEW q, Become(p, q), q.user = req[p].user \/ q.pc \notin AttemptPcs
  PROVE  CountOf(u)'
<1>1. req'[p] = q /\ \A r \in Requests \ {p} : req'[r] = req[r]
  BY DEF TypeOK, Become
<1>2. ~Failing(p, u) /\ ~Trying(p, u)'
  BY <1>1 DEF Failing, Trying
<1> QED BY <1>1, <1>2, CountKept

\* A wrong or right password is looked at after the lock was.
LEMMA CheckLockCount ==
  ASSUME IInv, CountInv, NEW p \in Requests, CheckLock(p), NEW u \in Users, ~guess'[u].excused
  PROVE  CountOf(u)'
<1>0. TypeOK /\ now' = now /\ user' = user /\ req[p].pc = "isLocked"
  BY DEF IInv, CheckLock
<1>1. CASE Return(p) /\ guess' = guess
  <2>1. Aside(AttemptPcs)
    BY <1>0, <1>1, ReturnAside DEF AttemptPcs
  <2>2. \A r \in Requests : req'[r] = req[r] \/ (~Failing(r, u) /\ ~Trying(r, u)')
    BY <2>1 DEF Aside, Failing, Trying, AttemptPcs
  <2>3. CountOf(u)
    BY <1>1 DEF CountInv
  <2> QED BY <1>0, <1>1, <2>2, <2>3, CountKept
<1>2. CASE ~(Return(p) /\ guess' = guess)
  <2> DEFINE q == [req[p] EXCEPT !.pc = "compare"]
  <2>1. q.pc = "compare" /\ q.user = req[p].user
    BY <1>0 DEF TypeOK, Request
  <2>2. Become(p, q) /\ ~IsLocked(req[p].user)
    BY <1>2 DEF CheckLock, Attempt, Goto
  <2>3. guess' = [guess EXCEPT ![req[p].user].excused = guess[req[p].user].excused \/ Overlaps(p)]
    BY <1>2 DEF CheckLock, Attempt
  <2> HIDE DEF q
  <2>4. req'[p] = q /\ \A r \in Requests \ {p} : req'[r] = req[r]
    BY <1>0, <2>2 DEF TypeOK, Become
  <2>5. CASE req[p].user # u
    <3>1. guess'[u] = guess[u]
      BY <1>0, <2>3, <2>5 DEF TypeOK
    <3>2. CountOf(u)
      BY <3>1 DEF CountInv
    <3> QED BY <1>0, <2>1, <2>2, <2>5, <3>1, <3>2, OtherUser
  <2>6. CASE req[p].user = u
    <3>1. /\ guess'[u].wrong = guess[u].wrong /\ guess'[u].last = guess[u].last
          /\ guess'[u].excused = (guess[u].excused \/ Overlaps(p))
      BY <1>0, <2>3, <2>6 DEF TypeOK, Guess
    <3>2. CountOf(u) /\ \A r \in Requests \ {p} : ~Trying(r, u)
      BY <2>6, <3>1 DEF CountInv, Overlaps, Trying
    <3>3. \A r \in Requests : ~Failing(r, u)
      BY <1>0, <3>2 DEF Failing, Trying, AttemptPcs
    <3>4. \A r \in Requests : Trying(r, u)' => r = p
      BY <2>4, <3>2 DEF Trying
    <3>5. \A r \in Requests : /\ ~Failing(r, u)'
                              /\ ~(req'[r].pc = "failWrite" /\ req'[r].user = u)
      BY <2>1, <2>4, <3>3 DEF Failing
    <3>6. user[u].lockedUntil <= now
      BY <1>0, <2>2, <2>6, CountTypes DEF IsLocked
    <3> QED BY <1>0, <3>1, <3>2, <3>3, <3>4, <3>5, <3>6 DEF CountOf, Counted
  <2> QED BY <2>5, <2>6
<1> QED BY <1>1, <1>2

\* What a request that tries the user's password finds.
LEMMA Tries ==
  ASSUME TypeOK, NEW p \in Requests, NEW u \in Users, CountOf(u), Trying(p, u)
  PROVE  /\ \A r \in Requests \ {p} : ~Trying(r, u) /\ ~Failing(r, u)
         /\ ~Failing(p, u) => Counted(u)
<1>1. \A r \in Requests \ {p} : ~Trying(r, u)
  BY DEF CountOf
<1>2. \A r \in Requests \ {p} : ~Failing(r, u)
  BY <1>1 DEF Trying, Failing, AttemptPcs
<1> QED BY <1>1, <1>2 DEF CountOf

LEMMA CompareCount ==
  ASSUME IInv, CountInv, NEW p \in Requests, Compare(p), NEW u \in Users, ~guess'[u].excused
  PROVE  /\ CountOf(u)'
         /\ guess'[u].wrong > guess[u].wrong /\ guess[u].wrong >= Threshold
              => now >= guess[u].last + Duration
<1>0. TypeOK /\ now' = now /\ user' = user /\ req[p].pc = "compare"
  BY DEF IInv, Compare
<1>1. \/ Return(p) /\ guess' = guess
      \/ Goto(p, "success") /\ guess' = guess
      \/ Goto(p, "failRead") /\ guess' = [guess EXCEPT ![req[p].user] = Wrong(guess[req[p].user])]
  BY DEF Compare
<1>2. ASSUME NEW pc, Goto(p, pc)
      PROVE  /\ req'[p].pc = pc /\ req'[p].user = req[p].user
             /\ \A r \in Requests \ {p} : req'[r] = req[r]
  BY <1>0, <1>2 DEF TypeOK, Request, Goto, Become
<1>3. CASE Return(p) /\ guess' = guess
  <2>1. /\ req'[p].pc = "idle" /\ \A r \in Requests \ {p} : req'[r] = req[r]
    BY <1>0, <1>3, Beginning DEF Return, Become, TypeOK
  <2>2. \A r \in Requests : req'[r] = req[r] \/ (~Failing(r, u) /\ ~Trying(r, u)')
    BY <1>0, <2>1 DEF Failing, Trying, AttemptPcs
  <2>3. CountOf(u)
    BY <1>3 DEF CountInv
  <2> QED BY <1>0, <1>3, <2>2, <2>3, CountKept, CountTypes
<1>4. CASE Goto(p, "success") /\ guess' = guess
  <2>1. CountOf(u)
    BY <1>4 DEF CountInv
  <2>2. \A r \in Requests : /\ Trying(r, u)' <=> Trying(r, u)
                            /\ Failing(r, u)' <=> Failing(r, u)
                            /\ req'[r].pc \in {"compare", "failWrite"} => req'[r] = req[r]
    BY <1>0, <1>2, <1>4 DEF Trying, Failing, AttemptPcs
  <2>3. CountOf(u)'
    BY <1>0, <1>4, <2>1, <2>2 DEF CountOf, Counted
  <2> QED BY <1>0, <1>4, <2>3, CountTypes
<1>5. CASE Goto(p, "failRead") /\ guess' = [guess EXCEPT ![req[p].user] = Wrong(guess[req[p].user])]
  <2>1. CASE req[p].user # u
    <3>1. guess'[u] = guess[u]
      BY <1>0, <1>5, <2>1 DEF TypeOK
    <3>2. CountOf(u)
      BY <3>1 DEF CountInv
    <3>3. \A r \in Requests : req'[r] = req[r] \/ (~Failing(r, u) /\ ~Trying(r, u)')
      BY <1>2, <1>5, <2>1 DEF Failing, Trying
    <3> QED BY <1>0, <3>1, <3>2, <3>3, CountKept, CountTypes
  <2>2. CASE req[p].user = u
    <3>1. guess'[u] = Wrong(guess[u]) /\ guess[u] \in Guess
      BY <1>0, <1>5, <2>2 DEF TypeOK
    <3>2. ~guess[u].excused
      BY <3>1 DEF Wrong
    <3>3. /\ guess'[u].wrong = guess[u].wrong + 1 /\ guess'[u].last = now
      BY <3>1, <3>2 DEF Wrong, Guess
    <3>4. CountOf(u) /\ Trying(p, u) /\ ~Failing(p, u)
      BY <1>0, <2>2, <3>2 DEF CountInv, Trying, Failing, AttemptPcs
    <3>5. Counted(u) /\ \A r \in Requests \ {p} : ~Trying(r, u) /\ ~Failing(r, u)
      BY <1>0, <3>4, Tries
    <3>6. user[u].lockedUntil <= now
      BY <1>0, <2>2, <3>4 DEF CountOf
    <3>7. guess[u].wrong >= Threshold => now >= guess[u].last + Duration
      BY <1>0, <3>5, <3>6, CountTypes DEF Counted
    <3>8. req'[p].pc = "failRead" /\ req'[p].user = u
      BY <1>2, <1>5, <2>2
    <3>9. \A r \in Requests : Trying(r, u)' => r = p
      BY <1>2, <1>5, <3>5 DEF Trying
    <3>10. \A r \in Requests : ~(req'[r].pc \in {"failWrite", "compare"} /\ req'[r].user = u)
      BY <3>8, <3>9 DEF Trying, AttemptPcs
    <3>11. Failing(p, u)'
      BY <3>8 DEF Failing
    <3>12. user'[u].failedAttempts + 1 = guess'[u].wrong /\ guess'[u].last <= now'
      BY <1>0, <3>3, <3>5, CountTypes DEF Counted
    <3>13. CountOf(u)'
      BY <3>9, <3>10, <3>11, <3>12 DEF CountOf
    <3> QED BY <3>7, <3>13
  <2> QED BY <2>1, <2>2
<1> QED BY <1>1, <1>3, <1>4, <1>5

LEMMA FailReadCount ==
  ASSUME IInv, CountInv, NEW p \in Requests, FailRead(p), NEW u \in Users, ~guess'[u].excused
  PROVE  CountOf(u)'
<1> DEFINE q == [req[p] EXCEPT !.pc = "failWrite", !.attempts = user[req[p].user].failedAttempts]
<1>0. TypeOK /\ now' = now /\ user' = user /\ guess' = guess /\ req[p].pc = "failRead" /\ Become(p, q)
  BY DEF IInv, FailRead
<1>1. q.pc = "failWrite" /\ q.user = req[p].user /\ q.attempts = user[req[p].user].failedAttempts
  BY <1>0 DEF TypeOK, Request
<1> HIDE DEF q
<1>2. req'[p] = q /\ \A r \in Requests \ {p} : req'[r] = req[r]
  BY <1>0 DEF TypeOK, Become
<1>3. CountOf(u)
  BY <1>0 DEF CountInv
<1>4. \A r \in Requests : /\ Trying(r, u)' <=> Trying(r, u)
                          /\ Failing(r, u)' <=> Failing(r, u)
                          /\ req'[r].pc = "compare" => req'[r] = req[r]
  BY <1>0, <1>1, <1>2 DEF Trying, Failing, AttemptPcs
<1>5. \A r \in Requests : req'[r].pc = "failWrite" /\ req'[r].user = u
                            => req'[r].attempts = user[u].failedAttempts
  BY <1>1, <1>2, <1>3 DEF CountOf
<1> QED BY <1>0, <1>3, <1>4, <1>5 DEF CountOf, Counted

\* A row whose counters change.
LEMMA CountersSet ==
  ASSUME TypeOK, NEW v \in Users, NEW n \in Nat, NEW until \in Nat,
         user' = [user EXCEPT ![v].failedAttempts = n, ![v].lockedUntil = until]
  PROVE  /\ user'[v].failedAttempts = n /\ user'[v].lockedUntil = until
         /\ \A u \in Users \ {v} : user'[u] = user[u]
<1> DEFINE row == [user[v] EXCEPT !.failedAttempts = n, !.lockedUntil = until]
<1>1. user' = [user EXCEPT ![v] = row]
  OBVIOUS
<1>2. row.failedAttempts = n /\ row.lockedUntil = until
  BY DEF TypeOK, User
<1> HIDE DEF row
<1> QED BY <1>1, <1>2 DEF TypeOK

LEMMA FailWriteCount ==
  ASSUME IInv, CountInv, NEW p \in Requests, FailWrite(p), NEW u \in Users, ~guess'[u].excused
  PROVE  CountOf(u)'
<1> DEFINE v == req[p].user
           n == req[p].attempts + 1
           until == IF ShouldLock(n) THEN now + Duration ELSE user[v].lockedUntil
<1>0. TypeOK /\ now' = now /\ guess' = guess /\ req[p].pc = "failWrite" /\ v \in Users
  BY DEF IInv, FailWrite, Parts, Aimed, Knows, NeedUser
<1>1. n \in Nat /\ until \in Nat
  <2>1. req[p] \in Request
    BY <1>0 DEF TypeOK
  <2>2. req[p].attempts \in Nat
    BY <2>1 DEF Request
  <2> QED BY <1>0, <2>2, CountTypes
<1>2. user' = [user EXCEPT ![v].failedAttempts = n, ![v].lockedUntil = until]
  BY DEF FailWrite
<1>3. /\ user'[req[p].user].failedAttempts = n /\ user'[req[p].user].lockedUntil = until
      /\ \A w \in Users \ {req[p].user} : user'[w] = user[w]
  <2> HIDE DEF n, until
  <2> QED BY <1>0, <1>1, <1>2, CountersSet
<1>4. req'[p].pc = "idle" /\ \A r \in Requests \ {p} : req'[r] = req[r]
  BY <1>0, Beginning DEF FailWrite, Return, Become, TypeOK
<1>5. CountOf(u)
  BY <1>0 DEF CountInv
<1>6. CASE req[p].user # u
  <2>1. \A r \in Requests : req'[r] = req[r] \/ (~Failing(r, u) /\ ~Trying(r, u)')
    BY <1>4, <1>6 DEF Failing, Trying, AttemptPcs
  <2> QED BY <1>0, <1>3, <1>5, <1>6, <2>1, CountKept
<1>7. CASE req[p].user = u
  <2>1. Trying(p, u) /\ Failing(p, u)
    BY <1>0, <1>7 DEF Trying, Failing, AttemptPcs
  <2>2. \A r \in Requests \ {p} : ~Trying(r, u)
    BY <1>0, <1>5, <2>1, Tries
  <2>3. \A r \in Requests : ~Trying(r, u)'
    BY <1>4, <2>2 DEF Trying, AttemptPcs
  <2>4. \A r \in Requests : /\ ~Failing(r, u)'
                            /\ ~(req'[r].pc \in {"failWrite", "compare"} /\ req'[r].user = u)
    BY <2>3 DEF Trying, Failing, AttemptPcs
  <2>5. n = guess[u].wrong /\ guess[u].last <= now
    BY <1>0, <1>5, <1>7, <2>1 DEF CountOf
  <2>6. n >= Threshold => until = now + Duration
    BY DEF ShouldLock
  <2>7. Counted(u)'
    BY <1>0, <1>3, <1>7, <2>5, <2>6, CountTypes DEF Counted
  <2> QED BY <1>0, <2>3, <2>4, <2>5, <2>7 DEF CountOf
<1> QED BY <1>6, <1>7

LEMMA SuccessCount ==
  ASSUME IInv, CountInv, NEW p \in Requests, Success(p), NEW u \in Users, ~guess'[u].excused
  PROVE  CountOf(u)'
<1> DEFINE pc == IF req[p].op = "link" THEN "checkSelf" ELSE "touch"
<1>0. TypeOK /\ now' = now /\ req[p].pc = "success" /\ req[p].user \in Users
  BY DEF IInv, Success, Parts, Aimed, Knows, NeedUser
<1>1. /\ user'[req[p].user].failedAttempts = 0 /\ user'[req[p].user].lockedUntil = 0
      /\ \A w \in Users \ {req[p].user} : user'[w] = user[w]
  <2>1. user' = [user EXCEPT ![req[p].user].failedAttempts = 0, ![req[p].user].lockedUntil = 0]
    BY DEF Success
  <2> QED BY <1>0, <2>1, CountersSet
<1>2. /\ req'[p].pc = pc /\ \A r \in Requests \ {p} : req'[r] = req[r]
  BY <1>0 DEF Success, Become, TypeOK, Request
<1>3. pc \notin AttemptPcs
  BY DEF AttemptPcs
<1> HIDE DEF pc
<1>4. guess' = [guess EXCEPT ![req[p].user].wrong = 0]
  BY DEF Success
<1>5. CASE req[p].user # u
  <2>1. guess'[u] = guess[u]
    BY <1>0, <1>4, <1>5 DEF TypeOK
  <2>2. CountOf(u)
    BY <2>1 DEF CountInv
  <2>3. \A r \in Requests : req'[r] = req[r] \/ (~Failing(r, u) /\ ~Trying(r, u)')
    BY <1>2, <1>3, <1>5 DEF Failing, Trying
  <2> QED BY <1>0, <1>1, <1>5, <2>1, <2>2, <2>3, CountKept
<1>6. CASE req[p].user = u
  <2>1. guess'[u].wrong = 0 /\ guess'[u].last = guess[u].last /\ guess'[u].excused = guess[u].excused
    BY <1>0, <1>4, <1>6 DEF TypeOK, Guess
  <2>2. CountOf(u)
    BY <2>1 DEF CountInv
  <2>3. Trying(p, u)
    BY <1>0, <1>6 DEF Trying, AttemptPcs
  <2>4. \A r \in Requests : ~Trying(r, u)'
    BY <1>0, <1>2, <1>3, <2>2, <2>3, Tries DEF Trying
  <2>5. \A r \in Requests : /\ ~Failing(r, u)'
                            /\ ~(req'[r].pc \in {"failWrite", "compare"} /\ req'[r].user = u)
    BY <2>4 DEF Trying, Failing, AttemptPcs
  <2>6. Counted(u)'
    BY <1>1, <1>6, <2>1, CountTypes, <1>0 DEF Counted
  <2>7. guess'[u].last <= now'
    BY <1>0, <2>1, <2>2 DEF CountOf
  <2> QED BY <2>4, <2>5, <2>6, <2>7 DEF CountOf
<1> QED BY <1>5, <1>6

LEMMA AbortCount ==
  ASSUME IInv, CountInv, NEW p \in Requests, Abort(p), NEW u \in Users, ~guess'[u].excused
  PROVE  CountOf(u)'
<1>0. TypeOK /\ now' = now /\ user' = user
  BY DEF IInv, Abort
<1>1. req'[p].pc = "idle" /\ \A r \in Requests \ {p} : req'[r] = req[r]
  BY <1>0, Beginning DEF Abort, Return, Become, TypeOK
<1>2. ~Failing(p, u) /\ guess'[u] = guess[u]
  <2>1. CASE req[p].pc \in {"failRead", "failWrite"}
    <3>1. guess' = [guess EXCEPT ![req[p].user].excused = TRUE]
      BY <2>1 DEF Abort
    <3>2. req[p].user # u
      BY <1>0, <3>1 DEF TypeOK, Guess
    <3> QED BY <1>0, <3>1, <3>2 DEF TypeOK, Failing
  <2>2. CASE req[p].pc \notin {"failRead", "failWrite"}
    BY <2>2 DEF Abort, Failing
  <2> QED BY <2>1, <2>2
<1>3. \A r \in Requests : req'[r] = req[r] \/ (~Failing(r, u) /\ ~Trying(r, u)')
  BY <1>1, <1>2 DEF Trying, AttemptPcs
<1>4. CountOf(u)
  BY <1>2 DEF CountInv
<1> QED BY <1>0, <1>2, <1>3, <1>4, CountKept

LEMMA AsideCount ==
  ASSUME IInv, CountInv, Aside(AttemptPcs), CountersSame, guess' = guess, now' \in {now, now + 1}
  PROVE  CountInv'
<1> SUFFICES ASSUME NEW u \in Users, ~guess[u].excused PROVE CountOf(u)'
  BY DEF CountInv
<1>1. CountOf(u)
  BY DEF CountInv
<1>2. \A r \in Requests : req'[r] = req[r] \/ (~Failing(r, u) /\ ~Trying(r, u)')
  BY DEF Aside, Failing, Trying, AttemptPcs
<1> QED BY <1>1, <1>2, CountKept DEF IInv, CountersSame

\* What GuessesAreCounted says of a step.
StepIsCounted ==
  \A u \in Users :
    /\ guess'[u].wrong > guess[u].wrong /\ guess[u].wrong >= Threshold
    /\ ~guess[u].excused
    => now >= guess[u].last + Duration

\* The wrong passwords grow when one is compared, and then no failure is
\* excused that was not before.
LEMMA OnlyCompareCounts ==
  ASSUME TypeOK, NEW p \in Requests, NEW u \in Users
  PROVE  /\ guess' = guess \/ CheckLock(p) \/ Success(p) \/ Abort(p)
              => ~(guess'[u].wrong > guess[u].wrong)
         /\ Compare(p) => guess'[u].excused = guess[u].excused
<1>0. guess[u] \in Guess /\ guess[u].wrong \in Nat
  BY CountTypes DEF TypeOK
<1>1. CASE guess' = guess
  BY <1>0, <1>1
<1>2. ASSUME CheckLock(p) \/ Abort(p) PROVE guess'[u].wrong = guess[u].wrong
  <2>1. CASE guess' = guess
    BY <2>1
  <2>2. CASE Attempt(p)
    BY <1>0, <2>2 DEF Attempt, TypeOK, Guess
  <2>3. CASE guess' = [guess EXCEPT ![req[p].user].excused = TRUE]
    BY <1>0, <2>3 DEF TypeOK, Guess
  <2> QED BY <1>2, <2>1, <2>2, <2>3 DEF CheckLock, Abort
<1>3. ASSUME Success(p) PROVE guess'[u].wrong \in {guess[u].wrong, 0}
  BY <1>0, <1>3 DEF Success, TypeOK, Guess
<1>4. ASSUME Compare(p) PROVE guess'[u].excused = guess[u].excused
  <2>1. guess' = guess \/ guess' = [guess EXCEPT ![req[p].user] = Wrong(guess[req[p].user])]
    BY <1>4 DEF Compare
  <2>2. guess'[u] \in {guess[u], Wrong(guess[u])}
    BY <2>1 DEF TypeOK
  <2>3. Wrong(guess[u]).excused = guess[u].excused
    BY <1>0 DEF Wrong, Guess
  <2> QED BY <2>2, <2>3
<1> QED BY <1>0, <1>1, <1>2, <1>3, <1>4

LEMMA NextCount == ASSUME IInv, CountInv, [Next]_vars PROVE CountInv' /\ StepIsCounted
<1>0. TypeOK
  BY DEF IInv
<1>1. ASSUME guess' = guess PROVE StepIsCounted
  BY <1>0, <1>1, CountTypes DEF StepIsCounted
<1>2. CASE Elsewhere
  BY <1>1, <1>2, WatchedAside, AsideCount DEF Elsewhere
<1>3. CASE Aside(Watched) /\ UNCHANGED <<user, code, guess>> /\ now' = now + 1
  BY <1>1, <1>3, WatchedAside, AsideCount DEF CountersSame
<1>4. ASSUME NEW p \in Requests, DelState(p) \/ \E a \in mix.accounts, c \in Codes : CallbackBegin(p, a, c)
      PROVE  CountInv' /\ StepIsCounted
  <2>1. /\ UNCHANGED <<user, guess, now>>
        /\ \E q : Become(p, q) /\ q.pc \in {"findIdentity", "delState"} /\ req[p].pc \in {"idle", "delState"}
    BY <1>0, <1>4 DEF DelState, CallbackBegin, May, IdleRequest, TypeOK, Request
  <2>2. Aside(AttemptPcs)
    BY <1>0, <2>1, BecomeAside DEF AttemptPcs
  <2> QED BY <1>1, <2>1, <2>2, AsideCount DEF CountersSame
<1>5. ASSUME NEW p \in Requests, CheckLock(p) \/ FailRead(p) \/ FailWrite(p) \/ Success(p) \/ Abort(p)
      PROVE  CountInv' /\ StepIsCounted
  <2>1. CountInv'
    BY <1>5, CheckLockCount, FailReadCount, FailWriteCount, SuccessCount, AbortCount DEF CountInv
  <2>2. FailRead(p) \/ FailWrite(p) => guess' = guess
    BY DEF FailRead, FailWrite
  <2>3. StepIsCounted
    BY <1>0, <1>5, <2>2, OnlyCompareCounts DEF StepIsCounted
  <2> QED BY <2>1, <2>3
<1>6. ASSUME NEW p \in Requests, Compare(p) PROVE CountInv' /\ StepIsCounted
  BY <1>0, <1>6, CompareCount, OnlyCompareCounts DEF CountInv, StepIsCounted
<1> QED BY <1>2, <1>3, <1>4, <1>5, <1>6, NextElsewhere

\* After Threshold wrong passwords in a row the next one is compared when
\* Duration has passed, for any number of users and requests: a row counts
\* what its user has missed, unless attempts overlap or a count is not written.
THEOREM GuessesCounted == Spec => GuessesAreCounted
<1>1. Init => CountInv
  <2> SUFFICES ASSUME Init, NEW u \in Users PROVE CountOf(u)
    BY DEF CountInv
  <2>1. \A p \in Requests : req[p].pc = "idle"
    BY Beginning DEF Init
  <2>2. \A p \in Requests : ~Trying(p, u) /\ ~Failing(p, u)
    BY <2>1 DEF Trying, Failing, AttemptPcs
  <2>3. Counted(u) /\ guess[u].last <= now
    BY AccountsAssumption DEF Init, AbsentUser, Counted
  <2> QED BY <2>1, <2>2, <2>3 DEF CountOf
<1>2. IInv /\ CountInv /\ [Next]_vars => CountInv' /\ [StepIsCounted]_vars
  BY NextCount
<1> QED BY <1>1, <1>2, Invariant, PTL DEF Spec, GuessesAreCounted, StepIsCounted
=============================================================================
