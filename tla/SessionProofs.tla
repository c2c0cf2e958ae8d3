--------------------------- MODULE SessionProofs ----------------------------
(* Proofs about Session, for every value of its constants. *)
EXTENDS Session, TLAPS

-----------------------------------------------------------------------------
(* Type correctness, with what a request remembers at each step.            *)

SessionSteps == {"createAdd", "createExpire", "sign", "loginDone", "check", "rotateOld",
                 "rotateNew", "renewSession", "renewIndex", "revokeGet", "revokeDel",
                 "revokeRem"}
UserSteps    == {"revokeUserRead", "revokeUserDel", "revokeUserIndex", "createSet",
                 "createAdd", "createExpire", "revokeRem"}
TokenSteps   == {"loginDone", "check", "rotateOld", "renewSession", "renewIndex"}

Created(s) == s \in Sessions /\ sess[s].owner \in Users

\* A request at a step that needs a user, a session or a token has one, and
\* every token ever issued belongs to a session that was created.
RequestsAimed ==
  \A r \in Requests :
    /\ req[r].pc \in SessionSteps => Created(req[r].session)
    /\ req[r].pc \in UserSteps => req[r].user \in Users
    /\ req[r].pc \in TokenSteps => req[r].token \in Tokens
TokensAimed ==
  /\ \A t \in Tokens : rt[t].status # "none" => Created(rt[t].session)
  /\ \A t \in Tokens : rt[t].exp # 0 \/ rt[t].session # NoSession => rt[t].status # "none"

Aimed == RequestsAimed /\ TokensAimed

IInv == TypeOK /\ Aimed

-----------------------------------------------------------------------------
LEMMA ExpiryType == TypeOK => Expiry \in Times
  BY SessionAssumption DEF TypeOK, Expiry, Times

LEMMA IdleType == IdleRequest \in Request
  BY DEF IdleRequest, Request

LEMMA RenewedType ==
  ASSUME TypeOK PROVE /\ \A s \in Sessions : Renewed(sess[s]) \in SessionKey
                      /\ \A s \in Sessions : Renewed(sess[s]).owner = sess[s].owner
                      /\ \A u \in Users : Renewed(index[u]) \in IndexKey
  BY ExpiryType DEF TypeOK, Renewed, SessionKey, IndexKey

LEMMA AddedType ==
  ASSUME TypeOK, NEW u \in Users, NEW s \in Sessions
  PROVE  Added(u, s) \in IndexKey /\ Removed(u, s) \in IndexKey /\ NoIndex \in IndexKey
  BY SessionAssumption DEF TypeOK, Added, Removed, NoIndex, IndexKey, Times

\* No step changes the owner of a session that has one.
LEMMA CreatedStable ==
  ASSUME NEW s \in Sessions, Created(s), sess'[s].owner = sess[s].owner
  PROVE  Created(s)'
  BY DEF Created

\* A token that belongs to a session was issued: session NoSession is no session.
LEMMA HeldIssued ==
  ASSUME TypeOK, TokensAimed, NEW t \in Tokens, rt[t].session \in Sessions
  PROVE  rt[t].status # "none"
  BY SessionAssumption DEF TokensAimed

LEMMA InitInv == Init => IInv
  BY SessionAssumption DEF Init, IInv, TypeOK, Aimed, RequestsAimed, TokensAimed, NoIndex,
     IdleRequest, Request, SessionKey, IndexKey, TokenKey, Times, SessionSteps, UserSteps,
     TokenSteps

\* One request moves on, to a step that finds what it needs; the others keep
\* what they have.
LEMMA AimedStep ==
  ASSUME Aimed, TypeOK, NEW r \in Requests, NEW q \in Request,
         req' = [req EXCEPT ![r] = q],
         \A s \in Sessions : Created(s) => sess'[s].owner \in Users,
         q.pc \in SessionSteps => q.session \in Sessions /\ sess'[q.session].owner \in Users,
         q.pc \in UserSteps => q.user \in Users,
         q.pc \in TokenSteps => q.token \in Tokens
  PROVE  RequestsAimed' /\ req' \in [Requests -> Request]
  <1>1. req' \in [Requests -> Request]
    BY DEF TypeOK
  <1>2. ASSUME NEW p \in Requests
        PROVE  /\ req'[p].pc \in SessionSteps
                    => req'[p].session \in Sessions /\ sess'[req'[p].session].owner \in Users
               /\ req'[p].pc \in UserSteps => req'[p].user \in Users
               /\ req'[p].pc \in TokenSteps => req'[p].token \in Tokens
    BY DEF TypeOK, Aimed, RequestsAimed, Created
  <1>. QED
    BY <1>1, <1>2 DEF RequestsAimed, Created

LEMMA TokensKept ==
  ASSUME TokensAimed, TypeOK, rt' = rt,
         \A s \in Sessions : Created(s) => sess'[s].owner \in Users
  PROVE  TokensAimed'
  BY DEF TokensAimed, Created

\* A request goes to a step that needs nothing it does not have.
LEMMA GotoAimed ==
  ASSUME Aimed, TypeOK, NEW r \in Requests, NEW pc, Goto(r, pc),
         [req[r] EXCEPT !.pc = pc] \in Request,
         \A s \in Sessions : Created(s) => sess'[s].owner \in Users,
         pc \in SessionSteps => req[r].pc \in SessionSteps,
         pc \in UserSteps => req[r].pc \in UserSteps,
         pc \in TokenSteps => req[r].pc \in TokenSteps
  PROVE  RequestsAimed' /\ req' \in [Requests -> Request]
  <1> DEFINE q == [req[r] EXCEPT !.pc = pc]
  <1>1. req[r] \in Request
    BY DEF TypeOK
  <1>2. /\ q \in Request /\ q.pc = pc /\ q.session = req[r].session
        /\ q.user = req[r].user /\ q.token = req[r].token
    BY <1>1 DEF Request
  <1>3. req' = [req EXCEPT ![r] = q]
    BY DEF Goto
  <1>4. /\ q.pc \in SessionSteps => q.session \in Sessions /\ sess'[q.session].owner \in Users
        /\ q.pc \in UserSteps => q.user \in Users
        /\ q.pc \in TokenSteps => q.token \in Tokens
    BY <1>2 DEF Aimed, RequestsAimed, Created
  <1>. HIDE DEF q
  <1>. QED
    BY <1>2, <1>3, <1>4, AimedStep

LEMMA ReturnAimed ==
  ASSUME Aimed, TypeOK, NEW r \in Requests, Return(r),
         \A s \in Sessions : Created(s) => sess'[s].owner \in Users
  PROVE  RequestsAimed' /\ req' \in [Requests -> Request]
  <1>1. IdleRequest.pc \notin SessionSteps \cup UserSteps \cup TokenSteps
    BY DEF IdleRequest, SessionSteps, UserSteps, TokenSteps
  <1>2. req' = [req EXCEPT ![r] = IdleRequest]
    BY DEF Return
  <1>. QED
    BY <1>1, <1>2, IdleType, AimedStep

\* A request begins: only its own slot changes.
LEMMA ArriveInv == ASSUME IInv, NEW r \in Requests, Arrive(r) PROVE IInv'
  <1> USE DEF IInv
  <1>1. \A s \in Sessions : Created(s) => sess'[s].owner \in Users
    BY DEF Arrive, LoginBegin, RefreshRead, LogoutBegin, Begin, Created
  <1>2. ASSUME NEW q \in Request, Begin(r, q),
               q.pc \in SessionSteps => q.session \in Sessions /\ sess[q.session].owner \in Users,
               q.pc \in UserSteps => q.user \in Users,
               q.pc \in TokenSteps => q.token \in Tokens
        PROVE  IInv'
    <2>1. RequestsAimed' /\ req' \in [Requests -> Request]
      BY <1>1, <1>2, AimedStep DEF Begin
    <2>2. TokensAimed'
      BY <1>1, <1>2, TokensKept DEF Begin, Aimed
    <2>. QED
      BY <1>2, <2>1, <2>2 DEF Begin, TypeOK, Aimed
  <1>3. ASSUME NEW u \in Users, LoginBegin(r, u) PROVE IInv'
    <2> DEFINE q == [IdleRequest EXCEPT !.op = "login", !.user = u,
                       !.pc = IF multiDevice THEN "createSet" ELSE "revokeUserRead"]
    <2>1. q \in Request /\ q.user = u /\ q.pc \notin SessionSteps \cup TokenSteps
      BY DEF IdleRequest, Request, SessionSteps, TokenSteps
    <2>. QED
      BY <1>2, <1>3, <2>1 DEF LoginBegin
  <1>4. ASSUME NEW t \in Tokens, RefreshRead(r, t) PROVE IInv'
    <2> DEFINE q == [IdleRequest EXCEPT !.op = "refresh", !.token = t,
                       !.session = rt[t].session,
                       !.pc = IF rt[t].status = "revoked" THEN "revokeGet" ELSE "check"]
    <2>1. Created(rt[t].session)
      BY <1>4, SessionAssumption
      DEF RefreshRead, TokenKnown, TypeOK, TokenKey, Times, Aimed, TokensAimed
    <2>2. q \in Request /\ q.session = rt[t].session /\ q.token = t /\ q.pc \notin UserSteps
      BY <2>1 DEF IdleRequest, Request, UserSteps, Created
    <2>. QED
      BY <1>2, <1>4, <2>1, <2>2 DEF RefreshRead, Created
  <1>5. ASSUME NEW s \in Sessions, LogoutBegin(r, s) PROVE IInv'
    <2> DEFINE q1 == [IdleRequest EXCEPT !.op = "logout", !.session = s, !.pc = "revokeGet"]
               q2 == [IdleRequest EXCEPT !.op = "logoutAll", !.user = sess[s].owner,
                        !.pc = "revokeUserRead"]
    <2>1. PICK t \in Tokens : t \in held /\ rt[t].session = s
      BY <1>5 DEF LogoutBegin, Joined, TypeOK
    <2>2. Created(s)
      BY <2>1, SessionAssumption, HeldIssued DEF Aimed, TokensAimed
    <2>3. /\ q1 \in Request /\ q1.session = s /\ q1.pc = "revokeGet"
          /\ q2 \in Request /\ q2.user = sess[s].owner /\ q2.pc = "revokeUserRead"
      BY <2>2 DEF IdleRequest, Request, Created
    <2>4. CASE Begin(r, q1)
      BY <1>2, <2>2, <2>3, <2>4 DEF Created, UserSteps, TokenSteps
    <2>5. CASE Begin(r, q2)
      BY <1>2, <2>2, <2>3, <2>5 DEF Created, SessionSteps, TokenSteps
    <2>. QED
      BY <1>5, <2>4, <2>5 DEF LogoutBegin
  <1>. QED
    BY <1>3, <1>4, <1>5 DEF Arrive

\* Redis commands that leave the tokens alone and hand nothing out: what is
\* left to show is that sessions and index stay well-formed and the request
\* goes where it may.
LEMMA Composed ==
  ASSUME IInv, rt' = rt, UNCHANGED <<multiDevice, now, crashes>>,
         held' \subseteq Tokens,
         sess' \in [Sessions -> SessionKey],
         index' \in [Users -> IndexKey],
         \A s \in Sessions : Created(s) => sess'[s].owner \in Users,
         RequestsAimed' /\ req' \in [Requests -> Request]
  PROVE  IInv'
  BY TokensKept DEF IInv, Aimed, TypeOK

LEMMA RevokeUserInv ==
  ASSUME IInv, NEW r \in Requests,
         RevokeUserRead(r) \/ RevokeUserDel(r) \/ RevokeUserIndex(r)
  PROVE  IInv'
  <1>0. TypeOK /\ Aimed
    BY DEF IInv
  <1>1. req[r] \in Request
    BY <1>0 DEF TypeOK
  <1>2. ASSUME sess' = sess, Goto(r, "createSet"), req[r].pc \in UserSteps
        PROVE  RequestsAimed' /\ req' \in [Requests -> Request]
    <2>1. [req[r] EXCEPT !.pc = "createSet"] \in Request
      BY <1>1 DEF Request
    <2>. QED
      BY <1>0, <1>2, <2>1, GotoAimed DEF Created, SessionSteps, TokenSteps
  <1>3. CASE RevokeUserRead(r)
    <2>1. sess' = sess /\ req[r].pc \in UserSteps /\ req[r].user \in Users
      BY <1>0, <1>3 DEF RevokeUserRead, UserSteps, Aimed, RequestsAimed
    <2>2. CASE Listed(req[r].user) # {}
      <3> DEFINE q == [req[r] EXCEPT !.pc = "revokeUserDel", !.ids = Listed(req[r].user)]
      <3>1. Listed(req[r].user) \subseteq Sessions
        BY <1>0, <2>1 DEF TypeOK, Listed, IndexKey
      <3>2. q \in Request /\ q.pc = "revokeUserDel" /\ q.user = req[r].user
        BY <1>1, <3>1 DEF Request
      <3>3. req' = [req EXCEPT ![r] = q]
        BY <1>0, <1>3, <2>2 DEF RevokeUserRead, TypeOK
      <3>. QED
        BY <1>0, <1>3, <2>1, <3>2, <3>3, AimedStep, Composed
        DEF RevokeUserRead, TypeOK, Created, SessionSteps, TokenSteps
    <2>3. CASE Listed(req[r].user) = {}
      <3>1. RequestsAimed' /\ req' \in [Requests -> Request]
        BY <1>0, <1>2, <1>3, <2>1, <2>3, ReturnAimed DEF RevokeUserRead, Created
      <3>. QED
        BY <1>0, <1>3, <3>1, Composed DEF RevokeUserRead, TypeOK, Created
    <2>. QED
      BY <2>2, <2>3
  <1>4. CASE RevokeUserDel(r)
    <2> DEFINE q == [req[r] EXCEPT !.pc = "revokeUserIndex", !.ids = {}]
    <2>1. /\ sess' \in [Sessions -> SessionKey]
          /\ \A s \in Sessions : Created(s) => sess'[s].owner \in Users
      BY <1>0, <1>4, SessionAssumption DEF RevokeUserDel, TypeOK, SessionKey, Times, Created
    <2>2. q \in Request /\ q.pc = "revokeUserIndex" /\ q.user = req[r].user
      BY <1>1 DEF Request
    <2>3. req[r].user \in Users
      BY <1>0, <1>4 DEF RevokeUserDel, Aimed, RequestsAimed, UserSteps
    <2>4. req' = [req EXCEPT ![r] = q]
      BY <1>0, <1>4 DEF RevokeUserDel, TypeOK
    <2>5. RequestsAimed' /\ req' \in [Requests -> Request]
      BY <1>0, <2>1, <2>2, <2>3, <2>4, AimedStep DEF SessionSteps, TokenSteps
    <2>. QED
      BY <1>0, <1>4, <2>1, <2>5, Composed DEF RevokeUserDel, TypeOK
  <1>5. CASE RevokeUserIndex(r)
    <2>1. index' \in [Users -> IndexKey]
      <3>1. NoIndex \in IndexKey
        BY SessionAssumption DEF NoIndex, IndexKey, Times
      <3>. QED
        BY <1>0, <1>5, <3>1 DEF RevokeUserIndex, TypeOK
    <2>2. RequestsAimed' /\ req' \in [Requests -> Request]
      BY <1>0, <1>2, <1>5, ReturnAimed DEF RevokeUserIndex, UserSteps, Created
    <2>. QED
      BY <1>0, <1>5, <2>1, <2>2, Composed DEF RevokeUserIndex, TypeOK, Created
  <1>. QED
    BY <1>3, <1>4, <1>5

LEMMA CreateInv ==
  ASSUME IInv, NEW r \in Requests, CreateSet(r) \/ CreateAdd(r) \/ CreateExpire(r)
  PROVE  IInv'
  <1>0. TypeOK /\ Aimed /\ req[r] \in Request
    BY DEF IInv, TypeOK
  <1>1. CASE CreateSet(r)
    <2> DEFINE s == CHOOSE s \in Sessions : Fresh(s)
               q == [req[r] EXCEPT !.pc = "createAdd", !.session = s]
    <2>1. s \in Sessions /\ req[r].user \in Users
      BY <1>0, <1>1 DEF CreateSet, Aimed, RequestsAimed, UserSteps
    <2>2. /\ sess' = [sess EXCEPT ![s] = [owner |-> req[r].user, exp |-> Expiry]]
          /\ req' = [req EXCEPT ![r].pc = "createAdd", ![r].session = s]
      BY <1>1 DEF CreateSet
    <2>3. q \in Request /\ q.pc = "createAdd" /\ q.user = req[r].user /\ q.session = s
      BY <1>0, <2>1 DEF Request
    <2>. HIDE DEF s
    <2>4. req' = [req EXCEPT ![r] = q]
      BY <1>0, <2>2 DEF TypeOK
    <2>5. /\ sess' \in [Sessions -> SessionKey] /\ sess'[s].owner \in Users
          /\ \A x \in Sessions : Created(x) => sess'[x].owner \in Users
      BY <1>0, <2>1, <2>2, ExpiryType DEF TypeOK, SessionKey, Created
    <2>6. RequestsAimed' /\ req' \in [Requests -> Request]
      BY <1>0, <2>1, <2>3, <2>4, <2>5, AimedStep DEF TokenSteps
    <2>. QED
      BY <1>0, <1>1, <2>5, <2>6, Composed DEF CreateSet, TypeOK
  <1>2. CASE CreateAdd(r)
    <2>1. req[r].user \in Users /\ req[r].session \in Sessions
      BY <1>0, <1>2 DEF CreateAdd, Aimed, RequestsAimed, UserSteps, SessionSteps, Created
    <2>2. index' \in [Users -> IndexKey]
      BY <1>0, <1>2, <2>1, AddedType DEF CreateAdd, TypeOK
    <2>3. [req[r] EXCEPT !.pc = "createExpire"] \in Request
      BY <1>0 DEF Request
    <2>4. RequestsAimed' /\ req' \in [Requests -> Request]
      BY <1>0, <1>2, <2>3, GotoAimed
      DEF CreateAdd, Created, SessionSteps, UserSteps, TokenSteps
    <2>. QED
      BY <1>0, <1>2, <2>2, <2>4, Composed DEF CreateAdd, TypeOK, Created
  <1>3. CASE CreateExpire(r)
    <2>1. req[r].user \in Users
      BY <1>0, <1>3 DEF CreateExpire, Aimed, RequestsAimed, UserSteps
    <2>2. index' \in [Users -> IndexKey]
      BY <1>0, <1>3, <2>1, RenewedType DEF CreateExpire, TypeOK
    <2>3. [req[r] EXCEPT !.pc = "sign"] \in Request
      BY <1>0 DEF Request
    <2>4. RequestsAimed' /\ req' \in [Requests -> Request]
      BY <1>0, <1>3, <2>3, GotoAimed
      DEF CreateExpire, Created, SessionSteps, UserSteps, TokenSteps
    <2>. QED
      BY <1>0, <1>3, <2>2, <2>4, Composed DEF CreateExpire, TypeOK, Created
  <1>. QED
    BY <1>1, <1>2, <1>3

\* A token is issued to a session that was created.
LEMMA IssueInv ==
  ASSUME IInv, NEW r \in Requests, NEW pc \in {"loginDone", "renewSession"}, Issue(r, pc),
         req[r].pc \in SessionSteps,
         UNCHANGED <<multiDevice, sess, index, held, now, crashes>>
  PROVE  IInv'
  <1>0. TypeOK /\ Aimed /\ req[r] \in Request
    BY DEF IInv, TypeOK
  <1> DEFINE t == CHOOSE t \in Tokens : Unissued(t)
             q == [req[r] EXCEPT !.pc = pc, !.token = t]
  <1>1. t \in Tokens /\ Created(req[r].session)
    BY <1>0 DEF Issue, Aimed, RequestsAimed
  <1>2. /\ rt' = [rt EXCEPT ![t] = [status |-> "active", session |-> req[r].session,
                                    exp |-> Expiry]]
        /\ req' = [req EXCEPT ![r].pc = pc, ![r].token = t]
    BY DEF Issue
  <1>3. /\ q \in Request /\ q.pc = pc /\ q.session = req[r].session /\ q.token = t
        /\ q.user = req[r].user
    BY <1>0, <1>1 DEF Request
  <1>. HIDE DEF t
  <1>4. req' = [req EXCEPT ![r] = q]
    BY <1>0, <1>2 DEF TypeOK
  <1>5. RequestsAimed' /\ req' \in [Requests -> Request]
    BY <1>0, <1>1, <1>3, <1>4, AimedStep DEF Created, UserSteps
  <1>6. rt' \in [Tokens -> TokenKey]
    BY <1>0, <1>1, <1>2, ExpiryType DEF TypeOK, TokenKey, Created
  <1>7. TokensAimed'
    BY <1>0, <1>1, <1>2 DEF TypeOK, Aimed, TokensAimed, Created
  <1>. QED
    BY <1>0, <1>5, <1>6, <1>7 DEF IInv, Aimed, TypeOK

LEMMA LoginEndInv ==
  ASSUME IInv, NEW r \in Requests, Sign(r) \/ LoginDone(r) PROVE IInv'
  <1>0. TypeOK /\ Aimed
    BY DEF IInv
  <1>1. CASE Sign(r)
    BY <1>1, IssueInv DEF Sign, SessionSteps
  <1>2. CASE LoginDone(r)
    <2>1. held' \subseteq Tokens
      BY <1>0, <1>2 DEF LoginDone, TypeOK, Aimed, RequestsAimed, TokenSteps
    <2>2. RequestsAimed' /\ req' \in [Requests -> Request]
      BY <1>0, <1>2, ReturnAimed DEF LoginDone, Created
    <2>. QED
      BY <1>0, <1>2, <2>1, <2>2, Composed DEF LoginDone, TypeOK, Created
  <1>. QED
    BY <1>1, <1>2

LEMMA RotateInv ==
  ASSUME IInv, NEW r \in Requests, RefreshCheck(r) \/ RotateOld(r) \/ RotateNew(r)
  PROVE  IInv'
  <1>0. TypeOK /\ Aimed /\ req[r] \in Request
    BY DEF IInv, TypeOK
  <1>1. CASE RefreshCheck(r)
    <2>1. [req[r] EXCEPT !.pc = "rotateOld"] \in Request
      BY <1>0 DEF Request
    <2>2. RequestsAimed' /\ req' \in [Requests -> Request]
      BY <1>0, <1>1, <2>1, GotoAimed, ReturnAimed
      DEF RefreshCheck, Created, SessionSteps, UserSteps, TokenSteps
    <2>. QED
      BY <1>0, <1>1, <2>2, Composed DEF RefreshCheck, TypeOK, Created
  <1>2. CASE RotateOld(r)
    <2>1. Created(req[r].session)
      BY <1>0, <1>2 DEF RotateOld, Aimed, RequestsAimed, SessionSteps
    <2>2. [req[r] EXCEPT !.pc = "rotateNew"] \in Request
      BY <1>0 DEF Request
    <2>3. RequestsAimed' /\ req' \in [Requests -> Request]
      BY <1>0, <1>2, <2>2, GotoAimed
      DEF RotateOld, Created, SessionSteps, UserSteps, TokenSteps
    <2>4. rt' \in [Tokens -> TokenKey]
      BY <1>0, <1>2, <2>1, ExpiryType DEF RotateOld, TypeOK, TokenKey, Created
    <2>5. TokensAimed'
      BY <1>0, <1>2, <2>1 DEF RotateOld, TypeOK, Aimed, TokensAimed, Created
    <2>. QED
      BY <1>0, <1>2, <2>3, <2>4, <2>5 DEF RotateOld, IInv, Aimed, TypeOK
  <1>3. CASE RotateNew(r)
    BY <1>3, IssueInv DEF RotateNew, SessionSteps
  <1>. QED
    BY <1>1, <1>2, <1>3

LEMMA RenewInv ==
  ASSUME IInv, NEW r \in Requests, RenewSession(r) \/ RenewIndex(r) PROVE IInv'
  <1>0. TypeOK /\ Aimed /\ req[r] \in Request
    BY DEF IInv, TypeOK
  <1>1. Created(req[r].session) /\ req[r].token \in Tokens
    BY <1>0 DEF RenewSession, RenewIndex, Aimed, RequestsAimed, SessionSteps, TokenSteps
  <1>2. CASE RenewSession(r)
    <2>1. /\ sess' \in [Sessions -> SessionKey]
          /\ \A s \in Sessions : Created(s) => sess'[s].owner \in Users
      BY <1>0, <1>1, <1>2, RenewedType DEF RenewSession, TypeOK, Created
    <2>2. [req[r] EXCEPT !.pc = "renewIndex"] \in Request
      BY <1>0 DEF Request
    <2>3. RequestsAimed' /\ req' \in [Requests -> Request]
      BY <1>0, <1>2, <2>1, <2>2, GotoAimed
      DEF RenewSession, SessionSteps, UserSteps, TokenSteps
    <2>. QED
      BY <1>0, <1>2, <2>1, <2>3, Composed DEF RenewSession, TypeOK
  <1>3. CASE RenewIndex(r)
    <2>1. index' \in [Users -> IndexKey] /\ held' \subseteq Tokens
      BY <1>0, <1>1, <1>3, RenewedType DEF RenewIndex, TypeOK, Created
    <2>2. RequestsAimed' /\ req' \in [Requests -> Request]
      BY <1>0, <1>3, ReturnAimed DEF RenewIndex, Created
    <2>. QED
      BY <1>0, <1>3, <2>1, <2>2, Composed DEF RenewIndex, TypeOK, Created
  <1>. QED
    BY <1>2, <1>3

LEMMA RevokeInv ==
  ASSUME IInv, NEW r \in Requests, RevokeGet(r) \/ RevokeDel(r) \/ RevokeRem(r)
  PROVE  IInv'
  <1>0. TypeOK /\ Aimed /\ req[r] \in Request
    BY DEF IInv, TypeOK
  <1>1. Created(req[r].session)
    BY <1>0 DEF RevokeGet, RevokeDel, RevokeRem, Aimed, RequestsAimed, SessionSteps
  <1>2. CASE RevokeGet(r)
    <2> DEFINE u == IF Live(req[r].session) THEN sess[req[r].session].owner ELSE NoUser
               q == [req[r] EXCEPT !.pc = "revokeDel", !.user = u]
    <2>1. u \in Users \cup {NoUser}
      BY <1>1 DEF Created
    <2>2. req' = [req EXCEPT ![r].pc = "revokeDel", ![r].user = u]
      BY <1>2 DEF RevokeGet
    <2>. HIDE DEF u
    <2>3. q \in Request /\ q.pc = "revokeDel" /\ q.session = req[r].session
      BY <1>0, <2>1 DEF Request
    <2>4. req' = [req EXCEPT ![r] = q]
      BY <1>0, <2>2 DEF TypeOK
    <2>5. RequestsAimed' /\ req' \in [Requests -> Request]
      BY <1>0, <1>1, <1>2, <2>3, <2>4, AimedStep
      DEF RevokeGet, Created, UserSteps, TokenSteps
    <2>. QED
      BY <1>0, <1>2, <2>5, Composed DEF RevokeGet, TypeOK, Created
  <1>3. CASE RevokeDel(r)
    <2>1. /\ sess' \in [Sessions -> SessionKey]
          /\ \A s \in Sessions : Created(s) => sess'[s].owner \in Users
      BY <1>0, <1>1, <1>3, SessionAssumption
      DEF RevokeDel, TypeOK, SessionKey, Times, Created
    <2>2. ASSUME req[r].user # NoUser PROVE RequestsAimed' /\ req' \in [Requests -> Request]
      <3> DEFINE q == [req[r] EXCEPT !.pc = "revokeRem"]
      <3>1. /\ q \in Request /\ q.pc = "revokeRem" /\ q.session = req[r].session
            /\ q.user \in Users
        BY <1>0, <2>2 DEF Request
      <3>2. req' = [req EXCEPT ![r] = q]
        BY <1>3, <2>2 DEF RevokeDel, AfterDel, Goto
      <3>. HIDE DEF q
      <3>3. q.session \in Sessions /\ sess'[q.session].owner \in Users
        BY <1>1, <2>1, <3>1 DEF Created
      <3>. QED
        BY <1>0, <2>1, <3>1, <3>2, <3>3, AimedStep DEF TokenSteps
    <2>3. ASSUME req[r].user = NoUser PROVE RequestsAimed' /\ req' \in [Requests -> Request]
      BY <1>0, <1>3, <2>1, <2>3, ReturnAimed DEF RevokeDel, AfterDel
    <2>. QED
      BY <1>0, <1>3, <2>1, <2>2, <2>3, Composed DEF RevokeDel, TypeOK
  <1>4. CASE RevokeRem(r)
    <2>1. req[r].user \in Users /\ req[r].session \in Sessions
      BY <1>0, <1>1, <1>4 DEF RevokeRem, Aimed, RequestsAimed, UserSteps, Created
    <2>2. index' \in [Users -> IndexKey]
      BY <1>0, <1>4, <2>1, AddedType DEF RevokeRem, TypeOK
    <2>3. RequestsAimed' /\ req' \in [Requests -> Request]
      BY <1>0, <1>4, ReturnAimed DEF RevokeRem, Created
    <2>. QED
      BY <1>0, <1>4, <2>2, <2>3, Composed DEF RevokeRem, TypeOK, Created
  <1>. QED
    BY <1>2, <1>3, <1>4

LEMMA ProceedInv == ASSUME IInv, NEW r \in Requests, Proceed(r) PROVE IInv'
  BY RevokeUserInv, CreateInv, LoginEndInv, RotateInv, RenewInv, RevokeInv DEF Proceed

LEMMA StepInv == IInv /\ [Next]_vars => IInv'
  <1> SUFFICES ASSUME IInv, [Next]_vars PROVE IInv'
    OBVIOUS
  <1>1. ASSUME NEW r \in Requests, Crash(r) PROVE IInv'
    <2>1. RequestsAimed' /\ req' \in [Requests -> Request]
      BY <1>1, ReturnAimed DEF Crash, Created, IInv
    <2>2. TokensAimed' /\ crashes' \in 0 .. MaxCrashes
      BY <1>1, TokensKept, SessionAssumption DEF Crash, Created, IInv, Aimed, TypeOK
    <2>. QED
      BY <1>1, <2>1, <2>2 DEF Crash, IInv, Aimed, TypeOK
  <1>2. CASE Tick
    BY <1>2, SessionAssumption DEF Tick, IInv, TypeOK, Aimed, RequestsAimed, TokensAimed, Created
  <1>3. CASE UNCHANGED vars
    BY <1>3 DEF vars, IInv, TypeOK, Aimed, RequestsAimed, TokensAimed, Created
  <1>. QED
    BY <1>1, <1>2, <1>3, ArriveInv, ProceedInv DEF Next

\* Every variable keeps its type, and every request and every token refers to
\* a session that was created (SessionService.create comes before signRefresh).
THEOREM TypeCorrect == Spec => [](TypeOK /\ Aimed)
  BY InitInv, StepInv, PTL DEF Spec, IInv

-----------------------------------------------------------------------------
(* Dead sessions.                                                           *)

\* The only command that gives an existing session a later expiry time is
\* EXPIRE, and it finds live keys only; SETEX is for new ids.
LEMMA DeadStep ==
  ASSUME IInv, Next, NEW s \in Sessions, ~Fresh(s), ~Live(s)
  PROVE  ~Live(s)'
  <1>0. /\ TypeOK /\ sess[s].exp \in Nat /\ now \in Nat /\ now' \in Nat /\ now <= now'
        /\ sess[s].exp <= now
    <2>1. TypeOK /\ sess[s].exp \in Nat /\ now \in Nat /\ sess[s].exp <= now
      BY SessionAssumption DEF IInv, TypeOK, SessionKey, Times, Live
    <2>2. now' = now \/ now' = now + 1
      BY DEF Next, Arrive, Proceed, LoginBegin, RefreshRead, LogoutBegin, Begin,
         RevokeUserRead, RevokeUserDel, RevokeUserIndex, CreateSet, CreateAdd, CreateExpire,
         Sign, LoginDone, RefreshCheck, RotateOld, RotateNew, RenewSession, RenewIndex,
         RevokeGet, RevokeDel, RevokeRem, Crash, Tick
    <2>. QED
      BY <2>1, <2>2
  <1>1. sess'[s].exp <= sess[s].exp
    <2>1. CASE UNCHANGED sess
      BY <1>0, <2>1
    <2>2. ASSUME NEW r \in Requests, RevokeUserDel(r) PROVE sess'[s].exp <= sess[s].exp
      BY <1>0, <2>2 DEF RevokeUserDel, TypeOK, SessionKey
    <2>3. ASSUME NEW r \in Requests, CreateSet(r) PROVE sess'[s].exp <= sess[s].exp
      <3> DEFINE x == CHOOSE x \in Sessions : Fresh(x)
      <3>1. Fresh(x) /\ sess' = [sess EXCEPT ![x] = [owner |-> req[r].user, exp |-> Expiry]]
        BY <2>3 DEF CreateSet
      <3>. HIDE DEF x
      <3>2. x # s
        BY <3>1
      <3>. QED
        BY <1>0, <3>1, <3>2 DEF TypeOK
    <2>4. ASSUME NEW r \in Requests, RenewSession(r) PROVE sess'[s].exp <= sess[s].exp
      BY <1>0, <2>4 DEF RenewSession, Renewed, TypeOK, SessionKey
    <2>5. ASSUME NEW r \in Requests, RevokeDel(r) PROVE sess'[s].exp <= sess[s].exp
      BY <1>0, <2>5 DEF RevokeDel, TypeOK, SessionKey
    <2>. QED
      BY <2>1, <2>2, <2>3, <2>4, <2>5 DEF Next, Arrive, Proceed, LoginBegin, RefreshRead,
         LogoutBegin, Begin, RevokeUserRead, RevokeUserIndex, CreateAdd, CreateExpire, Sign,
         LoginDone, RefreshCheck, RotateOld, RotateNew, RenewIndex, RevokeGet, RevokeRem,
         Crash, Tick
  <1>2. sess'[s].exp \in Nat
    <2>1. TypeOK'
      BY StepInv DEF IInv
    <2>. QED
      BY <2>1, SessionAssumption DEF TypeOK, SessionKey, Times
  <1>. QED
    BY <1>0, <1>1, <1>2 DEF Live

\* A session that was revoked, kicked or has expired never becomes active
\* again, for any number of concurrent logins, refreshes and logouts.
THEOREM EndedForGood == Spec => DeadStaysDead
  <1>1. IInv /\ [Next]_vars
          => [\A s \in Sessions : ~Fresh(s) /\ ~Live(s) => ~Live(s)']_vars
    BY DeadStep
  <1>. QED
    BY <1>1, InitInv, StepInv, PTL DEF Spec, DeadStaysDead

\* Only the deletion of the key, or the request's death, ends a revocation.
LEMMA EndingStep ==
  ASSUME IInv, [Next]_vars, NEW r \in Requests, NEW s \in Sessions,
         Ending(r, s), ~Ending(r, s)'
  PROVE  (~Live(s))' \/ crashes' = crashes + 1
<1> USE DEF IInv, TypeOK, Ending
<1>1. ASSUME NEW p \in Requests, RevokeDel(p), p = r PROVE (~Live(s))'
  BY <1>1, SessionAssumption DEF RevokeDel, SessionKey, Live
<1>2. ASSUME NEW p \in Requests, RevokeDel(p), p # r PROVE FALSE
  BY <1>2 DEF RevokeDel, AfterDel, Goto, Return
<1>3. ASSUME NEW p \in Requests, RevokeGet(p) PROVE FALSE
  BY <1>3 DEF RevokeGet, Request
<1>4. ASSUME NEW p \in Requests, Crash(p) PROVE crashes' = crashes + 1
  BY <1>4 DEF Crash
<1>5. ASSUME NEW p \in Requests, Arrive(p) PROVE FALSE
  BY <1>5 DEF Arrive, LoginBegin, RefreshRead, LogoutBegin, Begin
<1>6. ASSUME NEW p \in Requests,
             \/ RevokeUserRead(p) \/ RevokeUserDel(p) \/ RevokeUserIndex(p) \/ CreateSet(p)
             \/ CreateAdd(p) \/ CreateExpire(p) \/ Sign(p) \/ LoginDone(p)
      PROVE  FALSE
  BY <1>6 DEF RevokeUserRead, RevokeUserDel, RevokeUserIndex, CreateSet, CreateAdd,
     CreateExpire, Sign, Issue, LoginDone, Goto, Return
<1>7. ASSUME NEW p \in Requests,
             \/ RefreshCheck(p) \/ RotateOld(p) \/ RotateNew(p) \/ RenewSession(p)
             \/ RenewIndex(p) \/ RevokeRem(p)
      PROVE  FALSE
  BY <1>7 DEF RefreshCheck, RotateOld, RotateNew, Issue, RenewSession, RenewIndex, RevokeRem,
     Goto, Return
<1>8. CASE Tick \/ UNCHANGED vars
  BY <1>8 DEF Tick, vars
<1> QED
  BY <1>1, <1>2, <1>3, <1>4, <1>5, <1>6, <1>7, <1>8 DEF Next, Proceed

\* A refresh with a rotated token, and a logout, that has begun to end a session
\* never stops before the session is dead, unless it dies; with EndedForGood the
\* session stays so.
THEOREM RevocationIsKept == Spec => EndsWhatItRevokes
<1>1. IInv /\ [Next]_vars
        => [\A r \in Requests, s \in Sessions :
              Ending(r, s) /\ ~Ending(r, s)' => (~Live(s))' \/ crashes' = crashes + 1]_vars
  BY EndingStep
<1> QED BY <1>1, InitInv, StepInv, PTL DEF Spec, EndsWhatItRevokes
-----------------------------------------------------------------------------
(* The set of a user's sessions, when no two requests about one user        *)
(* overlap.                                                                 *)

\* The user whom a request in progress is about: its own, or its session's.
UserOf(r) == IF req[r].user \in Users THEN req[r].user ELSE sess[req[r].session].owner

\* Requests about different users may interleave command by command.
OnePerUser ==
  \A p, q \in Requests :
    p # q /\ req[p].pc # "idle" /\ req[q].pc # "idle" => UserOf(p) # UserOf(q)

\* Session s has been added to its user's set.
Entered(s) ==
  /\ sess[s].owner \in Users
  /\ \A r \in Requests : req[r].pc = "createAdd" => req[r].session # s

\* Is the set to be renewed after session s?
Renewing(s) ==
  \E r \in Requests : req[r].pc \in {"createExpire", "renewIndex"} /\ req[r].session = s

\* An active session is in its user's set, which outlives it, but for the
\* moment between the two commands that make or renew both.
Indexed(s) ==
  Entered(s) /\ Live(s) =>
    /\ s \in Listed(sess[s].owner)
    /\ sess[s].exp <= index[sess[s].owner].exp \/ Renewing(s)
IndexInv == \A s \in Sessions : Indexed(s)

\* No key was given a later expiry time than it would be given now.
ExpiryInv == \A s \in Sessions : sess[s].exp <= Expiry

\* A request keeps to one user.  A session that is being created has no token;
\* a revocation of all sessions has read all the active ones, and deletes the
\* set when none is left.
Ongoing(r) ==
  /\ req[r].pc \in SessionSteps => UserOf(r) = sess[req[r].session].owner
  /\ req[r].pc = "createAdd" =>
       \A t \in Tokens : rt[t].status # "none" => rt[t].session # req[r].session
  /\ req[r].pc = "revokeUserDel" =>
       \A s \in Sessions : Live(s) /\ sess[s].owner = req[r].user => s \in req[r].ids
  /\ req[r].pc = "revokeUserIndex" =>
       \A s \in Sessions : Live(s) => sess[s].owner # req[r].user
  /\ req[r].pc = "revokeRem" => ~Live(req[r].session)
OngoingInv == \A r \in Requests : Ongoing(r)

SetInv == IndexInv /\ ExpiryInv /\ OngoingInv

\* What a command of a request leaves alone: the other requests, the owners,
\* other users' active sessions and sets, and tokens of other sessions.
Frame(r) ==
  /\ now' = now
  /\ \A p \in Requests \ {r} : req'[p] = req[p]
  /\ \A s \in Sessions : sess[s].owner \in Users => sess'[s].owner = sess[s].owner
  /\ \A s \in Sessions : Live(s)' /\ sess'[s].owner # UserOf(r) => sess'[s] = sess[s]
  /\ \A u \in Users \ {UserOf(r)} : index'[u] = index[u]
  /\ \A t \in Tokens : rt'[t] # rt[t] =>
       rt'[t].session = req[r].session /\ req[r].pc \in SessionSteps

\* Every request in progress is about a user.
LEMMA Subject ==
  ASSUME IInv, SetInv, NEW r \in Requests
  PROVE  /\ req[r].pc \in UserSteps => req[r].user \in Users /\ UserOf(r) = req[r].user
         /\ req[r].pc \in SessionSteps =>
              /\ req[r].session \in Sessions
              /\ UserOf(r) \in Users /\ UserOf(r) = sess[req[r].session].owner
         /\ req[r].pc # "idle" => req[r].pc \in UserSteps \cup SessionSteps
         /\ req[r].pc # "idle" => UserOf(r) \in Users
<1>1. /\ req[r].pc \in UserSteps => req[r].user \in Users
      /\ req[r].pc \in SessionSteps => Created(req[r].session)
  BY DEF IInv, Aimed, RequestsAimed
<1>2. req[r].pc # "idle" => req[r].pc \in UserSteps \cup SessionSteps
  BY DEF IInv, TypeOK, Request, UserSteps, SessionSteps
<1>3. req[r].pc \in SessionSteps => UserOf(r) = sess[req[r].session].owner
  BY DEF SetInv, OngoingInv, Ongoing
<1> QED BY <1>1, <1>2, <1>3 DEF Created, UserOf

\* What a request finds and leaves in its user's sessions is its own doing.
LEMMA Alone ==
  ASSUME IInv, OnePerUser, SetInv, NEW r \in Requests, req[r].pc # "idle",
         NEW s \in Sessions, sess[s].owner = UserOf(r)
  PROVE  /\ Entered(s) <=> (req[r].pc = "createAdd" => req[r].session # s)
         /\ Renewing(s) <=> req[r].pc \in {"createExpire", "renewIndex"} /\ req[r].session = s
<1>1. ASSUME NEW p \in Requests, p # r, req[p].pc \in {"createAdd", "createExpire", "renewIndex"}
      PROVE  req[p].session # s
  BY <1>1, Subject DEF OnePerUser, SessionSteps
<1> QED BY <1>1, Subject DEF Entered, Renewing

LEMMA AloneNext ==
  ASSUME IInv, OnePerUser, SetInv, NEW r \in Requests, req[r].pc # "idle", Frame(r),
         NEW s \in Sessions, sess'[s].owner = UserOf(r)
  PROVE  /\ Entered(s)' <=> (req'[r].pc = "createAdd" => req'[r].session # s)
         /\ Renewing(s)' <=> /\ req'[r].pc \in {"createExpire", "renewIndex"}
                             /\ req'[r].session = s
<1>1. ASSUME NEW p \in Requests, p # r, req'[p].pc \in {"createAdd", "createExpire", "renewIndex"}
      PROVE  req'[p].session # s
  <2>1. req'[p] = req[p] /\ req[p].pc \in SessionSteps /\ req[p].pc # "idle"
    BY <1>1 DEF Frame, SessionSteps
  <2>2. UserOf(p) # UserOf(r) /\ UserOf(p) = sess[req[p].session].owner /\ UserOf(p) \in Users
        /\ req[p].session \in Sessions
    BY <1>1, <2>1, Subject DEF OnePerUser
  <2> QED BY <2>1, <2>2 DEF Frame
<1>2. UserOf(r) \in Users
  BY Subject
<1> QED BY <1>1, <1>2 DEF Entered, Renewing

\* What is known about one session.
LEMMA SessionOf ==
  ASSUME IInv, NEW s \in Sessions
  PROVE  /\ sess[s].exp \in Nat /\ sess[s].exp <= MaxTime + 1 /\ now \in Nat
         /\ Expiry \in Nat /\ now < Expiry
         /\ sess[s].owner \in Users =>
              index[sess[s].owner].exp \in Nat /\ index[sess[s].owner].ids \subseteq Sessions
  BY SessionAssumption DEF IInv, TypeOK, SessionKey, IndexKey, Times, Expiry

-----------------------------------------------------------------------------
\* The other users' requests and sessions, while a request goes on.
LEMMA OthersOngoing ==
  ASSUME IInv, OnePerUser, SetInv, NEW r \in Requests, req[r].pc # "idle", Frame(r),
         NEW p \in Requests, p # r
  PROVE  Ongoing(p)'
<1>1. req'[p] = req[p] /\ Ongoing(p) /\ now' = now
  BY DEF Frame, SetInv, OngoingInv
<1>2. CASE req[p].pc = "idle"
  BY <1>1, <1>2 DEF Ongoing, SessionSteps
<1>3. CASE req[p].pc # "idle"
  <2>1. UserOf(p) # UserOf(r) /\ UserOf(p) \in Users
    BY <1>3, Subject DEF OnePerUser
  <2>2. ASSUME req[p].pc \in SessionSteps PROVE UserOf(p)' = sess'[req[p].session].owner
    BY <1>1, <2>1, <2>2, Subject DEF Frame, UserOf
  <2>3. ASSUME NEW t \in Tokens, rt'[t].status # "none", req[p].pc = "createAdd"
        PROVE  rt'[t].session # req[p].session
    <3>1. CASE rt'[t] = rt[t]
      BY <1>1, <2>3, <3>1 DEF Ongoing
    <3>2. CASE rt'[t] # rt[t]
      BY <2>1, <2>3, <3>2, Subject DEF Frame, SessionSteps
    <3> QED BY <3>1, <3>2
  <2>4. ASSUME NEW s \in Sessions, Live(s)', sess'[s].owner = UserOf(p)
        PROVE  Live(s) /\ sess'[s] = sess[s]
    BY <1>1, <2>1, <2>4 DEF Frame, Live
  <2>5. req[p].pc \in {"revokeUserDel", "revokeUserIndex"} => UserOf(p) = req[p].user
    BY Subject DEF UserSteps
  <2>6. req[p].pc = "revokeRem" => ~Live(req[p].session)'
    <3> SUFFICES ASSUME req[p].pc = "revokeRem", Live(req[p].session)' PROVE FALSE
      OBVIOUS
    <3>1. req[p].session \in Sessions /\ sess[req[p].session].owner = UserOf(p)
      BY Subject DEF SessionSteps
    <3> QED BY <1>1, <2>1, <2>4, <3>1 DEF Frame, Ongoing
  <2> QED BY <1>1, <2>2, <2>3, <2>4, <2>5, <2>6 DEF Ongoing
<1> QED BY <1>2, <1>3

LEMMA OthersIndexed ==
  ASSUME IInv, OnePerUser, SetInv, NEW r \in Requests, req[r].pc # "idle", Frame(r),
         NEW s \in Sessions, sess'[s].owner # UserOf(r)
  PROVE  Indexed(s)'
<1> SUFFICES ASSUME Entered(s)', Live(s)'
             PROVE  (/\ s \in Listed(sess[s].owner)
                     /\ sess[s].exp <= index[sess[s].owner].exp \/ Renewing(s))'
  BY DEF Indexed
<1>1. /\ sess'[s] = sess[s] /\ Live(s) /\ sess[s].owner \in Users /\ now' = now
      /\ index'[sess[s].owner] = index[sess[s].owner]
  BY DEF Frame, Live, Entered
<1>2. req[r].pc \in SessionSteps => req[r].session # s
  BY <1>1, Subject
<1>3. Entered(s)
  BY <1>1, <1>2 DEF Entered, Frame, SessionSteps
<1>4. Renewing(s) => Renewing(s)'
  BY <1>2 DEF Renewing, Frame, SessionSteps
<1> QED BY <1>1, <1>3, <1>4 DEF SetInv, IndexInv, Indexed, Listed

\* A command keeps the invariant if it keeps it for the request and its user.
LEMMA UserStep ==
  ASSUME IInv, OnePerUser, SetInv, NEW r \in Requests, req[r].pc # "idle", Frame(r),
         ExpiryInv', Ongoing(r)',
         \A s \in Sessions : sess'[s].owner = UserOf(r) => Indexed(s)'
  PROVE  SetInv'
<1>1. OngoingInv'
  BY OthersOngoing DEF OngoingInv
<1>2. IndexInv'
  BY OthersIndexed DEF IndexInv
<1> QED BY <1>1, <1>2 DEF SetInv

\* Where a request goes.
LEMMA RequestNext ==
  ASSUME IInv, NEW r \in Requests
  PROVE  /\ req[r] \in Request
         /\ \A pc : Goto(r, pc) =>
              /\ req'[r].pc = pc /\ req'[r].user = req[r].user
              /\ req'[r].session = req[r].session /\ req'[r].ids = req[r].ids
         /\ Return(r) => req'[r].pc = "idle"
         /\ \A pc : Goto(r, pc) \/ Return(r) => \A p \in Requests \ {r} : req'[p] = req[p]
  BY DEF IInv, TypeOK, Request, Goto, Return, IdleRequest

\* Every command keeps to its user and its session.
LEMMA Framed ==
  ASSUME IInv, SetInv, NEW r \in Requests, Proceed(r) PROVE Frame(r)
<1> USE DEF IInv, TypeOK
<1>1. \A p \in Requests \ {r} : req'[p] = req[p]
  <2>1. CASE RevokeUserRead(r) \/ RevokeUserDel(r) \/ RevokeUserIndex(r) \/ CreateSet(r)
             \/ CreateAdd(r) \/ CreateExpire(r) \/ Sign(r) \/ LoginDone(r)
    BY <2>1 DEF RevokeUserRead, RevokeUserDel, RevokeUserIndex, CreateSet, CreateAdd,
       CreateExpire, Sign, Issue, LoginDone, Goto, Return
  <2>2. CASE RefreshCheck(r) \/ RotateOld(r) \/ RotateNew(r) \/ RenewSession(r)
             \/ RenewIndex(r) \/ RevokeGet(r) \/ RevokeDel(r) \/ RevokeRem(r)
    BY <2>2 DEF RefreshCheck, RotateOld, RotateNew, Issue, RenewSession, RenewIndex,
       RevokeGet, RevokeDel, RevokeRem, AfterDel, Goto, Return
  <2> QED BY <2>1, <2>2 DEF Proceed
<1>2. now' = now
  BY DEF Proceed, RevokeUserRead, RevokeUserDel, RevokeUserIndex, CreateSet, CreateAdd,
     CreateExpire, Sign, LoginDone, RefreshCheck, RotateOld, RotateNew, RenewSession,
     RenewIndex, RevokeGet, RevokeDel, RevokeRem
<1>3. /\ \A s \in Sessions : sess[s].owner \in Users => sess'[s].owner = sess[s].owner
      /\ \A s \in Sessions : Live(s)' /\ sess'[s].owner # UserOf(r) => sess'[s] = sess[s]
  <2>1. CASE RevokeUserDel(r) \/ RevokeDel(r)
    <3>1. \A s \in Sessions : sess'[s].owner = sess[s].owner
                              /\ (sess'[s] = sess[s] \/ sess'[s].exp = 0)
      BY <2>1 DEF RevokeUserDel, RevokeDel, SessionKey
    <3> QED BY <1>2, <3>1 DEF Live
  <2>2. CASE CreateSet(r)
    <3>1. PICK x \in Sessions :
            Fresh(x) /\ sess' = [sess EXCEPT ![x] = [owner |-> req[r].user, exp |-> Expiry]]
      BY <2>2 DEF CreateSet
    <3>2. req[r].user = UserOf(r)
      BY <2>2, Subject DEF CreateSet, UserSteps
    <3> QED BY <3>1, <3>2, SessionAssumption DEF Fresh
  <2>3. CASE RenewSession(r)
    <3>1. UserOf(r) = sess[req[r].session].owner /\ req[r].session \in Sessions
      BY <2>3, Subject DEF RenewSession, SessionSteps
    <3>2. sess' = [sess EXCEPT ![req[r].session] = Renewed(@)]
      BY <2>3 DEF RenewSession
    <3>3. \A s \in Sessions : Renewed(sess[s]).owner = sess[s].owner
      BY RenewedType
    <3> QED BY <3>1, <3>2, <3>3
  <2>4. CASE UNCHANGED sess
    BY <2>4
  <2> QED BY <2>1, <2>2, <2>3, <2>4
          DEF Proceed, RevokeUserRead, RevokeUserIndex, CreateAdd, CreateExpire, Sign, LoginDone,
          RefreshCheck, RotateOld, RotateNew, RenewIndex, RevokeGet, RevokeRem
<1>4. \A u \in Users \ {UserOf(r)} : index'[u] = index[u]
  <2>1. CASE RevokeUserIndex(r) \/ CreateAdd(r) \/ CreateExpire(r) \/ RevokeRem(r)
    <3>1. req[r].user = UserOf(r)
      BY <2>1, Subject DEF RevokeUserIndex, CreateAdd, CreateExpire, RevokeRem, UserSteps
    <3> QED BY <2>1, <3>1 DEF RevokeUserIndex, CreateAdd, CreateExpire, RevokeRem
  <2>2. CASE RenewIndex(r)
    <3>1. UserOf(r) = sess[req[r].session].owner
      BY <2>2, Subject DEF RenewIndex, SessionSteps
    <3> QED BY <2>2, <3>1 DEF RenewIndex
  <2>3. CASE UNCHANGED index
    BY <2>3
  <2> QED BY <2>1, <2>2, <2>3
          DEF Proceed, RevokeUserRead, RevokeUserDel, CreateSet, Sign, LoginDone,
          RefreshCheck, RotateOld, RotateNew, RenewSession, RevokeGet, RevokeDel
<1>5. \A t \in Tokens : rt'[t] # rt[t] =>
        rt'[t].session = req[r].session /\ req[r].pc \in SessionSteps
  <2>1. CASE Sign(r) \/ RotateNew(r)
    <3>1. \E x \in Tokens : \E k : k.session = req[r].session /\ rt' = [rt EXCEPT ![x] = k]
      BY <2>1 DEF Sign, RotateNew, Issue
    <3>2. req[r].pc \in SessionSteps
      BY <2>1 DEF Sign, RotateNew, SessionSteps
    <3> QED BY <3>1, <3>2
  <2>2. CASE RotateOld(r)
    BY <2>2 DEF RotateOld, SessionSteps
  <2>3. CASE UNCHANGED rt
    BY <2>3
  <2> QED BY <2>1, <2>2, <2>3
          DEF Proceed, RevokeUserRead, RevokeUserDel, RevokeUserIndex, CreateSet, CreateAdd,
          CreateExpire, LoginDone, RefreshCheck, RenewSession, RenewIndex, RevokeGet,
          RevokeDel, RevokeRem
<1> QED BY <1>1, <1>2, <1>3, <1>4, <1>5 DEF Frame

-----------------------------------------------------------------------------
\* A request that stays with its user and its session.
LEMMA SameSubject ==
  ASSUME IInv, SetInv, NEW r \in Requests, Frame(r), req[r].pc \in SessionSteps,
         req'[r].user = req[r].user, req'[r].session = req[r].session
  PROVE  UserOf(r)' = sess'[req'[r].session].owner
  BY Subject DEF Frame, UserOf

\* A command that writes neither sessions nor sets.
LEMMA QuietKeeps ==
  ASSUME IInv, OnePerUser, SetInv, NEW r \in Requests, req[r].pc # "idle", Frame(r),
         UNCHANGED <<sess, index>>,
         req[r].pc \notin {"createAdd", "createExpire", "renewIndex"},
         req'[r].pc \notin {"createAdd", "createExpire", "revokeUserIndex", "revokeRem"},
         req'[r].pc = "revokeUserDel" =>
           \A s \in Sessions : Live(s) /\ sess[s].owner = req'[r].user => s \in req'[r].ids,
         req'[r].pc \in SessionSteps => UserOf(r)' = sess[req'[r].session].owner
  PROVE  SetInv'
<1>0. now' = now
  BY DEF Frame
<1>1. ExpiryInv'
  BY <1>0 DEF SetInv, ExpiryInv, Expiry
<1>2. Ongoing(r)'
  BY <1>0 DEF Ongoing, Live
<1>3. ASSUME NEW s \in Sessions, sess'[s].owner = UserOf(r) PROVE Indexed(s)'
  <2>1. Entered(s)' => Entered(s)
    BY <1>3, Alone, AloneNext
  <2>2. ~Renewing(s)
    BY <1>3, Alone
  <2> QED BY <1>0, <2>1, <2>2 DEF SetInv, IndexInv, Indexed, Live, Listed
<1> QED BY <1>1, <1>2, <1>3, UserStep

\* A request that begins has done nothing yet.
LEMMA BeginQuiet ==
  ASSUME IInv, SetInv, NEW r \in Requests, NEW q, Begin(r, q),
         \/ q.pc \in {"createSet", "revokeUserRead"}
         \/ q.pc \in {"revokeGet", "check"} /\ q.user = NoUser
  PROVE  SetInv'
<1>1. /\ req[r].pc = "idle" /\ req'[r] = q /\ \A p \in Requests \ {r} : req'[p] = req[p]
      /\ UNCHANGED <<sess, index, rt, now>>
  BY DEF Begin, IInv, TypeOK
<1>2. ExpiryInv'
  BY <1>1 DEF SetInv, ExpiryInv, Expiry
<1>3. ASSUME NEW p \in Requests PROVE Ongoing(p)'
  <2>1. CASE p = r
    BY <1>1, <2>1, SessionAssumption DEF Ongoing, UserOf, SessionSteps
  <2>2. CASE p # r
    BY <1>1, <2>2 DEF SetInv, OngoingInv, Ongoing, UserOf, Live
  <2> QED BY <2>1, <2>2
<1>4. ASSUME NEW s \in Sessions PROVE Indexed(s)'
  <2>1. Entered(s)' => Entered(s)
    BY <1>1 DEF Entered
  <2>2. Renewing(s) => Renewing(s)'
    BY <1>1 DEF Renewing
  <2> QED BY <1>1, <2>1, <2>2 DEF SetInv, IndexInv, Indexed, Live, Listed
<1> QED BY <1>2, <1>3, <1>4 DEF SetInv, OngoingInv, IndexInv

LEMMA ArriveKeepsSet ==
  ASSUME IInv, SetInv, NEW r \in Requests, Arrive(r) PROVE SetInv'
<1>1. CASE \E u \in Users : LoginBegin(r, u)
  <2>1. PICK u \in Users : LoginBegin(r, u)
    BY <1>1
  <2> DEFINE q == [IdleRequest EXCEPT !.op = "login", !.user = u,
                     !.pc = IF multiDevice THEN "createSet" ELSE "revokeUserRead"]
  <2>2. q.pc \in {"createSet", "revokeUserRead"} /\ Begin(r, q)
    BY <2>1 DEF LoginBegin, IdleRequest
  <2> HIDE DEF q
  <2> QED BY <2>2, BeginQuiet
<1>2. CASE \E t \in Tokens : RefreshRead(r, t)
  <2>1. PICK t \in Tokens : RefreshRead(r, t)
    BY <1>2
  <2> DEFINE q == [IdleRequest EXCEPT !.op = "refresh", !.token = t, !.session = rt[t].session,
                     !.pc = IF rt[t].status = "revoked" THEN "revokeGet" ELSE "check"]
  <2>2. q.pc \in {"revokeGet", "check"} /\ q.user = NoUser /\ Begin(r, q)
    BY <2>1 DEF RefreshRead, IdleRequest
  <2> HIDE DEF q
  <2> QED BY <2>2, BeginQuiet
<1>3. CASE \E s \in Sessions : LogoutBegin(r, s)
  <2>1. PICK s \in Sessions : LogoutBegin(r, s)
    BY <1>3
  <2> DEFINE one == [IdleRequest EXCEPT !.op = "logout", !.session = s, !.pc = "revokeGet"]
             all == [IdleRequest EXCEPT !.op = "logoutAll", !.user = sess[s].owner,
                       !.pc = "revokeUserRead"]
  <2>2. /\ one.pc = "revokeGet" /\ one.user = NoUser /\ all.pc = "revokeUserRead"
        /\ Begin(r, one) \/ Begin(r, all)
    BY <2>1 DEF LogoutBegin, IdleRequest
  <2> HIDE DEF one, all
  <2> QED BY <2>2, BeginQuiet
<1> QED BY <1>1, <1>2, <1>3 DEF Arrive

\* All of the user's active sessions are in the set that is read.
LEMMA RevokeUserReadKeepsSet ==
  ASSUME IInv, OnePerUser, SetInv, NEW r \in Requests, Frame(r), RevokeUserRead(r)
  PROVE  SetInv'
<1>1. /\ req[r].pc = "revokeUserRead" /\ req[r].user \in Users /\ UNCHANGED <<sess, index>>
      /\ req[r].user = UserOf(r)
  BY Subject DEF RevokeUserRead, UserSteps
<1>2. \A s \in Sessions : Live(s) /\ sess[s].owner = req[r].user => s \in Listed(req[r].user)
  BY <1>1, Alone DEF SetInv, IndexInv, Indexed
<1>3. CASE Listed(req[r].user) # {}
  <2>1. /\ req'[r].pc = "revokeUserDel" /\ req'[r].user = req[r].user
        /\ req'[r].ids = Listed(req[r].user)
    BY <1>3, RequestNext DEF RevokeUserRead, IInv, TypeOK, Request
  <2> QED BY <1>1, <1>2, <2>1, QuietKeeps DEF SessionSteps
<1>4. CASE Listed(req[r].user) = {}
  <2>1. req'[r].pc \in {"createSet", "idle"}
    BY <1>4, RequestNext DEF RevokeUserRead
  <2> QED BY <1>1, <2>1, QuietKeeps DEF SessionSteps
<1> QED BY <1>3, <1>4

LEMMA RevokeUserDelKeepsSet ==
  ASSUME IInv, OnePerUser, SetInv, NEW r \in Requests, Frame(r), RevokeUserDel(r)
  PROVE  SetInv'
<1>1. /\ req[r].pc = "revokeUserDel" /\ UNCHANGED <<index, now>>
      /\ req'[r].pc = "revokeUserIndex" /\ req'[r].user = req[r].user
  BY RequestNext DEF RevokeUserDel, IInv, TypeOK, Request
<1>2. \A s \in Sessions : /\ sess'[s].owner = sess[s].owner
                          /\ s \in req[r].ids => sess'[s].exp = 0
                          /\ s \notin req[r].ids => sess'[s] = sess[s]
  BY DEF RevokeUserDel, IInv, TypeOK, SessionKey
<1>3. \A s \in Sessions : Live(s)' => Live(s) /\ s \notin req[r].ids /\ sess'[s] = sess[s]
  BY <1>1, <1>2, SessionOf DEF Live
<1>4. ExpiryInv'
  BY <1>1, <1>2, SessionOf DEF SetInv, ExpiryInv, Expiry
<1>5. Ongoing(r)'
  BY <1>1, <1>2, <1>3 DEF SetInv, OngoingInv, Ongoing, SessionSteps
<1>6. ASSUME NEW s \in Sessions, sess'[s].owner = UserOf(r) PROVE Indexed(s)'
  <2>1. Entered(s) /\ ~Renewing(s)
    BY <1>1, <1>2, <1>6, Alone
  <2> QED BY <1>1, <1>2, <1>3, <2>1 DEF SetInv, IndexInv, Indexed, Listed
<1> QED BY <1>1, <1>4, <1>5, <1>6, UserStep

\* The set that is deleted has no active session.
LEMMA RevokeUserIndexKeepsSet ==
  ASSUME IInv, OnePerUser, SetInv, NEW r \in Requests, Frame(r), RevokeUserIndex(r)
  PROVE  SetInv'
<1>1. /\ req[r].pc = "revokeUserIndex" /\ UNCHANGED <<sess, now>>
      /\ req'[r].pc \in {"createSet", "idle"} /\ UserOf(r) = req[r].user
  BY RequestNext, Subject DEF RevokeUserIndex, UserSteps
<1>2. ExpiryInv' /\ Ongoing(r)'
  BY <1>1 DEF SetInv, ExpiryInv, Ongoing, Expiry, SessionSteps
<1>3. ASSUME NEW s \in Sessions, sess'[s].owner = UserOf(r) PROVE ~Live(s)'
  BY <1>1, <1>3 DEF SetInv, OngoingInv, Ongoing, Live
<1> QED BY <1>1, <1>2, <1>3, UserStep DEF Indexed

\* A new session has no token, and is not in the set yet.
LEMMA CreateSetKeepsSet ==
  ASSUME IInv, OnePerUser, SetInv, NEW r \in Requests, Frame(r), CreateSet(r)
  PROVE  SetInv'
<1>1. PICK x \in Sessions :
        /\ Fresh(x)
        /\ sess' = [sess EXCEPT ![x] = [owner |-> req[r].user, exp |-> Expiry]]
        /\ req' = [req EXCEPT ![r].pc = "createAdd", ![r].session = x]
  BY DEF CreateSet
<1>2. /\ req[r].pc = "createSet" /\ UNCHANGED <<index, rt, now>> /\ req[r].user \in Users
      /\ UserOf(r) = req[r].user
      /\ req'[r].pc = "createAdd" /\ req'[r].user = req[r].user /\ req'[r].session = x
  <2>1. req[r].pc = "createSet" /\ UNCHANGED <<index, rt, now>>
    BY DEF CreateSet
  <2>2. req[r].user \in Users /\ UserOf(r) = req[r].user
    BY <2>1, Subject DEF UserSteps
  <2>3. req'[r].pc = "createAdd" /\ req'[r].user = req[r].user /\ req'[r].session = x
    BY <1>1 DEF IInv, TypeOK, Request
  <2> QED BY <2>1, <2>2, <2>3
<1>3. /\ \A s \in Sessions \ {x} : sess'[s] = sess[s]
      /\ sess'[x].owner = req[r].user /\ sess'[x].exp = Expiry
  BY <1>1 DEF IInv, TypeOK
<1>4. ExpiryInv'
  BY <1>2, <1>3, SessionOf DEF SetInv, ExpiryInv, Expiry
<1>5. \A t \in Tokens : rt[t].status # "none" => rt[t].session # x
  BY <1>1, SessionAssumption DEF IInv, Aimed, TokensAimed, Created, Fresh
<1>6. Ongoing(r)'
  BY <1>2, <1>3, <1>5 DEF Ongoing, UserOf
<1>7. ASSUME NEW s \in Sessions, sess'[s].owner = UserOf(r) PROVE Indexed(s)'
  <2>1. CASE s = x
    BY <1>2, <1>7, <2>1, AloneNext DEF Indexed
  <2>2. CASE s # x
    <3>1. sess'[s] = sess[s] /\ Entered(s) /\ ~Renewing(s)
      BY <1>2, <1>3, <1>7, <2>2, Alone
    <3> QED BY <1>2, <3>1 DEF SetInv, IndexInv, Indexed, Listed, Live
  <2> QED BY <2>1, <2>2
<1> QED BY <1>2, <1>4, <1>6, <1>7, UserStep

LEMMA CreateAddKeepsSet ==
  ASSUME IInv, OnePerUser, SetInv, NEW r \in Requests, Frame(r), CreateAdd(r)
  PROVE  SetInv'
<1>1. PICK x, u : x = req[r].session /\ u = req[r].user
  OBVIOUS
<1>2. /\ req[r].pc = "createAdd" /\ UNCHANGED <<sess, rt, now>> /\ u \in Users /\ x \in Sessions
      /\ req'[r].pc = "createExpire" /\ req'[r].user = u /\ req'[r].session = x
      /\ sess[x].owner = u /\ UserOf(r) = u
  BY <1>1, RequestNext, Subject DEF CreateAdd, UserSteps, SessionSteps
<1>3. index'[u] = Added(u, x)
  BY <1>1, <1>2 DEF CreateAdd, IInv, TypeOK
<1>4. /\ index'[u].exp > now
      /\ x \in index'[u].ids
      /\ Listed(u) \subseteq index'[u].ids
      /\ Listed(u) # {} => index'[u].exp = index[u].exp
  BY <1>2, <1>3, SessionAssumption DEF Added, IInv, TypeOK, IndexKey, Times, Listed
<1>5. ExpiryInv' /\ Ongoing(r)'
  BY <1>2 DEF SetInv, ExpiryInv, Ongoing, Expiry, UserOf
<1>6. ASSUME NEW s \in Sessions, sess'[s].owner = UserOf(r) PROVE Indexed(s)'
  <2>1. CASE s = x
    BY <1>2, <1>4, <1>6, <2>1, AloneNext DEF Indexed, Listed
  <2>2. CASE s # x
    <3>1. Entered(s) /\ ~Renewing(s) /\ sess[s].owner = u
      BY <1>1, <1>2, <1>6, <2>2, Alone
    <3>2. Live(s) => s \in Listed(u) /\ sess[s].exp <= index[u].exp
      BY <3>1 DEF SetInv, IndexInv, Indexed
    <3> QED BY <1>2, <1>4, <3>1, <3>2 DEF Indexed, Listed, Live
  <2> QED BY <2>1, <2>2
<1> QED BY <1>2, <1>5, <1>6, UserStep

\* EXPIRE of a user's set, after the key of a session of his.
LEMMA ExpireKeepsSet ==
  ASSUME IInv, OnePerUser, SetInv, NEW r \in Requests, req[r].pc \notin {"idle", "createAdd"},
         Frame(r),
         index' = [index EXCEPT ![UserOf(r)] = Renewed(@)],
         req'[r].pc \in {"sign", "idle"}, UNCHANGED sess,
         req'[r].pc = "sign" => UserOf(r)' = sess[req'[r].session].owner
  PROVE  SetInv'
<1>0. PICK u : u = UserOf(r)
  OBVIOUS
<1>1. u \in Users /\ now' = now
  BY <1>0, Subject DEF Frame
<1>2. /\ index'[u].ids = index[u].ids
      /\ index[u].exp > now => index'[u].exp = Expiry
  BY <1>0, <1>1, SessionAssumption DEF IInv, TypeOK, IndexKey, Renewed
<1>3. ExpiryInv' /\ Ongoing(r)'
  BY <1>1 DEF SetInv, ExpiryInv, Ongoing, Expiry, SessionSteps
<1>4. ASSUME NEW s \in Sessions, sess'[s].owner = u PROVE Indexed(s)'
  <2>1. Entered(s) /\ sess[s].owner = u
    BY <1>0, <1>4, Alone
  <2>2. Live(s) => s \in Listed(u)
    BY <2>1 DEF SetInv, IndexInv, Indexed
  <2>3. sess[s].exp <= Expiry /\ now < Expiry
    BY SessionOf DEF SetInv, ExpiryInv
  <2>4. Live(s) => s \in Listed(u)' /\ index'[u].exp = Expiry
    BY <1>1, <1>2, <2>2, <2>3 DEF Listed
  <2> QED BY <1>1, <2>1, <2>3, <2>4 DEF Indexed, Live, Listed
<1> QED BY <1>0, <1>3, <1>4, UserStep

LEMMA CreateExpireKeepsSet ==
  ASSUME IInv, OnePerUser, SetInv, NEW r \in Requests, Frame(r), CreateExpire(r)
  PROVE  SetInv'
<1>1. /\ req[r].pc = "createExpire" /\ req[r].user = UserOf(r) /\ req'[r].pc = "sign"
      /\ UNCHANGED sess
      /\ index' = [index EXCEPT ![req[r].user] = Renewed(@)]
  BY RequestNext, Subject DEF CreateExpire, UserSteps
<1>2. UserOf(r)' = sess[req'[r].session].owner
  BY <1>1, RequestNext, SameSubject DEF CreateExpire, SessionSteps
<1> QED BY <1>1, <1>2, ExpireKeepsSet

LEMMA RenewIndexKeepsSet ==
  ASSUME IInv, OnePerUser, SetInv, NEW r \in Requests, Frame(r), RenewIndex(r)
  PROVE  SetInv'
<1>1. /\ req[r].pc = "renewIndex" /\ UserOf(r) = sess[req[r].session].owner
      /\ req'[r].pc = "idle" /\ UNCHANGED sess
      /\ index' = [index EXCEPT ![sess[req[r].session].owner] = Renewed(@)]
  BY RequestNext, Subject DEF RenewIndex, SessionSteps
<1> QED BY <1>1, ExpireKeepsSet

LEMMA RenewSessionKeepsSet ==
  ASSUME IInv, OnePerUser, SetInv, NEW r \in Requests, Frame(r), RenewSession(r)
  PROVE  SetInv'
<1>1. PICK x : x = req[r].session
  OBVIOUS
<1>2. /\ req[r].pc = "renewSession" /\ x \in Sessions /\ UNCHANGED <<index, rt, now>>
      /\ req'[r].pc = "renewIndex" /\ req'[r].session = x
      /\ UserOf(r)' = sess'[req'[r].session].owner
  BY <1>1, RequestNext, Subject, SameSubject DEF RenewSession, SessionSteps
<1>3. /\ \A s \in Sessions \ {x} : sess'[s] = sess[s]
      /\ sess'[x].owner = sess[x].owner
      /\ sess'[x].exp = IF Live(x) THEN Expiry ELSE sess[x].exp
  BY <1>1, <1>2 DEF RenewSession, IInv, TypeOK, SessionKey, Renewed, Live
<1>4. \A s \in Sessions : Live(s)' => Live(s)
  BY <1>2, <1>3 DEF Live
<1>5. ExpiryInv'
  BY <1>2, <1>3, SessionOf DEF SetInv, ExpiryInv, Expiry
<1>6. Ongoing(r)'
  BY <1>2 DEF Ongoing
<1>7. ASSUME NEW s \in Sessions, sess'[s].owner = UserOf(r) PROVE Indexed(s)'
  <2>1. Entered(s) /\ ~Renewing(s) /\ sess'[s].owner = sess[s].owner
    BY <1>2, <1>3, <1>7, Alone
  <2>2. Live(s) => s \in Listed(sess[s].owner) /\ sess[s].exp <= index[sess[s].owner].exp
    BY <2>1 DEF SetInv, IndexInv, Indexed
  <2>3. s = x => Renewing(s)'
    BY <1>2, <1>7, AloneNext
  <2> QED BY <1>2, <1>3, <1>4, <2>1, <2>2, <2>3 DEF Indexed, Listed
<1> QED BY <1>2, <1>5, <1>6, <1>7, UserStep

LEMMA RevokeDelKeepsSet ==
  ASSUME IInv, OnePerUser, SetInv, NEW r \in Requests, Frame(r), RevokeDel(r)
  PROVE  SetInv'
<1>1. PICK x : x = req[r].session
  OBVIOUS
<1>2. /\ req[r].pc = "revokeDel" /\ x \in Sessions /\ UNCHANGED <<index, rt, now>>
      /\ req'[r].pc \in {"revokeRem", "idle"}
      /\ req'[r].pc = "revokeRem" => /\ req'[r].session = x
                                     /\ UserOf(r)' = sess'[req'[r].session].owner
  BY <1>1, RequestNext, Subject, SameSubject DEF RevokeDel, AfterDel, SessionSteps
<1>3. /\ \A s \in Sessions \ {x} : sess'[s] = sess[s]
      /\ sess'[x].owner = sess[x].owner /\ sess'[x].exp = 0
  BY <1>1, <1>2 DEF RevokeDel, IInv, TypeOK, SessionKey
<1>4. ~Live(x)' /\ \A s \in Sessions : Live(s)' => Live(s) /\ s # x
  BY <1>2, <1>3, SessionOf DEF Live
<1>5. ExpiryInv'
  BY <1>2, <1>3, SessionOf DEF SetInv, ExpiryInv, Expiry
<1>6. Ongoing(r)'
  BY <1>2, <1>4 DEF Ongoing, SessionSteps
<1>7. ASSUME NEW s \in Sessions, sess'[s].owner = UserOf(r) PROVE Indexed(s)'
  <2>1. Entered(s) /\ ~Renewing(s)
    BY <1>2, <1>3, <1>7, Alone
  <2> QED BY <1>2, <1>3, <1>4, <2>1 DEF SetInv, IndexInv, Indexed, Listed
<1> QED BY <1>2, <1>5, <1>6, <1>7, UserStep

\* SREM of a session that is not active any more leaves the others.
LEMMA RevokeRemKeepsSet ==
  ASSUME IInv, OnePerUser, SetInv, NEW r \in Requests, Frame(r), RevokeRem(r)
  PROVE  SetInv'
<1>1. PICK x, u : x = req[r].session /\ u = req[r].user
  OBVIOUS
<1>2. /\ req[r].pc = "revokeRem" /\ u \in Users /\ x \in Sessions /\ ~Live(x)
      /\ UserOf(r) = u /\ UNCHANGED <<sess, now>> /\ req'[r].pc = "idle"
  BY <1>1, RequestNext, Subject
  DEF RevokeRem, UserSteps, SessionSteps, SetInv, OngoingInv, Ongoing
<1>3. index'[u] = Removed(u, x)
  BY <1>1, <1>2 DEF RevokeRem, IInv, TypeOK
<1>4. \A s \in Sessions \ {x} : s \in Listed(u) =>
        index'[u].exp = index[u].exp /\ s \in index'[u].ids
  BY <1>2, <1>3 DEF Removed, IInv, TypeOK, IndexKey, Listed
<1>5. ExpiryInv' /\ Ongoing(r)'
  BY <1>2 DEF SetInv, ExpiryInv, Ongoing, Expiry, SessionSteps
<1>6. ASSUME NEW s \in Sessions, sess'[s].owner = UserOf(r) PROVE Indexed(s)'
  <2>1. Entered(s) /\ ~Renewing(s) /\ sess[s].owner = u
    BY <1>2, <1>6, Alone
  <2>2. Live(s) => s \in Listed(u) /\ sess[s].exp <= index[u].exp /\ s # x
    BY <1>2, <2>1 DEF SetInv, IndexInv, Indexed
  <2> QED BY <1>2, <1>4, <2>1, <2>2 DEF Indexed, Listed, Live
<1> QED BY <1>2, <1>5, <1>6, UserStep

\* Time passes between requests: what is in a set expires with or before it.
LEMMA TickKeepsSet == ASSUME Faults = {}, IInv, SetInv, Tick PROVE SetInv'
<1>1. /\ UNCHANGED <<sess, index, rt, req>> /\ now' = now + 1 /\ now \in Nat
      /\ \A r \in Requests : req[r].pc = "idle"
  BY SessionAssumption DEF Tick, IInv, TypeOK
<1>2. Expiry <= Expiry' /\ Expiry' \in Nat /\ Expiry \in Nat
  BY <1>1, SessionAssumption DEF Expiry
<1>3. ExpiryInv'
  BY <1>1, <1>2, SessionOf DEF SetInv, ExpiryInv
<1>4. OngoingInv'
  BY <1>1 DEF OngoingInv, Ongoing, SessionSteps
<1>5. ASSUME NEW s \in Sessions, Entered(s)', Live(s)'
      PROVE  (s \in Listed(sess[s].owner) /\ sess[s].exp <= index[sess[s].owner].exp)'
  <2>1. Entered(s) /\ ~Renewing(s) /\ sess[s].owner \in Users
    BY <1>1, <1>5 DEF Entered, Renewing
  <2>2. /\ sess[s].exp \in Nat /\ index[sess[s].owner].exp \in Nat
        /\ sess[s].exp > now + 1
    BY <1>1, <1>5, <2>1, SessionOf DEF Live
  <2>3. Live(s)
    BY <1>1, <2>2 DEF Live
  <2>4. s \in Listed(sess[s].owner) /\ sess[s].exp <= index[sess[s].owner].exp
    BY <2>1, <2>3 DEF SetInv, IndexInv, Indexed
  <2> QED BY <1>1, <2>2, <2>4 DEF Listed
<1> QED BY <1>3, <1>4, <1>5 DEF SetInv, IndexInv, Indexed

LEMMA ProceedKeepsSet ==
  ASSUME IInv, OnePerUser, SetInv, NEW r \in Requests, Proceed(r) PROVE SetInv'
<1> Frame(r)
  BY Framed
<1>1. CASE Sign(r) \/ RotateNew(r)
  <2>1. /\ UNCHANGED <<sess, index>> /\ req[r].pc \in {"sign", "rotateNew"}
        /\ req'[r].pc \in {"loginDone", "renewSession"}
        /\ req'[r].user = req[r].user /\ req'[r].session = req[r].session
    BY <1>1 DEF Sign, RotateNew, Issue, IInv, TypeOK, Request
  <2> QED BY <2>1, QuietKeeps, SameSubject DEF SessionSteps
<1>2. CASE LoginDone(r) \/ RefreshCheck(r) \/ RotateOld(r)
  <2>1. /\ UNCHANGED <<sess, index>>
        /\ req[r].pc \in {"loginDone", "check", "rotateOld"}
        /\ \/ req'[r].pc = "idle"
           \/ /\ req'[r].pc \in {"rotateOld", "rotateNew"}
              /\ req'[r].user = req[r].user /\ req'[r].session = req[r].session
    BY <1>2, RequestNext DEF LoginDone, RefreshCheck, RotateOld
  <2> QED BY <2>1, QuietKeeps, SameSubject DEF SessionSteps
<1>3. CASE RevokeGet(r)
  <2>1. /\ UNCHANGED <<sess, index>> /\ req[r].pc = "revokeGet" /\ req'[r].pc = "revokeDel"
        /\ req'[r].session = req[r].session
        /\ req'[r].user \in {sess[req[r].session].owner, NoUser}
    BY <1>3 DEF RevokeGet, IInv, TypeOK, Request
  <2>2. UserOf(r)' = sess[req'[r].session].owner
    BY <2>1, SessionAssumption DEF UserOf
  <2> QED BY <2>1, <2>2, QuietKeeps
<1>4. CASE RevokeUserRead(r) \/ RevokeUserDel(r) \/ RevokeUserIndex(r) \/ CreateSet(r)
           \/ CreateAdd(r) \/ CreateExpire(r) \/ RenewSession(r) \/ RenewIndex(r)
           \/ RevokeDel(r) \/ RevokeRem(r)
  BY <1>4, RevokeUserReadKeepsSet, RevokeUserDelKeepsSet, RevokeUserIndexKeepsSet,
     CreateSetKeepsSet, CreateAddKeepsSet, CreateExpireKeepsSet, RenewSessionKeepsSet,
     RenewIndexKeepsSet, RevokeDelKeepsSet, RevokeRemKeepsSet
<1> QED BY <1>1, <1>2, <1>3, <1>4 DEF Proceed

LEMMA SetStep ==
  ASSUME Faults = {}, IInv, OnePerUser, SetInv, [Next]_vars PROVE SetInv'
<1>1. CASE UNCHANGED vars
  BY <1>1 DEF vars, SetInv, IndexInv, Indexed, ExpiryInv, OngoingInv, Ongoing, UserOf, Entered,
     Renewing, Live, Listed, Expiry
<1>2. ASSUME NEW r \in Requests, Crash(r) PROVE FALSE
  BY <1>2 DEF Crash
<1> QED BY <1>1, <1>2, ArriveKeepsSet, ProceedKeepsSet, TickKeepsSet DEF Next

LEMMA SetInit == Init => SetInv
<1> SUFFICES ASSUME Init PROVE SetInv
  OBVIOUS
<1>1. \A s \in Sessions : ~Live(s) /\ sess[s].exp = 0
  BY DEF Init, Live
<1>2. Expiry \in Nat
  BY SessionAssumption DEF Init, Expiry
<1>3. \A r \in Requests : req[r].pc = "idle"
  BY DEF Init, IdleRequest
<1> QED BY <1>1, <1>2, <1>3
        DEF SetInv, IndexInv, Indexed, ExpiryInv, OngoingInv, Ongoing, SessionSteps

\* SessionService: while no two requests about one user overlap, and none dies
\* or lasts over a tick of the clock, user:sessions lists every active session
\* of the user that a client joined, whatever requests about other users do in
\* between, in either configuration, for any number of users, sessions and
\* requests and any time to live.
THEOREM SetIsComplete == Faults = {} => (Spec /\ []OnePerUser => []ActiveSessionsListed)
<1> SUFFICES ASSUME Faults = {} PROVE Spec /\ []OnePerUser => []ActiveSessionsListed
  OBVIOUS
<1>1. IInv /\ SetInv => ActiveSessionsListed
  <2> SUFFICES ASSUME IInv, SetInv, NEW s \in Sessions, Joined(s), Live(s)
               PROVE  s \in Listed(sess[s].owner)
    BY DEF ActiveSessionsListed
  <2>1. PICK t \in held : rt[t].session = s
    BY DEF Joined
  <2>2. t \in Tokens /\ rt[t].status # "none"
    BY <2>1, HeldIssued DEF IInv, TypeOK, Aimed
  <2>3. Entered(s)
    BY <2>1, <2>2 DEF Entered, IInv, Aimed, TokensAimed, Created, SetInv, OngoingInv, Ongoing
  <2> QED BY <2>3 DEF SetInv, IndexInv, Indexed
<1>2. IInv /\ SetInv /\ OnePerUser /\ [Next]_vars => SetInv'
  BY SetStep
<1> QED BY <1>1, <1>2, InitInv, StepInv, SetInit, PTL DEF Spec

-----------------------------------------------------------------------------
(* Rotation, when no two refreshes with one token overlap.                  *)

\* A refresh has found its token active and not marked it yet.
Rotating(r) == req[r].pc \in {"check", "rotateOld"}

OnePerToken == \A p, r \in Requests :
                 p # r /\ Rotating(p) /\ Rotating(r) => req[p].token # req[r].token

\* What it found is still so.
StillActive(r) == Rotating(r) => req[r].token \in Tokens /\ rt[req[r].token].status = "active"
ActiveInv      == \A r \in Requests : StillActive(r)

\* The commands that write tokens leave the ones that were rotated alone, and
\* the one of another refresh.
LEMMA TokenWritten ==
  ASSUME IInv, ActiveInv, OnePerToken, NEW r \in Requests, Proceed(r), NEW t \in Tokens,
         rt[t].status # "none"
  PROVE  rt'[t] = rt[t] \/ (RotateOld(r) /\ req[r].token = t /\ rt[t].status = "active")
<1>1. CASE Sign(r) \/ RotateNew(r)
  <2>1. PICK x \in Tokens : /\ Unissued(x)
                            /\ rt' = [rt EXCEPT ![x] = [status  |-> "active",
                                                        session |-> req[r].session,
                                                        exp     |-> Expiry]]
    BY <1>1 DEF Sign, RotateNew, Issue
  <2> QED BY <2>1 DEF Unissued, IInv, TypeOK
<1>2. CASE RotateOld(r)
  <2>1. /\ StillActive(r) /\ Rotating(r)
        /\ \A x \in Tokens : x # req[r].token => rt'[x] = rt[x]
    BY <1>2 DEF RotateOld, ActiveInv, Rotating, IInv, TypeOK
  <2> QED BY <1>2, <2>1 DEF StillActive
<1>3. CASE UNCHANGED rt
  BY <1>3
<1> QED BY <1>1, <1>2, <1>3
        DEF Proceed, RevokeUserRead, RevokeUserDel, RevokeUserIndex, CreateSet, CreateAdd,
        CreateExpire, LoginDone, RefreshCheck, RenewSession, RenewIndex, RevokeGet, RevokeDel,
        RevokeRem

\* A step of one request turns it into one that is not rotating, or lets it
\* rotate the token it has.
LEMMA RotatingNext ==
  ASSUME IInv, NEW r \in Requests, Proceed(r)
  PROVE  /\ \A p \in Requests \ {r} : req'[p] = req[p]
         /\ Rotating(r)' => req[r].pc = "check" /\ req'[r].token = req[r].token
<1> USE DEF IInv, TypeOK, Rotating
<1>1. CASE RevokeUserRead(r) \/ RevokeUserDel(r) \/ RevokeUserIndex(r) \/ CreateSet(r)
           \/ CreateAdd(r) \/ CreateExpire(r) \/ Sign(r) \/ LoginDone(r)
  BY <1>1 DEF RevokeUserRead, RevokeUserDel, RevokeUserIndex, CreateSet, CreateAdd,
     CreateExpire, Sign, Issue, LoginDone, Goto, Return, IdleRequest, Request
<1>2. CASE RefreshCheck(r) \/ RotateOld(r) \/ RotateNew(r) \/ RenewSession(r)
           \/ RenewIndex(r) \/ RevokeGet(r) \/ RevokeDel(r) \/ RevokeRem(r)
  BY <1>2 DEF RefreshCheck, RotateOld, RotateNew, Issue, RenewSession, RenewIndex,
     RevokeGet, RevokeDel, RevokeRem, AfterDel, Goto, Return, IdleRequest, Request
<1> QED BY <1>1, <1>2 DEF Proceed

LEMMA ActiveStep ==
  ASSUME IInv, ActiveInv, OnePerToken, [Next]_vars
  PROVE  /\ ActiveInv'
         /\ \A t \in Tokens : rt[t].status = "revoked" => rt'[t] = rt[t]
<1>1. ASSUME NEW r \in Requests, Proceed(r)
      PROVE  /\ ActiveInv'
             /\ \A t \in Tokens : rt[t].status = "revoked" => rt'[t] = rt[t]
  <2>1. ASSUME NEW p \in Requests, Rotating(p)' PROVE StillActive(p)'
    <3>1. Rotating(p) /\ req'[p].token = req[p].token /\ ~(RotateOld(r) /\ p = r)
      BY <1>1, <2>1, RotatingNext DEF Rotating, RotateOld
    <3>2. req[p].token \in Tokens /\ rt[req[p].token].status = "active"
      BY <3>1 DEF ActiveInv, StillActive
    <3>3. ~(RotateOld(r) /\ req[r].token = req[p].token)
      BY <3>1 DEF OnePerToken, Rotating, RotateOld
    <3> QED BY <1>1, <3>1, <3>2, <3>3, TokenWritten DEF StillActive
  <2>2. \A t \in Tokens : rt[t].status = "revoked" => rt'[t] = rt[t]
    BY <1>1, TokenWritten
  <2> QED BY <2>1, <2>2 DEF ActiveInv, StillActive
<1>2. ASSUME NEW r \in Requests, NEW q, Begin(r, q),
             q.pc \in {"check", "rotateOld"} => q.token \in Tokens /\ rt[q.token].status = "active"
      PROVE  ActiveInv' /\ rt' = rt
  BY <1>2 DEF Begin, ActiveInv, StillActive, Rotating, IInv, TypeOK
<1>3. ASSUME NEW r \in Requests, Arrive(r) PROVE ActiveInv' /\ rt' = rt
  <2>1. ASSUME NEW u \in Users, LoginBegin(r, u) PROVE ActiveInv' /\ rt' = rt
    <3> DEFINE q == [IdleRequest EXCEPT !.op = "login", !.user = u,
                       !.pc = IF multiDevice THEN "createSet" ELSE "revokeUserRead"]
    <3>1. q.pc \notin {"check", "rotateOld"} /\ Begin(r, q)
      BY <2>1 DEF LoginBegin, IdleRequest
    <3> HIDE DEF q
    <3> QED BY <1>2, <3>1
  <2>2. ASSUME NEW t \in Tokens, RefreshRead(r, t) PROVE ActiveInv' /\ rt' = rt
    <3> DEFINE q == [IdleRequest EXCEPT !.op = "refresh", !.token = t, !.session = rt[t].session,
                       !.pc = IF rt[t].status = "revoked" THEN "revokeGet" ELSE "check"]
    <3>1. rt[t].exp > now /\ Begin(r, q) /\ q.token = t
          /\ (q.pc \in {"check", "rotateOld"} => rt[t].status # "revoked")
      BY <2>2 DEF RefreshRead, TokenKnown, IdleRequest
    <3>2. rt[t].status # "none"
      BY <3>1, SessionAssumption DEF IInv, TypeOK, TokenKey, Aimed, TokensAimed
    <3>3. rt[t].status \in {"none", "active", "revoked"}
      BY DEF IInv, TypeOK, TokenKey
    <3> HIDE DEF q
    <3> QED BY <1>2, <3>1, <3>2, <3>3
  <2>3. ASSUME NEW s \in Sessions, LogoutBegin(r, s) PROVE ActiveInv' /\ rt' = rt
    <3> DEFINE one == [IdleRequest EXCEPT !.op = "logout", !.session = s, !.pc = "revokeGet"]
               all == [IdleRequest EXCEPT !.op = "logoutAll", !.user = sess[s].owner,
                         !.pc = "revokeUserRead"]
    <3>1. /\ one.pc \notin {"check", "rotateOld"} /\ all.pc \notin {"check", "rotateOld"}
          /\ Begin(r, one) \/ Begin(r, all)
      BY <2>3 DEF LogoutBegin, IdleRequest
    <3> HIDE DEF one, all
    <3> QED BY <1>2, <3>1
  <2> QED BY <1>3, <2>1, <2>2, <2>3 DEF Arrive
<1>4. ASSUME NEW r \in Requests, Crash(r) PROVE ActiveInv' /\ rt' = rt
  BY <1>4 DEF Crash, Return, IdleRequest, ActiveInv, StillActive, Rotating, IInv, TypeOK
<1>5. CASE Tick \/ UNCHANGED vars
  BY <1>5 DEF Tick, vars, ActiveInv, StillActive, Rotating
<1> QED BY <1>1, <1>3, <1>4, <1>5 DEF Next

\* TokenService.rotateRefresh: while no two refreshes with one token overlap, a
\* token that was rotated is never written again, whatever requests are slow or
\* die halfway and whatever logins and logouts come in between.
THEOREM OneSuccessor == Spec /\ []OnePerToken => RotatedOnce
<1>1. Init => ActiveInv
  BY DEF Init, IdleRequest, ActiveInv, StillActive, Rotating
<1>2. IInv /\ ActiveInv /\ OnePerToken /\ [Next]_vars => ActiveInv'
  BY ActiveStep
<1>3. IInv /\ ActiveInv /\ OnePerToken /\ [Next]_vars
        => [\A t \in Tokens : rt[t].status = "revoked" => rt'[t] = rt[t]]_vars
  BY ActiveStep
<1> QED BY <1>1, <1>2, <1>3, InitInv, StepInv, PTL DEF Spec, RotatedOnce
=============================================================================
