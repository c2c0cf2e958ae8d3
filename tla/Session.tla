------------------------------- MODULE Session -------------------------------
(***************************************************************************)
(* Sessions and refresh tokens: SessionService, TokenService and the       *)
(* operations of AuthService and OAuthService that use them (login,        *)
(* refresh, logout, logout of all devices).                                *)
(*                                                                         *)
(* All state is in Redis, behind keys with a time to live.  A request is a *)
(* sequence of single Redis commands; each action below is one command and *)
(* the code up to the next.  Commands of different requests interleave.    *)
(*                                                                         *)
(* A key's expiry time is its first tick out of existence; 0 stands for a  *)
(* key that does not exist, a time after MaxTime for one that outlives the *)
(* model.  An access token is not modelled: whoever holds a refresh token  *)
(* of a session holds a valid access token of it.                          *)
(***************************************************************************)
EXTENDS Naturals, FiniteSets

CONSTANTS
  Users,
  Sessions,  \* ids nanoid() draws from (bound on sessions ever created)
  Tokens,    \* refresh tokens (bound on tokens ever issued)
  Requests,  \* requests that can be in progress at once
  NoUser, NoSession, NoToken,
  TTL,       \* parseDuration(refresh.expiresIn), in ticks
  MaxTime,   \* bound of the clock
  Faults,    \* subset of FaultKinds
  MaxCrashes \* bound on requests that die halfway

\* "slow": time passes while a request is in progress.
\* "crash": a request dies between two commands.
FaultKinds == {"slow", "crash"}

ASSUME SessionAssumption ==
  /\ NoUser \notin Users
  /\ NoSession \notin Sessions
  /\ NoToken \notin Tokens
  /\ TTL \in Nat \ {0}
  /\ MaxTime \in Nat \ {0}
  /\ MaxCrashes \in Nat
  /\ Faults \subseteq FaultKinds

VARIABLES
  multiDevice, \* app.multiDeviceLogin, fixed when the program starts
  sess,        \* session:<id>
  index,       \* user:sessions:<id>, the SET of a user's sessions
  rt,          \* rt:<hash>
  held,        \* tokens that were returned to a client
  req,         \* the requests in progress
  now,         \* the clock
  crashes      \* requests that died so far

vars == <<multiDevice, sess, index, rt, held, req, now, crashes>>

-----------------------------------------------------------------------------
Times == 0 .. MaxTime + 1

\* owner stays after the key is gone: ids are not used twice.
SessionKey == [owner : Users \cup {NoUser}, exp : Times]
IndexKey   == [ids : SUBSET Sessions, exp : Times]
TokenKey   == [status : {"none", "active", "revoked"},
               session : Sessions \cup {NoSession}, exp : Times]

Request == [pc      : {"idle", "revokeUserRead", "revokeUserDel", "revokeUserIndex",
                       "createSet", "createAdd", "createExpire", "sign", "loginDone",
                       "check", "rotateOld", "rotateNew", "renewSession", "renewIndex",
                       "revokeGet", "revokeDel", "revokeRem"},
            op      : {"none", "login", "refresh", "logout", "logoutAll"},
            user    : Users \cup {NoUser},
            session : Sessions \cup {NoSession},
            token   : Tokens \cup {NoToken},
            ids     : SUBSET Sessions]

IdleRequest == [pc |-> "idle", op |-> "none", user |-> NoUser, session |-> NoSession,
                token |-> NoToken, ids |-> {}]

TypeOK ==
  /\ multiDevice \in BOOLEAN
  /\ sess \in [Sessions -> SessionKey]
  /\ index \in [Users -> IndexKey]
  /\ rt \in [Tokens -> TokenKey]
  /\ held \subseteq Tokens
  /\ req \in [Requests -> Request]
  /\ now \in 1 .. MaxTime
  /\ crashes \in 0 .. MaxCrashes

-----------------------------------------------------------------------------
\* Redis.

Fresh(s)      == sess[s].owner = NoUser
Unissued(t)   == rt[t].status = "none"
Live(s)       == sess[s].exp > now
Listed(u)     == IF index[u].exp > now THEN index[u].ids ELSE {}
TokenKnown(t) == rt[t].exp > now
Expiry        == IF now + TTL <= MaxTime THEN now + TTL ELSE MaxTime + 1

\* EXPIRE: only an existing key gets a new expiry time.
Renewed(key) == IF key.exp > now THEN [key EXCEPT !.exp = Expiry] ELSE key

\* SADD to a key that does not exist makes one that does not expire.
Added(u, s) == IF index[u].exp > now
               THEN [index[u] EXCEPT !.ids = @ \cup {s}]
               ELSE [ids |-> {s}, exp |-> MaxTime + 1]

NoIndex == [ids |-> {}, exp |-> 0]

\* SREM: an empty set does not exist.
Removed(u, s) == IF Listed(u) \subseteq {s} THEN NoIndex
                 ELSE [index[u] EXCEPT !.ids = @ \ {s}]

Goto(r, pc) == req' = [req EXCEPT ![r].pc = pc]
Return(r)   == req' = [req EXCEPT ![r] = IdleRequest]

Begin(r, new) ==
  /\ req[r].pc = "idle"
  /\ req' = [req EXCEPT ![r] = new]
  /\ UNCHANGED <<multiDevice, sess, index, rt, held, now, crashes>>

\* A client may act in session s.
Joined(s) == \E t \in held : rt[t].session = s

-----------------------------------------------------------------------------
\* SessionService.revokeByUser: logout of all devices, and the first part of
\* a login when one device is allowed.
RevokeUserRead(r) ==
  LET u == req[r].user
  IN  /\ req[r].pc = "revokeUserRead"
      /\ IF Listed(u) # {}
         THEN req' = [req EXCEPT ![r].pc = "revokeUserDel", ![r].ids = Listed(u)]
         ELSE IF req[r].op = "login" THEN Goto(r, "createSet") ELSE Return(r)
      /\ UNCHANGED <<multiDevice, sess, index, rt, held, now, crashes>>

RevokeUserDel(r) ==
  /\ req[r].pc = "revokeUserDel"
  /\ sess' = [s \in Sessions |-> IF s \in req[r].ids THEN [sess[s] EXCEPT !.exp = 0]
                                 ELSE sess[s]]
  /\ req' = [req EXCEPT ![r].pc = "revokeUserIndex", ![r].ids = {}]
  /\ UNCHANGED <<multiDevice, index, rt, held, now, crashes>>

RevokeUserIndex(r) ==
  /\ req[r].pc = "revokeUserIndex"
  /\ index' = [index EXCEPT ![req[r].user] = NoIndex]
  /\ IF req[r].op = "login" THEN Goto(r, "createSet") ELSE Return(r)
  /\ UNCHANGED <<multiDevice, sess, rt, held, now, crashes>>

-----------------------------------------------------------------------------
\* AuthService.login and OAuthService.issueTokens, after authentication.
LoginBegin(r, u) ==
  Begin(r, [IdleRequest EXCEPT !.op = "login", !.user = u,
              !.pc = IF multiDevice THEN "createSet" ELSE "revokeUserRead"])

\* SessionService.create.
CreateSet(r) ==
  /\ req[r].pc = "createSet"
  /\ \E s \in Sessions : Fresh(s)
  /\ LET s == CHOOSE s \in Sessions : Fresh(s)
     IN  /\ sess' = [sess EXCEPT ![s] = [owner |-> req[r].user, exp |-> Expiry]]
         /\ req' = [req EXCEPT ![r].pc = "createAdd", ![r].session = s]
  /\ UNCHANGED <<multiDevice, index, rt, held, now, crashes>>

CreateAdd(r) ==
  /\ req[r].pc = "createAdd"
  /\ index' = [index EXCEPT ![req[r].user] = Added(req[r].user, req[r].session)]
  /\ Goto(r, "createExpire")
  /\ UNCHANGED <<multiDevice, sess, rt, held, now, crashes>>

CreateExpire(r) ==
  /\ req[r].pc = "createExpire"
  /\ index' = [index EXCEPT ![req[r].user] = Renewed(@)]
  /\ Goto(r, "sign")
  /\ UNCHANGED <<multiDevice, sess, rt, held, now, crashes>>

\* TokenService.signRefresh: also the new token of a rotation.
Issue(r, pc) ==
  /\ \E t \in Tokens : Unissued(t)
  /\ LET t == CHOOSE t \in Tokens : Unissued(t)
     IN  /\ rt' = [rt EXCEPT ![t] = [status |-> "active", session |-> req[r].session,
                                     exp |-> Expiry]]
         /\ req' = [req EXCEPT ![r].pc = pc, ![r].token = t]

Sign(r) ==
  /\ req[r].pc = "sign"
  /\ Issue(r, "loginDone")
  /\ UNCHANGED <<multiDevice, sess, index, held, now, crashes>>

\* The update of the user's last login; then the tokens are returned.
LoginDone(r) ==
  /\ req[r].pc = "loginDone"
  /\ held' = held \cup {req[r].token}
  /\ Return(r)
  /\ UNCHANGED <<multiDevice, sess, index, rt, now, crashes>>

-----------------------------------------------------------------------------
\* TokenService.rotateRefresh: the old token is read.  One that was rotated
\* before revokes its session.
RefreshRead(r, t) ==
  /\ t \in held
  /\ TokenKnown(t)
  /\ Begin(r, [IdleRequest EXCEPT !.op = "refresh", !.token = t,
                 !.session = rt[t].session,
                 !.pc = IF rt[t].status = "revoked" THEN "revokeGet" ELSE "check"])

RefreshCheck(r) ==
  /\ req[r].pc = "check"
  /\ IF Live(req[r].session) THEN Goto(r, "rotateOld") ELSE Return(r)
  /\ UNCHANGED <<multiDevice, sess, index, rt, held, now, crashes>>

\* SETEX of the snapshot with status revoked, whatever the key holds by now.
RotateOld(r) ==
  /\ req[r].pc = "rotateOld"
  /\ rt' = [rt EXCEPT ![req[r].token] = [status |-> "revoked",
                                         session |-> req[r].session, exp |-> Expiry]]
  /\ Goto(r, "rotateNew")
  /\ UNCHANGED <<multiDevice, sess, index, held, now, crashes>>

RotateNew(r) ==
  /\ req[r].pc = "rotateNew"
  /\ Issue(r, "renewSession")
  /\ UNCHANGED <<multiDevice, sess, index, held, now, crashes>>

\* SessionService.renew.
RenewSetsAgain(r) ==
  /\ req[r].pc = "renewSession"
  /\ sess' = [sess EXCEPT ![req[r].session].exp = Expiry]
  /\ Goto(r, "renewIndex")
  /\ UNCHANGED <<multiDevice, index, rt, held, now, crashes>>

RenewAdds(r) ==
  /\ req[r].pc = "renewSession"
  /\ sess' = [sess EXCEPT ![req[r].session].exp = IF @ > now THEN @ + TTL ELSE @]
  /\ Goto(r, "renewIndex")
  /\ UNCHANGED <<multiDevice, index, rt, held, now, crashes>>

RenewSession(r) ==
  /\ req[r].pc = "renewSession"
  /\ sess' = [sess EXCEPT ![req[r].session] = Renewed(@)]
  /\ Goto(r, "renewIndex")
  /\ UNCHANGED <<multiDevice, index, rt, held, now, crashes>>

RenewForgetsIndex(r) ==
  /\ req[r].pc = "renewIndex"
  /\ held' = held \cup {req[r].token}
  /\ Return(r)
  /\ UNCHANGED <<multiDevice, sess, index, rt, now, crashes>>

\* The token remembers its session's user: the owner.
RenewIndex(r) ==
  /\ req[r].pc = "renewIndex"
  /\ index' = [index EXCEPT ![sess[req[r].session].owner] = Renewed(@)]
  /\ held' = held \cup {req[r].token}
  /\ Return(r)
  /\ UNCHANGED <<multiDevice, sess, rt, now, crashes>>

-----------------------------------------------------------------------------
\* Logout, of one or all devices, by a client whose session is active
\* (JwtStrategy.validate).
LogoutBegin(r, s) ==
  /\ Joined(s)
  /\ Live(s)
  /\ \/ Begin(r, [IdleRequest EXCEPT !.op = "logout", !.session = s, !.pc = "revokeGet"])
     \/ Begin(r, [IdleRequest EXCEPT !.op = "logoutAll", !.user = sess[s].owner,
                    !.pc = "revokeUserRead"])

\* SessionService.revoke: the owner is known only while the session is live.
RevokeGet(r) ==
  LET s == req[r].session
  IN  /\ req[r].pc = "revokeGet"
      /\ req' = [req EXCEPT ![r].pc = "revokeDel",
                            ![r].user = IF Live(s) THEN sess[s].owner ELSE NoUser]
      /\ UNCHANGED <<multiDevice, sess, index, rt, held, now, crashes>>

AfterDel(r) == IF req[r].user # NoUser THEN Goto(r, "revokeRem") ELSE Return(r)

RevokeForgetsKey(r) ==
  /\ req[r].pc = "revokeDel"
  /\ AfterDel(r)
  /\ UNCHANGED <<multiDevice, sess, index, rt, held, now, crashes>>

RevokeDel(r) ==
  /\ req[r].pc = "revokeDel"
  /\ sess' = [sess EXCEPT ![req[r].session].exp = 0]
  /\ AfterDel(r)
  /\ UNCHANGED <<multiDevice, index, rt, held, now, crashes>>

RevokeRem(r) ==
  /\ req[r].pc = "revokeRem"
  /\ index' = [index EXCEPT ![req[r].user] = Removed(req[r].user, req[r].session)]
  /\ Return(r)
  /\ UNCHANGED <<multiDevice, sess, rt, held, now, crashes>>

-----------------------------------------------------------------------------
Crash(r) ==
  /\ "crash" \in Faults
  /\ crashes < MaxCrashes
  /\ req[r].pc # "idle"
  /\ crashes' = crashes + 1
  /\ Return(r)
  /\ UNCHANGED <<multiDevice, sess, index, rt, held, now>>

Tick ==
  /\ now < MaxTime
  /\ "slow" \in Faults \/ \A r \in Requests : req[r].pc = "idle"
  /\ now' = now + 1
  /\ UNCHANGED <<multiDevice, sess, index, rt, held, req, crashes>>

Init ==
  /\ multiDevice \in BOOLEAN
  /\ sess = [s \in Sessions |-> [owner |-> NoUser, exp |-> 0]]
  /\ index = [u \in Users |-> NoIndex]
  /\ rt = [t \in Tokens |-> [status |-> "none", session |-> NoSession, exp |-> 0]]
  /\ held = {}
  /\ req = [r \in Requests |-> IdleRequest]
  /\ now = 1
  /\ crashes = 0

Arrive(r) ==
  \/ \E u \in Users : LoginBegin(r, u)
  \/ \E t \in Tokens : RefreshRead(r, t)
  \/ \E s \in Sessions : LogoutBegin(r, s)

Proceed(r) ==
  \/ RevokeUserRead(r) \/ RevokeUserDel(r) \/ RevokeUserIndex(r)
  \/ CreateSet(r) \/ CreateAdd(r) \/ CreateExpire(r) \/ Sign(r) \/ LoginDone(r)
  \/ RefreshCheck(r) \/ RotateOld(r) \/ RotateNew(r)
  \/ RenewSession(r) \/ RenewIndex(r)
  \/ RevokeGet(r) \/ RevokeDel(r) \/ RevokeRem(r)

Next ==
  \/ \E r \in Requests : Arrive(r) \/ Proceed(r) \/ Crash(r)
  \/ Tick

\* A request in progress gets its answers from Redis.
Fairness == \A r \in Requests : WF_vars(Proceed(r))

Spec == Init /\ [][Next]_vars /\ Fairness

-----------------------------------------------------------------------------
(***************************************************************************)
(* Properties.                                                             *)
(***************************************************************************)

\* A session that was revoked, kicked or has expired never becomes active
\* again: a refresh that passed its check before does not bring it back.
DeadStaysDead ==
  [][\A s \in Sessions : ~Fresh(s) /\ ~Live(s) => ~Live(s)']_vars

\* Using a rotated token ends its session, whatever refreshes of the session
\* are still in progress (unless the process dies first).
ReuseEndsSession ==
  \A r \in Requests, s \in Sessions :
     req[r].op = "refresh" /\ req[r].pc = "revokeGet" /\ req[r].session = s
       ~> ~Live(s) \/ crashes > 0

\* redis-keys.ts:12: user:sessions is the set of the user's active sessions.
\* Every active session a client joined is in it, so that logging out of all
\* devices ends it.
ActiveSessionsListed ==
  \A s \in Sessions : Joined(s) /\ Live(s) => s \in Listed(sess[s].owner)

\* token.service.ts:85: a token that was rotated is never rotated again, so that
\* every refresh token has one successor at most.  Only refreshes with one token
\* that overlap break it.
RotatedOnce ==
  [][\A t \in Tokens : rt[t].status = "revoked" => rt'[t] = rt[t]]_vars

\* What ReuseEndsSession needs of a single step: a refresh or logout that ends a
\* session does not leave it active, unless it dies.
Ending(r, s) == req[r].pc \in {"revokeGet", "revokeDel"} /\ req[r].session = s
EndsWhatItRevokes ==
  [][\A r \in Requests, s \in Sessions :
       Ending(r, s) /\ ~Ending(r, s)' => (~Live(s))' \/ crashes' = crashes + 1]_vars

=============================================================================
