------------------------------ MODULE Accounts ------------------------------
(***************************************************************************)
(* Ways into an account: PasswordService with LocalStrategy and the        *)
(* captcha of LocalAuthGuard, OAuthService, and the operations of          *)
(* UserService on the users table (resetPassword only changes which        *)
(* password is the right one: it touches neither the count nor the lock).  *)
(*                                                                         *)
(* Each action is one query or Redis command of a request and the code up  *)
(* to the next one.  A password is right or wrong; an external account     *)
(* stands for a provider's subject; a code is a key of Redis (captcha,     *)
(* OAuth state, pending registration, exchange code) that can expire at    *)
(* any time.  The tokens themselves are those of module Session.           *)
(***************************************************************************)
EXTENDS Naturals, FiniteSets

CONSTANTS
  Users, NoUser,
  Accounts, NoAccount, \* external accounts
  ProviderOf,          \* of an external account
  PkceProviders,       \* supportsPkce
  Codes, NoCode,
  Requests,            \* requests that can be in progress at once
  Threshold, Duration, \* lock.threshold, lock.duration
  MaxTime,             \* bound of the clock
  OpMixes              \* what a behaviour may request: see Mix

OpKinds == {"login", "mistake", "create", "disable", "remove", "abort",
            "callback", "register", "link", "bind", "unbind"}

\* The operations, the external accounts and the most users of a behaviour.
Mix == [ops : SUBSET OpKinds, accounts : SUBSET Accounts, users : Nat]

ASSUME AccountsAssumption ==
  /\ NoUser \notin Users /\ NoAccount \notin Accounts /\ NoCode \notin Codes
  /\ IsFiniteSet(Requests)
  /\ DOMAIN ProviderOf = Accounts
  /\ {Threshold, Duration, MaxTime} \subseteq Nat \ {0}
  /\ OpMixes \subseteq Mix

VARIABLES
  mix,      \* what is requested in this behaviour
  user,     \* the users table and user_credentials
  identity, \* user_identities: the owner of an external account
  code,     \* the one-time codes in Redis
  req,      \* the requests in progress
  guess,    \* wrong passwords since the last right one, per user: see Guess
  raced,    \* users two of whose unbinds overlapped
  now

vars == <<mix, user, identity, code, req, guess, raced, now>>

-----------------------------------------------------------------------------
\* lockedUntil is 0 for null.
User == [state : {"absent", "live", "removed"}, enabled : BOOLEAN, credential : BOOLEAN,
         failedAttempts : Nat, lockedUntil : Nat]

AbsentUser == [state |-> "absent", enabled |-> TRUE, credential |-> FALSE,
               failedAttempts |-> 0, lockedUntil |-> 0]

Providers == {ProviderOf[a] : a \in Accounts}

\* of: what a state (provider), a pending registration (account) or an
\* exchange code (user) is about; taken: requests that went on with the code.
Code == [kind : {"none", "captcha", "login", "bind", "pending", "exchange"},
         of : Providers \cup Accounts \cup Users \cup {NoUser}, taken : Nat]

\* A code is about what its kind says.
About(k) ==
  /\ k.kind \in {"login", "bind"} => k.of \in Providers
  /\ k.kind = "pending" => k.of \in Accounts
  /\ k.kind = "exchange" => k.of \in Users

NoKey == [kind |-> "none", of |-> NoUser, taken |-> 0]

Pcs == {"idle", "find", "isLocked", "compare", "failRead", "failWrite", "success",
        "touch", "giveCode", "delState", "findIdentity", "storePending", "register",
        "checkSelf", "createIdentity", "findOwner", "countOthers", "unbindWrite"}

AttemptPcs == {"compare", "failRead", "failWrite", "success"}
UnbindPcs  == {"countOthers", "unbindWrite"}

\* stale: the identity the request has read was unbound meanwhile;
\* gone: the user was removed before the request looked for it.
Request == [pc : Pcs, op : {"login", "callback", "register", "link", "bind", "unbind"},
            user : Users \cup {NoUser}, account : Accounts \cup {NoAccount},
            code : Codes \cup {NoCode}, attempts : Nat,
            stale : BOOLEAN, gone : BOOLEAN]

IdleRequest == [pc |-> "idle", op |-> "login", user |-> NoUser, account |-> NoAccount,
                code |-> NoCode, attempts |-> 0, stale |-> FALSE, gone |-> FALSE]

\* excused: two attempts on the user's password overlapped, or one ended
\* before its failure was written.
Guess == [wrong : Nat, last : Nat, excused : BOOLEAN]

TypeOK ==
  /\ mix \in OpMixes
  /\ user \in [Users -> User]
  /\ identity \in [Accounts -> Users \cup {NoUser}]
  /\ code \in [Codes -> Code] /\ \A c \in Codes : About(code[c])
  /\ req \in [Requests -> Request]
  /\ guess \in [Users -> Guess]
  /\ raced \subseteq Users
  /\ now \in 1 .. MaxTime

-----------------------------------------------------------------------------
Exists(u)   == user[u].state = "live"
IsLocked(u) == user[u].lockedUntil > now
Owned(u)    == {a \in Accounts : identity[a] = u}

Become(p, q) == req' = [req EXCEPT ![p] = q]
Goto(p, pc)  == Become(p, [req[p] EXCEPT !.pc = pc])
Return(p)    == Become(p, IdleRequest)

May(p, op) == op \in mix.ops /\ req[p].pc = "idle"

\* A key that is set now; no request holds an earlier one of that name.
Free(c) == code[c] = NoKey /\ \A p \in Requests : req[p].code # c

Put(c, kind, of) == Free(c) /\ code' = [code EXCEPT ![c] = [kind |-> kind, of |-> of, taken |-> 0]]

\* Mutant: a GET in place of GETDEL.
KeepCode(c) == code' = [code EXCEPT ![c].taken = @ + 1]

\* redis.getAndDelete
Take(c) == code' = [code EXCEPT ![c] = NoKey]

Expire(c) ==
  /\ code[c] # NoKey
  /\ code' = [code EXCEPT ![c] = NoKey]
  /\ UNCHANGED <<mix, user, identity, req, guess, raced, now>>

Query(p, pc, ok) == /\ IF ok THEN Goto(p, pc) ELSE Return(p)
                    /\ UNCHANGED <<mix, user, identity, code, guess, raced, now>>

-----------------------------------------------------------------------------
\* UserService, between a request's own reads and writes.

Admin == UNCHANGED <<mix, identity, code, req, raced, now>>

New(u) == user[u].state = "absent" /\ Cardinality({v \in Users : user[v] # AbsentUser}) < mix.users

Create(u) ==
  /\ "create" \in mix.ops /\ New(u)
  /\ user' = [user EXCEPT ![u].state = "live", ![u].credential = TRUE]
  /\ UNCHANGED guess /\ Admin

SetStatus(u) ==
  /\ "disable" \in mix.ops /\ Exists(u)
  /\ user' = [user EXCEPT ![u].enabled = ~@]
  /\ UNCHANGED guess /\ Admin

\* The identities and the credential stay.
Remove(u) ==
  /\ "remove" \in mix.ops /\ Exists(u)
  /\ user' = [user EXCEPT ![u].state = "removed"]
  /\ UNCHANGED guess /\ Admin

-----------------------------------------------------------------------------
\* LocalAuthGuard and LocalStrategy.validate

GenerateCaptcha(c) ==
  /\ "login" \in mix.ops
  /\ Put(c, "captcha", NoUser)
  /\ UNCHANGED <<mix, user, identity, req, guess, raced, now>>

\* The captcha is gone even when the answer to it is wrong.
LoginBegin(p, u, c) ==
  /\ May(p, "login")
  /\ code[c].kind = "captcha"
  /\ Take(c)
  /\ Become(p, [IdleRequest EXCEPT !.pc = "find", !.op = "login", !.user = u])
  /\ UNCHANGED <<mix, user, identity, guess, raced, now>>

CaptchaWrong(c) ==
  /\ "mistake" \in mix.ops /\ code[c].kind = "captcha"
  /\ Take(c)
  /\ UNCHANGED <<mix, user, identity, req, guess, raced, now>>

Find(p) ==
  /\ req[p].pc = "find"
  /\ Query(p, "isLocked", Exists(req[p].user) /\ user[req[p].user].enabled)

\* Another request is about to try the user's password.
Overlaps(p) == \E q \in Requests \ {p} : req[q].pc \in AttemptPcs /\ req[q].user = req[p].user

Attempt(p) ==
  /\ Goto(p, "compare")
  /\ guess' = [guess EXCEPT ![req[p].user].excused = @ \/ Overlaps(p)]

CheckLock(p) ==
  /\ req[p].pc = "isLocked"
  /\ IF IsLocked(req[p].user) THEN Return(p) /\ UNCHANGED guess ELSE Attempt(p)
  /\ UNCHANGED <<mix, user, identity, code, raced, now>>

\* One more wrong password.
Wrong(g) == IF g.excused THEN g ELSE [g EXCEPT !.wrong = @ + 1, !.last = now]

\* getCredential and compare, which finds the password right or wrong.
Compare(p) ==
  /\ req[p].pc = "compare"
  /\ \/ /\ ~user[req[p].user].credential
        /\ Return(p) /\ UNCHANGED guess
     \/ /\ user[req[p].user].credential
        /\ Goto(p, "success") /\ UNCHANGED guess
     \/ /\ user[req[p].user].credential /\ "mistake" \in mix.ops
        /\ Goto(p, "failRead")
        /\ guess' = [guess EXCEPT ![req[p].user] = Wrong(@)]
  /\ UNCHANGED <<mix, user, identity, code, raced, now>>

\* recordFailure reads the count, then writes it.
FailRead(p) ==
  /\ req[p].pc = "failRead"
  /\ Become(p, [req[p] EXCEPT !.pc = "failWrite", !.attempts = user[req[p].user].failedAttempts])
  /\ UNCHANGED <<mix, user, identity, code, guess, raced, now>>

\* Mutant: the count has to exceed the threshold.
LocksLate(n) == n > Threshold

ShouldLock(n) == n >= Threshold

FailWrite(p) ==
  /\ req[p].pc = "failWrite"
  /\ LET u == req[p].user
         n == req[p].attempts + 1
     IN  user' = [user EXCEPT ![u].failedAttempts = n,
                    ![u].lockedUntil = IF ShouldLock(n) THEN now + Duration ELSE @]
  /\ Return(p)
  /\ UNCHANGED <<mix, identity, code, guess, raced, now>>

\* recordSuccess
Success(p) ==
  /\ req[p].pc = "success"
  /\ LET u == req[p].user IN
     /\ user'  = [user EXCEPT ![u].failedAttempts = 0, ![u].lockedUntil = 0]
     /\ guess' = [guess EXCEPT ![u].wrong = 0]
  /\ Become(p, [req[p] EXCEPT !.pc = IF req[p].op = "link" THEN "checkSelf" ELSE "touch"])
  /\ UNCHANGED <<mix, identity, code, raced, now>>

-----------------------------------------------------------------------------
\* issueTokens and AuthService.login: the session is created, then the user's
\* row is updated, which fails when the row is gone.

\* Mutant: the update also finds removed users.
TouchAny(p) == req[p].pc = "touch" /\ Query(p, "giveCode", req[p].op = "callback")

Touch(p) ==
  /\ req[p].pc = "touch"
  /\ Query(p, "giveCode", req[p].op = "callback" /\ Exists(req[p].user))

GiveCode(p, c) ==
  /\ req[p].pc = "giveCode"
  /\ Put(c, "exchange", req[p].user)
  /\ Return(p)
  /\ UNCHANGED <<mix, user, identity, guess, raced, now>>

\* exchangeCode
Exchange(c) ==
  /\ code[c].kind = "exchange"
  /\ Take(c)
  /\ UNCHANGED <<mix, user, identity, req, guess, raced, now>>

-----------------------------------------------------------------------------
\* OAuthService: signing in

GenerateAuthUrl(c, provider, mode) ==
  /\ (IF mode = "login" THEN "callback" ELSE "bind") \in mix.ops
  /\ Put(c, mode, provider)
  /\ UNCHANGED <<mix, user, identity, req, guess, raced, now>>

\* handleCallback of a state in login mode.  One in bind mode is left alone
\* and passed on to the frontend; one of another provider is refused.
CallbackBegin(p, a, c) ==
  /\ May(p, "callback")
  /\ code[c].kind = "login" /\ code[c].of = ProviderOf[a]
  /\ code' = [code EXCEPT ![c].taken = @ + 1]
  /\ Become(p, [IdleRequest EXCEPT !.pc = "delState", !.op = "callback", !.account = a, !.code = c])
  /\ UNCHANGED <<mix, user, identity, guess, raced, now>>

DelState(p) ==
  /\ req[p].pc = "delState"
  /\ Take(req[p].code)
  /\ Become(p, [req[p] EXCEPT !.pc = "findIdentity", !.code = NoCode])
  /\ UNCHANGED <<mix, user, identity, guess, raced, now>>

\* exchangeCodeForUser and findExistingIdentity, which does not hide a removed
\* user (status stays 1).
FindIdentity(p) ==
  /\ req[p].pc = "findIdentity"
  /\ LET u == identity[req[p].account] IN
     IF u = NoUser
     THEN Goto(p, "storePending")
     ELSE IF user[u].enabled
     THEN Become(p, [req[p] EXCEPT !.pc = "touch", !.user = u, !.gone = user[u].state = "removed"])
     ELSE Return(p)
  /\ UNCHANGED <<mix, user, identity, code, guess, raced, now>>

\* Mutant: the payload names the provider and leaves out the subject.
StoreNoSubject(p, c) ==
  /\ req[p].pc = "storePending"
  /\ Put(c, "pending", ProviderOf[req[p].account])
  /\ Return(p)
  /\ UNCHANGED <<mix, user, identity, guess, raced, now>>

StorePending(p, c) ==
  /\ req[p].pc = "storePending"
  /\ Put(c, "pending", req[p].account)
  /\ Return(p)
  /\ UNCHANGED <<mix, user, identity, guess, raced, now>>

\* consumePending of registerNewAccount and of linkExistingAccount
ConsumePending(p, c, q) ==
  /\ code[c].kind = "pending"
  /\ Take(c)
  /\ Become(p, [q EXCEPT !.account = code[c].of])
  /\ UNCHANGED <<mix, user, identity, guess, raced, now>>

RegisterBegin(p, c) ==
  /\ May(p, "register")
  /\ ConsumePending(p, c, [IdleRequest EXCEPT !.pc = "register", !.op = "register"])

LinkBegin(p, u, c) ==
  /\ May(p, "link")
  /\ ConsumePending(p, c, [IdleRequest EXCEPT !.pc = "find", !.op = "link", !.user = u])

\* The rows that the unique indexes of user_identities leave room for.
MayCreate(u, a) ==
  /\ identity[a] = NoUser
  /\ \A b \in Owned(u) : ProviderOf[b] # ProviderOf[a]

\* The transaction that creates a user together with its identity.
Register(p, u) ==
  /\ req[p].pc = "register"
  /\ New(u)
  /\ IF MayCreate(u, req[p].account)
     THEN /\ user' = [user EXCEPT ![u].state = "live"]
          /\ identity' = [identity EXCEPT ![req[p].account] = u]
          /\ Become(p, [req[p] EXCEPT !.pc = "touch", !.user = u])
     ELSE Return(p) /\ UNCHANGED <<user, identity>>
  /\ UNCHANGED <<mix, code, guess, raced, now>>

-----------------------------------------------------------------------------
\* OAuthService: binding and unbinding by a user who is signed in, and who
\* may be removed in the meantime.

Binding(u, a) == [IdleRequest EXCEPT !.pc = "findOwner", !.op = "bind", !.user = u, !.account = a]

SignedIn(u) == user[u].state # "absent"

BindBegin(p, u, a, c) ==
  /\ May(p, "bind") /\ SignedIn(u)
  /\ ProviderOf[a] \in PkceProviders
  /\ code[c].kind \in {"login", "bind"}
  /\ Take(c)
  /\ IF code[c].of = ProviderOf[a]
     THEN Become(p, Binding(u, a))
     ELSE UNCHANGED req
  /\ UNCHANGED <<mix, user, identity, guess, raced, now>>

\* A provider without PKCE needs no state.
BindBeginPlain(p, u, a) ==
  /\ May(p, "bind") /\ SignedIn(u)
  /\ ProviderOf[a] \notin PkceProviders
  /\ Become(p, Binding(u, a))
  /\ UNCHANGED <<mix, user, identity, code, guess, raced, now>>

FindOwner(p) ==
  /\ req[p].pc = "findOwner"
  /\ Query(p, "checkSelf", identity[req[p].account] = NoUser)

CheckSelf(p) ==
  /\ req[p].pc = "checkSelf"
  /\ Query(p, "createIdentity",
           \A b \in Owned(req[p].user) : ProviderOf[b] # ProviderOf[req[p].account])

CreateIdentity(p) ==
  /\ req[p].pc = "createIdentity"
  /\ LET u == req[p].user  a == req[p].account IN
     IF MayCreate(u, a)
     THEN /\ identity' = [identity EXCEPT ![a] = u]
          /\ IF req[p].op = "link" THEN Goto(p, "touch") ELSE Return(p)
     ELSE Return(p) /\ UNCHANGED identity
  /\ UNCHANGED <<mix, user, code, guess, raced, now>>

UnbindBegin(p, u, a) ==
  /\ May(p, "unbind")
  /\ identity[a] = u
  /\ Become(p, [IdleRequest EXCEPT !.pc = "countOthers", !.op = "unbind", !.user = u,
                                    !.account = a])
  /\ raced' = raced \cup (IF \E q \in Requests : req[q].pc \in UnbindPcs /\ req[q].user = u
                         THEN {u} ELSE {})
  /\ UNCHANGED <<mix, user, identity, code, guess, now>>

\* Mutant: the count includes the identity that is to go.
CountAll(p) ==
  /\ req[p].pc = "countOthers"
  /\ Query(p, "unbindWrite", Owned(req[p].user) # {} \/ user[req[p].user].credential)

CountOthers(p) ==
  /\ req[p].pc = "countOthers"
  /\ Query(p, "unbindWrite",
           Owned(req[p].user) \ {req[p].account} # {} \/ user[req[p].user].credential)

\* The row may be gone by now; then the update fails.
UnbindWrite(p) ==
  /\ req[p].pc = "unbindWrite"
  /\ LET a == req[p].account
         missed(q) == req[q].pc \in UnbindPcs /\ req[q].account = a
     IN  IF req[p].stale
         THEN Return(p) /\ UNCHANGED identity
         ELSE /\ identity' = [identity EXCEPT ![a] = NoUser]
              /\ req' = [q \in Requests |->
                           IF q = p THEN IdleRequest
                           ELSE IF missed(q) THEN [req[q] EXCEPT !.stale = TRUE] ELSE req[q]]
  /\ UNCHANGED <<mix, user, code, guess, raced, now>>

-----------------------------------------------------------------------------
\* A query, Redis or the provider fails, or a unique username is taken: the
\* request ends where it stands.  A state it has only read is as before.
Abort(p) ==
  /\ "abort" \in mix.ops /\ req[p].pc # "idle"
  /\ Return(p)
  /\ code' = IF req[p].pc = "delState" /\ code[req[p].code].taken > 0
             THEN [code EXCEPT ![req[p].code].taken = @ - 1] ELSE code
  /\ guess' = IF req[p].pc \in {"failRead", "failWrite"}
              THEN [guess EXCEPT ![req[p].user].excused = TRUE] ELSE guess
  /\ UNCHANGED <<mix, user, identity, raced, now>>

\* Time matters only to a lock.
Tick ==
  /\ now < MaxTime /\ \E u \in Users : user[u].lockedUntil >= now
  /\ now' = now + 1
  /\ UNCHANGED <<mix, user, identity, code, req, guess, raced>>

Init ==
  /\ mix \in OpMixes
  /\ user = [u \in Users |-> AbsentUser]
  /\ identity = [a \in Accounts |-> NoUser]
  /\ code = [c \in Codes |-> NoKey]
  /\ req = [p \in Requests |-> IdleRequest]
  /\ guess = [u \in Users |-> [wrong |-> 0, last |-> 0, excused |-> FALSE]]
  /\ raced = {}
  /\ now = 1

Step(p) ==
  \/ \E u \in Users, c \in Codes : LoginBegin(p, u, c) \/ LinkBegin(p, u, c)
  \/ Find(p) \/ CheckLock(p) \/ Compare(p) \/ FailRead(p) \/ FailWrite(p) \/ Success(p)
  \/ Touch(p)
  \/ \E c \in Codes : GiveCode(p, c) \/ StorePending(p, c) \/ RegisterBegin(p, c)
  \/ \E a \in mix.accounts, c \in Codes : CallbackBegin(p, a, c)
  \/ DelState(p) \/ FindIdentity(p)
  \/ \E u \in Users : Register(p, u)
  \/ \E u \in Users, a \in mix.accounts :
       BindBeginPlain(p, u, a) \/ UnbindBegin(p, u, a) \/ \E c \in Codes : BindBegin(p, u, a, c)
  \/ FindOwner(p) \/ CheckSelf(p) \/ CreateIdentity(p) \/ CountOthers(p) \/ UnbindWrite(p)
  \/ Abort(p)

Next ==
  \/ \E p \in Requests : Step(p)
  \/ \E u \in Users : Create(u) \/ SetStatus(u) \/ Remove(u)
  \/ \E c \in Codes : GenerateCaptcha(c) \/ CaptchaWrong(c) \/ Exchange(c) \/ Expire(c)
  \/ \E c \in Codes, provider \in {ProviderOf[a] : a \in mix.accounts}, mode \in {"login", "bind"} :
       GenerateAuthUrl(c, provider, mode)
  \/ Tick

Spec == Init /\ [][Next]_vars

-----------------------------------------------------------------------------
\* unbindIdentity counts the other identities before it removes one: a user
\* keeps a password or an identity, unless two of its unbinds overlapped.
AlwaysAWayIn ==
  \A u \in Users : Exists(u) => user[u].credential \/ Owned(u) # {} \/ u \in raced

\* A code that a request went on with is gone.  handleCallback reads the state
\* and deletes it in two commands: only callbacks in between share it.
CodesUsedOnce ==
  \A c \in Codes :
    code[c].taken <= Cardinality({p \in Requests : req[p].pc = "delState" /\ req[p].code = c})

\* A user who is removed before a callback finds its identity gets no tokens:
\* nothing but the update of its row, after the session is made, stops it.
RemovedGetNoTokens == \A p \in Requests : req[p].pc = "giveCode" => ~req[p].gone

\* After Threshold wrong passwords in a row the next one is compared only when
\* Duration has passed, over again after each; concurrent attempts excepted,
\* whose failures are counted as one, and failures that are not written.
GuessesAreCounted ==
  [][\A u \in Users :
       /\ guess'[u].wrong > guess[u].wrong /\ guess[u].wrong >= Threshold
       /\ ~guess[u].excused
       => now >= guess[u].last + Duration]_vars

=============================================================================
