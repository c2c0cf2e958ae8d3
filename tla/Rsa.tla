--------------------------------- MODULE Rsa ---------------------------------
(***************************************************************************)
(* RsaService: the key pair that encrypts passwords on their way to the    *)
(* server.  Every instance of the program rotates the pair on a timer of   *)
(* its own, through three keys of Redis: the current private key, its      *)
(* public key and the previous private key.                                *)
(*                                                                         *)
(* A rotation is one GET and up to three SETs, sent in this order on the   *)
(* instance's connection; commands of other instances come in between.     *)
(* A rotation is short: the clock stands still while one is in progress.   *)
(* A key pair is one element of KeyPairs, for both of its halves.          *)
(***************************************************************************)
EXTENDS Naturals, FiniteSets

CONSTANTS
  Instances, \* of the program
  Rotations, \* rotations that can be in progress at once
  KeyPairs,  \* what generateKeyPair returns (bound on rotations)
  NoPair, NoInstance,
  RotateSeconds, TtlSeconds,
  Buffer,    \* OLD_KEY_BUFFER_SECONDS
  MaxTime    \* bound of the clock

\* validateConfig, without which an instance does not start; rotateSeconds
\* above half of ttlSeconds is warned about.
ValidConfig == 0 < RotateSeconds /\ RotateSeconds < TtlSeconds

ASSUME RsaAssumption ==
  /\ NoPair \notin KeyPairs
  /\ NoInstance \notin Instances /\ IsFiniteSet(Instances) /\ IsFiniteSet(Rotations)
  /\ RotateSeconds \in Nat /\ TtlSeconds \in Nat /\ Buffer \in Nat
  /\ ValidConfig
  /\ MaxTime \in Nat \ {0}

VARIABLES
  deployed, \* the instances of this behaviour
  store,    \* rsa:cur, rsa:pub, rsa:old
  timer,    \* when an instance rotates next; 0 without a timer
  rot,      \* the rotations in progress
  made,     \* the pairs generated so far
  healthy,  \* the last rotation ran alone and to its end
  client,   \* what a client that asked for the public key knows
  now

vars == <<deployed, store, timer, rot, made, healthy, client, now>>

-----------------------------------------------------------------------------
RedisKeys == {"cur", "pub", "old"}
Empty     == [pair |-> NoPair, exp |-> 0]
Stored    == [pair : KeyPairs, exp : Nat] \cup {Empty}

\* At "get" the pair is being generated.
Rotation == [pc    : {"idle", "get", "cur", "pub", "old"},
             by    : Instances \cup {NoInstance},
             why   : {"init", "timer", "fetch"},
             new   : KeyPairs \cup {NoPair},
             last  : KeyPairs \cup {NoPair}, \* currentPrivateKey
             alone : BOOLEAN]

Idle == [pc |-> "idle", by |-> NoInstance, why |-> "timer", new |-> NoPair,
         last |-> NoPair, alone |-> TRUE]

\* A client's pair, until when it needs it, how often rsa:cur was set since
\* the client's pair was its pair, whether rotations have run alone, and whether other clients
\* were waiting for a pair of their own when it got its pair.
Client == [pair : KeyPairs \cup {NoPair}, until : Nat, since : Nat,
           fair : BOOLEAN, herd : BOOLEAN]

TypeOK ==
  /\ deployed \subseteq Instances
  /\ store \in [RedisKeys -> Stored]
  /\ timer \in [Instances -> Nat]
  /\ rot \in [Rotations -> Rotation]
  /\ made \subseteq KeyPairs
  /\ healthy \in BOOLEAN
  /\ client \in Client
  /\ now \in 1 .. MaxTime

-----------------------------------------------------------------------------
Live(k)        == store[k].exp > now
Decryptable(p) == \E k \in {"cur", "old"} : Live(k) /\ store[k].pair = p
Pending(i)     == {r \in Rotations : rot[r].pc # "idle" /\ rot[r].by = i}
Setting        == {r \in Rotations : rot[r].pc \in {"cur", "pub", "old"}}

Set(k, p, ttl) == store' = [store EXCEPT ![k] = [pair |-> p, exp |-> now + ttl]]
Schedule(i)    == timer' = [timer EXCEPT ![i] = now + RotateSeconds]
Become(r, q)   == rot' = [rot EXCEPT ![r] = q]

Until(exp)       == IF now + RotateSeconds < exp THEN now + RotateSeconds ELSE exp
Given(p, exp, n, f, others) ==
  client' = [pair |-> p, until |-> Until(exp), since |-> n, fair |-> f,
             herd |-> \E r \in others : rot[r].why = "fetch" /\ rot[r].pc # "idle"]

\* rotateKeyPair begins: a pair is generated.
FreeSlots == {r \in Rotations : rot[r].pc = "idle"}

Begin(i, why) ==
  /\ FreeSlots # {}
  /\ Become(CHOOSE r \in FreeSlots : TRUE, [Idle EXCEPT !.pc = "get", !.by = i, !.why = why])
  /\ UNCHANGED <<deployed, store, made, healthy, client, now>>

\* Mutant: an instance that starts rotates.
BootRotates(i) ==
  /\ i \in deployed
  /\ timer[i] = 0 /\ Pending(i) = {}
  /\ Begin(i, "init") /\ UNCHANGED timer

\* onModuleInit: an instance starts, or is tried again after it failed to.
Boot(i) ==
  /\ i \in deployed
  /\ timer[i] = 0 /\ Pending(i) = {}
  /\ IF Live("pub")
     THEN /\ Schedule(i)
          /\ UNCHANGED <<deployed, store, rot, made, healthy, client, now>>
     ELSE Begin(i, "init") /\ UNCHANGED timer

\* performRotation; scheduleNextRotation follows when it is done.
Timer(i) ==
  /\ timer[i] \in 1 .. now
  /\ timer' = [timer EXCEPT ![i] = 0]
  /\ Begin(i, "timer")

\* getPublicKey of an instance that is up.
Up(i) == timer[i] # 0 \/ \E r \in Pending(i) : rot[r].why = "timer"

Fetch(i) ==
  /\ Up(i)
  /\ IF Live("pub")
     THEN /\ UNCHANGED <<deployed, store, timer, rot, made, healthy, now>>
          /\ Given(store["pub"].pair, store["pub"].exp,
                  Cardinality({r \in Rotations : rot[r].pc = "pub"}), healthy, Rotations)
     ELSE Begin(i, "fetch") /\ UNCHANGED timer

-----------------------------------------------------------------------------
\* rotateKeyPair

\* The pair is there and its predecessor is read.  Another rotation between
\* its GET and its last SET interferes with this one.
Fresh == CHOOSE p \in KeyPairs : p \notin made

Get(r) ==
  /\ rot[r].pc = "get"
  /\ made # KeyPairs
  /\ made' = made \cup {Fresh}
  /\ rot' = [x \in Rotations |->
               IF x = r THEN [rot[r] EXCEPT !.pc = "cur", !.new = Fresh, !.alone = Setting = {},
                                !.last = IF Live("cur") THEN store["cur"].pair ELSE NoPair]
               ELSE IF x \in Setting THEN [rot[x] EXCEPT !.alone = FALSE] ELSE rot[x]]
  /\ healthy' = (healthy /\ Setting = {})
  /\ client' = [client EXCEPT !.fair = @ /\ Setting = {}]
  /\ UNCHANGED <<deployed, store, timer, now>>

SetCur(r) ==
  /\ rot[r].pc = "cur"
  /\ Set("cur", rot[r].new, TtlSeconds)
  /\ Become(r, [rot[r] EXCEPT !.pc = "pub"])
  /\ client' = [client EXCEPT !.since = IF @ < 2 THEN @ + 1 ELSE @]
  /\ UNCHANGED <<deployed, timer, made, healthy, now>>

\* The rotation is over: its starter goes on.
Done(r) ==
  /\ Become(r, Idle)
  /\ IF rot[r].why = "fetch" THEN UNCHANGED timer ELSE Schedule(rot[r].by)
  /\ healthy' = (healthy \/ rot[r].alone)
  /\ UNCHANGED <<deployed, made, now>>

\* The answer of a getPublicKey that rotated.
Answer(r) ==
  IF rot[r].why = "fetch"
  THEN Given(rot[r].new, now + TtlSeconds, 0, rot[r].alone, Rotations \ {r})
  ELSE UNCHANGED client

\* Mutant: the old key is set even if there is none.
SetPubThenOld(r) ==
  /\ rot[r].pc = "pub"
  /\ Set("pub", rot[r].new, TtlSeconds)
  /\ Become(r, [rot[r] EXCEPT !.pc = "old"])
  /\ UNCHANGED <<deployed, timer, made, healthy, client, now>>

SetPub(r) ==
  /\ rot[r].pc = "pub"
  /\ Set("pub", rot[r].new, TtlSeconds)
  /\ IF rot[r].last = NoPair
     THEN Done(r) /\ Answer(r)
     ELSE /\ Become(r, [rot[r] EXCEPT !.pc = "old"])
          /\ UNCHANGED <<deployed, timer, made, healthy, client, now>>

\* Mutant: the old key lives no longer than the buffer.
SetOldShort(r) ==
  /\ rot[r].pc = "old"
  /\ Set("old", rot[r].last, Buffer)
  /\ Done(r)
  /\ Answer(r)

SetOld(r) ==
  /\ rot[r].pc = "old"
  /\ Set("old", rot[r].last, RotateSeconds + Buffer)
  /\ Done(r)
  /\ Answer(r)

\* The connection breaks and the commands that are left fail: a rotation on a
\* timer is tried again at its next turn, an instance that starts gives up.
Fail(r) ==
  /\ rot[r].pc # "idle"
  /\ Become(r, Idle)
  /\ IF rot[r].why = "timer" THEN Schedule(rot[r].by) ELSE UNCHANGED timer
  /\ healthy' = (healthy /\ rot[r].pc \in {"get", "cur"})
  /\ client' = [client EXCEPT !.fair = @ /\ rot[r].pc \in {"get", "cur"}]
  /\ UNCHANGED <<deployed, store, made, now>>

\* onModuleDestroy, between rotations; a rotation that dies is a Fail.
Stop(i) ==
  /\ timer[i] # 0
  /\ timer' = [timer EXCEPT ![i] = 0]
  /\ UNCHANGED <<deployed, store, rot, made, healthy, client, now>>

Tick ==
  /\ now < MaxTime
  /\ \A r \in Rotations : rot[r].pc = "idle"
  /\ now' = now + 1
  /\ UNCHANGED <<deployed, store, timer, rot, made, healthy, client>>

Init ==
  /\ deployed \in (SUBSET Instances) \ {{}}
  /\ store = [k \in RedisKeys |-> Empty]
  /\ timer = [i \in Instances |-> 0]
  /\ rot = [r \in Rotations |-> Idle]
  /\ made = {}
  /\ healthy = TRUE
  /\ client = [pair |-> NoPair, until |-> 0, since |-> 0, fair |-> FALSE,
               herd |-> FALSE]
  /\ now = 1

Next ==
  \/ \E i \in Instances : Boot(i) \/ Timer(i) \/ Fetch(i) \/ Stop(i)
  \/ \E r \in Rotations : Get(r) \/ SetCur(r) \/ SetPub(r) \/ SetOld(r) \/ Fail(r)
  \/ Tick

Spec == Init /\ [][Next]_vars

-----------------------------------------------------------------------------
\* A client's public key is good for RotateSeconds, or as long as it was to
\* live: the server can decrypt what it encrypts, unless the pair was replaced
\* twice or rotations overlapped or broke off since the last one that ran
\* alone.  Between its first and last SET a rotation leaves a gap.
FetchedKeyWorks ==
  /\ client.pair # NoPair /\ client.fair
  /\ now < client.until /\ client.since <= 1
  /\ \A r \in Setting : rot[r].pc = "cur"
  => Decryptable(client.pair)

\* One instance alone does not replace the pair twice in that time, however
\* it fails or restarts: with FetchedKeyWorks, its clients are served.  Clients
\* that find no public key at once each rotate (nothing joins their calls).
OneInstanceRotatesOnce ==
  Cardinality(deployed) = 1 /\ client.fair /\ ~client.herd /\ now < client.until
  => client.since <= 1
=============================================================================
