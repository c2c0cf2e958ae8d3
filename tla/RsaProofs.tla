------------------------------ MODULE RsaProofs ------------------------------
(* Proofs about Rsa, for every value of its constants. *)
EXTENDS Rsa, FiniteSetTheorems, TLAPS

-----------------------------------------------------------------------------
(* Type correctness, with what a rotation knows at each of its steps.       *)

Knows(q) == /\ q.pc \in {"cur", "pub", "old"} => q.new \in KeyPairs
            /\ q.pc = "old" => q.last \in KeyPairs

TypeInv == TypeOK /\ \A r \in Rotations : Knows(rot[r])

LEMMA IdleType == Idle \in Rotation /\ Idle.pc = "idle" /\ Knows(Idle)
<1>1. Idle.pc = "idle"
  BY DEF Idle
<1> QED BY <1>1 DEF Idle, Rotation, Knows

LEMMA BecomeType ==
  ASSUME TypeInv, NEW r \in Rotations, NEW q \in Rotation, Knows(q), Become(r, q)
  PROVE  rot' \in [Rotations -> Rotation] /\ \A s \in Rotations : Knows(rot[s])'
<1>1. rot' \in [Rotations -> Rotation] /\ \A s \in Rotations : Knows(rot'[s])
  BY DEF TypeInv, TypeOK, Become
<1> QED BY <1>1 DEF Knows

\* What a step that only one rotation takes part in has to show.
LEMMA StepType ==
  ASSUME TypeInv, NEW r \in Rotations, NEW q \in Rotation, Knows(q), Become(r, q),
         UNCHANGED <<deployed, made, now>>, healthy' \in BOOLEAN, client' \in Client,
         timer' \in [Instances -> Nat], store' \in [RedisKeys -> Stored]
  PROVE  TypeInv'
<1>1. rot' \in [Rotations -> Rotation] /\ \A s \in Rotations : Knows(rot[s])'
  BY BecomeType
<1> QED BY <1>1 DEF TypeInv, TypeOK

\* A rotation begins in a free slot.
LEMMA BeginStep ==
  ASSUME TypeInv, NEW i \in Instances, NEW why \in {"init", "timer", "fetch"}, Begin(i, why)
  PROVE  \E r \in Rotations, q \in Rotation :
           /\ rot[r].pc = "idle" /\ Become(r, q)
           /\ q.pc = "get" /\ q.by = i /\ q.why = why /\ Knows(q)
           /\ UNCHANGED <<deployed, store, made, healthy, client, now>>
<1> DEFINE r == CHOOSE s \in FreeSlots : TRUE
           q == [Idle EXCEPT !.pc = "get", !.by = i, !.why = why]
<1>1. r \in FreeSlots
  BY DEF Begin
<1>2. r \in Rotations /\ rot[r].pc = "idle"
  BY <1>1 DEF FreeSlots
<1>3. Become(r, q) /\ UNCHANGED <<deployed, store, made, healthy, client, now>>
  BY DEF Begin
<1>4. q.pc = "get" /\ q.by = i /\ q.why = why
  BY DEF Idle
<1>5. q \in Rotation
  BY IdleType DEF Idle, Rotation
<1> HIDE DEF r, q
<1>6. Knows(q)
  BY <1>4 DEF Knows
<1> QED BY <1>2, <1>3, <1>4, <1>5, <1>6

LEMMA BeginType ==
  ASSUME TypeInv, NEW i \in Instances, NEW why \in {"init", "timer", "fetch"}, Begin(i, why),
         timer' \in [Instances -> Nat]
  PROVE  TypeInv'
<1>1. PICK r \in Rotations, q \in Rotation :
        /\ Become(r, q) /\ Knows(q)
        /\ UNCHANGED <<deployed, store, made, healthy, client, now>>
  BY BeginStep
<1> QED BY <1>1, StepType DEF TypeInv, TypeOK

LEMMA NumberTypes ==
  ASSUME TypeInv
  PROVE  /\ now \in Nat /\ RotateSeconds \in Nat /\ TtlSeconds \in Nat /\ Buffer \in Nat
         /\ now > 0 /\ RotateSeconds > 0
         /\ \A k \in RedisKeys : store[k].exp \in Nat
         /\ \A i \in Instances : timer[i] \in Nat
         /\ client.until \in Nat /\ client.since \in Nat
<1>1. /\ now \in 1 .. MaxTime /\ store \in [RedisKeys -> Stored]
      /\ timer \in [Instances -> Nat] /\ client \in Client
  BY DEF TypeInv, TypeOK
<1>2. \A x \in Stored : x.exp \in Nat
  BY DEF Stored, Empty
<1> QED BY <1>1, <1>2, RsaAssumption DEF Client, ValidConfig

LEMMA ScheduleType ==
  ASSUME TypeInv, NEW i, Schedule(i) PROVE timer' \in [Instances -> Nat]
<1>1. now + RotateSeconds \in Nat
  BY NumberTypes
<1>2. timer \in [Instances -> Nat]
  BY DEF TypeInv, TypeOK
<1> QED BY <1>1, <1>2 DEF Schedule

LEMMA SetType ==
  ASSUME TypeInv, NEW k \in RedisKeys, NEW p \in KeyPairs, NEW ttl \in Nat, Set(k, p, ttl)
  PROVE  store' \in [RedisKeys -> Stored]
<1>1. [pair |-> p, exp |-> now + ttl] \in Stored
  BY NumberTypes DEF Stored
<1> QED BY <1>1 DEF Set, TypeInv, TypeOK

LEMMA GivenType ==
  ASSUME TypeInv, NEW p \in KeyPairs \cup {NoPair}, NEW exp \in Nat, NEW n \in Nat, NEW f \in BOOLEAN,
         NEW others, Given(p, exp, n, f, others)
  PROVE  client' \in Client
<1>1. Until(exp) \in Nat
  BY NumberTypes DEF Until
<1> QED BY <1>1 DEF Given, Client

LEMMA BootType == ASSUME TypeInv, NEW i \in Instances, Boot(i) PROVE TypeInv'
<1>1. CASE Live("pub")
  BY <1>1, ScheduleType DEF Boot, TypeInv, TypeOK, Knows
<1>2. CASE ~Live("pub")
  BY <1>2, BeginType DEF Boot, TypeInv, TypeOK
<1> QED BY <1>1, <1>2

LEMMA TimerType == ASSUME TypeInv, NEW i \in Instances, Timer(i) PROVE TypeInv'
<1>1. timer' \in [Instances -> Nat]
  BY DEF Timer, TypeInv, TypeOK
<1> QED BY <1>1, BeginType DEF Timer

LEMMA FetchType == ASSUME TypeInv, NEW i \in Instances, Fetch(i) PROVE TypeInv'
<1>1. CASE Live("pub")
  <2> DEFINE n == Cardinality({r \in Rotations : rot[r].pc = "pub"})
  <2>1. n \in Nat
    BY RsaAssumption, FS_Subset, FS_CardinalityType
  <2>2. /\ UNCHANGED <<deployed, store, timer, rot, made, healthy, now>>
        /\ Given(store["pub"].pair, store["pub"].exp, n, healthy, Rotations)
    BY <1>1 DEF Fetch
  <2>3. store["pub"].pair \in KeyPairs \cup {NoPair} /\ store["pub"].exp \in Nat
    BY DEF TypeInv, TypeOK, RedisKeys, Stored, Empty
  <2> HIDE DEF n
  <2>4. client' \in Client
    BY <2>1, <2>2, <2>3, GivenType DEF TypeInv, TypeOK
  <2> QED BY <2>2, <2>4 DEF TypeInv, TypeOK, Knows
<1>2. CASE ~Live("pub")
  BY <1>2, BeginType DEF Fetch, TypeInv, TypeOK
<1> QED BY <1>1, <1>2

LEMMA FreshType == TypeInv /\ made # KeyPairs => Fresh \in KeyPairs
  BY DEF TypeInv, TypeOK, Fresh

\* The rotations after the GET of r.
LEMMA GetStep ==
  ASSUME TypeInv, NEW r \in Rotations, Get(r)
  PROVE  /\ rot' \in [Rotations -> Rotation]
         /\ rot'[r].pc = "cur" /\ rot'[r].new \in KeyPairs /\ rot'[r].alone = (Setting = {})
         /\ rot'[r].last = IF Live("cur") THEN store["cur"].pair ELSE NoPair
         /\ rot'[r].by = rot[r].by /\ rot'[r].why = rot[r].why
         /\ \A s \in Rotations \ {r} :
              rot'[s] = IF s \in Setting THEN [rot[s] EXCEPT !.alone = FALSE] ELSE rot[s]
         /\ Setting' = Setting \cup {r} /\ r \notin Setting
<1> DEFINE last == IF Live("cur") THEN store["cur"].pair ELSE NoPair
           q == [rot[r] EXCEPT !.pc = "cur", !.new = Fresh, !.alone = Setting = {}, !.last = last]
<1>1. Fresh \in KeyPairs /\ rot[r] \in Rotation /\ rot[r].pc = "get"
  BY FreshType DEF Get, TypeInv, TypeOK
<1>2. last \in KeyPairs \cup {NoPair}
  BY DEF TypeInv, TypeOK, RedisKeys, Stored, Empty
<1>3. rot'[r] = q
  BY DEF Get
<1>4. \A s \in Rotations \ {r} :
        rot'[s] = IF s \in Setting THEN [rot[s] EXCEPT !.alone = FALSE] ELSE rot[s]
  BY DEF Get
<1> HIDE DEF last
<1>5. /\ q \in Rotation /\ q.pc = "cur" /\ q.new \in KeyPairs /\ q.alone = (Setting = {})
      /\ q.last = last /\ q.by = rot[r].by /\ q.why = rot[r].why
  BY <1>1, <1>2 DEF Rotation
<1> HIDE DEF q
<1>6. \A s \in Rotations : [rot[s] EXCEPT !.alone = FALSE] \in Rotation
  BY DEF TypeInv, TypeOK, Rotation
<1>7. rot' \in [Rotations -> Rotation]
  <2>1. \A s \in Rotations : rot'[s] \in Rotation
    BY <1>3, <1>4, <1>5, <1>6 DEF TypeInv, TypeOK
  <2> QED BY <2>1 DEF Get
<1>8. \A s \in Rotations \ {r} : rot'[s].pc = rot[s].pc
  BY <1>4 DEF TypeInv, TypeOK, Rotation
<1>9. Setting' = Setting \cup {r} /\ r \notin Setting
  BY <1>1, <1>3, <1>5, <1>8 DEF Setting
<1> QED BY <1>3, <1>4, <1>5, <1>7, <1>9 DEF last

LEMMA GetType == ASSUME TypeInv, NEW r \in Rotations, Get(r) PROVE TypeInv'
<1>1. \A s \in Rotations \ {r} :
        rot'[s].pc = rot[s].pc /\ rot'[s].new = rot[s].new /\ rot'[s].last = rot[s].last
  <2> SUFFICES ASSUME NEW s \in Rotations \ {r}
               PROVE  /\ rot'[s].pc = rot[s].pc /\ rot'[s].new = rot[s].new
                      /\ rot'[s].last = rot[s].last
    OBVIOUS
  <2>1. rot'[s] = rot[s] \/ rot'[s] = [rot[s] EXCEPT !.alone = FALSE]
    BY GetStep
  <2>2. rot[s] \in Rotation
    BY DEF TypeInv, TypeOK
  <2> QED BY <2>1, <2>2 DEF Rotation
<1>2. \A s \in Rotations : Knows(rot[s])'
  BY <1>1, GetStep DEF TypeInv, Knows
<1>3. made' \subseteq KeyPairs
  BY FreshType DEF Get, TypeInv, TypeOK
<1>4. client' \in Client /\ healthy' \in BOOLEAN
  BY DEF Get, TypeInv, TypeOK, Client
<1> QED BY <1>2, <1>3, <1>4, GetStep DEF Get, TypeInv, TypeOK

\* The end of a rotation.
LEMMA DoneType ==
  ASSUME TypeInv, NEW r \in Rotations, Done(r)
  PROVE  /\ timer' \in [Instances -> Nat] /\ healthy' \in BOOLEAN
  BY ScheduleType DEF Done, TypeInv, TypeOK, Rotation

LEMMA AnswerType == ASSUME TypeInv, NEW r \in Rotations, Answer(r) PROVE client' \in Client
<1>1. CASE rot[r].why = "fetch"
  <2>1. /\ rot[r].new \in KeyPairs \cup {NoPair} /\ rot[r].alone \in BOOLEAN
        /\ now + TtlSeconds \in Nat
    BY NumberTypes DEF TypeInv, TypeOK, Rotation
  <2>2. Given(rot[r].new, now + TtlSeconds, 0, rot[r].alone, Rotations \ {r})
    BY <1>1 DEF Answer
  <2> QED BY <2>1, <2>2, GivenType
<1>2. CASE rot[r].why # "fetch"
  BY <1>2 DEF Answer, TypeInv, TypeOK
<1> QED BY <1>1, <1>2

\* The SETs of a rotation: it goes on to pc, or is done.
LEMMA NextPc ==
  ASSUME TypeInv, NEW r \in Rotations, NEW pc \in {"pub", "old"}, rot[r].pc \in {"cur", "pub"},
         pc = "old" => rot[r].last \in KeyPairs
  PROVE  [rot[r] EXCEPT !.pc = pc] \in Rotation /\ Knows([rot[r] EXCEPT !.pc = pc])
  BY DEF TypeInv, TypeOK, Rotation, Knows

LEMMA SetCurType == ASSUME TypeInv, NEW r \in Rotations, SetCur(r) PROVE TypeInv'
<1>1. rot[r].new \in KeyPairs /\ rot[r].pc = "cur"
  BY DEF SetCur, TypeInv, Knows
<1>2. store' \in [RedisKeys -> Stored]
  BY <1>1, SetType, NumberTypes DEF SetCur, RedisKeys
<1>3. client' \in Client
  BY DEF SetCur, TypeInv, TypeOK, Client
<1> DEFINE q == [rot[r] EXCEPT !.pc = "pub"]
<1>4. q \in Rotation /\ Knows(q) /\ Become(r, q)
  BY <1>1, NextPc DEF SetCur
<1> HIDE DEF q
<1> QED BY <1>2, <1>3, <1>4, StepType DEF SetCur, TypeInv, TypeOK

LEMMA SetPubType == ASSUME TypeInv, NEW r \in Rotations, SetPub(r) PROVE TypeInv'
<1>1. rot[r].new \in KeyPairs /\ rot[r].pc = "pub" /\ rot[r].last \in KeyPairs \cup {NoPair}
  BY DEF SetPub, TypeInv, TypeOK, Rotation, Knows
<1>2. store' \in [RedisKeys -> Stored]
  BY <1>1, SetType, NumberTypes DEF SetPub, RedisKeys
<1>3. CASE rot[r].last = NoPair
  BY <1>2, <1>3, IdleType, DoneType, AnswerType, StepType DEF SetPub, Done
<1>4. CASE rot[r].last # NoPair
  <2> DEFINE q == [rot[r] EXCEPT !.pc = "old"]
  <2>1. q \in Rotation /\ Knows(q) /\ Become(r, q)
    BY <1>1, <1>4, NextPc DEF SetPub
  <2> HIDE DEF q
  <2> QED BY <1>2, <1>4, <2>1, StepType DEF SetPub, TypeInv, TypeOK
<1> QED BY <1>3, <1>4

LEMMA SetOldType == ASSUME TypeInv, NEW r \in Rotations, SetOld(r) PROVE TypeInv'
<1>1. rot[r].last \in KeyPairs /\ RotateSeconds + Buffer \in Nat
  BY NumberTypes DEF SetOld, TypeInv, Knows
<1>2. store' \in [RedisKeys -> Stored]
  BY <1>1, SetType DEF SetOld, RedisKeys
<1> QED BY <1>2, IdleType, DoneType, AnswerType, StepType DEF SetOld, Done

LEMMA FailType == ASSUME TypeInv, NEW r \in Rotations, Fail(r) PROVE TypeInv'
<1>1. timer' \in [Instances -> Nat]
  BY ScheduleType DEF Fail, TypeInv, TypeOK
<1>2. client' \in Client /\ healthy' \in BOOLEAN /\ store' \in [RedisKeys -> Stored]
  BY DEF Fail, TypeInv, TypeOK, Client
<1> QED BY <1>1, <1>2, IdleType, StepType DEF Fail

LEMMA StopType == ASSUME TypeInv, NEW i \in Instances, Stop(i) PROVE TypeInv'
  BY DEF Stop, TypeInv, TypeOK, Knows

LEMMA TickType == ASSUME TypeInv, Tick PROVE TypeInv'
  BY RsaAssumption DEF Tick, TypeInv, TypeOK, Knows

LEMMA InitType == Init => TypeInv
  BY IdleType, RsaAssumption DEF Init, TypeInv, TypeOK, Client, Stored, Empty

LEMMA NextType == TypeInv /\ [Next]_vars => TypeInv'
<1> SUFFICES ASSUME TypeInv, [Next]_vars PROVE TypeInv' OBVIOUS
<1>1. CASE UNCHANGED vars
  BY <1>1 DEF vars, TypeInv, TypeOK, Knows
<1> QED BY <1>1, BootType, TimerType, FetchType, StopType, GetType, SetCurType, SetPubType,
           SetOldType, FailType, TickType DEF Next

\* Every variable keeps its type: whatever overlaps or breaks off, a key of
\* Redis holds a whole pair or nothing.
THEOREM TypeCorrect == Spec => []TypeOK
<1>1. TypeInv => TypeOK
  BY DEF TypeInv
<1> QED BY <1>1, InitType, NextType, PTL DEF Spec

-----------------------------------------------------------------------------
(* The keys of Redis.  While a rotation runs alone, its SETs follow each    *)
(* other; after it, the public key's pair is the current one.               *)

Alone(r) ==
  rot[r].alone /\ r \in Setting =>
    /\ Setting = {r}
    /\ rot[r].pc \in {"pub", "old"} => store["cur"] = [pair |-> rot[r].new, exp |-> now + TtlSeconds]
    /\ rot[r].pc = "old" => store["pub"].pair = rot[r].new

KeysAgree ==
  /\ (\A r \in Setting : rot[r].pc # "pub") =>
       store["cur"].pair = store["pub"].pair /\ store["cur"].exp >= store["pub"].exp
  /\ \A r \in Setting : rot[r].pc \in {"cur", "pub"} => rot[r].last = store["pub"].pair

StoreInv ==
  /\ store["pub"].exp <= now + TtlSeconds
  /\ \A r \in Rotations : rot[r].pc = "old" => store["pub"].exp = now + TtlSeconds
  /\ \A r \in Rotations : Alone(r)
  /\ healthy => \A r \in Setting : rot[r].alone
  /\ healthy /\ Live("pub") => KeysAgree

\* What Become does to the set of the rotations between their SETs.
LEMMA BecomeStep ==
  ASSUME TypeInv, NEW r \in Rotations, NEW q, Become(r, q)
  PROVE  /\ rot'[r] = q
         /\ \A s \in Rotations \ {r} : rot'[s] = rot[s]
         /\ Setting' = IF q.pc \in {"cur", "pub", "old"} THEN Setting \cup {r} ELSE Setting \ {r}
<1>1. rot'[r] = q /\ \A s \in Rotations \ {r} : rot'[s] = rot[s]
  BY DEF Become, TypeInv, TypeOK
<1>2. Setting' = {s \in Rotations : rot'[s].pc \in {"cur", "pub", "old"}}
  BY DEF Setting
<1> QED BY <1>1, <1>2 DEF Setting

\* A rotation between its SETs that is alone, or during which no other has
\* interfered with the last one, is the only one there is.
LEMMA OnlyOne ==
  ASSUME StoreInv, NEW r \in Setting
  PROVE  /\ rot[r].alone \/ healthy => Setting = {r} /\ rot[r].alone
         /\ \A s \in Setting \ {r} : ~rot[s].alone
<1>1. \A s \in Setting : Alone(s)
  BY DEF StoreInv, Setting
<1> QED BY <1>1 DEF StoreInv, Alone

\* A step that leaves the keys and the rotations between their SETs alone.
LEMMA StoreKept ==
  ASSUME StoreInv, UNCHANGED <<store, now>>, healthy' = healthy, Setting' = Setting,
         \A r \in Setting : rot'[r] = rot[r]
  PROVE  StoreInv'
<1>1. store["pub"].exp' <= now' + TtlSeconds
  BY DEF StoreInv
<1>2. ASSUME NEW r \in Rotations, rot[r].pc' = "old" PROVE store["pub"].exp' = now' + TtlSeconds
  <2>1. r \in Setting
    BY <1>2 DEF Setting
  <2> QED BY <1>2, <2>1 DEF StoreInv
<1>3. ASSUME NEW r \in Rotations PROVE Alone(r)'
  BY DEF StoreInv, Alone
<1>4. healthy' => \A r \in Setting' : rot'[r].alone
  BY DEF StoreInv
<1>5. healthy' /\ Live("pub")' => KeysAgree'
  BY DEF StoreInv, KeysAgree, Live
<1> QED BY <1>1, <1>2, <1>3, <1>4, <1>5 DEF StoreInv

\* A rotation that begins has set nothing yet.
LEMMA BeginFrame ==
  ASSUME TypeInv, NEW i \in Instances, NEW why \in {"init", "timer", "fetch"}, Begin(i, why)
  PROVE  /\ UNCHANGED <<deployed, store, made, healthy, client, now>>
         /\ Setting' = Setting /\ \A r \in Setting : rot'[r] = rot[r]
<1>1. PICK r \in Rotations, q \in Rotation :
        /\ rot[r].pc = "idle" /\ Become(r, q) /\ q.pc = "get"
        /\ UNCHANGED <<deployed, store, made, healthy, client, now>>
  BY BeginStep
<1>2. r \notin Setting
  BY <1>1 DEF Setting
<1>3. Setting' = Setting \ {r} /\ \A s \in Rotations \ {r} : rot'[s] = rot[s]
  BY <1>1, BecomeStep
<1> QED BY <1>1, <1>2, <1>3 DEF Setting

LEMMA GetStore == ASSUME TypeInv, StoreInv, NEW r \in Rotations, Get(r) PROVE StoreInv'
<1>1. /\ store' = store /\ now' = now /\ healthy' = (healthy /\ Setting = {})
      /\ rot[r].pc = "get"
  BY DEF Get
<1>2. \A s \in Rotations \ {r} : rot'[s].pc = rot[s].pc /\ (s \in Setting => ~rot'[s].alone)
  <2> SUFFICES ASSUME NEW s \in Rotations \ {r}
               PROVE  rot'[s].pc = rot[s].pc /\ (s \in Setting => ~rot'[s].alone)
    OBVIOUS
  <2>1. rot'[s] = IF s \in Setting THEN [rot[s] EXCEPT !.alone = FALSE] ELSE rot[s]
    BY GetStep
  <2>2. rot[s] \in Rotation
    BY DEF TypeInv, TypeOK
  <2> QED BY <2>1, <2>2 DEF Rotation
<1>3. /\ rot'[r].pc = "cur" /\ rot'[r].alone = (Setting = {}) /\ Setting' = Setting \cup {r}
      /\ rot'[r].last = IF Live("cur") THEN store["cur"].pair ELSE NoPair
  BY GetStep
<1>4. store["pub"].exp' <= now' + TtlSeconds
  BY <1>1 DEF StoreInv
<1>5. ASSUME NEW s \in Rotations, rot'[s].pc = "old" PROVE store["pub"].exp' = now' + TtlSeconds
  BY <1>1, <1>2, <1>3, <1>5 DEF StoreInv
<1>6. ASSUME NEW s \in Rotations PROVE Alone(s)'
  BY <1>2, <1>3 DEF Alone
<1>7. healthy' => \A s \in Setting' : rot'[s].alone
  BY <1>1, <1>3
<1>8. ASSUME healthy', Live("pub")' PROVE KeysAgree'
  <2>1. healthy /\ Setting = {} /\ Live("pub")
    BY <1>1, <1>8 DEF Live
  <2>2. store["cur"].pair = store["pub"].pair /\ store["cur"].exp >= store["pub"].exp
    BY <2>1 DEF StoreInv, KeysAgree
  <2>3. Live("cur")
    BY <2>1, <2>2, NumberTypes DEF Live, RedisKeys
  <2> QED BY <1>1, <1>3, <2>1, <2>2, <2>3 DEF KeysAgree
<1> QED BY <1>4, <1>5, <1>6, <1>7, <1>8 DEF StoreInv

LEMMA SetCurStore == ASSUME TypeInv, StoreInv, NEW r \in Rotations, SetCur(r) PROVE StoreInv'
<1> DEFINE q == [rot[r] EXCEPT !.pc = "pub"]
<1>1. /\ rot[r].pc = "cur" /\ r \in Setting /\ Become(r, q)
      /\ healthy' = healthy /\ now' = now
  BY DEF SetCur, Setting
<1>2. /\ q.pc = "pub" /\ q.alone = rot[r].alone /\ q.new = rot[r].new /\ q.last = rot[r].last
  BY DEF TypeInv, TypeOK, Rotation
<1> HIDE DEF q
<1>3. /\ rot'[r] = q /\ Setting' = Setting /\ \A s \in Rotations \ {r} : rot'[s] = rot[s]
  BY <1>1, <1>2, BecomeStep
<1>4. /\ store'["cur"] = [pair |-> rot[r].new, exp |-> now + TtlSeconds]
      /\ store'["pub"] = store["pub"]
  BY DEF SetCur, Set, TypeInv, TypeOK, RedisKeys
<1>5. ASSUME NEW s \in Rotations, rot'[s].pc = "old" PROVE store'["pub"].exp = now' + TtlSeconds
  BY <1>1, <1>2, <1>3, <1>4, <1>5 DEF StoreInv
<1>6. ASSUME NEW s \in Rotations PROVE Alone(s)'
  BY <1>1, <1>2, <1>3, <1>4, OnlyOne DEF Alone
<1>7. healthy' => \A s \in Setting' : rot'[s].alone
  <2>1. \A s \in Setting : s \in Rotations
    BY DEF Setting
  <2> QED BY <1>1, <1>2, <1>3, <2>1 DEF StoreInv
<1>8. ASSUME healthy', Live("pub")' PROVE KeysAgree'
  <2>1. Setting = {r}
    BY <1>1, <1>8, OnlyOne
  <2>2. rot[r].last = store["pub"].pair
    BY <1>1, <1>4, <1>8 DEF StoreInv, KeysAgree, Live
  <2> QED BY <1>2, <1>3, <1>4, <2>1, <2>2 DEF KeysAgree
<1> QED BY <1>1, <1>4, <1>5, <1>6, <1>7, <1>8 DEF StoreInv

\* The SET of the public key, and the last SET: the rotation was alone, or
\* nothing is claimed.
LEMMA SetPubStep ==
  ASSUME TypeInv, NEW r \in Rotations, SetPub(r)
  PROVE  /\ rot[r].pc = "pub" /\ r \in Setting /\ now' = now
         /\ store'["pub"] = [pair |-> rot[r].new, exp |-> now + TtlSeconds]
         /\ store'["cur"] = store["cur"] /\ store'["old"] = store["old"]
         /\ \A s \in Rotations \ {r} : rot'[s] = rot[s]
         /\ \/ /\ rot[r].last = NoPair /\ rot'[r] = Idle /\ Setting' = Setting \ {r}
               /\ healthy' = (healthy \/ rot[r].alone)
            \/ /\ rot[r].last # NoPair /\ Setting' = Setting
               /\ rot'[r].pc = "old" /\ rot'[r].alone = rot[r].alone /\ rot'[r].new = rot[r].new
               /\ rot'[r].last = rot[r].last /\ rot'[r].by = rot[r].by /\ rot'[r].why = rot[r].why
               /\ UNCHANGED <<healthy, timer, client>>
<1>1. rot[r].pc = "pub" /\ r \in Setting /\ now' = now
  BY DEF SetPub, Done, Setting
<1>2. /\ store'["pub"] = [pair |-> rot[r].new, exp |-> now + TtlSeconds]
      /\ store'["cur"] = store["cur"] /\ store'["old"] = store["old"]
  BY DEF SetPub, Set, TypeInv, TypeOK, RedisKeys
<1>3. CASE rot[r].last = NoPair
  <2>1. Become(r, Idle) /\ healthy' = (healthy \/ rot[r].alone)
    BY <1>3 DEF SetPub, Done
  <2>2. rot'[r] = Idle /\ Setting' = Setting \ {r} /\ \A s \in Rotations \ {r} : rot'[s] = rot[s]
    BY <2>1, BecomeStep, IdleType
  <2> QED BY <1>1, <1>2, <1>3, <2>1, <2>2
<1>4. CASE rot[r].last # NoPair
  <2> DEFINE q == [rot[r] EXCEPT !.pc = "old"]
  <2>1. Become(r, q) /\ UNCHANGED <<healthy, timer, client>>
    BY <1>4 DEF SetPub
  <2>2. /\ q.pc = "old" /\ q.alone = rot[r].alone /\ q.new = rot[r].new
        /\ q.last = rot[r].last /\ q.by = rot[r].by /\ q.why = rot[r].why
    BY DEF TypeInv, TypeOK, Rotation
  <2> HIDE DEF q
  <2>3. rot'[r] = q /\ Setting' = Setting /\ \A s \in Rotations \ {r} : rot'[s] = rot[s]
    BY <1>1, <2>1, <2>2, BecomeStep
  <2> QED BY <1>1, <1>2, <1>4, <2>1, <2>2, <2>3
<1> QED BY <1>3, <1>4

LEMMA SetOldStep ==
  ASSUME TypeInv, NEW r \in Rotations, SetOld(r)
  PROVE  /\ rot[r].pc = "old" /\ r \in Setting /\ now' = now
         /\ store'["old"] = [pair |-> rot[r].last, exp |-> now + (RotateSeconds + Buffer)]
         /\ store'["cur"] = store["cur"] /\ store'["pub"] = store["pub"]
         /\ \A s \in Rotations \ {r} : rot'[s] = rot[s]
         /\ rot'[r] = Idle /\ Setting' = Setting \ {r} /\ healthy' = (healthy \/ rot[r].alone)
<1>1. rot[r].pc = "old" /\ r \in Setting /\ now' = now /\ healthy' = (healthy \/ rot[r].alone)
  BY DEF SetOld, Done, Setting
<1>2. /\ store'["old"] = [pair |-> rot[r].last, exp |-> now + (RotateSeconds + Buffer)]
      /\ store'["cur"] = store["cur"] /\ store'["pub"] = store["pub"]
  BY DEF SetOld, Set, TypeInv, TypeOK, RedisKeys
<1>3. Become(r, Idle)
  BY DEF SetOld, Done
<1>4. rot'[r] = Idle /\ Setting' = Setting \ {r} /\ \A s \in Rotations \ {r} : rot'[s] = rot[s]
  BY <1>3, BecomeStep, IdleType
<1> QED BY <1>1, <1>2, <1>4

LEMMA SetPubStore == ASSUME TypeInv, StoreInv, NEW r \in Rotations, SetPub(r) PROVE StoreInv'
<1>1. /\ rot[r].pc = "pub" /\ r \in Setting /\ now' = now
      /\ store'["pub"] = [pair |-> rot[r].new, exp |-> now + TtlSeconds]
      /\ store'["cur"] = store["cur"]
      /\ \A s \in Rotations \ {r} : rot'[s] = rot[s]
  BY SetPubStep
<1>2. \/ rot'[r] = Idle /\ Setting' = Setting \ {r} /\ healthy' = (healthy \/ rot[r].alone)
      \/ /\ Setting' = Setting /\ healthy' = healthy
         /\ rot'[r].pc = "old" /\ rot'[r].alone = rot[r].alone /\ rot'[r].new = rot[r].new
  BY SetPubStep
<1>3. store["pub"].exp' <= now' + TtlSeconds
  BY <1>1, NumberTypes
<1>4. \A s \in Rotations : rot'[s].pc = "old" => store'["pub"].exp = now' + TtlSeconds
  BY <1>1
<1>5. rot[r].alone => Setting = {r} /\ store["cur"] = [pair |-> rot[r].new, exp |-> now + TtlSeconds]
  BY <1>1 DEF StoreInv, Alone
<1>6. ASSUME NEW s \in Rotations PROVE Alone(s)'
  <2>1. CASE s = r
    <3>1. CASE r \notin Setting'
      BY <2>1, <3>1 DEF Alone
    <3>2. CASE Setting' = Setting /\ rot'[r].alone = rot[r].alone /\ rot'[r].new = rot[r].new
      <4>1. store'["pub"].pair = rot'[r].new
        BY <1>1, <3>2
      <4> QED BY <1>1, <1>5, <2>1, <3>2, <4>1 DEF Alone
    <3> QED BY <1>2, <3>1, <3>2
  <2>2. CASE s # r
    BY <1>1, <1>2, <2>2, OnlyOne DEF Alone
  <2> QED BY <2>1, <2>2
<1>7. healthy' => Setting = {r} /\ rot[r].alone
  BY <1>1, <1>2, OnlyOne
<1>8. ASSUME healthy', NEW s \in Setting' PROVE rot'[s].alone
  <2>1. s = r
    BY <1>2, <1>7, <1>8
  <2> QED BY <1>2, <1>7, <1>8, <2>1
<1>9. ASSUME healthy' PROVE KeysAgree'
  <2>1. \A s \in Setting' : s = r /\ rot'[r].pc = "old"
    BY <1>2, <1>7, <1>9
  <2> QED BY <1>1, <1>5, <1>7, <1>9, <2>1, NumberTypes DEF KeysAgree
<1> QED BY <1>3, <1>4, <1>6, <1>8, <1>9 DEF StoreInv

LEMMA SetOldStore == ASSUME TypeInv, StoreInv, NEW r \in Rotations, SetOld(r) PROVE StoreInv'
<1>1. /\ rot[r].pc = "old" /\ r \in Setting /\ now' = now
      /\ store'["cur"] = store["cur"] /\ store'["pub"] = store["pub"]
      /\ \A s \in Rotations \ {r} : rot'[s] = rot[s]
      /\ rot'[r] = Idle /\ Setting' = Setting \ {r} /\ healthy' = (healthy \/ rot[r].alone)
  BY SetOldStep
<1>2. rot'[r].pc = "idle"
  BY <1>1, IdleType
<1>3. store["pub"].exp' <= now' + TtlSeconds
  BY <1>1 DEF StoreInv
<1>4. \A s \in Rotations : rot'[s].pc = "old" => store'["pub"].exp = now' + TtlSeconds
  BY <1>1, <1>2 DEF StoreInv
<1>5. ASSUME NEW s \in Rotations PROVE Alone(s)'
  BY <1>1, OnlyOne DEF Alone
<1>6. healthy' => Setting' = {} /\ rot[r].alone
  BY <1>1, OnlyOne
<1>7. ASSUME healthy' PROVE KeysAgree'
  <2>1. /\ store["cur"] = [pair |-> rot[r].new, exp |-> now + TtlSeconds]
        /\ store["pub"].pair = rot[r].new
    BY <1>1, <1>6, <1>7 DEF StoreInv, Alone
  <2>2. store["cur"].exp >= store["pub"].exp
    BY <2>1, NumberTypes DEF StoreInv, RedisKeys
  <2> QED BY <1>1, <1>6, <1>7, <2>1, <2>2 DEF KeysAgree
<1> QED BY <1>3, <1>4, <1>5, <1>6, <1>7 DEF StoreInv

LEMMA FailStep ==
  ASSUME TypeInv, NEW r \in Rotations, Fail(r)
  PROVE  /\ rot[r].pc # "idle" /\ UNCHANGED <<deployed, store, made, now>>
         /\ rot'[r] = Idle /\ Setting' = Setting \ {r}
         /\ \A s \in Rotations \ {r} : rot'[s] = rot[s]
         /\ healthy' = (healthy /\ rot[r].pc \in {"get", "cur"})
         /\ rot[r].pc = "get" => Setting' = Setting
<1>1. Become(r, Idle)
  BY DEF Fail
<1>2. rot'[r] = Idle /\ Setting' = Setting \ {r} /\ \A s \in Rotations \ {r} : rot'[s] = rot[s]
  BY <1>1, BecomeStep, IdleType
<1> QED BY <1>2 DEF Fail, Setting

LEMMA FailStore == ASSUME TypeInv, StoreInv, NEW r \in Rotations, Fail(r) PROVE StoreInv'
<1>1. /\ rot[r].pc # "idle" /\ UNCHANGED <<store, now>>
      /\ rot'[r] = Idle /\ Setting' = Setting \ {r}
      /\ \A s \in Rotations \ {r} : rot'[s] = rot[s]
      /\ healthy' = (healthy /\ rot[r].pc \in {"get", "cur"})
  BY FailStep
<1>2. rot'[r].pc = "idle"
  BY <1>1, IdleType
<1>3. store["pub"].exp' <= now' + TtlSeconds
  BY <1>1 DEF StoreInv
<1>4. \A s \in Rotations : rot'[s].pc = "old" => store'["pub"].exp = now' + TtlSeconds
  BY <1>1, <1>2 DEF StoreInv
<1>5. ASSUME NEW s \in Rotations PROVE Alone(s)'
  <2>1. Alone(s)
    BY DEF StoreInv
  <2> QED BY <1>1, <2>1 DEF Alone
<1>6. healthy' => \A s \in Setting' : rot'[s].alone
  BY <1>1 DEF StoreInv, Setting
<1>7. ASSUME healthy', Live("pub")' PROVE KeysAgree'
  <2>1. healthy /\ Live("pub") /\ KeysAgree
    BY <1>1, <1>7 DEF StoreInv, Live
  <2>2. \A s \in Setting' : s \in Setting /\ rot'[s] = rot[s]
    BY <1>1 DEF Setting
  <2>3. CASE r \in Setting
    <3>1. Setting = {r} /\ rot[r].pc = "cur"
      BY <1>1, <1>7, <2>1, <2>3, OnlyOne DEF Setting
    <3> QED BY <1>1, <2>1, <3>1 DEF KeysAgree
  <2>4. CASE r \notin Setting
    BY <1>1, <2>1, <2>2, <2>4 DEF KeysAgree
  <2> QED BY <2>3, <2>4
<1> QED BY <1>3, <1>4, <1>5, <1>6, <1>7 DEF StoreInv

LEMMA TickStore == ASSUME TypeInv, StoreInv, Tick PROVE StoreInv'
<1>1. /\ now' = now + 1 /\ UNCHANGED <<store, rot, healthy>>
      /\ \A r \in Rotations : rot[r].pc = "idle"
  BY DEF Tick
<1>2. Setting = {} /\ Setting' = {}
  BY <1>1 DEF Setting
<1>3. store["pub"].exp' <= now' + TtlSeconds
  BY <1>1, NumberTypes DEF StoreInv, RedisKeys
<1>4. Live("pub")' => Live("pub")
  BY <1>1, NumberTypes DEF Live, RedisKeys
<1> QED BY <1>1, <1>2, <1>3, <1>4 DEF StoreInv, Alone, KeysAgree

LEMMA InitStore == Init => StoreInv
<1> SUFFICES ASSUME Init PROVE StoreInv OBVIOUS
<1>1. Setting = {}
  BY IdleType DEF Init, Setting
<1>2. store["pub"] = Empty /\ now = 1 /\ \A r \in Rotations : rot[r].pc = "idle"
  BY IdleType DEF Init, RedisKeys
<1>3. ~Live("pub") /\ store["pub"].exp <= now + TtlSeconds
  BY <1>2, RsaAssumption DEF Live, Empty
<1> QED BY <1>1, <1>2, <1>3 DEF StoreInv, Alone

LEMMA NextStore == TypeInv /\ StoreInv /\ [Next]_vars => StoreInv'
<1> SUFFICES ASSUME TypeInv, StoreInv, [Next]_vars PROVE StoreInv' OBVIOUS
<1>1. ASSUME UNCHANGED <<store, rot, healthy, now>> PROVE StoreInv'
  <2>1. Setting' = Setting
    BY <1>1 DEF Setting
  <2> QED BY <1>1, <2>1, StoreKept
<1>2. ASSUME NEW i \in Instances, NEW why \in {"init", "timer", "fetch"}, Begin(i, why) PROVE StoreInv'
  BY <1>2, BeginFrame, StoreKept
<1>3. ASSUME NEW i \in Instances, Boot(i) \/ Timer(i) \/ Fetch(i) \/ Stop(i) PROVE StoreInv'
  BY <1>1, <1>2, <1>3 DEF Boot, Timer, Fetch, Stop
<1> QED BY <1>1, <1>3, GetStore, SetCurStore, SetPubStore, SetOldStore, FailStore, TickStore
        DEF Next, vars

-----------------------------------------------------------------------------
(* A client's pair is the current one and, after one rotation, the          *)
(* previous one: for as long as the client needs it, one of them lives.     *)

Serves == client.fair /\ client.pair # NoPair /\ now < client.until

Current ==
  /\ store["cur"].pair = client.pair /\ store["cur"].exp >= client.until
  /\ \A r \in Setting : rot[r].pc # "pub" /\ (rot[r].pc = "cur" => rot[r].last = client.pair)

Previous ==
  /\ (\A r \in Setting : rot[r].pc = "cur") =>
       store["old"].pair = client.pair /\ store["old"].exp >= client.until
  /\ \A r \in Setting : rot[r].pc \in {"pub", "old"} => rot[r].last = client.pair

ClientInv ==
  /\ client.until <= now + RotateSeconds
  /\ now < client.until => client.until <= store["pub"].exp
  /\ client.fair => \A r \in Setting : rot[r].alone
  /\ Serves /\ client.since = 0 => Current
  /\ Serves /\ client.since = 1 => Previous

LEMMA ClientKept ==
  ASSUME ClientInv, UNCHANGED <<store, client, now>>, Setting' = Setting,
         \A r \in Setting : rot'[r] = rot[r]
  PROVE  ClientInv'
<1>1. /\ client.until' <= now' + RotateSeconds
      /\ now' < client.until' => client.until' <= store["pub"].exp'
      /\ client.fair' => \A r \in Setting' : rot'[r].alone
  BY DEF ClientInv
<1>2. (Serves' <=> Serves) /\ (Current => Current') /\ (Previous => Previous')
  BY DEF Serves, Current, Previous
<1> QED BY <1>1, <1>2 DEF ClientInv

\* While a client's pair is served, a rotation between its SETs is alone.
LEMMA FairAlone ==
  ASSUME StoreInv, ClientInv, client.fair, NEW r \in Setting
  PROVE  Setting = {r}
  BY OnlyOne DEF ClientInv

LEMMA UntilBounds ==
  ASSUME TypeInv, NEW exp \in Nat
  PROVE  Until(exp) \in Nat /\ Until(exp) <= now + RotateSeconds /\ Until(exp) <= exp
  BY NumberTypes DEF Until

\* The public key that Redis holds.
LEMMA FetchClient ==
  ASSUME TypeInv, StoreInv, ClientInv, NEW i \in Instances, Fetch(i), Live("pub")
  PROVE  ClientInv'
<1> DEFINE atPub == {r \in Rotations : rot[r].pc = "pub"}
           n == Cardinality(atPub)
<1>1. /\ UNCHANGED <<store, rot, healthy, now>>
      /\ Given(store["pub"].pair, store["pub"].exp, n, healthy, Rotations)
  BY DEF Fetch
<1>2. /\ client'.pair = store["pub"].pair /\ client'.until = Until(store["pub"].exp)
      /\ client'.since = n /\ client'.fair = healthy
  BY <1>1 DEF Given
<1>3. IsFiniteSet(atPub)
  BY RsaAssumption, FS_Subset
<1>4. n = 0 => atPub = {}
  BY <1>3, FS_EmptySet
<1>5. n = 1 => \E r \in atPub : TRUE
  BY <1>3, FS_Singleton
<1> HIDE DEF n
<1>6. Setting' = Setting
  BY <1>1 DEF Setting
<1>7. store["pub"].exp \in Nat
  BY NumberTypes DEF RedisKeys
<1>8. /\ client'.until <= now' + RotateSeconds /\ client'.until <= store'["pub"].exp
  BY <1>1, <1>2, <1>7, UntilBounds
<1>9. client'.fair => \A r \in Setting' : rot'[r].alone
  BY <1>1, <1>2, <1>6 DEF StoreInv
<1>10. client'.fair => KeysAgree
  BY <1>2 DEF StoreInv
<1>11. ASSUME Serves', client'.since = 0 PROVE Current'
  <2>1. KeysAgree /\ \A r \in Setting : rot[r].pc # "pub"
    BY <1>2, <1>4, <1>10, <1>11 DEF Serves, Setting
  <2>2. store["cur"].exp >= client'.until
    <3>1. client'.until \in Nat /\ store["cur"].exp \in Nat
      BY <1>2, <1>7, UntilBounds, NumberTypes DEF RedisKeys
    <3> QED BY <1>1, <1>7, <1>8, <2>1, <3>1 DEF KeysAgree
  <2> QED BY <1>1, <1>2, <1>6, <2>1, <2>2 DEF KeysAgree, Current
<1>12. ASSUME Serves', client'.since = 1 PROVE Previous'
  <2>1. PICK r \in Rotations : rot[r].pc = "pub"
    BY <1>2, <1>5, <1>12
  <2>2. r \in Setting
    BY <2>1 DEF Setting
  <2>3. healthy
    BY <1>2, <1>12 DEF Serves
  <2>4. Setting = {r}
    BY <2>2, <2>3, OnlyOne
  <2>5. rot[r].last = store["pub"].pair
    BY <1>2, <1>10, <1>12, <2>1, <2>2 DEF Serves, KeysAgree
  <2> QED BY <1>1, <1>2, <1>6, <2>1, <2>4, <2>5 DEF Previous
<1> QED BY <1>8, <1>9, <1>11, <1>12 DEF ClientInv

\* The answer of a rotation: both new keys are there.
LEMMA AnswerClient ==
  ASSUME TypeInv, StoreInv, NEW r \in Setting, rot[r].why = "fetch", Answer(r),
         now' = now, Setting' = Setting \ {r}, store'["cur"] = store["cur"],
         rot[r].pc \in {"pub", "old"}, store'["pub"].exp = now + TtlSeconds
  PROVE  ClientInv'
<1>1. /\ client'.pair = rot[r].new /\ client'.until = Until(now + TtlSeconds)
      /\ client'.since = 0 /\ client'.fair = rot[r].alone
  BY DEF Answer, Given
<1>2. now + TtlSeconds \in Nat
  BY NumberTypes
<1>3. client'.until <= now' + RotateSeconds /\ client'.until <= store'["pub"].exp
  BY <1>1, <1>2, UntilBounds
<1>4. client'.fair => /\ Setting' = {}
                      /\ store'["cur"] = [pair |-> rot[r].new, exp |-> now + TtlSeconds]
  BY <1>1 DEF StoreInv, Alone, Setting
<1>5. Serves' => Current'
  BY <1>1, <1>2, <1>4, UntilBounds DEF Serves, Current
<1> QED BY <1>1, <1>3, <1>4, <1>5 DEF ClientInv

LEMMA GetClient ==
  ASSUME TypeInv, StoreInv, ClientInv, NEW r \in Rotations, Get(r) PROVE ClientInv'
<1>1. /\ store' = store /\ now' = now
      /\ client' = [client EXCEPT !.fair = @ /\ Setting = {}]
  BY DEF Get
<1>2. /\ client'.pair = client.pair /\ client'.until = client.until
      /\ client'.since = client.since /\ client'.fair = (client.fair /\ Setting = {})
  BY <1>1 DEF TypeInv, TypeOK, Client
<1>3. /\ rot'[r].pc = "cur" /\ rot'[r].alone = (Setting = {}) /\ Setting' = Setting \cup {r}
      /\ rot'[r].last = IF Live("cur") THEN store["cur"].pair ELSE NoPair
  BY GetStep
<1>4. Serves' => Serves /\ Setting = {} /\ Setting' = {r}
  BY <1>1, <1>2, <1>3 DEF Serves
<1>5. ASSUME Serves', client'.since = 0 PROVE Current'
  <2>1. Current /\ now < client.until
    BY <1>2, <1>4, <1>5 DEF ClientInv, Serves
  <2>2. Live("cur")
    BY <2>1, NumberTypes DEF Current, Live, RedisKeys
  <2> QED BY <1>1, <1>2, <1>3, <1>4, <1>5, <2>1, <2>2 DEF Current
<1>6. ASSUME Serves', client'.since = 1 PROVE Previous'
  <2>1. Previous
    BY <1>2, <1>4, <1>6 DEF ClientInv
  <2> QED BY <1>1, <1>2, <1>3, <1>4, <1>6, <2>1 DEF Previous
<1> QED BY <1>1, <1>2, <1>3, <1>5, <1>6 DEF ClientInv

LEMMA SetCurClient ==
  ASSUME TypeInv, StoreInv, ClientInv, NEW r \in Rotations, SetCur(r) PROVE ClientInv'
<1> DEFINE q == [rot[r] EXCEPT !.pc = "pub"]
<1>1. /\ rot[r].pc = "cur" /\ r \in Setting /\ Become(r, q) /\ now' = now
      /\ client' = [client EXCEPT !.since = IF @ < 2 THEN @ + 1 ELSE @]
  BY DEF SetCur, Setting
<1>2. /\ q.pc = "pub" /\ q.alone = rot[r].alone /\ q.last = rot[r].last
  BY DEF TypeInv, TypeOK, Rotation
<1> HIDE DEF q
<1>3. /\ rot'[r] = q /\ Setting' = Setting /\ \A s \in Rotations \ {r} : rot'[s] = rot[s]
  BY <1>1, <1>2, BecomeStep
<1>4. store'["pub"] = store["pub"]
  BY DEF SetCur, Set, TypeInv, TypeOK, RedisKeys
<1>5. /\ client'.pair = client.pair /\ client'.until = client.until /\ client'.fair = client.fair
      /\ client'.since = IF client.since < 2 THEN client.since + 1 ELSE client.since
  BY <1>1 DEF TypeInv, TypeOK, Client
<1>6. client'.since # 0 /\ (client'.since = 1 => client.since = 0)
  BY <1>5, NumberTypes
<1>7. client'.fair => Setting = {r} /\ rot[r].alone
  BY <1>1, <1>5, FairAlone DEF ClientInv
<1>8. ASSUME Serves', client'.since = 1 PROVE Previous'
  <2>1. Serves
    BY <1>1, <1>5, <1>8 DEF Serves
  <2>2. rot[r].last = client.pair
    BY <1>1, <1>6, <1>8, <2>1 DEF ClientInv, Current
  <2> QED BY <1>2, <1>3, <1>5, <1>7, <1>8, <2>1, <2>2 DEF Previous, Serves
<1> QED BY <1>1, <1>2, <1>3, <1>4, <1>5, <1>6, <1>7, <1>8 DEF ClientInv

\* The SET of the public key, which may end the rotation, and the last SET.
LEMMA SetPubClient ==
  ASSUME TypeInv, StoreInv, ClientInv, NEW r \in Rotations, SetPub(r) PROVE ClientInv'
<1>1. /\ rot[r].pc = "pub" /\ r \in Setting /\ now' = now
      /\ store'["pub"].exp = now + TtlSeconds /\ store'["cur"] = store["cur"]
      /\ store'["old"] = store["old"]
      /\ \A s \in Rotations \ {r} : rot'[s] = rot[s]
  <2>1. store'["pub"] = [pair |-> rot[r].new, exp |-> now + TtlSeconds]
    BY SetPubStep
  <2>2. store'["pub"].exp = now + TtlSeconds
    BY <2>1
  <2> QED BY <2>2, SetPubStep
<1>2. CASE rot[r].last = NoPair /\ rot[r].why = "fetch"
  <2>1. Answer(r) /\ Setting' = Setting \ {r}
    BY <1>2, SetPubStep DEF SetPub
  <2> QED BY <1>1, <1>2, <2>1, AnswerClient
<1>3. ASSUME UNCHANGED client, client.fair => \A s \in Setting' : rot'[s].alone,
             Serves /\ client.since = 1 => Previous' PROVE ClientInv'
  <2>1. client.until <= store'["pub"].exp
    BY <1>1, NumberTypes, RsaAssumption DEF ClientInv, ValidConfig
  <2>2. ~(Serves /\ client.since = 0)
    BY <1>1 DEF ClientInv, Current
  <2>3. Serves' <=> Serves
    BY <1>1, <1>3 DEF Serves
  <2> QED BY <1>1, <1>3, <2>1, <2>2, <2>3 DEF ClientInv
<1>4. client.fair => Setting = {r} /\ rot[r].alone
  BY <1>1, FairAlone DEF ClientInv
<1>5. Serves /\ client.since = 1 => rot[r].last = client.pair
  BY <1>1 DEF ClientInv, Previous
<1>6. CASE rot[r].last = NoPair /\ rot[r].why # "fetch"
  <2>1. UNCHANGED client /\ Setting' = Setting \ {r}
    BY <1>6, SetPubStep DEF SetPub, Answer
  <2>2. ~(Serves /\ client.since = 1)
    BY <1>5, <1>6 DEF Serves
  <2> QED BY <1>3, <1>4, <2>1, <2>2
<1>7. CASE rot[r].last # NoPair
  <2>1. /\ UNCHANGED client /\ Setting' = Setting /\ rot'[r].pc = "old"
        /\ rot'[r].alone = rot[r].alone /\ rot'[r].last = rot[r].last
    BY <1>7, SetPubStep
  <2>2. Serves /\ client.since = 1 => Previous'
    BY <1>4, <1>5, <2>1 DEF Serves, Previous
  <2> QED BY <1>3, <1>4, <2>1, <2>2
<1> QED BY <1>2, <1>6, <1>7

LEMMA SetOldClient ==
  ASSUME TypeInv, StoreInv, ClientInv, NEW r \in Rotations, SetOld(r) PROVE ClientInv'
<1>1. /\ rot[r].pc = "old" /\ r \in Setting /\ now' = now
      /\ store'["old"] = [pair |-> rot[r].last, exp |-> now + (RotateSeconds + Buffer)]
      /\ store'["cur"] = store["cur"] /\ store'["pub"] = store["pub"]
      /\ Setting' = Setting \ {r}
  BY SetOldStep
<1>2. CASE rot[r].why = "fetch"
  <2>1. store'["pub"].exp = now + TtlSeconds
    BY <1>1 DEF StoreInv
  <2> QED BY <1>1, <1>2, <2>1, AnswerClient DEF SetOld
<1>3. CASE rot[r].why # "fetch"
  <2>1. UNCHANGED client
    BY <1>3 DEF SetOld, Answer
  <2>2. client.fair => Setting' = {}
    BY <1>1, FairAlone
  <2>3. Serves' <=> Serves
    BY <1>1, <2>1 DEF Serves
  <2>4. ASSUME Serves, client.since = 0 PROVE Current'
    BY <1>1, <2>1, <2>2, <2>4 DEF ClientInv, Current, Serves
  <2>5. ASSUME Serves, client.since = 1 PROVE Previous'
    <3>1. rot[r].last = client.pair
      BY <1>1, <2>5 DEF ClientInv, Previous
    <3>2. store'["old"].pair = client.pair /\ store'["old"].exp >= client.until
      BY <1>1, <3>1, NumberTypes DEF ClientInv
    <3> QED BY <2>1, <2>2, <2>5, <3>2 DEF Previous, Serves
  <2> QED BY <1>1, <2>1, <2>2, <2>3, <2>4, <2>5 DEF ClientInv
<1> QED BY <1>2, <1>3

LEMMA FailClient ==
  ASSUME TypeInv, StoreInv, ClientInv, NEW r \in Rotations, Fail(r) PROVE ClientInv'
<1>1. /\ rot[r].pc # "idle" /\ UNCHANGED <<store, now>> /\ Setting' = Setting \ {r}
      /\ \A s \in Rotations \ {r} : rot'[s] = rot[s]
      /\ rot[r].pc = "get" => Setting' = Setting
  BY FailStep
<1>2. /\ client'.pair = client.pair /\ client'.until = client.until /\ client'.since = client.since
      /\ client'.fair = (client.fair /\ rot[r].pc \in {"get", "cur"})
  BY DEF Fail, TypeInv, TypeOK, Client
<1>3. \A s \in Setting' : s \in Setting /\ s \in Rotations \ {r} /\ rot'[s] = rot[s]
  BY <1>1 DEF Setting
<1>4. Serves' => Serves /\ (rot[r].pc = "get" \/ rot[r].pc = "cur")
  BY <1>1, <1>2 DEF Serves
<1>5. Serves' /\ rot[r].pc = "cur" => Setting = {r} /\ Setting' = {}
  BY <1>1, <1>4, FairAlone DEF Serves, Setting
<1>6. client'.fair => \A s \in Setting' : rot'[s].alone
  BY <1>2, <1>3 DEF ClientInv
<1>7. ASSUME Serves', client'.since = 0 PROVE Current'
  BY <1>1, <1>2, <1>3, <1>4, <1>7 DEF ClientInv, Current
<1>8. ASSUME Serves', client'.since = 1 PROVE Previous'
  <2>1. Previous
    BY <1>2, <1>4, <1>8 DEF ClientInv
  <2>2. (\A s \in Setting' : rot'[s].pc = "cur") => \A s \in Setting : rot[s].pc = "cur"
    BY <1>1, <1>3, <1>4, <1>5, <1>8
  <2> QED BY <1>1, <1>2, <1>3, <2>1, <2>2 DEF Previous
<1> QED BY <1>1, <1>2, <1>6, <1>7, <1>8 DEF ClientInv

LEMMA TickClient == ASSUME TypeInv, ClientInv, Tick PROVE ClientInv'
<1>1. /\ now' = now + 1 /\ UNCHANGED <<store, rot, client>>
      /\ \A r \in Rotations : rot[r].pc = "idle"
  BY DEF Tick
<1>2. Setting = {} /\ Setting' = {}
  BY <1>1 DEF Setting
<1>3. client'.until <= now' + RotateSeconds /\ (now' < client'.until => now < client.until)
  BY <1>1, NumberTypes DEF ClientInv
<1>4. Serves' => Serves
  BY <1>1, <1>3 DEF Serves
<1>5. (Current => Current') /\ (Previous => Previous')
  BY <1>1, <1>2 DEF Current, Previous
<1> QED BY <1>1, <1>2, <1>3, <1>4, <1>5 DEF ClientInv

LEMMA InitClient == Init => ClientInv
<1> SUFFICES ASSUME Init PROVE ClientInv OBVIOUS
<1>1. now = 1 /\ client.until = 0 /\ ~client.fair
  BY DEF Init
<1> QED BY <1>1, RsaAssumption DEF ClientInv, Serves

LEMMA NextClient == TypeInv /\ StoreInv /\ ClientInv /\ [Next]_vars => ClientInv'
<1> SUFFICES ASSUME TypeInv, StoreInv, ClientInv, [Next]_vars PROVE ClientInv' OBVIOUS
<1>1. ASSUME UNCHANGED <<store, rot, client, now>> PROVE ClientInv'
  <2>1. Setting' = Setting
    BY <1>1 DEF Setting
  <2> QED BY <1>1, <2>1, ClientKept
<1>2. ASSUME NEW i \in Instances, NEW why \in {"init", "timer", "fetch"}, Begin(i, why) PROVE ClientInv'
  BY <1>2, BeginFrame, ClientKept
<1>3. ASSUME NEW i \in Instances, Boot(i) \/ Timer(i) \/ Stop(i) PROVE ClientInv'
  BY <1>1, <1>2, <1>3 DEF Boot, Timer, Stop
<1>4. ASSUME NEW i \in Instances, Fetch(i) PROVE ClientInv'
  <2>1. CASE Live("pub")
    BY <1>4, <2>1, FetchClient
  <2>2. CASE ~Live("pub")
    BY <1>2, <1>4, <2>2 DEF Fetch
  <2> QED BY <2>1, <2>2
<1> QED BY <1>1, <1>3, <1>4, GetClient, SetCurClient, SetPubClient, SetOldClient, FailClient,
           TickClient DEF Next, vars

\* A client's public key is good for as long as it was given for: the server
\* decrypts what it encrypts, unless the pair was replaced twice meanwhile or
\* rotations overlapped or broke off between their SETs.
THEOREM FetchedKeysWork == Spec => []FetchedKeyWorks
<1>1. TypeInv /\ ClientInv => FetchedKeyWorks
  <2> SUFFICES ASSUME TypeInv, ClientInv, client.pair # NoPair, client.fair, now < client.until,
                      client.since <= 1, \A r \in Setting : rot[r].pc = "cur"
               PROVE  Decryptable(client.pair)
    BY DEF FetchedKeyWorks
  <2>1. client.since = 0 \/ client.since = 1
    BY NumberTypes
  <2>2. CASE client.since = 0
    <3>1. store["cur"].pair = client.pair /\ store["cur"].exp >= client.until
      BY <2>2 DEF ClientInv, Serves, Current
    <3> QED BY <3>1, NumberTypes DEF Decryptable, Live, RedisKeys
  <2>3. CASE client.since = 1
    <3>1. store["old"].pair = client.pair /\ store["old"].exp >= client.until
      BY <2>3 DEF ClientInv, Serves, Previous
    <3> QED BY <3>1, NumberTypes DEF Decryptable, Live, RedisKeys
  <2> QED BY <2>1, <2>2, <2>3
<1> QED BY <1>1, InitType, NextType, InitStore, NextStore, InitClient, NextClient, PTL DEF Spec

-----------------------------------------------------------------------------
(* The turns of an instance: at most one rotation on its timer or at its    *)
(* start is in progress, and no timer runs meanwhile.                       *)

Runs(r) == rot[r].pc # "idle"
Turn(r) == Runs(r) /\ rot[r].why \in {"timer", "init"}

TurnInv ==
  /\ \A i \in Instances : timer[i] # 0 => i \in deployed
  /\ \A r \in Rotations : Runs(r) => rot[r].by \in deployed
  /\ \A r \in Rotations : Turn(r) => timer[rot[r].by] = 0
  /\ \A r, s \in Rotations : Turn(r) /\ Turn(s) /\ rot[r].by = rot[s].by => r = s
  /\ \A r, s \in Rotations :
       Runs(r) /\ rot[r].why = "init" /\ Runs(s) /\ rot[s].by = rot[r].by => r = s

\* No rotation begins: those that go on are what they were, and a timer is
\* set only for an instance without a turn.
LEMMA TurnKept ==
  ASSUME TurnInv, TypeInv, deployed' = deployed,
         \A r \in Rotations :
           rot'[r].pc # "idle" => Runs(r) /\ rot'[r].by = rot[r].by /\ rot'[r].why = rot[r].why,
         \A i \in Instances :
           \/ timer'[i] \in {timer[i], 0}
           \/ i \in deployed /\ \A r \in Rotations : rot'[r].pc # "idle" /\ Turn(r) => rot[r].by # i
  PROVE  TurnInv'
<1>1. \A i \in Instances : timer'[i] # 0 => i \in deployed'
  BY DEF TurnInv
<1>2. \A r \in Rotations : rot'[r].pc # "idle" => rot'[r].by \in deployed'
  BY DEF TurnInv
<1>3. \A r \in Rotations :
        rot'[r].pc # "idle" /\ rot'[r].why \in {"timer", "init"} => timer'[rot'[r].by] = 0
  <2> SUFFICES ASSUME NEW r \in Rotations, rot'[r].pc # "idle", rot'[r].why \in {"timer", "init"}
               PROVE  timer'[rot[r].by] = 0
    OBVIOUS
  <2>1. Turn(r) /\ timer[rot[r].by] = 0 /\ rot[r].by \in Instances
    BY DEF TurnInv, Turn, Runs, TypeInv, TypeOK
  <2> QED BY <2>1
<1>4. \A r, s \in Rotations :
        /\ rot'[r].pc # "idle" /\ rot'[r].why \in {"timer", "init"}
        /\ rot'[s].pc # "idle" /\ rot'[s].why \in {"timer", "init"}
        /\ rot'[r].by = rot'[s].by
      => r = s
  <2>1. \A r \in Rotations :
          rot'[r].pc # "idle" /\ rot'[r].why \in {"timer", "init"} => Turn(r) /\ rot'[r].by = rot[r].by
    BY DEF Turn
  <2>2. \A r, s \in Rotations : Turn(r) /\ Turn(s) /\ rot[r].by = rot[s].by => r = s
    BY DEF TurnInv
  <2> QED BY <2>1, <2>2
<1>5. \A r, s \in Rotations :
        rot'[r].pc # "idle" /\ rot'[r].why = "init" /\ rot'[s].pc # "idle" /\ rot'[s].by = rot'[r].by
          => r = s
  BY DEF TurnInv
<1> QED BY <1>1, <1>2, <1>3, <1>4, <1>5 DEF TurnInv, Turn, Runs

\* A rotation begins: as an instance's turn if it has none, and never while
\* the instance starts.
LEMMA TurnBegins ==
  ASSUME TurnInv, TypeInv, NEW i \in deployed, NEW why \in {"init", "timer", "fetch"}, Begin(i, why),
         why = "init" => Pending(i) = {},
         why \in {"init", "timer"} => timer'[i] = 0 /\ \A r \in Rotations : Turn(r) => rot[r].by # i,
         \A r \in Rotations : Runs(r) /\ rot[r].why = "init" => rot[r].by # i,
         \A j \in Instances : timer'[j] \in {timer[j], 0}
  PROVE  TurnInv'
<1>0. i \in Instances
  BY DEF TypeInv, TypeOK
<1>1. PICK r \in Rotations, q \in Rotation :
        /\ rot[r].pc = "idle" /\ Become(r, q) /\ q.pc = "get" /\ q.by = i /\ q.why = why
        /\ UNCHANGED <<deployed, store, made, healthy, client, now>>
  BY <1>0, BeginStep
<1>2. rot'[r] = q /\ \A s \in Rotations \ {r} : rot'[s] = rot[s]
  BY <1>1, BecomeStep
<1>3. \A j \in Instances : timer'[j] # 0 => j \in deployed'
  BY <1>1 DEF TurnInv
<1>4. \A s \in Rotations : rot'[s].pc # "idle" => rot'[s].by \in deployed'
  BY <1>1, <1>2 DEF TurnInv, Runs
<1>5. \A s \in Rotations :
        rot'[s].pc # "idle" /\ rot'[s].why \in {"timer", "init"} => timer'[rot'[s].by] = 0
  <2> SUFFICES ASSUME NEW s \in Rotations, rot'[s].pc # "idle", rot'[s].why \in {"timer", "init"}
               PROVE  timer'[rot'[s].by] = 0
    OBVIOUS
  <2>1. CASE s = r
    BY <1>1, <1>2, <2>1
  <2>2. CASE s # r
    <3>1. Turn(s) /\ timer[rot[s].by] = 0 /\ rot[s].by \in Instances
      BY <1>2, <2>2 DEF TurnInv, Turn, Runs, TypeInv, TypeOK
    <3> QED BY <1>2, <2>2, <3>1
  <2> QED BY <2>1, <2>2
<1>6. \A s, u \in Rotations :
        /\ rot'[s].pc # "idle" /\ rot'[s].why \in {"timer", "init"}
        /\ rot'[u].pc # "idle" /\ rot'[u].why \in {"timer", "init"}
        /\ rot'[s].by = rot'[u].by
      => s = u
  <2> SUFFICES ASSUME NEW s \in Rotations, NEW u \in Rotations,
                      rot'[s].pc # "idle", rot'[s].why \in {"timer", "init"},
                      rot'[u].pc # "idle", rot'[u].why \in {"timer", "init"},
                      rot'[s].by = rot'[u].by
               PROVE  s = u
    OBVIOUS
  <2>1. \A v \in Rotations \ {r} :
          rot'[v].pc # "idle" /\ rot'[v].why \in {"timer", "init"} => Turn(v) /\ rot'[v].by = rot[v].by
    BY <1>2 DEF Turn, Runs
  <2>2. CASE s # r /\ u # r
    <3>1. Turn(s) /\ Turn(u) /\ rot[s].by = rot[u].by
      BY <2>1, <2>2
    <3> QED BY <3>1 DEF TurnInv
  <2>3. CASE s = r /\ u # r
    BY <1>1, <1>2, <2>1, <2>3
  <2>4. CASE s # r /\ u = r
    BY <1>1, <1>2, <2>1, <2>4
  <2> QED BY <2>2, <2>3, <2>4
<1>7. \A s, u \in Rotations :
        rot'[s].pc # "idle" /\ rot'[s].why = "init" /\ rot'[u].pc # "idle" /\ rot'[u].by = rot'[s].by
          => s = u
  <2>1. \A s \in Rotations \ {r} : rot'[s].pc # "idle" => Runs(s) /\ rot'[s] = rot[s]
    BY <1>2 DEF Runs
  <2>2. why = "init" => \A s \in Rotations : Runs(s) => rot[s].by # i
    BY DEF Pending, Runs
  <2> QED BY <1>1, <1>2, <2>1, <2>2 DEF TurnInv
<1> QED BY <1>3, <1>4, <1>5, <1>6, <1>7 DEF TurnInv, Turn, Runs

\* An instance that is up is deployed, and no rotation of its start runs.
LEMMA UpInstance ==
  ASSUME TurnInv, NEW i \in Instances, Up(i)
  PROVE  i \in deployed /\ \A r \in Rotations : Runs(r) /\ rot[r].why = "init" => rot[r].by # i
<1>1. CASE timer[i] # 0
  BY <1>1 DEF TurnInv, Turn
<1>2. CASE \E r \in Pending(i) : rot[r].why = "timer"
  <2>1. PICK u \in Rotations : Runs(u) /\ rot[u].by = i /\ rot[u].why = "timer"
    BY <1>2 DEF Pending, Runs
  <2> QED BY <2>1 DEF TurnInv
<1> QED BY <1>1, <1>2 DEF Up

\* What the GET and the SETs leave of a rotation.
LEMMA GetKeeps ==
  ASSUME TypeInv, NEW r \in Rotations, Get(r)
  PROVE  /\ \A s \in Rotations : rot'[s].by = rot[s].by /\ rot'[s].why = rot[s].why
         /\ \A s \in Rotations \ {r} : rot'[s].pc = rot[s].pc
<1>1. ASSUME NEW s \in Rotations \ {r}
      PROVE  rot'[s].by = rot[s].by /\ rot'[s].why = rot[s].why /\ rot'[s].pc = rot[s].pc
  <2>1. rot'[s] = rot[s] \/ rot'[s] = [rot[s] EXCEPT !.alone = FALSE]
    BY GetStep
  <2>2. rot[s] \in Rotation
    BY DEF TypeInv, TypeOK
  <2> QED BY <2>1, <2>2 DEF Rotation
<1> QED BY <1>1, GetStep

LEMMA SetCurKeeps ==
  ASSUME TypeInv, NEW r \in Rotations, SetCur(r)
  PROVE  /\ rot'[r].pc = "pub" /\ rot'[r].by = rot[r].by /\ rot'[r].why = rot[r].why
         /\ \A s \in Rotations \ {r} : rot'[s] = rot[s]
<1> DEFINE q == [rot[r] EXCEPT !.pc = "pub"]
<1>1. Become(r, q)
  BY DEF SetCur
<1>2. q.pc = "pub" /\ q.by = rot[r].by /\ q.why = rot[r].why
  BY DEF TypeInv, TypeOK, Rotation
<1> HIDE DEF q
<1> QED BY <1>1, <1>2, BecomeStep

\* A rotation ends, for good or not: the timer of its instance is set if it
\* was the instance's turn.
LEMMA EndTurn ==
  ASSUME TurnInv, TypeInv, NEW r \in Rotations, Runs(r), rot'[r] = Idle, deployed' = deployed,
         \A s \in Rotations \ {r} : rot'[s] = rot[s],
         timer' = timer \/ (Turn(r) /\ Schedule(rot[r].by))
  PROVE  TurnInv'
<1>1. \A s \in Rotations :
        rot'[s].pc # "idle" => s # r /\ Runs(s) /\ rot'[s].by = rot[s].by /\ rot'[s].why = rot[s].why
  BY IdleType DEF Runs
<1>2. ASSUME NEW i \in Instances
      PROVE  \/ timer'[i] \in {timer[i], 0}
             \/ i \in deployed /\ \A s \in Rotations : rot'[s].pc # "idle" /\ Turn(s) => rot[s].by # i
  <2>1. CASE timer' = timer
    BY <2>1
  <2>2. CASE Turn(r) /\ Schedule(rot[r].by)
    <3>1. CASE i = rot[r].by
      BY <1>1, <2>2, <3>1 DEF TurnInv
    <3>2. CASE i # rot[r].by
      BY <2>2, <3>2 DEF Schedule, TypeInv, TypeOK
    <3> QED BY <3>1, <3>2
  <2> QED BY <2>1, <2>2
<1> QED BY <1>1, <1>2, TurnKept

LEMMA BootTurn == ASSUME TypeInv, TurnInv, NEW i \in Instances, Boot(i) PROVE TurnInv'
<1>1. i \in deployed /\ timer[i] = 0 /\ Pending(i) = {}
  BY DEF Boot
<1>2. \A r \in Rotations : Runs(r) => rot[r].by # i
  BY <1>1 DEF Pending, Runs
<1>3. CASE Live("pub")
  <2>1. Schedule(i) /\ rot' = rot /\ deployed' = deployed
    BY <1>3 DEF Boot
  <2>2. \A j \in Instances \ {i} : timer'[j] = timer[j]
    BY <2>1 DEF Schedule, TypeInv, TypeOK
  <2> QED BY <1>1, <1>2, <2>1, <2>2, TurnKept DEF Runs, Turn
<1>4. CASE ~Live("pub")
  <2>1. Begin(i, "init") /\ timer' = timer
    BY <1>4 DEF Boot
  <2> QED BY <1>1, <1>2, <2>1, TurnBegins DEF Turn
<1> QED BY <1>3, <1>4

LEMMA TimerTurn == ASSUME TypeInv, TurnInv, NEW i \in Instances, Timer(i) PROVE TurnInv'
<1>1. timer[i] # 0 /\ Begin(i, "timer") /\ timer' = [timer EXCEPT ![i] = 0]
  BY DEF Timer
<1>2. i \in deployed /\ \A r \in Rotations : Turn(r) => rot[r].by # i
  BY <1>1 DEF TurnInv
<1>3. timer'[i] = 0 /\ \A j \in Instances : timer'[j] \in {timer[j], 0}
  BY <1>1 DEF TypeInv, TypeOK
<1> QED BY <1>1, <1>2, <1>3, TurnBegins DEF Turn

LEMMA FetchTurn == ASSUME TypeInv, TurnInv, NEW i \in Instances, Fetch(i) PROVE TurnInv'
<1>1. CASE Live("pub")
  BY <1>1, TurnKept DEF Fetch, Runs
<1>2. CASE ~Live("pub")
  <2>1. Begin(i, "fetch") /\ timer' = timer /\ Up(i)
    BY <1>2 DEF Fetch
  <2>2. i \in deployed /\ \A r \in Rotations : Runs(r) /\ rot[r].why = "init" => rot[r].by # i
    BY <2>1, UpInstance
  <2> QED BY <2>1, <2>2, TurnBegins
<1> QED BY <1>1, <1>2

LEMMA StopTurn == ASSUME TypeInv, TurnInv, NEW i \in Instances, Stop(i) PROVE TurnInv'
<1>1. rot' = rot /\ deployed' = deployed /\ timer' = [timer EXCEPT ![i] = 0]
  BY DEF Stop
<1>2. \A j \in Instances : timer'[j] \in {timer[j], 0}
  BY <1>1 DEF TypeInv, TypeOK
<1> QED BY <1>1, <1>2, TurnKept DEF Runs

LEMMA GetTurn == ASSUME TypeInv, TurnInv, NEW r \in Rotations, Get(r) PROVE TurnInv'
  BY GetKeeps, TurnKept DEF Get, Runs

LEMMA SetCurTurn == ASSUME TypeInv, TurnInv, NEW r \in Rotations, SetCur(r) PROVE TurnInv'
<1>1. rot[r].pc = "cur" /\ deployed' = deployed /\ timer' = timer
  BY DEF SetCur
<1> QED BY <1>1, SetCurKeeps, TurnKept DEF Runs

\* How a rotation ends.
LEMMA DoneTimer ==
  ASSUME TypeInv, NEW r \in Rotations, Runs(r), Done(r)
  PROVE  (timer' = timer /\ rot[r].why = "fetch") \/ (Turn(r) /\ Schedule(rot[r].by))
<1>1. rot[r].why \in {"init", "timer", "fetch"}
  BY DEF TypeInv, TypeOK, Rotation
<1>2. CASE rot[r].why = "fetch"
  BY <1>2 DEF Done
<1>3. CASE rot[r].why \in {"init", "timer"}
  BY <1>3 DEF Done, Turn
<1> QED BY <1>1, <1>2, <1>3

LEMMA SetPubTurn == ASSUME TypeInv, TurnInv, NEW r \in Rotations, SetPub(r) PROVE TurnInv'
<1>1. Runs(r) /\ deployed' = deployed /\ \A s \in Rotations \ {r} : rot'[s] = rot[s]
  BY SetPubStep DEF SetPub, Done, Runs
<1>2. CASE rot[r].last = NoPair
  <2>1. Done(r) /\ rot'[r] = Idle
    BY <1>2, SetPubStep DEF SetPub
  <2> QED BY <1>1, <2>1, DoneTimer, EndTurn
<1>3. CASE rot[r].last # NoPair
  BY <1>1, <1>3, SetPubStep, TurnKept DEF Runs
<1> QED BY <1>2, <1>3

LEMMA SetOldTurn == ASSUME TypeInv, TurnInv, NEW r \in Rotations, SetOld(r) PROVE TurnInv'
<1>1. /\ Runs(r) /\ deployed' = deployed /\ rot'[r] = Idle /\ Done(r)
      /\ \A s \in Rotations \ {r} : rot'[s] = rot[s]
  BY SetOldStep DEF SetOld, Done, Runs
<1> QED BY <1>1, DoneTimer, EndTurn

LEMMA FailTurn == ASSUME TypeInv, TurnInv, NEW r \in Rotations, Fail(r) PROVE TurnInv'
<1>1. /\ Runs(r) /\ deployed' = deployed /\ rot'[r] = Idle
      /\ \A s \in Rotations \ {r} : rot'[s] = rot[s]
  BY FailStep DEF Runs
<1>2. timer' = timer \/ (Turn(r) /\ Schedule(rot[r].by))
  BY <1>1 DEF Fail, Turn
<1> QED BY <1>1, <1>2, EndTurn

LEMMA InitTurn == Init => TurnInv
<1> SUFFICES ASSUME Init PROVE TurnInv OBVIOUS
<1>1. (\A i \in Instances : timer[i] = 0) /\ \A r \in Rotations : rot[r].pc = "idle"
  BY IdleType DEF Init
<1> QED BY <1>1 DEF TurnInv, Turn, Runs

LEMMA NextTurn == TypeInv /\ TurnInv /\ [Next]_vars => TurnInv'
<1> SUFFICES ASSUME TypeInv, TurnInv, [Next]_vars PROVE TurnInv' OBVIOUS
<1>1. ASSUME UNCHANGED <<deployed, timer, rot>> PROVE TurnInv'
  BY <1>1, TurnKept DEF Runs
<1> QED BY <1>1, BootTurn, TimerTurn, FetchTurn, StopTurn, GetTurn, SetCurTurn, SetPubTurn,
           SetOldTurn, FailTurn DEF Next, Tick, vars

-----------------------------------------------------------------------------
(* One instance alone: between its turns lies the time that a public key is *)
(* given for.                                                               *)

OnceInv ==
  \A i \in Instances : deployed = {i} /\ ~client.herd /\ now < client.until =>
    /\ client.since <= 1
    /\ \A r \in Rotations : Runs(r) => rot[r].why = "timer"
    /\ timer[i] # 0 /\ timer[i] < client.until => client.since = 0
    /\ \A r \in Rotations : rot[r].pc \in {"get", "cur"} => client.since = 0

\* No rotation begins and no pair is given: those that go on go forward, and
\* the timer is set for after the client's time.
LEMMA OnceKept ==
  ASSUME OnceInv, deployed' = deployed, now' < client'.until => now < client.until,
         client'.until = client.until, client'.since = client.since, client'.herd = client.herd,
         \A r \in Rotations : /\ rot'[r].pc # "idle" => Runs(r) /\ rot'[r].why = rot[r].why
                              /\ rot'[r].pc \in {"get", "cur"} => rot[r].pc \in {"get", "cur"},
         \A i \in deployed \cap Instances :
           timer'[i] \in {timer[i], 0} \/ ~(timer'[i] < client.until)
  PROVE  OnceInv'
<1> SUFFICES ASSUME NEW i \in Instances, deployed' = {i}, ~client'.herd, now' < client'.until
             PROVE  /\ client'.since <= 1
                    /\ \A r \in Rotations : rot'[r].pc # "idle" => rot'[r].why = "timer"
                    /\ timer'[i] # 0 /\ timer'[i] < client'.until => client'.since = 0
                    /\ \A r \in Rotations : rot'[r].pc \in {"get", "cur"} => client'.since = 0
  BY DEF OnceInv, Runs
<1>1. /\ client.since <= 1
      /\ \A r \in Rotations : Runs(r) => rot[r].why = "timer"
      /\ timer[i] # 0 /\ timer[i] < client.until => client.since = 0
      /\ \A r \in Rotations : rot[r].pc \in {"get", "cur"} => client.since = 0
  BY DEF OnceInv
<1>2. timer'[i] \in {timer[i], 0} \/ ~(timer'[i] < client.until)
  OBVIOUS
<1>3. timer'[i] # 0 /\ timer'[i] < client'.until => client'.since = 0
  BY <1>1, <1>2
<1> QED BY <1>1, <1>3

\* While a client's key is good its public key is in Redis, and nothing but a
\* timer starts a rotation.
LEMMA KeyIsThere ==
  ASSUME TypeInv, ClientInv, now < client.until PROVE Live("pub")
  BY NumberTypes DEF ClientInv, Live, RedisKeys

\* The timer that is set now ends after the client's time.
LEMMA TimerIsLate ==
  ASSUME TypeInv, ClientInv, NEW j, Schedule(j), NEW i \in Instances
  PROVE  timer'[i] = timer[i] \/ ~(timer'[i] < client.until)
<1>1. timer'[i] = IF i = j THEN now + RotateSeconds ELSE timer[i]
  BY DEF Schedule, TypeInv, TypeOK
<1> QED BY <1>1, NumberTypes DEF ClientInv

\* With one instance, what is in progress beside its turn are its fetches.
LEMMA OneInstance ==
  ASSUME TurnInv, NEW i \in Instances, deployed = {i}
  PROVE  /\ \A r \in Rotations : Runs(r) => rot[r].by = i
         /\ \A r, s \in Rotations : Turn(r) /\ Turn(s) => r = s
         /\ \A r \in Rotations : Turn(r) => timer[i] = 0
<1>1. \A r \in Rotations : Runs(r) => rot[r].by = i
  BY DEF TurnInv
<1>2. \A r \in Rotations : Turn(r) => Runs(r) /\ rot[r].by = i
  BY <1>1 DEF Turn
<1>3. \A r, s \in Rotations : Turn(r) /\ Turn(s) /\ rot[r].by = rot[s].by => r = s
  BY DEF TurnInv
<1>4. \A r \in Rotations : Turn(r) => timer[i] = 0
  BY <1>2 DEF TurnInv
<1> QED BY <1>1, <1>2, <1>3, <1>4

LEMMA BeginOnce ==
  ASSUME TypeInv, ClientInv, NEW i \in Instances, ~Live("pub"), deployed' = deployed,
         UNCHANGED <<client, now>>
  PROVE  OnceInv'
<1>1. ~(now' < client'.until)
  BY KeyIsThere
<1> QED BY <1>1 DEF OnceInv

LEMMA BootOnce ==
  ASSUME TypeInv, ClientInv, OnceInv, NEW i \in Instances, Boot(i) PROVE OnceInv'
<1>1. CASE Live("pub")
  <2>1. Schedule(i) /\ UNCHANGED <<deployed, rot, client, now>>
    BY <1>1 DEF Boot
  <2>2. \A j \in Instances : timer'[j] \in {timer[j], 0} \/ ~(timer'[j] < client.until)
    BY <2>1, TimerIsLate
  <2> QED BY <2>1, <2>2, OnceKept DEF Runs
<1>2. CASE ~Live("pub")
  BY <1>2, BeginOnce DEF Boot, Begin
<1> QED BY <1>1, <1>2

LEMMA TimerOnce ==
  ASSUME TypeInv, TurnInv, OnceInv, NEW j \in Instances, Timer(j) PROVE OnceInv'
<1>1. timer[j] \in 1 .. now /\ timer' = [timer EXCEPT ![j] = 0] /\ Begin(j, "timer")
  BY DEF Timer
<1>2. PICK r \in Rotations, q \in Rotation :
        /\ Become(r, q) /\ q.pc = "get" /\ q.why = "timer"
        /\ UNCHANGED <<deployed, store, made, healthy, client, now>>
  BY <1>1, BeginStep
<1>3. rot'[r] = q /\ \A s \in Rotations \ {r} : rot'[s] = rot[s]
  BY <1>2, BecomeStep
<1> SUFFICES ASSUME NEW i \in Instances, deployed = {i}, ~client.herd, now < client.until
             PROVE  /\ client.since <= 1
                    /\ \A s \in Rotations : rot'[s].pc # "idle" => rot'[s].why = "timer"
                    /\ timer'[i] # 0 /\ timer'[i] < client.until => client.since = 0
                    /\ \A s \in Rotations : rot'[s].pc \in {"get", "cur"} => client.since = 0
  BY <1>2 DEF OnceInv, Runs
<1>4. /\ client.since <= 1
      /\ \A s \in Rotations : Runs(s) => rot[s].why = "timer"
      /\ timer[i] # 0 /\ timer[i] < client.until => client.since = 0
  BY DEF OnceInv
<1>5. timer[j] # 0 /\ timer[j] < client.until
  BY <1>1, NumberTypes
<1>6. j = i
  BY <1>5 DEF TurnInv
<1>7. timer'[i] = 0
  BY <1>1, <1>6 DEF TypeInv, TypeOK
<1> QED BY <1>2, <1>3, <1>4, <1>5, <1>6, <1>7 DEF Runs

\* Nobody waits for a pair of their own, so at most one rotation, the turn,
\* has set rsa:cur and not yet rsa:pub.
LEMMA FetchOnce ==
  ASSUME TypeInv, TurnInv, ClientInv, OnceInv, NEW j \in Instances, Fetch(j) PROVE OnceInv'
<1>1. CASE ~Live("pub")
  BY <1>1, BeginOnce DEF Fetch, Begin
<1>2. CASE Live("pub")
  <2> DEFINE atPub == {r \in Rotations : rot[r].pc = "pub"}
             n == Cardinality(atPub)
  <2>1. /\ UNCHANGED <<deployed, timer, rot, now>> /\ Up(j)
        /\ Given(store["pub"].pair, store["pub"].exp, n, healthy, Rotations)
    BY <1>2 DEF Fetch
  <2>2. /\ client'.since = n
        /\ client'.herd = \E r \in Rotations : rot[r].why = "fetch" /\ rot[r].pc # "idle"
    BY <2>1 DEF Given
  <2>3. IsFiniteSet(atPub)
    BY RsaAssumption, FS_Subset
  <2>4. atPub = {} => n = 0
    BY <2>3, FS_EmptySet
  <2>5. \A r : atPub = {r} => n = 1
    BY <2>3, FS_Singleton
  <2> HIDE DEF n
  <2> SUFFICES ASSUME NEW i \in Instances, deployed = {i}, ~client'.herd
               PROVE  /\ client'.since <= 1
                      /\ \A r \in Rotations : Runs(r) => rot[r].why = "timer"
                      /\ timer[i] # 0 => client'.since = 0
                      /\ \A r \in Rotations : rot[r].pc \in {"get", "cur"} => client'.since = 0
    BY <2>1 DEF OnceInv, Runs
  <2>6. \A r \in Rotations : Runs(r) => rot[r].by = i
    BY OneInstance
  <2>7. i = j /\ \A r \in Rotations : Runs(r) /\ rot[r].why = "init" => rot[r].by # i
    BY <2>1, UpInstance
  <2>8. \A r \in Rotations : Runs(r) => rot[r].why = "timer" /\ Turn(r)
    BY <2>2, <2>6, <2>7 DEF Runs, Turn, TypeInv, TypeOK, Rotation
  <2>9. \A r, s \in Rotations : Runs(r) /\ Runs(s) => r = s
    BY <2>8, OneInstance
  <2>10. \A r \in atPub : Runs(r) /\ atPub = {r} /\ timer[i] = 0
    BY <2>8, <2>9, OneInstance DEF Runs
  <2>11. n = 0 \/ (n = 1 /\ \E r \in atPub : atPub = {r} /\ timer[i] = 0)
    BY <2>4, <2>5, <2>10
  <2>12. \A r \in Rotations : rot[r].pc \in {"get", "cur"} => atPub = {}
    BY <2>9 DEF Runs
  <2> QED BY <2>2, <2>4, <2>8, <2>11, <2>12
<1> QED BY <1>1, <1>2

LEMMA StopOnce == ASSUME TypeInv, OnceInv, NEW i \in Instances, Stop(i) PROVE OnceInv'
<1>1. UNCHANGED <<deployed, rot, client, now>> /\ timer' = [timer EXCEPT ![i] = 0]
  BY DEF Stop
<1>2. \A j \in Instances : timer'[j] \in {timer[j], 0}
  BY <1>1 DEF TypeInv, TypeOK
<1> QED BY <1>1, <1>2, OnceKept DEF Runs

LEMMA GetOnce == ASSUME TypeInv, OnceInv, NEW r \in Rotations, Get(r) PROVE OnceInv'
<1>1. rot[r].pc = "get" /\ UNCHANGED <<deployed, timer, now>>
  BY DEF Get
<1>2. client'.until = client.until /\ client'.since = client.since /\ client'.herd = client.herd
  BY DEF Get, TypeInv, TypeOK, Client
<1> QED BY <1>1, <1>2, GetKeeps, OnceKept DEF Runs

\* rsa:cur is set in the instance's turn: once, and with no timer running.
LEMMA SetCurOnce ==
  ASSUME TypeInv, TurnInv, OnceInv, NEW r \in Rotations, SetCur(r) PROVE OnceInv'
<1>1. rot[r].pc = "cur" /\ Runs(r) /\ UNCHANGED <<deployed, timer, now>>
  BY DEF SetCur, Runs
<1>2. /\ client'.until = client.until /\ client'.herd = client.herd
      /\ client'.since = IF client.since < 2 THEN client.since + 1 ELSE client.since
  BY DEF SetCur, TypeInv, TypeOK, Client
<1>3. rot'[r].pc = "pub" /\ rot'[r].why = rot[r].why /\ \A s \in Rotations \ {r} : rot'[s] = rot[s]
  BY SetCurKeeps
<1> SUFFICES ASSUME NEW i \in Instances, deployed = {i}, ~client.herd, now < client.until
             PROVE  /\ client'.since <= 1
                    /\ \A s \in Rotations : rot'[s].pc # "idle" => rot'[s].why = "timer"
                    /\ timer[i] # 0 => client'.since = 0
                    /\ \A s \in Rotations : rot'[s].pc \in {"get", "cur"} => client'.since = 0
  BY <1>1, <1>2 DEF OnceInv, Runs
<1>4. client.since = 0 /\ \A s \in Rotations : Runs(s) => rot[s].why = "timer"
  BY <1>1 DEF OnceInv
<1>5. \A s \in Rotations : Runs(s) => Turn(s)
  BY <1>4 DEF Turn
<1>6. timer[i] = 0 /\ \A s \in Rotations : Runs(s) => s = r
  BY <1>1, <1>5, OneInstance
<1> QED BY <1>1, <1>2, <1>3, <1>4, <1>6 DEF Runs

\* A rotation ends; its client, if it has one, begins anew.
LEMMA EndOnce ==
  ASSUME TypeInv, TurnInv, ClientInv, OnceInv, NEW r \in Rotations, Runs(r), Done(r), Answer(r),
         now' = now
  PROVE  OnceInv'
<1>1. rot'[r] = Idle /\ (\A s \in Rotations \ {r} : rot'[s] = rot[s]) /\ deployed' = deployed
  BY BecomeStep DEF Done
<1>2. Idle.pc = "idle"
  BY IdleType
<1>3. CASE rot[r].why = "fetch"
  <2>1. /\ client'.since = 0
        /\ client'.herd = \E s \in Rotations \ {r} : rot[s].why = "fetch" /\ rot[s].pc # "idle"
    <3>1. Given(rot[r].new, now + TtlSeconds, 0, rot[r].alone, Rotations \ {r})
      BY <1>3 DEF Answer
    <3> QED BY <3>1 DEF Given
  <2> SUFFICES ASSUME NEW i \in Instances, deployed = {i}, ~client'.herd
               PROVE  \A s \in Rotations : rot'[s].pc # "idle" => rot'[s].why = "timer"
    BY <1>1, <2>1 DEF OnceInv, Runs
  <2> SUFFICES ASSUME NEW s \in Rotations \ {r}, Runs(s) PROVE rot[s].why = "timer"
    BY <1>1, <1>2 DEF Runs
  <2>2. rot[s].by = i /\ rot[r].by = i
    BY OneInstance
  <2>3. rot[s].why # "init"
    BY <2>2 DEF TurnInv
  <2>4. rot[s].why # "fetch"
    BY <2>1 DEF Runs
  <2> QED BY <2>3, <2>4 DEF TypeInv, TypeOK, Rotation
<1>4. CASE rot[r].why # "fetch"
  <2>1. client' = client /\ Schedule(rot[r].by)
    BY <1>4 DEF Answer, Done
  <2>2. \A j \in Instances : timer'[j] \in {timer[j], 0} \/ ~(timer'[j] < client.until)
    BY <2>1, TimerIsLate
  <2> QED BY <1>1, <1>2, <2>1, <2>2, OnceKept DEF Runs
<1> QED BY <1>3, <1>4

LEMMA SetPubOnce ==
  ASSUME TypeInv, TurnInv, ClientInv, OnceInv, NEW r \in Rotations, SetPub(r) PROVE OnceInv'
<1>1. rot[r].pc = "pub" /\ Runs(r) /\ now' = now
  BY SetPubStep DEF Runs
<1>2. CASE rot[r].last = NoPair
  BY <1>1, <1>2, EndOnce DEF SetPub
<1>3. CASE rot[r].last # NoPair
  <2>1. UNCHANGED <<deployed, timer, client, now>>
    BY <1>3 DEF SetPub
  <2>2. /\ rot'[r].pc = "old" /\ rot'[r].why = rot[r].why
        /\ \A s \in Rotations \ {r} : rot'[s] = rot[s]
    BY <1>3, SetPubStep
  <2> QED BY <1>1, <2>1, <2>2, OnceKept DEF Runs
<1> QED BY <1>2, <1>3

LEMMA SetOldOnce ==
  ASSUME TypeInv, TurnInv, ClientInv, OnceInv, NEW r \in Rotations, SetOld(r) PROVE OnceInv'
<1>1. Runs(r) /\ now' = now
  BY SetOldStep DEF Runs
<1> QED BY <1>1, EndOnce DEF SetOld

LEMMA FailOnce ==
  ASSUME TypeInv, ClientInv, OnceInv, NEW r \in Rotations, Fail(r) PROVE OnceInv'
<1>1. /\ rot'[r] = Idle /\ (\A s \in Rotations \ {r} : rot'[s] = rot[s])
      /\ UNCHANGED <<deployed, now>>
  BY FailStep
<1>2. Idle.pc = "idle"
  BY IdleType
<1>3. client'.until = client.until /\ client'.since = client.since /\ client'.herd = client.herd
  BY DEF Fail, TypeInv, TypeOK, Client
<1>4. \A j \in Instances : timer'[j] \in {timer[j], 0} \/ ~(timer'[j] < client.until)
  BY TimerIsLate DEF Fail
<1> QED BY <1>1, <1>2, <1>3, <1>4, OnceKept DEF Runs

LEMMA TickOnce == ASSUME TypeInv, OnceInv, Tick PROVE OnceInv'
<1>1. now' = now + 1 /\ UNCHANGED <<deployed, timer, rot, client>>
  BY DEF Tick
<1>2. now' < client.until => now < client.until
  BY <1>1, NumberTypes
<1> QED BY <1>1, <1>2, OnceKept DEF Runs

LEMMA InitOnce == Init => OnceInv
<1> SUFFICES ASSUME Init PROVE OnceInv OBVIOUS
<1>1. ~(now < client.until)
  BY DEF Init
<1> QED BY <1>1 DEF OnceInv

LEMMA NextOnce == TypeInv /\ ClientInv /\ TurnInv /\ OnceInv /\ [Next]_vars => OnceInv'
<1> SUFFICES ASSUME TypeInv, ClientInv, TurnInv, OnceInv, [Next]_vars PROVE OnceInv' OBVIOUS
<1>1. CASE UNCHANGED vars
  BY <1>1, OnceKept DEF vars, Runs
<1> QED BY <1>1, BootOnce, TimerOnce, FetchOnce, StopOnce, GetOnce, SetCurOnce, SetPubOnce,
           SetOldOnce, FailOnce, TickOnce DEF Next

\* One instance alone, however it fails or restarts, does not set rsa:cur
\* twice in the time that a client's public key is given for.
THEOREM OneInstanceOnce == Spec => []OneInstanceRotatesOnce
<1>1. TypeInv /\ OnceInv => OneInstanceRotatesOnce
  <2> SUFFICES ASSUME TypeInv, OnceInv, Cardinality(deployed) = 1, ~client.herd, now < client.until
               PROVE  client.since <= 1
    BY DEF OneInstanceRotatesOnce
  <2>1. IsFiniteSet(deployed) /\ deployed \subseteq Instances
    BY RsaAssumption, FS_Subset DEF TypeInv, TypeOK
  <2>2. PICK i : deployed = {i}
    BY <2>1, FS_Singleton
  <2> QED BY <2>1, <2>2 DEF OnceInv
<1> QED BY <1>1, InitType, NextType, InitStore, NextStore, InitClient, NextClient, InitTurn, NextTurn,
           InitOnce, NextOnce, PTL DEF Spec
==============================================================================
