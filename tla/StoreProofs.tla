---------------------------- MODULE StoreProofs -----------------------------
(* Proofs about the two components that keep what they write in two places, *)
(* for every value of their constants: Files (a row and an object), then    *)
(* Logs (a message and a row).                                              *)
EXTENDS Files, FiniteSetTheorems, TLAPS

-----------------------------------------------------------------------------
(* The inductive invariant: what a request in progress knows of its file.  *)

\* A request that is not about an avatar has a file.
Named(r) == req[r].pc \notin {"idle", "setAvatar"} => req[r].file \in FileIds

\* The file of an upload belongs to nobody else until it has its row.
Alone(r) ==
  req[r].pc \in {"put", "create"} =>
    /\ file[req[r].file] = "absent"
    /\ \A q \in Requests \ {r} : req[q].file # req[r].file

\* What a request has done already.
Stored(r)  == req[r].pc = "create" => req[r].file \in object
Removed(r) == req[r].pc = "deleteObject" => file[req[r].file] = "deleted"
Undone(r)  == req[r].pc = "undo" =>
                file[req[r].file] # "live" \/ req[r].file \in unanswered

\* Between the two of a deletion nobody but an overlap can give a user the file.
Given(r)  == req[r].pc = "setAvatar" /\ req[r].file \in FileIds \ overlapped =>
               /\ file[req[r].file] = "live"
               /\ \A q \in Requests : req[q].file = req[r].file =>
                    req[q].pc \notin {"deleteRow", "deleteCommit"}
Listed(r) == req[r].pc = "deleteCommit" /\ req[r].file \notin overlapped =>
               \A u \in Users : avatar[u] = req[r].file => u \in req[r].users

Knows == \A r \in Requests :
           Named(r) /\ Alone(r) /\ Stored(r) /\ Removed(r) /\ Undone(r) /\ Given(r) /\ Listed(r)

RowHasObject == \A f \in FileIds : Live(f) => f \in object \cup unanswered
ObjectHasRow == \A f \in FileIds :
  f \in object /\ ~Live(f) => f \in stray \cup Busy({"create", "undo", "deleteObject"})
AvatarHasRow == \A f \in FileIds, u \in Users :
  avatar[u] = f => Live(f) \/ f \in overlapped

IInv == TypeOK /\ Knows /\ RowHasObject /\ ObjectHasRow /\ AvatarHasRow

LEMMA Initially == Init => IInv
<1> SUFFICES ASSUME Init PROVE IInv
  OBVIOUS
<1>1. TypeOK
  <2>1. IdleRequest \in Request
    BY DEF IdleRequest, Request
  <2>2. faults \in 0 .. MaxFaults
    BY FilesAssumption DEF Init
  <2> QED BY <2>1, <2>2 DEF Init, TypeOK
<1>2. Knows
  BY DEF Init, IdleRequest, Knows, Named, Alone, Stored, Removed, Undone,
        Given, Listed
<1>3. RowHasObject /\ ObjectHasRow /\ AvatarHasRow
  BY FilesAssumption DEF Init, RowHasObject, ObjectHasRow, AvatarHasRow, Live
<1> QED BY <1>1, <1>2, <1>3 DEF IInv

LEMMA Summed == IInv => TypeOK /\ ObjectsMatchRows
  BY DEF IInv, ObjectsMatchRows, RowHasObject, ObjectHasRow, AvatarHasRow

-----------------------------------------------------------------------------
(* Steps that change the request only, or the request and the avatars.     *)

USE FilesAssumption DEF IInv, TypeOK, Request, IdleRequest, Knows, Named, Alone, Stored,
    Removed, Undone, Given, Listed, RowHasObject, ObjectHasRow, AvatarHasRow, Live, Busy, Begin, Goto, Return,
    Fault

LEMMA ModuleInitKeeps == IInv /\ OnModuleInit => IInv'
  BY DEF OnModuleInit

\* A request that begins knows nothing yet; an upload has a file of its own.
LEMMA BegunKeeps ==
  ASSUME IInv, NEW r \in Requests, NEW f \in FileIds,
         NEW pc \in {"put", "deleteRow", "getObject"},
         req[r].pc = "idle",
         req' = [req EXCEPT ![r] = [IdleRequest EXCEPT !.pc = pc, !.file = f]],
         UNCHANGED <<bucket, object, file, avatar, faults, unanswered, stray>>,
         overlapped' = IF pc = "deleteRow" THEN overlapped \cup ({f} \cap Busy({"setAvatar"}))
                       ELSE overlapped,
         pc = "put" => file[f] = "absent" /\ \A p \in Requests : req[p].file # f,
         pc # "put" => file[f] = "live"
  PROVE  IInv'
<1>1. TypeOK' /\ RowHasObject' /\ AvatarHasRow'
  <2>1. [IdleRequest EXCEPT !.pc = pc, !.file = f] \in Request
    OBVIOUS
  <2>2. req' \in [Requests -> Request]
    BY <2>1
  <2> QED BY <2>2
<1>2. ASSUME NEW p \in Requests
      PROVE  (/\ Named(p) /\ Alone(p) /\ Stored(p) /\ Removed(p) /\ Undone(p)
               /\ Given(p) /\ Listed(p))'
  <2>1. CASE p = r
    BY <2>1
  <2>2. CASE p # r
    <3>1. req'[p] = req[p]
      BY <2>2
    <3>2. Alone(p)'
      BY <3>1
    <3> QED BY <3>1, <3>2
  <2> QED BY <2>1, <2>2
<1>3. ObjectHasRow'
  <2>1. \A p \in Requests : req[p].pc \in {"create", "undo", "deleteObject"} => req'[p] = req[p]
    OBVIOUS
  <2> QED BY <2>1
<1> QED BY <1>1, <1>2, <1>3

LEMMA BeginKeeps ==
  ASSUME IInv, NEW r \in Requests, NEW f \in FileIds,
         UploadBegin(r, f) \/ DeleteBegin(r, f) \/ ProxyBegin(r, f)
  PROVE  IInv'
<1> HIDE DEF IInv
<1>1. CASE UploadBegin(r, f)
  <2>1. req' = [req EXCEPT ![r] = [IdleRequest EXCEPT !.pc = "put", !.file = f]]
    BY <1>1 DEF UploadBegin
  <2> QED BY <1>1, <2>1, BegunKeeps DEF UploadBegin
<1>2. CASE DeleteBegin(r, f)
  <2>1. req' = [req EXCEPT ![r] = [IdleRequest EXCEPT !.pc = "deleteRow", !.file = f]]
    BY <1>2 DEF DeleteBegin
  <2> QED BY <1>2, <2>1, BegunKeeps DEF DeleteBegin
<1>3. CASE ProxyBegin(r, f)
  <2>1. req' = [req EXCEPT ![r] = [IdleRequest EXCEPT !.pc = "getObject", !.file = f]]
    BY <1>3 DEF ProxyBegin
  <2> QED BY <1>3, <2>1, BegunKeeps DEF ProxyBegin
<1> QED BY <1>1, <1>2, <1>3

LEMMA AvatarKeeps ==
  ASSUME IInv, NEW r \in Requests,
         \/ \E u \in Users, f \in FileIds \cup {NoFile} : AvatarBegin(r, u, f)
         \/ SetAvatar(r)
         \/ GetObject(r)
  PROVE  IInv'
  BY DEF AvatarBegin, SetAvatar, GetObject

LEMMA PutKeeps ==
  ASSUME IInv, NEW r \in Requests,
         Put(r) \/ \E arrived \in BOOLEAN : PutFails(r, arrived)
  PROVE  IInv'
  BY DEF Put, PutFails

LEMMA CreateKeeps ==
  ASSUME IInv, NEW r \in Requests,
         Create(r) \/ \E arrived \in BOOLEAN : CreateFails(r, arrived)
  PROVE  IInv'
<1>1. CASE Create(r)
  BY <1>1 DEF Create
<1>2. ASSUME NEW arrived \in BOOLEAN, CreateFails(r, arrived) PROVE IInv'
  BY <1>2 DEF CreateFails
<1> QED BY <1>1, <1>2

LEMMA DeleteKeeps ==
  ASSUME IInv, NEW r \in Requests,
         DeleteRow(r) \/ DeleteCommit(r) \/ DeleteObject(r) \/ DeleteObjectFails(r) \/ Crash(r)
  PROVE  IInv'
  BY DEF DeleteRow, DeleteCommit, DeleteObject, DeleteObjectFails, Crash

-----------------------------------------------------------------------------
HIDE DEF IInv, TypeOK, Request, IdleRequest, Knows, Named, Alone, Stored, Removed, Undone,
     Given, Listed, RowHasObject, ObjectHasRow, AvatarHasRow, Live, Busy, Begin, Goto, Return, Fault

LEMMA Stutters == IInv /\ UNCHANGED vars => IInv'
  BY DEF IInv, TypeOK, Request, IdleRequest, Knows, Named, Alone, Stored, Removed, Undone,
     Given, Listed, RowHasObject, ObjectHasRow, AvatarHasRow, Live, Busy, vars

LEMMA Inductive == IInv /\ [Next]_vars => IInv'
<1> SUFFICES ASSUME IInv, [Next]_vars PROVE IInv'
  OBVIOUS
<1>1. CASE OnModuleInit
  BY <1>1, ModuleInitKeeps
<1>2. ASSUME NEW r \in Requests, Step(r) PROVE IInv'
  BY <1>2, BeginKeeps, AvatarKeeps, PutKeeps, CreateKeeps, DeleteKeeps DEF Step
<1>3. CASE UNCHANGED vars
  BY <1>3, Stutters
<1> QED BY <1>1, <1>2, <1>3 DEF Next

\* The variables of the file store keep their types.
THEOREM TypeCorrect == Spec => []TypeOK
<1>1. IInv => TypeOK
  BY Summed
<1> QED BY <1>1, Initially, Inductive, PTL DEF Spec

\* FileService writes the object before the row and deletes the row before the
\* object: in every execution, with any number of requests, a row has its
\* object and an object its row, but for what failures leave.
THEOREM RowsAndObjectsMatch == Spec => []ObjectsMatchRows
<1>1. IInv => ObjectsMatchRows
  BY Summed
<1> QED BY <1>1, Initially, Inductive, PTL DEF Spec
-----------------------------------------------------------------------------
(* Logs, as an instance of its own: Files has definitions of the same names. *)

CONSTANTS Entries, MaxTime, MaxLogFaults
VARIABLES now, entry, msg, rows, lost, logFaults

Logs == INSTANCE Logs WITH MaxFaults <- MaxLogFaults, faults <- logFaults

LogBounds == MaxTime \in Nat /\ MaxLogFaults \in Nat

LEMMA SameCardinality == \A S : Logs!Cardinality(S) = Cardinality(S)
  BY DEF Logs!Cardinality, Cardinality

LEMMA SameFinite == \A S : Logs!IsFiniteSet(S) <=> IsFiniteSet(S)
  BY DEF Logs!IsFiniteSet, IsFiniteSet

\* A row more, with a number of its own.
LEMMA InsertTypes ==
  ASSUME LogBounds, Logs!TypeOK, NEW e \in Entries, Logs!Insert(e)
  PROVE  rows' \subseteq Logs!Row /\ IsFiniteSet(rows')
<1> DEFINE n == Logs!Cardinality(Logs!Today(e))
           w == [entry |-> e, createdAt |-> now, nth |-> n]
<1>1. IsFiniteSet(rows) /\ rows \subseteq Logs!Row /\ now \in 0 .. MaxTime
  BY SameFinite DEF Logs!TypeOK
<1>2. Logs!Today(e) \in SUBSET rows
  BY DEF Logs!Today
<1>3. n \in Nat
  BY <1>1, <1>2, SameCardinality, FS_Subset, FS_CardinalityType
<1>4. rows' = rows \cup {w}
  BY DEF Logs!Insert
<1>5. w \in Logs!Row
  BY <1>1, <1>3 DEF Logs!Row
<1> HIDE DEF w
<1> QED BY <1>1, <1>4, <1>5, FS_AddElement

LEMMA RowTypes ==
  ASSUME LogBounds, Logs!TypeOK
  PROVE  /\ \A e \in Entries : Logs!Swallow(e) =>
              lost' \subseteq Entries /\ rows' = rows /\ logFaults' \in 0 .. MaxLogFaults
         /\ Logs!Fault => logFaults' \in 0 .. MaxLogFaults
         /\ \A e, pc : /\ Logs!Goto(e, pc)
                       /\ pc \in {"none", "getUser", "publish", "record", "done"}
                       => entry' \in [Entries -> Logs!Entry]
         /\ \A e, from, to : Logs!Move(e, from, to) /\ to \in Logs!MsgStates
                       => msg' \in [Entries -> Logs!MsgStates]
  BY DEF LogBounds, Logs!TypeOK, Logs!Swallow, Logs!Fault, Logs!Goto, Logs!Entry,
         Logs!Move

LEMMA LogsInitially == LogBounds /\ Logs!Init => Logs!TypeOK
<1> SUFFICES ASSUME LogBounds, Logs!Init PROVE Logs!TypeOK
  OBVIOUS
<1>1. Logs!NoEntry \in Logs!Entry /\ "none" \in Logs!MsgStates
  BY DEF Logs!NoEntry, Logs!Entry, Logs!Kinds, Logs!MsgStates
<1>2. Logs!IsFiniteSet(rows)
  BY SameFinite, FS_EmptySet DEF Logs!Init
<1> QED BY <1>1, <1>2 DEF LogBounds, Logs!Init, Logs!TypeOK

\* The steps of the process that logs.
LEMMA LogTypes ==
  ASSUME LogBounds, Logs!TypeOK, NEW e \in Entries,
         \/ \E k \in Logs!Kinds : Logs!Finish(e, k)
         \/ Logs!Log(e) \/ Logs!ProcessDies(e)
  PROVE  Logs!TypeOK'
<1>1. ASSUME NEW k \in Logs!Kinds, Logs!Finish(e, k) PROVE Logs!TypeOK'
  BY <1>1 DEF Logs!Finish, Logs!TypeOK, Logs!Entry
<1>2. CASE Logs!GetUser(e)
  BY <1>2, RowTypes DEF Logs!GetUser, Logs!TypeOK
<1>3. CASE Logs!Publish(e)
  BY <1>3, RowTypes DEF Logs!Publish, Logs!TypeOK, Logs!MsgStates
<1>4. ASSUME NEW arrived \in BOOLEAN, Logs!PublishFails(e, arrived) PROVE Logs!TypeOK'
  BY <1>4, RowTypes DEF Logs!PublishFails, Logs!TypeOK, Logs!MsgStates
<1>5. CASE Logs!RecordNow(e)
  <2>1. entry' \in [Entries -> Logs!Entry] /\ UNCHANGED <<now, msg>>
    BY <1>5, RowTypes DEF Logs!RecordNow
  <2>2. CASE Logs!Insert(e)
    BY <2>1, <2>2, InsertTypes, SameFinite DEF Logs!TypeOK, Logs!Insert
  <2>3. CASE Logs!Swallow(e)
    BY <2>1, <2>3, RowTypes DEF Logs!TypeOK
  <2> QED BY <1>5, <2>2, <2>3 DEF Logs!RecordNow
<1>6. CASE Logs!ProcessDies(e)
  BY <1>6, RowTypes DEF Logs!ProcessDies, Logs!TypeOK
<1> QED BY <1>1, <1>2, <1>3, <1>4, <1>5, <1>6 DEF Logs!Log

\* The steps of the broker and of a consumer.
LEMMA ProcessTypes ==
  ASSUME LogBounds, Logs!TypeOK, NEW e \in Entries, Logs!Process(e) \/ Logs!ConsumerDies(e)
  PROVE  Logs!TypeOK'
<1> USE DEF Logs!MsgStates
<1>1. CASE Logs!Deliver(e) \/ Logs!Ack(e)
  BY <1>1, RowTypes DEF Logs!Deliver, Logs!Ack, Logs!TypeOK
<1>2. CASE Logs!Consume(e)
  <2>1. msg' \in [Entries -> Logs!MsgStates] /\ UNCHANGED <<now, entry>>
    BY <1>2, RowTypes DEF Logs!Consume
  <2>2. CASE Logs!Insert(e)
    BY <2>1, <2>2, InsertTypes, SameFinite DEF Logs!TypeOK, Logs!Insert
  <2>3. CASE Logs!Swallow(e)
    BY <2>1, <2>3, RowTypes DEF Logs!TypeOK
  <2> QED BY <1>2, <2>2, <2>3 DEF Logs!Consume
<1>3. CASE Logs!ConsumerDies(e)
  BY <1>3, RowTypes DEF Logs!ConsumerDies, Logs!TypeOK
<1> QED BY <1>1, <1>2, <1>3 DEF Logs!Process

LEMMA LogStepTypes ==
  ASSUME LogBounds, Logs!TypeOK, [Logs!Next]_(Logs!vars)
  PROVE  Logs!TypeOK'
<1>1. ASSUME NEW k \in Logs!Kinds, NEW keepDays \in 1 .. MaxTime, Logs!Clean(k, keepDays)
      PROVE  Logs!TypeOK'
  <2>1. rows' \in SUBSET rows
    BY <1>1 DEF Logs!Clean
  <2>2. Logs!IsFiniteSet(rows')
    BY <2>1, SameFinite, FS_Subset DEF Logs!TypeOK
  <2> QED BY <1>1, <2>1, <2>2 DEF Logs!Clean, Logs!TypeOK
<1>2. CASE Logs!Tick
  BY <1>2 DEF LogBounds, Logs!Tick, Logs!TypeOK
<1>3. CASE UNCHANGED Logs!vars
  BY <1>3 DEF Logs!vars, Logs!TypeOK
<1> QED BY <1>1, <1>2, <1>3, LogTypes, ProcessTypes DEF Logs!Next

\* A step that takes an entry off its way has written it or lost it.
LEMMA LogStepKeeps ==
  ASSUME Logs!TypeOK, [Logs!Next]_(Logs!vars),
         NEW e \in Entries, Logs!OnItsWay(e), ~Logs!OnItsWay(e)'
  PROVE  (e \in lost \/ \E w \in rows : w.entry = e)'
<1> USE DEF Logs!TypeOK, Logs!OnItsWay, Logs!Entry, Logs!Goto, Logs!Move
<1>1. ASSUME NEW d \in Entries, Logs!Insert(d) PROVE (\E w \in rows : w.entry = d)'
  <2>1. [entry |-> d, createdAt |-> now, nth |-> Logs!Cardinality(Logs!Today(d))] \in rows'
    BY <1>1 DEF Logs!Insert
  <2> QED BY <2>1
<1>2. ASSUME NEW d \in Entries, NEW k \in Logs!Kinds, Logs!Finish(d, k) PROVE FALSE
  BY <1>2 DEF Logs!Finish
<1>3. ASSUME NEW d \in Entries, Logs!GetUser(d) PROVE FALSE
  BY <1>3 DEF Logs!GetUser
<1>4. ASSUME NEW d \in Entries, Logs!Publish(d) PROVE FALSE
  BY <1>4 DEF Logs!Publish
<1>5. ASSUME NEW d \in Entries, NEW arrived \in BOOLEAN, Logs!PublishFails(d, arrived)
      PROVE  FALSE
  BY <1>5 DEF Logs!PublishFails
<1>6. ASSUME NEW d \in Entries, Logs!RecordNow(d) PROVE d = e /\ (Logs!Insert(d) \/ Logs!Swallow(d))
  BY <1>6 DEF Logs!RecordNow
<1>7. ASSUME NEW d \in Entries, Logs!ProcessDies(d) PROVE e \in lost'
  BY <1>7 DEF Logs!ProcessDies
<1>8. ASSUME NEW d \in Entries, Logs!Deliver(d) \/ Logs!Ack(d) \/ Logs!ConsumerDies(d)
      PROVE  FALSE
  BY <1>8 DEF Logs!Deliver, Logs!Ack, Logs!ConsumerDies
<1>9. ASSUME NEW d \in Entries, Logs!Consume(d) PROVE d = e /\ (Logs!Insert(d) \/ Logs!Swallow(d))
  BY <1>9 DEF Logs!Consume
<1>10. ASSUME NEW k \in Logs!Kinds, NEW keepDays \in 1 .. MaxTime, Logs!Clean(k, keepDays)
       PROVE  FALSE
  BY <1>10 DEF Logs!Clean
<1>11. CASE Logs!Tick \/ UNCHANGED Logs!vars
  BY <1>11 DEF Logs!Tick, Logs!vars
<1>12. Logs!Swallow(e) => e \in lost'
  BY DEF Logs!Swallow
<1> QED
  BY <1>1, <1>2, <1>3, <1>4, <1>5, <1>6, <1>7, <1>8, <1>9, <1>10, <1>11, <1>12
     DEF Logs!Next, Logs!Log, Logs!Process

-----------------------------------------------------------------------------
\* However processes, broker, consumers and clean-ups take turns, every row is of
\* an entry, and dated within the days, whether the consumer or the fallback of
\* the process wrote it.
THEOREM LogsTypes == LogBounds => (Logs!Spec => []Logs!TypeOK)
<1> SUFFICES ASSUME LogBounds PROVE Logs!Spec => []Logs!TypeOK
  OBVIOUS
<1>1. Logs!Init => Logs!TypeOK
  BY LogsInitially
<1>2. Logs!TypeOK /\ [Logs!Next]_(Logs!vars) => Logs!TypeOK'
  BY LogStepTypes
<1> QED BY <1>1, <1>2, PTL DEF Logs!Spec

\* operation-log.interceptor.ts:225, of every step: an entry that is about to be
\* published or recorded, or waits in the queue, gets out of there only by being
\* written or by being lost to a failed insert or a dead process.
THEOREM LogsDropNothing == LogBounds => (Logs!Spec => Logs!NoEntryIsDropped)
<1> SUFFICES ASSUME LogBounds PROVE Logs!Spec => Logs!NoEntryIsDropped
  OBVIOUS
<1>1. Logs!TypeOK /\ [Logs!Next]_(Logs!vars) =>
        [\A e \in Entries : Logs!OnItsWay(e) /\ ~Logs!OnItsWay(e)'
                              => (e \in lost \/ \E w \in rows : w.entry = e)']_(Logs!vars)
  BY LogStepKeeps
<1> QED BY <1>1, LogsTypes, PTL DEF Logs!Spec, Logs!NoEntryIsDropped

-----------------------------------------------------------------------------
(* How often an entry is written.                                           *)

\* The rows an entry can still get, from its process and from the queue.
FromProcess(e) == IF entry[e].pc # "done" THEN 1 ELSE 0
FromQueue(e)   == IF msg[e] \in {"queued", "delivered"} THEN 1 ELSE 0

\* Every row of an entry, written or to come, but the first has its fault.
PaidFor(e) == Cardinality(Logs!RowsOf(e)) + FromProcess(e) + FromQueue(e) <= 1 + logFaults

Paid == IsFiniteSet(rows) /\ \A e \in Entries : PaidFor(e)

LEMMA RowsFinite ==
  ASSUME IsFiniteSet(rows), NEW e
  PROVE  IsFiniteSet(Logs!RowsOf(e)) /\ Cardinality(Logs!RowsOf(e)) \in Nat
<1>1. Logs!RowsOf(e) \in SUBSET rows
  BY DEF Logs!RowsOf
<1> QED BY <1>1, FS_Subset, FS_CardinalityType

\* An insert gives one entry one row more at most.
LEMMA InsertCounts ==
  ASSUME IsFiniteSet(rows), NEW d \in Entries, Logs!Insert(d)
  PROVE  /\ IsFiniteSet(rows')
         /\ \A e \in Entries : Cardinality(Logs!RowsOf(e)')
              <= Cardinality(Logs!RowsOf(e)) + (IF e = d THEN 1 ELSE 0)
<1> DEFINE w == [entry |-> d, createdAt |-> now, nth |-> Logs!Cardinality(Logs!Today(d))]
<1>1. rows' = rows \cup {w} /\ w.entry = d
  BY DEF Logs!Insert
<1> HIDE DEF w
<1>2. IsFiniteSet(rows')
  BY <1>1, FS_AddElement
<1>3. ASSUME NEW e \in Entries
      PROVE  Cardinality(Logs!RowsOf(e)')
               <= Cardinality(Logs!RowsOf(e)) + (IF e = d THEN 1 ELSE 0)
  <2>1. IsFiniteSet(Logs!RowsOf(e)) /\ Cardinality(Logs!RowsOf(e)) \in Nat
    BY RowsFinite
  <2>2. CASE e = d
    <3>1. Logs!RowsOf(e)' = Logs!RowsOf(e) \cup {w}
      BY <1>1, <2>2 DEF Logs!RowsOf
    <3>2. PICK S : S = Logs!RowsOf(e)
      OBVIOUS
    <3>3. IsFiniteSet(S) /\ Cardinality(S) \in Nat
      BY <2>1, <3>2
    <3>4. Cardinality(S \cup {w}) = IF w \in S THEN Cardinality(S) ELSE Cardinality(S) + 1
      BY <3>3, FS_AddElement
    <3> QED BY <2>2, <3>1, <3>2, <3>3, <3>4
  <2>3. CASE e # d
    <3>1. Logs!RowsOf(e)' = Logs!RowsOf(e)
      BY <1>1, <2>3 DEF Logs!RowsOf
    <3> QED BY <2>1, <2>3, <3>1
  <2> QED BY <2>2, <2>3
<1> QED BY <1>2, <1>3

\* A step that writes no row: what may still be written grows with the faults.
LEMMA QuietPays ==
  ASSUME LogBounds, Logs!TypeOK, Paid, NEW d \in Entries, UNCHANGED rows,
         \A e \in Entries \ {d} : entry'[e] = entry[e] /\ msg'[e] = msg[e],
         logFaults' \in Nat, logFaults <= logFaults',
         FromProcess(d)' + FromQueue(d)' + logFaults
           <= FromProcess(d) + FromQueue(d) + logFaults'
  PROVE  Paid'
<1>1. ASSUME NEW e \in Entries PROVE PaidFor(e)'
  <2>1. Logs!RowsOf(e)' = Logs!RowsOf(e) /\ Cardinality(Logs!RowsOf(e)) \in Nat
    BY RowsFinite DEF Logs!RowsOf, Paid
  <2>2. logFaults \in Nat
    BY DEF LogBounds, Logs!TypeOK
  <2>3. FromProcess(e)' + FromQueue(e)' + logFaults
           <= FromProcess(e) + FromQueue(e) + logFaults'
    BY <2>2 DEF FromProcess, FromQueue
  <2>4. /\ FromProcess(e) \in Nat /\ FromQueue(e) \in Nat
        /\ FromProcess(e)' \in Nat /\ FromQueue(e)' \in Nat
    BY DEF FromProcess, FromQueue
  <2>5. PaidFor(e)
    BY DEF Paid
  <2> QED BY <2>1, <2>2, <2>3, <2>4, <2>5 DEF PaidFor
<1> QED BY <1>1 DEF Paid

\* A step that writes a row, or loses it: one row less may still be written.
LEMMA WritePays ==
  ASSUME LogBounds, Logs!TypeOK, Paid, NEW d \in Entries, Logs!Insert(d) \/ Logs!Swallow(d),
         \A e \in Entries \ {d} : entry'[e] = entry[e] /\ msg'[e] = msg[e],
         FromProcess(d)' + FromQueue(d)' + 1 <= FromProcess(d) + FromQueue(d)
  PROVE  Paid'
<1>0. logFaults \in Nat
  BY DEF LogBounds, Logs!TypeOK
<1>1. CASE Logs!Insert(d)
  <2>1. IsFiniteSet(rows) /\ IsFiniteSet(rows') /\ logFaults' = logFaults
    BY <1>1, InsertCounts DEF Paid, Logs!Insert
  <2>2. ASSUME NEW e \in Entries PROVE PaidFor(e)'
    <3>1. Cardinality(Logs!RowsOf(e)')
             <= Cardinality(Logs!RowsOf(e)) + (IF e = d THEN 1 ELSE 0)
      BY <1>1, <2>1, InsertCounts
    <3>2. Cardinality(Logs!RowsOf(e)) \in Nat
      BY <2>1, RowsFinite
    <3>3. Cardinality(Logs!RowsOf(e)') \in Nat
      BY <2>1, RowsFinite, FS_CardinalityType, FS_Subset DEF Logs!RowsOf
    <3>4. FromProcess(e)' + FromQueue(e)' + (IF e = d THEN 1 ELSE 0)
            <= FromProcess(e) + FromQueue(e)
      BY DEF FromProcess, FromQueue
    <3>5. /\ FromProcess(e) \in Nat /\ FromQueue(e) \in Nat
          /\ FromProcess(e)' \in Nat /\ FromQueue(e)' \in Nat
      BY DEF FromProcess, FromQueue
    <3>6. PaidFor(e)
      BY DEF Paid
    <3> QED BY <1>0, <2>1, <3>1, <3>2, <3>3, <3>4, <3>5, <3>6 DEF PaidFor
  <2> QED BY <2>1, <2>2 DEF Paid
<1>2. CASE Logs!Swallow(d)
  <2>1. UNCHANGED rows /\ logFaults' = logFaults + 1
    BY <1>2 DEF Logs!Swallow, Logs!Fault
  <2>2. /\ FromProcess(d) \in Nat /\ FromQueue(d) \in Nat
        /\ FromProcess(d)' \in Nat /\ FromQueue(d)' \in Nat
    BY DEF FromProcess, FromQueue
  <2>3. /\ logFaults' \in Nat /\ logFaults <= logFaults'
        /\ FromProcess(d)' + FromQueue(d)' + logFaults
             <= FromProcess(d) + FromQueue(d) + logFaults'
    BY <1>0, <2>1, <2>2
  <2> QED BY <2>1, <2>3, QuietPays
<1> QED BY <1>1, <1>2

LEMMA PaidStep ==
  ASSUME LogBounds, Logs!TypeOK, Paid, [Logs!Next]_(Logs!vars)
  PROVE  Paid'
<1> USE DEF Logs!TypeOK, Logs!Entry, Logs!Goto, Logs!Move, Logs!Fault, FromProcess, FromQueue
<1>0. logFaults \in Nat
  BY DEF LogBounds
<1>1. ASSUME NEW d \in Entries, NEW k \in Logs!Kinds, Logs!Finish(d, k) PROVE Paid'
  BY <1>0, <1>1, QuietPays DEF Logs!Finish
<1>2. ASSUME NEW d \in Entries, Logs!GetUser(d) PROVE Paid'
  BY <1>0, <1>2, QuietPays DEF Logs!GetUser
<1>3. ASSUME NEW d \in Entries, Logs!Publish(d) PROVE Paid'
  BY <1>0, <1>3, QuietPays DEF Logs!Publish
<1>4. ASSUME NEW d \in Entries, NEW arrived \in BOOLEAN, Logs!PublishFails(d, arrived)
      PROVE  Paid'
  BY <1>0, <1>4, QuietPays DEF Logs!PublishFails
<1>5. ASSUME NEW d \in Entries, Logs!RecordNow(d) PROVE Paid'
  BY <1>5, WritePays DEF Logs!RecordNow
<1>6. ASSUME NEW d \in Entries, Logs!ProcessDies(d) PROVE Paid'
  BY <1>0, <1>6, QuietPays DEF Logs!ProcessDies
<1>7. ASSUME NEW d \in Entries, Logs!Deliver(d) \/ Logs!Ack(d) PROVE Paid'
  BY <1>0, <1>7, QuietPays DEF Logs!Deliver, Logs!Ack
<1>8. ASSUME NEW d \in Entries, Logs!Consume(d) PROVE Paid'
  BY <1>8, WritePays DEF Logs!Consume
<1>9. ASSUME NEW d \in Entries, Logs!ConsumerDies(d) PROVE Paid'
  BY <1>0, <1>9, QuietPays DEF Logs!ConsumerDies
<1>10. ASSUME NEW k \in Logs!Kinds, NEW keepDays \in 1 .. MaxTime, Logs!Clean(k, keepDays)
       PROVE  Paid'
  <2>1. rows' \in SUBSET rows /\ UNCHANGED <<entry, msg, logFaults>>
    BY <1>10 DEF Logs!Clean
  <2>2. IsFiniteSet(rows) /\ IsFiniteSet(rows')
    BY <2>1, FS_Subset DEF Paid
  <2>3. ASSUME NEW e \in Entries PROVE PaidFor(e)'
    <3>1. Logs!RowsOf(e)' \in SUBSET Logs!RowsOf(e)
      BY <2>1 DEF Logs!RowsOf
    <3>2. /\ Cardinality(Logs!RowsOf(e)') \in Nat /\ Cardinality(Logs!RowsOf(e)) \in Nat
          /\ Cardinality(Logs!RowsOf(e)') <= Cardinality(Logs!RowsOf(e))
      BY <2>2, <3>1, RowsFinite, FS_Subset, FS_CardinalityType
    <3>3. PaidFor(e)
      BY DEF Paid
    <3> QED BY <1>0, <2>1, <3>2, <3>3 DEF PaidFor
  <2> QED BY <2>2, <2>3 DEF Paid
<1>11. CASE Logs!Tick \/ UNCHANGED Logs!vars
  BY <1>11 DEF Logs!Tick, Logs!vars, Paid, PaidFor, Logs!RowsOf
<1> QED
  BY <1>1, <1>2, <1>3, <1>4, <1>5, <1>6, <1>7, <1>8, <1>9, <1>10, <1>11
     DEF Logs!Next, Logs!Log, Logs!Process

\* Publishing with a fallback and acknowledging after the insert log an entry at
\* least once; they log it once more at most for every fault, in any order of
\* failures, deaths and clean-ups.
THEOREM LogsWriteOnce == LogBounds => (Logs!Spec => []Logs!WrittenOncePerFault)
<1> SUFFICES ASSUME LogBounds PROVE Logs!Spec => []Logs!WrittenOncePerFault
  OBVIOUS
<1>1. Logs!Init => Paid
  <2> SUFFICES ASSUME Logs!Init PROVE Paid
    OBVIOUS
  <2>1. IsFiniteSet(rows) /\ \A e \in Entries : Logs!RowsOf(e) = {}
    BY FS_EmptySet DEF Logs!Init, Logs!RowsOf
  <2>2. \A e \in Entries : Cardinality(Logs!RowsOf(e)) = 0
    BY <2>1, FS_EmptySet
  <2>3. \A e \in Entries : FromProcess(e) = 1 /\ FromQueue(e) = 0 /\ logFaults = 0
    BY DEF Logs!Init, Logs!NoEntry, FromProcess, FromQueue
  <2> QED BY <2>1, <2>2, <2>3 DEF Paid, PaidFor
<1>2. Logs!TypeOK /\ Paid /\ [Logs!Next]_(Logs!vars) => Paid'
  BY PaidStep
<1>3. Logs!TypeOK /\ Paid => Logs!WrittenOncePerFault
  <2> SUFFICES ASSUME Logs!TypeOK, Paid, NEW e \in Entries
               PROVE  Cardinality(Logs!RowsOf(e)) <= 1 + logFaults
    BY SameCardinality DEF Logs!WrittenOncePerFault
  <2>1. Cardinality(Logs!RowsOf(e)) \in Nat /\ PaidFor(e) /\ logFaults \in Nat
    BY RowsFinite DEF Paid, LogBounds, Logs!TypeOK
  <2>2. FromProcess(e) \in Nat /\ FromQueue(e) \in Nat
    BY DEF FromProcess, FromQueue
  <2> QED BY <2>1, <2>2 DEF PaidFor
<1> QED BY <1>1, <1>2, <1>3, LogsTypes, PTL DEF Logs!Spec
=============================================================================
