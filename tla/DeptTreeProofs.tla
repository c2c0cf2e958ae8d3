--------------------------- MODULE DeptTreeProofs ---------------------------
(* Proofs about DeptTree, for every value of its constants. *)
EXTENDS DeptTree, FiniteSetTheorems, TLAPS

-----------------------------------------------------------------------------
(* Type correctness.                                                        *)

\* A request as new replaces request r.
LEMMA BecomeType ==
  ASSUME TypeOK, NEW r \in Requests, NEW q \in Request, Aimed(q), Become(r, q)
  PROVE  req' \in [Requests -> Request] /\ \A s \in Requests : Aimed(req'[s])
  BY DEF TypeOK, Become

LEMMA IdleType == IdleRequest \in Request /\ Aimed(IdleRequest)
  BY DEF IdleRequest, Request, Aimed, DeptOrNull, WriterPcs, CreatePcs, UpdatePcs, RemovePcs,
     UserPcs

LEMMA ReturnType ==
  ASSUME TypeOK, NEW r \in Requests, Return(r)
  PROVE  req' \in [Requests -> Request] /\ \A s \in Requests : Aimed(req'[s])
  BY IdleType, BecomeType DEF Return

LEMMA RacedType == TypeOK => \A op : NowRaced(op) \subseteq {"update", "remove"}
  BY DEF TypeOK, NowRaced

\* What the first read of each operation leaves in the request.
LEMMA BeginType ==
  ASSUME TypeOK, NEW r \in Requests, NEW op, NEW q \in Request, Aimed(q), Begin(r, op, q)
  PROVE  TypeOK'
<1>1. Become(r, q)
  BY DEF Begin, Become
<1> QED BY <1>1, BecomeType, RacedType DEF Begin, TypeOK

LEMMA CreateReadType ==
  ASSUME TypeOK, NEW r \in Requests, NEW p \in DeptOrNull, CreateRead(r, p)
  PROVE  TypeOK'
<1> DEFINE q == [IdleRequest EXCEPT !.pc = "createWrite", !.parent = p]
<1>1. q \in Request /\ Aimed(q)
  BY DEF IdleRequest, Request, Aimed, DeptOrNull, WriterPcs, CreatePcs, UpdatePcs, RemovePcs,
     UserPcs
<1>2. Begin(r, "create", q)
  BY DEF CreateRead
<1> QED BY <1>1, <1>2, BeginType

LEMMA UpdateReadType ==
  ASSUME TypeOK, NEW r \in Requests, NEW d \in Depts, NEW p \in DeptOrNull, UpdateRead(r, d, p)
  PROVE  TypeOK'
<1> DEFINE q == [IdleRequest EXCEPT
       !.pc = IF p \in {NoDept, dept[d].parentId} THEN "updateWrite" ELSE "checkParent",
       !.dept = d, !.parent = p]
<1>1. q \in Request /\ Aimed(q)
  BY DEF IdleRequest, Request, Aimed, DeptOrNull, WriterPcs, CreatePcs, UpdatePcs, RemovePcs,
     UserPcs
<1>2. Begin(r, "update", q)
  BY DEF UpdateRead
<1> QED BY <1>1, <1>2, BeginType

LEMMA RemoveReadType ==
  ASSUME TypeOK, NEW r \in Requests, NEW d \in Depts, RemoveRead(r, d)
  PROVE  TypeOK'
<1> DEFINE q == [IdleRequest EXCEPT !.pc = "countChildren", !.dept = d]
<1>1. q \in Request /\ Aimed(q)
  BY DEF IdleRequest, Request, Aimed, DeptOrNull, WriterPcs, CreatePcs, UpdatePcs, RemovePcs,
     UserPcs
<1>2. Begin(r, "remove", q)
  BY DEF RemoveRead
<1> QED BY <1>1, <1>2, BeginType

LEMMA UserReadType ==
  ASSUME TypeOK, NEW r \in Requests, NEW u \in Users, NEW d \in DeptOrNull, UserRead(r, u, d)
  PROVE  TypeOK'
<1> DEFINE q == [IdleRequest EXCEPT
       !.pc = IF d \in {NoDept, user[u].deptId} THEN "userWrite" ELSE "checkDept",
       !.user = u, !.parent = d]
<1>1. q \in Request /\ Aimed(q)
  BY DEF IdleRequest, Request, Aimed, DeptOrNull, WriterPcs, CreatePcs, UpdatePcs, RemovePcs,
     UserPcs
<1>2. Begin(r, "userUpdate", q)
  BY DEF UserRead
<1> QED BY <1>1, <1>2, BeginType

LEMMA ScopeCountType ==
  ASSUME TypeOK, NEW r \in Requests, NEW u \in Users, NEW S \in SUBSET Depts,
         ScopeCount(r, u, S)
  PROVE  TypeOK'
<1> DEFINE q == [IdleRequest EXCEPT !.pc = "scopeWrite", !.user = u, !.custom = S]
<1>1. q \in Request /\ Aimed(q)
  BY DEF IdleRequest, Request, Aimed, DeptOrNull, WriterPcs, CreatePcs, UpdatePcs, RemovePcs,
     UserPcs
<1>2. Begin(r, "assignDataScope", q)
  BY DEF ScopeCount
<1> QED BY <1>1, <1>2, BeginType

-----------------------------------------------------------------------------
(* The steps after the first read.                                          *)

\* The request goes on to a step that needs what it already has.
LEMMA GotoType ==
  ASSUME TypeOK, NEW r \in Requests, NEW pc,
         [req[r] EXCEPT !.pc = pc] \in Request, Aimed([req[r] EXCEPT !.pc = pc]),
         Goto(r, pc)
  PROVE  req' \in [Requests -> Request] /\ \A s \in Requests : Aimed(req'[s])
<1> DEFINE q == [req[r] EXCEPT !.pc = pc]
<1>1. q \in Request /\ Aimed(q) /\ Become(r, q)
  BY DEF Goto
<1> HIDE DEF q
<1> QED BY <1>1, BecomeType

LEMMA CreateWriteType ==
  ASSUME TypeOK, NEW r \in Requests, CreateWrite(r)
  PROVE  TypeOK'
<1>1. req[r] \in Request
  BY DEF TypeOK
<1>2. dept' \in [Depts -> Dept]
  BY <1>1 DEF TypeOK, CreateWrite, Dept, Request
<1> QED BY <1>2, ReturnType DEF CreateWrite, TypeOK

LEMMA CheckParentType ==
  ASSUME TypeOK, NEW r \in Requests, CheckParent(r)
  PROVE  TypeOK'
<1> DEFINE q == [req[r] EXCEPT !.pc = "assertNoCycle", !.at = req[r].parent]
<1>1. req[r] \in Request /\ Aimed(req[r]) /\ req[r].pc = "checkParent"
  BY DEF TypeOK, CheckParent
<1>2. q \in Request /\ Aimed(q)
  BY <1>1 DEF Request, Aimed, DeptOrNull, WriterPcs, CreatePcs, UpdatePcs, RemovePcs, UserPcs
<1>3. Become(r, q) \/ Return(r)
  BY DEF CheckParent
<1>4. req' \in [Requests -> Request] /\ \A s \in Requests : Aimed(req'[s])
  <2>1. CASE Return(r) BY <2>1, ReturnType
  <2>2. CASE Become(r, q)
    <3> HIDE DEF q
    <3> QED BY <1>2, <2>2, BecomeType
  <2> QED BY <1>3, <2>1, <2>2
<1> QED BY <1>4 DEF CheckParent, TypeOK

\* Where a walk goes on: a department or the end.
LEMMA ParentOfType ==
  ASSUME TypeOK, NEW d \in DeptOrNull
  PROVE  ParentOf(d) \in DeptOrNull
  BY DEF TypeOK, ParentOf, Found, Dept, DeptOrNull

LEMMA AssertNoCycleType ==
  ASSUME TypeOK, NEW r \in Requests, AssertNoCycle(r)
  PROVE  TypeOK'
<1> DEFINE next == ParentOf(req[r].at)
           ends == next = NoDept \/ next \in req[r].visited \cup {req[r].at}
           pc   == IF ends THEN "updateWrite" ELSE "assertNoCycle"
           q    == [req[r] EXCEPT !.pc = pc, !.at = next, !.visited = @ \cup {req[r].at}]
<1>1. req[r] \in Request /\ Aimed(req[r]) /\ req[r].pc = "assertNoCycle"
  BY DEF TypeOK, AssertNoCycle
<1>2. req[r].at \in Depts /\ req[r].parent \in Depts /\ req[r].dept \in Depts
  BY <1>1 DEF Aimed, UpdatePcs
<1>3. next \in DeptOrNull
  BY <1>2, ParentOfType DEF DeptOrNull
<1>4. Become(r, q) \/ Return(r)
  BY DEF AssertNoCycle, Walk
<1>5. pc \in {"updateWrite", "assertNoCycle"} /\ (pc = "assertNoCycle" => next \in Depts)
  BY <1>3 DEF DeptOrNull
<1>6. q \in Request /\ Aimed(q)
  <2> HIDE DEF next, pc
  <2>1. q \in Request
    BY <1>1, <1>2, <1>3, <1>5 DEF Request, DeptOrNull, WriterPcs, UpdatePcs
  <2>2. q.pc = pc /\ q.dept = req[r].dept /\ q.parent = req[r].parent /\ q.at = next
    BY <1>1 DEF Request
  <2> HIDE DEF q
  <2> QED BY <1>2, <1>5, <2>1, <2>2 DEF Aimed, UpdatePcs, RemovePcs, UserPcs
<1>7. req' \in [Requests -> Request] /\ \A s \in Requests : Aimed(req'[s])
  <2>1. CASE Return(r) BY <2>1, ReturnType
  <2>2. CASE Become(r, q)
    <3> HIDE DEF q
    <3> QED BY <1>6, <2>2, BecomeType
  <2> QED BY <1>4, <2>1, <2>2
<1> QED BY <1>7 DEF AssertNoCycle, TypeOK

LEMMA UpdateWriteType ==
  ASSUME TypeOK, NEW r \in Requests, UpdateWrite(r)
  PROVE  TypeOK'
<1>1. req[r] \in Request
  BY DEF TypeOK
<1>2. dept' \in [Depts -> Dept]
  BY <1>1 DEF TypeOK, UpdateWrite, Dept, Request, Found
<1>3. req' \in [Requests -> Request] /\ \A s \in Requests : Aimed(req'[s])
  BY ReturnType DEF UpdateWrite
<1> QED BY <1>2, <1>3 DEF UpdateWrite, TypeOK

\* A query that lets the request go on to pc, or ends it.
LEMMA CheckType ==
  ASSUME TypeOK, NEW r \in Requests, NEW pc, NEW ok,
         [req[r] EXCEPT !.pc = pc] \in Request, Aimed([req[r] EXCEPT !.pc = pc]),
         Check(r, pc, ok)
  PROVE  TypeOK'
<1>1. Goto(r, pc) \/ Return(r)
  BY DEF Check
<1>2. req' \in [Requests -> Request] /\ \A s \in Requests : Aimed(req'[s])
  BY <1>1, GotoType, ReturnType
<1> QED BY <1>2 DEF Check, TypeOK

LEMMA CountChildrenType ==
  ASSUME TypeOK, NEW r \in Requests, CountChildren(r)
  PROVE  TypeOK'
<1>1. req[r] \in Request /\ Aimed(req[r]) /\ req[r].pc = "countChildren"
  BY DEF TypeOK, CountChildren
<1>2. [req[r] EXCEPT !.pc = "countUsers"] \in Request /\ Aimed([req[r] EXCEPT !.pc = "countUsers"])
  BY <1>1 DEF Request, Aimed, WriterPcs, CreatePcs, UpdatePcs, RemovePcs, UserPcs
<1> QED BY <1>2, CheckType DEF CountChildren

LEMMA CountUsersType ==
  ASSUME TypeOK, NEW r \in Requests, CountUsers(r)
  PROVE  TypeOK'
<1>1. req[r] \in Request /\ Aimed(req[r]) /\ req[r].pc = "countUsers"
  BY DEF TypeOK, CountUsers
<1>2. [req[r] EXCEPT !.pc = "removeWrite"] \in Request /\ Aimed([req[r] EXCEPT !.pc = "removeWrite"])
  BY <1>1 DEF Request, Aimed, WriterPcs, CreatePcs, UpdatePcs, RemovePcs, UserPcs
<1> QED BY <1>2, CheckType DEF CountUsers

LEMMA CheckDeptType ==
  ASSUME TypeOK, NEW r \in Requests, CheckDept(r)
  PROVE  TypeOK'
<1>1. req[r] \in Request /\ Aimed(req[r]) /\ req[r].pc = "checkDept"
  BY DEF TypeOK, CheckDept
<1>2. [req[r] EXCEPT !.pc = "userWrite"] \in Request /\ Aimed([req[r] EXCEPT !.pc = "userWrite"])
  BY <1>1 DEF Request, Aimed, WriterPcs, CreatePcs, UpdatePcs, RemovePcs, UserPcs
<1> QED BY <1>2, CheckType DEF CheckDept

LEMMA RemoveWriteType ==
  ASSUME TypeOK, NEW r \in Requests, RemoveWrite(r)
  PROVE  TypeOK'
<1>1. dept' \in [Depts -> Dept]
  BY DEF TypeOK, RemoveWrite, Dept, Deleted, DeptOrNull
<1>2. user' \in [Users -> User]
  BY DEF TypeOK, RemoveWrite, User
<1>3. req' \in [Requests -> Request] /\ \A s \in Requests : Aimed(req'[s])
  BY ReturnType DEF RemoveWrite
<1> QED BY <1>1, <1>2, <1>3 DEF RemoveWrite, TypeOK

LEMMA UserWriteType ==
  ASSUME TypeOK, NEW r \in Requests, UserWrite(r) \/ ScopeWrite(r)
  PROVE  TypeOK'
<1>1. req[r].parent \in DeptOrNull /\ req[r].custom \subseteq Depts
  BY DEF TypeOK, Request
<1>2. user' \in [Users -> User]
  <2>1. CASE UserWrite(r) BY <1>1, <2>1 DEF TypeOK, UserWrite, User
  <2>2. CASE ScopeWrite(r) BY <1>1, <2>2 DEF TypeOK, ScopeWrite, User
  <2> QED BY <2>1, <2>2
<1>3. req' \in [Requests -> Request] /\ \A s \in Requests : Aimed(req'[s])
  BY ReturnType DEF UserWrite, ScopeWrite
<1> QED BY <1>2, <1>3 DEF UserWrite, ScopeWrite, TypeOK

LEMMA TreeType == TypeOK => Tree \in SUBSET FlatNode
  BY DEF TypeOK, Tree, Live, FlatNode, Dept

LEMMA AbortType ==
  ASSUME TypeOK, NEW r \in Requests, Abort(r) PROVE TypeOK'
  BY ReturnType DEF Abort, TypeOK

LEMMA InitType == Init => TypeOK
<1> SUFFICES ASSUME Init PROVE TypeOK OBVIOUS
<1>1. dept \in [Depts -> Dept]
  BY DEF Init, Dept, Absent, DeptOrNull
<1>2. user \in [Users -> User] /\ raced \subseteq {"update", "remove"}
  BY DEF Init, User, DeptOrNull
<1>3. req \in [Requests -> Request] /\ \A r \in Requests : Aimed(req[r])
  BY IdleType DEF Init
<1> QED BY <1>1, <1>2, <1>3 DEF TypeOK

LEMMA NextType == TypeOK /\ [Next]_vars => TypeOK'
<1> SUFFICES ASSUME TypeOK, [Next]_vars PROVE TypeOK' OBVIOUS
<1>1. ASSUME NEW r \in Requests, Step(r) PROVE TypeOK'
  BY <1>1, CreateWriteType, CheckParentType, AssertNoCycleType, UpdateWriteType,
     CountChildrenType, CountUsersType, RemoveWriteType, CheckDeptType, UserWriteType
     DEF Step
<1>2. CASE UNCHANGED vars
  BY <1>2 DEF vars, TypeOK
<1> QED
  BY <1>1, <1>2, CreateReadType, UpdateReadType, RemoveReadType, UserReadType,
     ScopeCountType, AbortType DEF Next

\* Every variable keeps its type and every request in progress knows the
\* department and user it works on: no handler's step uses a null id.
THEOREM TypeCorrect == Spec => []TypeOK
  BY InitType, NextType, PTL DEF Spec
-----------------------------------------------------------------------------
(* No cycles.  A walk leaves a certificate: the visited departments are     *)
(* closed under parentId (up to the one the walk is at), contain the new    *)
(* parent and do not contain the department that moves.  Creating and       *)
(* removing departments keeps it, another update does not.                  *)

Made == {d \in Depts : dept[d].state # "absent"}

\* A parent is a department that was made, removed ones included; only live
\* rows have one.
RowsMade ==
  \A d \in Depts : /\ dept[d].parentId \in Made \cup {NoDept}
                   /\ dept[d].state # "live" => dept[d].parentId = NoDept

\* So are the departments a request knows; and a walk is at a new one.
KnowsMade(q) ==
  /\ q.pc \in {"createWrite", "assertNoCycle", "updateWrite"} => q.parent \in Made \cup {NoDept}
  /\ q.pc \in UpdatePcs => q.dept \in Made /\ q.visited \subseteq Made
  /\ q.pc = "checkParent" => q.visited = {}
  /\ q.pc = "assertNoCycle" => q.at \in Made \ q.visited

MadeInv == RowsMade /\ \A r \in Requests : KnowsMade(req[r])

UpdateAlone ==
  "update" \notin raced =>
    \A r, s \in InProgress(UpdatePcs) : r = s

\* The certificate of a walk that is at department at, or has ended.
Certified(q, at) == /\ q.parent \in q.visited \cup {at}
                    /\ q.dept \notin q.visited \cup {at}
                    /\ \A v \in q.visited : dept[v].parentId \in q.visited \cup {at, NoDept}

Sound(q) ==
  /\ q.pc = "checkParent" => q.parent # q.dept
  /\ q.pc = "assertNoCycle" => Certified(q, q.at)
  /\ q.pc = "updateWrite" =>
       \/ q.parent = NoDept
       \/ dept[q.dept].state = "live" => dept[q.dept].parentId = q.parent
       \/ q.parent # NoDept /\ Certified(q, NoDept)

WalkInv == "update" \notin raced => Acyclic /\ \A r \in Requests : Sound(req[r])

CycleInv == MadeInv /\ UpdateAlone /\ WalkInv
-----------------------------------------------------------------------------
(* Steps that write no department.                                          *)

LEMMA MadeStep ==
  ASSUME TypeOK, MadeInv, NEW r \in Requests, NEW q, Become(r, q), dept' = dept, KnowsMade(q)
  PROVE  MadeInv'
<1>1. \A s \in Requests : KnowsMade(req'[s])
  BY DEF MadeInv, Become, TypeOK
<1>2. Made' = Made
  BY DEF Made
<1> QED BY <1>1, <1>2 DEF MadeInv, RowsMade, KnowsMade

\* An update enters only when no other is in progress, or raises the flag.
LEMMA AloneStep ==
  ASSUME TypeOK, UpdateAlone, NEW r \in Requests, NEW q, Become(r, q), raced \subseteq raced',
         q.pc \in UpdatePcs =>
           req[r].pc \in UpdatePcs \/ InProgress(UpdatePcs) = {} \/ "update" \in raced'
  PROVE  UpdateAlone'
  BY DEF UpdateAlone, InProgress, Become, TypeOK

LEMMA SoundStep ==
  ASSUME TypeOK, WalkInv, NEW r \in Requests, NEW q, Become(r, q), dept' = dept,
         raced \subseteq raced', "update" \notin raced => Sound(q)
  PROVE  WalkInv'
<1> SUFFICES ASSUME "update" \notin raced'
             PROVE  (Acyclic /\ \A s \in Requests : Sound(req[s]))'
  BY DEF WalkInv
<1>1. Acyclic /\ \A s \in Requests : Sound(req[s])
  BY DEF WalkInv
<1>2. Acyclic'
  BY <1>1 DEF Acyclic, Live
<1>3. \A s \in Requests : Sound(req'[s])
  BY <1>1 DEF Become, TypeOK
<1>4. \A s \in Requests : Sound(req[s])'
  BY <1>3 DEF Sound, Certified
<1> QED BY <1>2, <1>4

\* A request outside create and update has nothing to show.
LEMMA OtherStep ==
  ASSUME TypeOK, CycleInv, NEW r \in Requests, NEW q, Become(r, q), dept' = dept,
         raced \subseteq raced', q.pc \notin UpdatePcs \cup {"createWrite"}
  PROVE  CycleInv'
<1>1. KnowsMade(q) /\ Sound(q) /\ q.pc \notin UpdatePcs
  BY DEF KnowsMade, Sound, UpdatePcs
<1> QED BY <1>1, MadeStep, AloneStep, SoundStep DEF CycleInv

LEMMA ReturnStep ==
  ASSUME TypeOK, CycleInv, NEW r \in Requests, Return(r), dept' = dept, raced \subseteq raced'
  PROVE  CycleInv'
<1>1. IdleRequest.pc \notin UpdatePcs \cup {"createWrite"}
  BY DEF IdleRequest, UpdatePcs
<1> QED BY <1>1, OtherStep DEF Return

LEMMA RacedGrows == \A op : raced \subseteq NowRaced(op)
  BY DEF NowRaced

LEMMA FoundMade == \A d : Found(d) => d \in Made
  BY DEF Found, Made

LEMMA CreateReadCycle ==
  ASSUME TypeOK, CycleInv, NEW r \in Requests, NEW p \in DeptOrNull, CreateRead(r, p)
  PROVE  CycleInv'
<1> DEFINE q == [IdleRequest EXCEPT !.pc = "createWrite", !.parent = p]
<1>1. q.pc = "createWrite" /\ q.parent = p
  BY DEF IdleRequest
<1>2. Become(r, q) /\ dept' = dept /\ raced' = NowRaced("create")
  BY DEF CreateRead, Begin, Become
<1>3. p \in Made \cup {NoDept}
  BY FoundMade DEF CreateRead
<1> HIDE DEF q
<1>4. KnowsMade(q) /\ Sound(q) /\ q.pc \notin UpdatePcs
  BY <1>1, <1>3 DEF KnowsMade, Sound, UpdatePcs
<1> QED BY <1>2, <1>4, RacedGrows, MadeStep, AloneStep, SoundStep DEF CycleInv

LEMMA UpdateReadCycle ==
  ASSUME TypeOK, CycleInv, NEW r \in Requests, NEW d \in Depts, NEW p \in DeptOrNull,
         UpdateRead(r, d, p)
  PROVE  CycleInv'
<1> DEFINE pc == IF p \in {NoDept, dept[d].parentId} THEN "updateWrite" ELSE "checkParent"
           q  == [IdleRequest EXCEPT !.pc = pc, !.dept = d, !.parent = p]
<1>1. q.pc = pc /\ q.dept = d /\ q.parent = p /\ q.visited = {}
  BY DEF IdleRequest
<1>2. Become(r, q) /\ dept' = dept /\ raced' = NowRaced("update")
  BY DEF UpdateRead, Begin, Become
<1>3. d \in Made /\ p # d
  BY FoundMade DEF UpdateRead
<1>4. pc = "updateWrite" => p = NoDept \/ p = dept[d].parentId
  OBVIOUS
<1>5. pc \in {"updateWrite", "checkParent"}
  OBVIOUS
<1> HIDE DEF q, pc
<1>6. KnowsMade(q)
  BY <1>1, <1>3, <1>4, <1>5 DEF KnowsMade, CycleInv, MadeInv, RowsMade
<1>7. Sound(q)
  BY <1>1, <1>3, <1>4, <1>5 DEF Sound
<1>8. InProgress(UpdatePcs) = {} \/ "update" \in raced'
  BY <1>2 DEF NowRaced
<1> QED BY <1>2, <1>6, <1>7, <1>8, RacedGrows, MadeStep, AloneStep, SoundStep DEF CycleInv

LEMMA CheckParentCycle ==
  ASSUME TypeOK, CycleInv, NEW r \in Requests, CheckParent(r)
  PROVE  CycleInv'
<1> DEFINE p == req[r].parent
           q == [req[r] EXCEPT !.pc = "assertNoCycle", !.at = p]
<1>1. dept' = dept /\ raced' = raced /\ req[r].pc = "checkParent" /\ req[r].pc \in UpdatePcs
  BY DEF CheckParent, UpdatePcs
<1>2. CASE Return(r)
  BY <1>1, <1>2, ReturnStep
<1>3. CASE Found(p) /\ Become(r, q)
  <2>1. /\ q.pc = "assertNoCycle" /\ q.at = p /\ q.parent = p
        /\ q.dept = req[r].dept /\ q.visited = req[r].visited
    BY DEF TypeOK, Request
  <2>2. KnowsMade(req[r]) /\ p \in Made
    BY <1>3, FoundMade DEF CycleInv, MadeInv
  <2> HIDE DEF q
  <2>3. KnowsMade(q)
    BY <1>1, <2>1, <2>2 DEF KnowsMade, UpdatePcs
  <2>4. "update" \notin raced => Sound(q)
    <3> SUFFICES ASSUME "update" \notin raced PROVE Sound(q)
      OBVIOUS
    <3>1. Sound(req[r])
      BY DEF CycleInv, WalkInv
    <3> QED BY <1>1, <2>1, <2>2, <3>1 DEF Sound, Certified, KnowsMade
  <2> QED BY <1>1, <1>3, <2>3, <2>4, MadeStep, AloneStep, SoundStep DEF CycleInv
<1> QED BY <1>2, <1>3 DEF CheckParent

LEMMA AssertNoCycleCycle ==
  ASSUME TypeOK, CycleInv, NEW r \in Requests, AssertNoCycle(r)
  PROVE  CycleInv'
<1> DEFINE at   == req[r].at
           next == ParentOf(at)
           seen == req[r].visited \cup {at}
           pc   == IF next = NoDept \/ next \in seen THEN "updateWrite" ELSE "assertNoCycle"
           q    == [req[r] EXCEPT !.pc = pc, !.at = next, !.visited = @ \cup {req[r].at}]
<1>1. dept' = dept /\ raced' = raced /\ req[r].pc = "assertNoCycle" /\ req[r].pc \in UpdatePcs
  BY DEF AssertNoCycle, UpdatePcs
<1>2. CASE Return(r)
  BY <1>1, <1>2, ReturnStep
<1>3. CASE next # req[r].dept /\ Become(r, q)
  <2>1. /\ q.pc = pc /\ q.at = next /\ q.parent = req[r].parent
        /\ q.dept = req[r].dept /\ q.visited = seen
    BY DEF TypeOK, Request
  <2>2. KnowsMade(req[r]) /\ RowsMade
    BY DEF CycleInv, MadeInv
  <2>3. at \in Depts /\ at \in Made /\ seen \subseteq Made
    BY <1>1, <2>2 DEF KnowsMade, Made
  <2>4. next = dept[at].parentId /\ next \in Made \cup {NoDept}
    BY <2>2, <2>3 DEF ParentOf, Found, RowsMade
  <2>5. pc \in {"updateWrite", "assertNoCycle"}
    OBVIOUS
  <2>6. pc = "assertNoCycle" => next # NoDept /\ next \notin seen
    OBVIOUS
  <2>7. pc = "updateWrite" => next = NoDept \/ next \in seen
    OBVIOUS
  <2> HIDE DEF q, pc, next
  <2>8. KnowsMade(q)
    BY <1>1, <2>1, <2>2, <2>3, <2>4, <2>5, <2>6 DEF KnowsMade, UpdatePcs
  <2>9. "update" \notin raced => Sound(q)
    <3> SUFFICES ASSUME "update" \notin raced PROVE Sound(q)
      OBVIOUS
    <3>1. Certified(req[r], at)
      BY <1>1 DEF CycleInv, WalkInv, Sound
    <3>2. Certified(q, next)
      BY <1>3, <2>1, <2>4, <3>1 DEF Certified
    <3>3. ASSUME pc = "updateWrite", q.parent # NoDept PROVE Certified(q, NoDept)
      <4>1. q.dept # NoDept
        BY <1>1, <2>1, <2>2, DeptAssumption DEF KnowsMade, Made
      <4> QED BY <2>1, <2>7, <3>2, <3>3, <4>1 DEF Certified
    <3> QED BY <2>1, <2>5, <3>2, <3>3 DEF Sound
  <2> QED BY <1>1, <1>3, <2>8, <2>9, MadeStep, AloneStep, SoundStep DEF CycleInv
<1> QED BY <1>2, <1>3 DEF AssertNoCycle, Walk
\* The first reads and the checks of remove and of the operations on users,
\* and a request that dies.
LEMMA OthersCycle ==
  ASSUME TypeOK, CycleInv, NEW r \in Requests,
         \/ \E d \in Depts : RemoveRead(r, d)
         \/ \E u \in Users, d \in DeptOrNull : UserRead(r, u, d)
         \/ \E u \in Users, S \in SUBSET Depts : ScopeCount(r, u, S)
         \/ CountChildren(r) \/ CountUsers(r) \/ CheckDept(r)
         \/ UserWrite(r) \/ ScopeWrite(r)
         \/ Abort(r)
  PROVE  CycleInv'
<1> DEFINE safe(q) == q.pc \notin UpdatePcs \cup {"createWrite"}
<1>1. dept' = dept /\ raced \subseteq raced'
  BY RacedGrows DEF RemoveRead, UserRead, ScopeCount, Begin, CountChildren, CountUsers,
     CheckDept, Check, UserWrite, ScopeWrite, Abort
<1>2. ASSUME NEW q, safe(q), Become(r, q) PROVE CycleInv'
  BY <1>1, <1>2, OtherStep
<1>3. ASSUME NEW pc \in {"countUsers", "removeWrite", "userWrite"}, Goto(r, pc)
      PROVE  CycleInv'
  <2> DEFINE q == [req[r] EXCEPT !.pc = pc]
  <2>1. safe(q)
    BY DEF UpdatePcs, TypeOK, Request
  <2>2. Become(r, q)
    BY <1>3 DEF Goto
  <2> HIDE DEF q, safe
  <2> QED BY <1>2, <2>1, <2>2
<1>4. ASSUME NEW d \in Depts, RemoveRead(r, d) PROVE CycleInv'
  <2> DEFINE q == [IdleRequest EXCEPT !.pc = "countChildren", !.dept = d]
  <2>1. safe(q) /\ Become(r, q)
    BY <1>4 DEF UpdatePcs, IdleRequest, RemoveRead, Begin, Become
  <2> HIDE DEF q, safe
  <2> QED BY <1>2, <2>1
<1>5. ASSUME NEW u \in Users, NEW d \in DeptOrNull, UserRead(r, u, d) PROVE CycleInv'
  <2> DEFINE pc == IF d \in {NoDept, user[u].deptId} THEN "userWrite" ELSE "checkDept"
             q  == [IdleRequest EXCEPT !.pc = pc, !.user = u, !.parent = d]
  <2>1. safe(q) /\ Become(r, q)
    BY <1>5 DEF UpdatePcs, IdleRequest, UserRead, Begin, Become
  <2> HIDE DEF q, safe
  <2> QED BY <1>2, <2>1
<1>6. ASSUME NEW u \in Users, NEW S \in SUBSET Depts, ScopeCount(r, u, S) PROVE CycleInv'
  <2> DEFINE q == [IdleRequest EXCEPT !.pc = "scopeWrite", !.user = u, !.custom = S]
  <2>1. safe(q) /\ Become(r, q)
    BY <1>6 DEF UpdatePcs, IdleRequest, ScopeCount, Begin, Become
  <2> HIDE DEF q, safe
  <2> QED BY <1>2, <2>1
<1>7. ASSUME Return(r) PROVE CycleInv'
  BY <1>1, <1>7, ReturnStep
<1> HIDE DEF safe
<1> QED
  BY <1>3, <1>4, <1>5, <1>6, <1>7 DEF CountChildren, CountUsers, CheckDept, Check,
     UserWrite, ScopeWrite, Abort

-----------------------------------------------------------------------------
(* The three writes.                                                        *)

\* The writer has nothing left to show; what the others know must survive.
LEMMA WrittenStep ==
  ASSUME TypeOK, CycleInv, NEW r \in Requests, Return(r), raced' = raced,
         Made \subseteq Made', RowsMade',
         "update" \notin raced => Acyclic',
         \A s \in Requests \ {r} : "update" \notin raced => Sound(req[s])'
  PROVE  CycleInv'
<1> DEFINE q == IdleRequest
<1>1. Become(r, q) /\ q.pc = "idle"
  BY DEF Return, IdleRequest
<1> HIDE DEF q
<1>2. req'[r] = q /\ \A s \in Requests \ {r} : req'[s] = req[s]
  BY <1>1 DEF Become, TypeOK
<1>3. UpdateAlone'
  BY <1>1, AloneStep DEF CycleInv, UpdatePcs
<1>4. ASSUME NEW s \in Requests PROVE KnowsMade(req[s])'
  <2>1. CASE s = r
    BY <1>1, <1>2, <2>1 DEF KnowsMade, UpdatePcs
  <2>2. CASE s # r
    <3>1. KnowsMade(req[s]) /\ req'[s] = req[s]
      BY <1>2, <2>2 DEF CycleInv, MadeInv
    <3> QED BY <3>1 DEF KnowsMade
  <2> QED BY <2>1, <2>2
<1>5. Sound(req[r])'
  BY <1>1, <1>2 DEF Sound
<1> QED BY <1>3, <1>4, <1>5 DEF CycleInv, MadeInv, WalkInv

\* A new department has no children, so it closes no cycle.
LEMMA CreateWriteCycle ==
  ASSUME TypeOK, CycleInv, NEW r \in Requests, CreateWrite(r)
  PROVE  CycleInv'
<1> DEFINE p == req[r].parent
<1>1. PICK c \in Depts : /\ dept[c] = Absent
                         /\ dept' = [dept EXCEPT ![c] = [state |-> "live", parentId |-> p]]
  BY DEF CreateWrite
<1>2. req[r].pc = "createWrite" /\ Return(r) /\ raced' = raced
  BY DEF CreateWrite
<1>3. p \in Made \cup {NoDept}
  BY <1>2 DEF CycleInv, MadeInv, KnowsMade
<1>4. /\ dept'[c].state = "live" /\ dept'[c].parentId = p
      /\ dept[c].state = "absent"
      /\ \A d \in Depts \ {c} : dept'[d] = dept[d]
  BY <1>1 DEF TypeOK, Absent
<1>5. c \notin Made /\ Made' = Made \cup {c} /\ Live' = Live \cup {c} /\ Live \subseteq Made
  BY <1>4 DEF Made, Live
<1>6. RowsMade'
  BY <1>3, <1>4, <1>5 DEF RowsMade, CycleInv, MadeInv
<1>7. ASSUME "update" \notin raced PROVE Acyclic'
  <2> SUFFICES ASSUME NEW S \in SUBSET (Live'), S # {},
                      \A d \in S : dept'[d].parentId \in S
               PROVE  FALSE
    BY DEF Acyclic
  <2>1. Acyclic /\ RowsMade
    BY <1>7 DEF CycleInv, WalkInv, MadeInv
  <2>2. S \ {c} \in SUBSET Live /\ S \subseteq Depts
    BY <1>5 DEF Live
  <2>3. \A d \in S \ {c} : dept[d].parentId \in S \ {c}
    BY <1>4, <1>5, <2>1, <2>2, DeptAssumption DEF RowsMade
  <2>4. S \ {c} # {}
    <3>1. CASE c \in S
      <4>1. p \in S
        BY <1>4, <3>1
      <4> QED BY <1>3, <1>5, <2>2, <4>1, DeptAssumption
    <3>2. CASE c \notin S
      BY <3>2
    <3> QED BY <3>1, <3>2
  <2> QED BY <2>1, <2>2, <2>3, <2>4 DEF Acyclic
<1>8. ASSUME NEW s \in Requests \ {r}, "update" \notin raced PROVE Sound(req[s])'
  <2>1. Sound(req[s]) /\ KnowsMade(req[s])
    BY <1>8 DEF CycleInv, WalkInv, MadeInv
  <2>2. req'[s] = req[s]
    BY <1>2 DEF Return, Become, TypeOK
  <2>3. \A d \in Made : dept'[d] = dept[d]
    BY <1>4, <1>5 DEF Made
  <2>4. ASSUME NEW at, req[s].pc \in UpdatePcs, Certified(req[s], at) PROVE Certified(req[s], at)'
    BY <2>1, <2>2, <2>3, <2>4 DEF Certified, KnowsMade
  <2> QED BY <2>1, <2>2, <2>3, <2>4 DEF Sound, KnowsMade, UpdatePcs
<1> QED BY <1>2, <1>5, <1>6, <1>7, <1>8, WrittenStep

\* A removed department has no parent any more.
LEMMA RemoveWriteCycle ==
  ASSUME TypeOK, CycleInv, NEW r \in Requests, RemoveWrite(r)
  PROVE  CycleInv'
<1> DEFINE c == req[r].dept
<1>1. raced' = raced
  BY DEF RemoveWrite
<1>2. CASE dept' = dept /\ Return(r)
  BY <1>1, <1>2, ReturnStep
<1>3. CASE Found(c) /\ dept' = [dept EXCEPT ![c] = Deleted] /\ Return(r)
  <2>1. c \in Depts /\ dept[c].state = "live"
    BY <1>3 DEF Found
  <2>2. /\ dept'[c].state = "deleted" /\ dept'[c].parentId = NoDept
        /\ \A d \in Depts \ {c} : dept'[d] = dept[d]
    BY <1>3, <2>1 DEF TypeOK, Deleted
  <2>3. Made' = Made /\ Live' = Live \ {c}
    BY <2>1, <2>2 DEF Made, Live
  <2>4. RowsMade'
    BY <2>2, <2>3 DEF RowsMade, CycleInv, MadeInv
  <2>5. ASSUME "update" \notin raced PROVE Acyclic'
    <3>1. Acyclic
      BY <2>5 DEF CycleInv, WalkInv
    <3>2. \A d \in Live' : d \in Live /\ dept'[d] = dept[d]
      BY <2>2, <2>3 DEF Live
    <3> QED BY <2>3, <3>1, <3>2 DEF Acyclic
  <2>6. ASSUME NEW s \in Requests \ {r}, "update" \notin raced PROVE Sound(req[s])'
    <3>1. Sound(req[s]) /\ KnowsMade(req[s])
      BY <2>6 DEF CycleInv, WalkInv, MadeInv
    <3>2. req'[s] = req[s]
      BY <1>3 DEF Return, Become, TypeOK
    <3>3. \A d \in Made : dept'[d] = dept[d] \/ (dept'[d].state # "live" /\ dept'[d].parentId = NoDept)
      BY <2>2 DEF Made
    <3>4. ASSUME NEW at, req[s].pc \in UpdatePcs, Certified(req[s], at)
          PROVE  Certified(req[s], at)'
      BY <3>1, <3>2, <3>3, <3>4 DEF Certified, KnowsMade
    <3> QED BY <3>1, <3>2, <3>3, <3>4 DEF Sound, KnowsMade, UpdatePcs
  <2> QED BY <1>1, <1>3, <2>3, <2>4, <2>5, <2>6, WrittenStep
<1> QED BY <1>2, <1>3 DEF RemoveWrite

\* The certificate rules out that the new parent hangs from the department:
\* a closed set that contains both would contain a closed set of old parents.
LEMMA UpdateWriteCycle ==
  ASSUME TypeOK, CycleInv, NEW r \in Requests, UpdateWrite(r)
  PROVE  CycleInv'
<1> DEFINE c == req[r].dept
           p == req[r].parent
<1>1. raced' = raced /\ req[r].pc = "updateWrite" /\ req[r].pc \in UpdatePcs
  BY DEF UpdateWrite, UpdatePcs
<1>2. CASE dept' = dept /\ Return(r)
  BY <1>1, <1>2, ReturnStep
<1>3. CASE Found(c) /\ dept' = [dept EXCEPT ![c].parentId = p] /\ Return(r)
  <2>1. c \in Depts /\ dept[c].state = "live"
    BY <1>3 DEF Found
  <2>2. /\ dept'[c].state = "live" /\ dept'[c].parentId = p
        /\ \A d \in Depts \ {c} : dept'[d] = dept[d]
    BY <1>3, <2>1 DEF TypeOK, Dept
  <2>3. Made' = Made /\ Live' = Live
    BY <2>1, <2>2 DEF Made, Live
  <2>4. p \in Made \cup {NoDept}
    BY <1>1 DEF CycleInv, MadeInv, KnowsMade
  <2>5. RowsMade'
    BY <2>2, <2>3, <2>4 DEF RowsMade, CycleInv, MadeInv
  <2>6. ASSUME "update" \notin raced PROVE Acyclic'
    <3> SUFFICES ASSUME NEW S \in SUBSET Live, S # {}, \A d \in S : dept'[d].parentId \in S
                 PROVE  FALSE
      BY <2>3 DEF Acyclic
    <3>1. Acyclic /\ Sound(req[r])
      BY <2>6 DEF CycleInv, WalkInv
    <3>2. S \subseteq Depts /\ NoDept \notin S
      BY DeptAssumption DEF Live
    <3>3. \A d \in S \ {c} : dept[d].parentId \in S
      BY <2>2, <3>2
    <3>4. PICK d \in S : dept[d].parentId \notin S
      BY <3>1 DEF Acyclic
    <3>5. c \in S /\ p \in S /\ dept[c].parentId # p
      BY <2>2, <3>3, <3>4
    <3>6. Certified(req[r], NoDept)
      BY <1>1, <2>1, <3>1, <3>2, <3>5 DEF Sound
    <3> DEFINE T == S \cap req[r].visited
    <3>7. p \in T /\ c \notin T
      BY <3>2, <3>5, <3>6 DEF Certified
    <3>8. \A e \in T : dept[e].parentId \in T
      BY <3>2, <3>3, <3>6, <3>7 DEF Certified
    <3>9. T \in SUBSET Live
      OBVIOUS
    <3> HIDE DEF T
    <3> QED BY <3>1, <3>7, <3>8, <3>9 DEF Acyclic
  <2>7. ASSUME NEW s \in Requests \ {r}, "update" \notin raced PROVE Sound(req[s])'
    <3>1. req[s].pc \notin UpdatePcs
      BY <1>1, <2>7 DEF CycleInv, UpdateAlone, InProgress
    <3>2. req'[s] = req[s]
      BY <1>3 DEF Return, Become, TypeOK
    <3> QED BY <3>1, <3>2 DEF Sound, UpdatePcs
  <2> QED BY <1>1, <1>3, <2>3, <2>5, <2>6, <2>7, WrittenStep
<1> QED BY <1>2, <1>3 DEF UpdateWrite

-----------------------------------------------------------------------------
LEMMA InitCycle == Init => CycleInv
<1> SUFFICES ASSUME Init PROVE CycleInv OBVIOUS
<1>1. RowsMade
  BY DEF Init, RowsMade, Made, Absent
<1>2. \A r \in Requests : req[r].pc = "idle"
  BY DEF Init, IdleRequest
<1>3. \A r \in Requests : KnowsMade(req[r]) /\ Sound(req[r]) /\ req[r].pc \notin UpdatePcs
  BY <1>2 DEF KnowsMade, Sound, UpdatePcs
<1>4. Acyclic
  BY DEF Init
<1> QED BY <1>1, <1>3, <1>4 DEF CycleInv, MadeInv, UpdateAlone, WalkInv, InProgress

LEMMA NextCycle == TypeOK /\ CycleInv /\ [Next]_vars => CycleInv'
<1> SUFFICES ASSUME TypeOK, CycleInv, [Next]_vars PROVE CycleInv' OBVIOUS
<1>1. ASSUME NEW r \in Requests, Step(r) PROVE CycleInv'
  BY <1>1, CreateWriteCycle, CheckParentCycle, AssertNoCycleCycle, UpdateWriteCycle,
     RemoveWriteCycle, OthersCycle DEF Step
<1>2. CASE dept' = dept /\ req' = req /\ raced' = raced
  BY <1>2 DEF CycleInv, MadeInv, RowsMade, Made, KnowsMade, UpdateAlone, InProgress, WalkInv,
     Acyclic, Live, Sound, Certified
<1>3. CASE UNCHANGED vars
  BY <1>2, <1>3 DEF vars
<1> QED
  BY <1>1, <1>3, CreateReadCycle, UpdateReadCycle, OthersCycle DEF Next

\* The parents have no cycle as long as no two updates that set a parent have
\* overlapped, for any tables and any number of other requests.
THEOREM NoCycleUnlessUpdatesRace == Spec => []AcyclicUnlessUpdatesRace
<1>1. CycleInv => AcyclicUnlessUpdatesRace
  BY DEF CycleInv, WalkInv, AcyclicUnlessUpdatesRace
<1> QED BY <1>1, TypeCorrect, InitCycle, NextCycle, PTL DEF Spec
\* Only a turn of the loop moves a walk, and it adds a department the walk
\* had not visited.
LEMMA WalkStep == TypeOK /\ CycleInv /\ [Next]_vars =>
  \A r \in Requests :
    req[r].pc = "assertNoCycle" /\ req[r]'.pc = "assertNoCycle" /\ req[r]' # req[r]
      => req[r].visited # req[r]'.visited
<1> SUFFICES ASSUME TypeOK, CycleInv, [Next]_vars, NEW r \in Requests,
                    req[r].pc = "assertNoCycle", req'[r].pc = "assertNoCycle",
                    req'[r] # req[r]
             PROVE  req[r].visited # req'[r].visited
  OBVIOUS
<1>1. req[r].at \notin req[r].visited
  BY DEF CycleInv, MadeInv, KnowsMade
<1>2. IdleRequest.pc = "idle"
  BY DEF IdleRequest
<1>3. ASSUME NEW s \in Requests, NEW q, Become(s, q) PROVE s = r /\ q.pc = "assertNoCycle"
  BY <1>3 DEF Become, TypeOK
<1>4. \A s \in Requests : ~Return(s)
  BY <1>2, <1>3 DEF Return
<1>5. ASSUME NEW s \in Requests, NEW op, NEW q, Begin(s, op, q) PROVE FALSE
  <2>1. s = r /\ req[s].pc = "idle"
    BY <1>3, <1>5 DEF Begin, Become
  <2> QED BY <2>1
<1>6. ASSUME NEW s \in Requests, NEW pc \in {"countUsers", "removeWrite", "userWrite"},
             Goto(s, pc)
      PROVE  FALSE
  <2>1. [req[s] EXCEPT !.pc = pc].pc = pc
    BY DEF TypeOK, Request
  <2> QED BY <1>3, <1>6, <2>1 DEF Goto
<1>8. ASSUME NEW s \in Requests, CheckParent(s) PROVE FALSE
  <2>1. s = r /\ req[s].pc = "checkParent"
    BY <1>3, <1>4, <1>8 DEF CheckParent
  <2> QED BY <2>1
<1>9. CASE AssertNoCycle(r)
  <2>1. PICK pc, at : Walk(r, pc, at)
    BY <1>4, <1>9 DEF AssertNoCycle
  <2>2. req'[r].visited = req[r].visited \cup {req[r].at}
    BY <2>1 DEF Walk, Become, TypeOK, Request
  <2> QED BY <1>1, <2>2
<1>10. ASSUME NEW s \in Requests, AssertNoCycle(s) PROVE s = r
  BY <1>3, <1>4, <1>10 DEF AssertNoCycle, Walk
<1>11. req' # req
  OBVIOUS
<1>12. ASSUME NEW s \in Requests, Step(s) PROVE AssertNoCycle(r)
  BY <1>4, <1>6, <1>8, <1>10, <1>12 DEF Step, CreateWrite, UpdateWrite, CountChildren,
     CountUsers, Check, RemoveWrite, CheckDept, UserWrite, ScopeWrite
<1>13. AssertNoCycle(r)
  BY <1>4, <1>5, <1>6, <1>11, <1>12 DEF Next, vars, CreateRead, UpdateRead, RemoveRead, UserRead,
     ScopeCount, Abort
<1> QED BY <1>9, <1>13

\* The walk of assertNoCycle is finite: no turn reads a department again.
THEOREM WalkIsFinite == Spec => WalkProgresses
<1>1. TypeOK /\ CycleInv /\ [Next]_vars => [
        \A r \in Requests :
          /\ req[r].pc = "assertNoCycle"
          /\ req[r]'.pc = "assertNoCycle"
          /\ req[r]' # req[r]
          => req[r].visited # req[r]'.visited]_vars
  BY WalkStep
<1> QED BY <1>1, TypeCorrect, InitCycle, NextCycle, PTL DEF Spec, WalkProgresses

-----------------------------------------------------------------------------
(* Nothing refers to a removed department.  While a remove is alone no      *)
(* other write comes between its counts and its update, nor between the     *)
(* check of another request and its write.                                  *)

RemoveAlone ==
  "remove" \notin raced =>
    \A r \in InProgress(RemovePcs), s \in InProgress(WriterPcs) : r = s

\* What the checks of a request have established still holds.
Clean(q) ==
  /\ q.pc \in {"createWrite", "assertNoCycle", "updateWrite", "userWrite"}
       => q.parent \in Live \cup {NoDept}
  /\ q.pc = "scopeWrite" => q.custom \subseteq Live
  /\ q.pc \in {"countUsers", "removeWrite"} => \A d \in Live : dept[d].parentId # q.dept
  /\ q.pc = "removeWrite" => \A u \in Users : user[u].deptId # q.dept

DangleInv ==
  /\ RemoveAlone
  /\ "remove" \notin raced =>
       /\ NoOrphan
       /\ UsersPlaced
       /\ \A r \in Requests : Clean(req[r])
\* Request r may become q: it is a writer already, or it enters without
\* overlapping a remove, or the flag is raised.
MayEnter(r, q) ==
  q.pc \in WriterPcs =>
    \/ "remove" \in raced'
    \/ req[r].pc \in WriterPcs /\ (q.pc \in RemovePcs => req[r].pc \in RemovePcs)
    \/ q.pc \in RemovePcs /\ InProgress(WriterPcs) = {}
    \/ q.pc \notin RemovePcs /\ InProgress(RemovePcs) = {}

LEMMA RemoveAloneStep ==
  ASSUME TypeOK, RemoveAlone, NEW r \in Requests, NEW q, Become(r, q), raced \subseteq raced',
         MayEnter(r, q)
  PROVE  RemoveAlone'
<1> SUFFICES ASSUME "remove" \notin raced',
                    NEW a \in Requests, req'[a].pc \in RemovePcs,
                    NEW b \in Requests, req'[b].pc \in WriterPcs
             PROVE  a = b
  BY DEF RemoveAlone, InProgress
<1>1. req'[r] = q /\ \A s \in Requests \ {r} : req'[s] = req[s]
  BY DEF Become, TypeOK
<1>2. RemovePcs \subseteq WriterPcs
  BY DEF WriterPcs
<1>3. \A c, d \in Requests :
        req[c].pc \in RemovePcs /\ req[d].pc \in WriterPcs => c = d
  BY DEF RemoveAlone, InProgress
<1>4. q.pc \in WriterPcs =>
        \/ req[r].pc \in WriterPcs /\ (q.pc \in RemovePcs => req[r].pc \in RemovePcs)
        \/ q.pc \in RemovePcs /\ \A s \in Requests : req[s].pc \notin WriterPcs
        \/ q.pc \notin RemovePcs /\ \A s \in Requests : req[s].pc \notin RemovePcs
  BY DEF MayEnter, InProgress
<1> QED BY <1>1, <1>2, <1>3, <1>4

LEMMA CleanStep ==
  ASSUME TypeOK, DangleInv, NEW r \in Requests, NEW q, Become(r, q), dept' = dept, user' = user,
         raced \subseteq raced', MayEnter(r, q), "remove" \notin raced => Clean(q)
  PROVE  DangleInv'
<1>1. RemoveAlone'
  BY RemoveAloneStep DEF DangleInv
<1>2. ASSUME "remove" \notin raced'
      PROVE  (NoOrphan /\ UsersPlaced /\ \A s \in Requests : Clean(req[s]))'
  <2>1. NoOrphan /\ UsersPlaced /\ \A s \in Requests : Clean(req[s])
    BY <1>2 DEF DangleInv
  <2>2. \A s \in Requests : Clean(req'[s])
    BY <1>2, <2>1 DEF Become, TypeOK
  <2>3. \A s \in Requests : Clean(req[s])'
    BY <2>2 DEF Clean, Live
  <2> QED BY <2>1, <2>3 DEF NoOrphan, UsersPlaced, Live
<1> QED BY <1>1, <1>2 DEF DangleInv

\* A request that is not, or no more, a writer.
LEMMA NoWriterStep ==
  ASSUME TypeOK, DangleInv, NEW r \in Requests, NEW q, Become(r, q), dept' = dept, user' = user,
         raced \subseteq raced', q.pc \notin WriterPcs
  PROVE  DangleInv'
<1>1. MayEnter(r, q) /\ Clean(q)
  BY DEF MayEnter, Clean, WriterPcs, CreatePcs, UpdatePcs, RemovePcs, UserPcs
<1> QED BY <1>1, CleanStep

LEMMA EndDangle ==
  ASSUME TypeOK, DangleInv, NEW r \in Requests, dept' = dept, user' = user,
         raced \subseteq raced', Return(r)
  PROVE  DangleInv'
<1>1. IdleRequest.pc \notin WriterPcs
  BY DEF IdleRequest, WriterPcs, CreatePcs, UpdatePcs, RemovePcs, UserPcs
<1>2. Become(r, IdleRequest)
  BY DEF Return
<1> QED BY <1>1, <1>2, NoWriterStep

LEMMA FoundLive == \A d : Found(d) <=> d \in Live
  BY DEF Found, Live

LEMMA BeginDangle ==
  ASSUME TypeOK, DangleInv, NEW r \in Requests, NEW op, NEW q, Begin(r, op, q),
         q.pc \in RemovePcs => op = "remove",
         "remove" \notin raced => Clean(q)
  PROVE  DangleInv'
<1>1. Become(r, q) /\ dept' = dept /\ user' = user /\ raced \subseteq raced'
  BY RacedGrows DEF Begin, Become
<1>2. MayEnter(r, q)
  BY DEF MayEnter, Begin, NowRaced
<1> QED BY <1>1, <1>2, CleanStep

LEMMA BeginsDangle ==
  ASSUME TypeOK, DangleInv, NEW r \in Requests,
         \/ \E p \in DeptOrNull : CreateRead(r, p)
         \/ \E d \in Depts, p \in DeptOrNull : UpdateRead(r, d, p)
         \/ \E d \in Depts : RemoveRead(r, d)
         \/ \E u \in Users, d \in DeptOrNull : UserRead(r, u, d)
         \/ \E u \in Users, S \in SUBSET Depts : ScopeCount(r, u, S)
  PROVE  DangleInv'
<1>1. ASSUME NEW p \in DeptOrNull, CreateRead(r, p) PROVE DangleInv'
  <2> DEFINE q == [IdleRequest EXCEPT !.pc = "createWrite", !.parent = p]
  <2>1. q.pc = "createWrite" /\ q.parent = p
    BY DEF IdleRequest
  <2>2. Begin(r, "create", q) /\ (p # NoDept => Found(p))
    BY <1>1 DEF CreateRead
  <2> HIDE DEF q
  <2>3. Clean(q) /\ q.pc \notin RemovePcs
    BY <2>1, <2>2, FoundLive DEF Clean, RemovePcs
  <2> QED BY <2>2, <2>3, BeginDangle
<1>2. ASSUME NEW d \in Depts, NEW p \in DeptOrNull, UpdateRead(r, d, p) PROVE DangleInv'
  <2> DEFINE pc == IF p \in {NoDept, dept[d].parentId} THEN "updateWrite" ELSE "checkParent"
             q  == [IdleRequest EXCEPT !.pc = pc, !.dept = d, !.parent = p]
  <2>1. q.pc = pc /\ q.parent = p
    BY DEF IdleRequest
  <2>2. Begin(r, "update", q) /\ d \in Live
    BY <1>2, FoundLive DEF UpdateRead
  <2>3. pc = "checkParent" \/ (pc = "updateWrite" /\ p \in {NoDept, dept[d].parentId})
    OBVIOUS
  <2> HIDE DEF q, pc
  <2>4. "remove" \notin raced => Clean(q)
    BY <2>1, <2>2, <2>3 DEF Clean, DangleInv, NoOrphan
  <2>5. q.pc \notin RemovePcs
    BY <2>1, <2>3 DEF RemovePcs
  <2> QED BY <2>2, <2>4, <2>5, BeginDangle
<1>3. ASSUME NEW d \in Depts, RemoveRead(r, d) PROVE DangleInv'
  <2> DEFINE q == [IdleRequest EXCEPT !.pc = "countChildren", !.dept = d]
  <2>1. Clean(q) /\ Begin(r, "remove", q)
    BY <1>3 DEF IdleRequest, Clean, RemoveRead
  <2> HIDE DEF q
  <2> QED BY <2>1, BeginDangle
<1>4. ASSUME NEW u \in Users, NEW d \in DeptOrNull, UserRead(r, u, d) PROVE DangleInv'
  <2> DEFINE pc == IF d \in {NoDept, user[u].deptId} THEN "userWrite" ELSE "checkDept"
             q  == [IdleRequest EXCEPT !.pc = pc, !.user = u, !.parent = d]
  <2>1. q.pc = pc /\ q.parent = d
    BY DEF IdleRequest
  <2>2. Begin(r, "userUpdate", q)
    BY <1>4 DEF UserRead
  <2>3. pc = "checkDept" \/ (pc = "userWrite" /\ d \in {NoDept, user[u].deptId})
    OBVIOUS
  <2> HIDE DEF q, pc
  <2>4. "remove" \notin raced => Clean(q)
    BY <2>1, <2>3 DEF Clean, DangleInv, UsersPlaced
  <2>5. q.pc \notin RemovePcs
    BY <2>1, <2>3 DEF RemovePcs
  <2> QED BY <2>2, <2>4, <2>5, BeginDangle
<1>5. ASSUME NEW u \in Users, NEW S \in SUBSET Depts, ScopeCount(r, u, S) PROVE DangleInv'
  <2> DEFINE q == [IdleRequest EXCEPT !.pc = "scopeWrite", !.user = u, !.custom = S]
  <2>1. Clean(q) /\ Begin(r, "assignDataScope", q) /\ q.pc \notin RemovePcs
    BY <1>5 DEF IdleRequest, Clean, ScopeCount, RemovePcs
  <2> HIDE DEF q
  <2> QED BY <2>1, BeginDangle
<1> QED BY <1>1, <1>2, <1>3, <1>4, <1>5
\* A request that goes on after a check, with nothing else changed.
LEMMA CheckedDangle ==
  ASSUME TypeOK, DangleInv, NEW r \in Requests, NEW q, Become(r, q),
         UNCHANGED <<dept, user, raced>>,
         req[r].pc \in WriterPcs, q.pc \in RemovePcs => req[r].pc \in RemovePcs,
         "remove" \notin raced => Clean(q)
  PROVE  DangleInv'
<1>1. MayEnter(r, q)
  BY DEF MayEnter
<1> QED BY <1>1, CleanStep

LEMMA ChecksDangle ==
  ASSUME TypeOK, DangleInv, NEW r \in Requests,
         \/ CheckParent(r) \/ AssertNoCycle(r) \/ CountChildren(r) \/ CountUsers(r)
         \/ CheckDept(r)
  PROVE  DangleInv'
<1>1. dept' = dept /\ user' = user /\ raced' = raced
  BY DEF CheckParent, AssertNoCycle, CountChildren, CountUsers, CheckDept, Check
<1>2. req[r].pc \in WriterPcs
  BY DEF CheckParent, AssertNoCycle, CountChildren, CountUsers, CheckDept, WriterPcs, UpdatePcs,
     RemovePcs, UserPcs
<1>3. ASSUME Return(r) PROVE DangleInv'
  BY <1>1, <1>3, EndDangle
<1>4. "remove" \notin raced => Clean(req[r])
  BY DEF DangleInv
<1>5. CASE CheckParent(r)
  <2> DEFINE q == [req[r] EXCEPT !.pc = "assertNoCycle", !.at = req[r].parent]
  <2>1. q.pc = "assertNoCycle" /\ q.parent = req[r].parent
    BY DEF TypeOK, Request
  <2>2. Return(r) \/ (Found(req[r].parent) /\ Become(r, q))
    BY <1>5 DEF CheckParent
  <2> HIDE DEF q
  <2>3. ASSUME Found(req[r].parent), Become(r, q) PROVE DangleInv'
    <3>1. Clean(q)
      BY <2>1, <2>3, FoundLive DEF Clean
    <3> QED BY <1>1, <1>2, <2>1, <2>3, <3>1, CheckedDangle DEF RemovePcs
  <2> QED BY <1>3, <2>2, <2>3
<1>6. CASE AssertNoCycle(r)
  <2>1. PICK pc, at : /\ pc \in {"updateWrite", "assertNoCycle"}
                      /\ Return(r) \/ Walk(r, pc, at)
    BY <1>6 DEF AssertNoCycle
  <2> DEFINE q == [req[r] EXCEPT !.pc = pc, !.at = at, !.visited = @ \cup {req[r].at}]
  <2>2. q.pc = pc /\ q.parent = req[r].parent
    BY DEF TypeOK, Request
  <2>3. Return(r) \/ Become(r, q)
    BY <2>1 DEF Walk
  <2> HIDE DEF q
  <2>4. "remove" \notin raced => Clean(q)
    BY <1>4, <1>6, <2>1, <2>2 DEF Clean, AssertNoCycle
  <2> QED BY <1>1, <1>2, <1>3, <2>1, <2>2, <2>3, <2>4, CheckedDangle DEF RemovePcs
<1>7. CASE CountChildren(r)
  <2> DEFINE q == [req[r] EXCEPT !.pc = "countUsers"]
  <2>1. q.pc = "countUsers" /\ q.dept = req[r].dept
    BY DEF TypeOK, Request
  <2>2. Return(r) \/ (ChildrenOf(Tree, req[r].dept) = {} /\ Become(r, q))
    BY <1>7 DEF CountChildren, Check, Goto
  <2>3. req[r].pc \in RemovePcs
    BY <1>7 DEF CountChildren, RemovePcs
  <2> HIDE DEF q
  <2>4. ASSUME ChildrenOf(Tree, req[r].dept) = {}, Become(r, q) PROVE DangleInv'
    <3>1. \A d \in Live : dept[d].parentId # req[r].dept
      <4> SUFFICES ASSUME NEW d \in Live, dept[d].parentId = req[r].dept PROVE FALSE
        OBVIOUS
      <4> DEFINE n == [id |-> d, parentId |-> dept[d].parentId]
      <4>1. n \in Tree /\ n.parentId = req[r].dept
        BY DEF Tree
      <4> QED BY <2>4, <4>1 DEF ChildrenOf
    <3>2. Clean(q)
      BY <2>1, <3>1 DEF Clean
    <3> QED BY <1>1, <1>2, <2>3, <2>4, <3>2, CheckedDangle
  <2> QED BY <1>3, <2>2, <2>4
<1>8. CASE CountUsers(r)
  <2> DEFINE q == [req[r] EXCEPT !.pc = "removeWrite"]
  <2>1. q.pc = "removeWrite" /\ q.dept = req[r].dept
    BY DEF TypeOK, Request
  <2>2. Return(r) \/ ((\A u \in Users : user[u].deptId # req[r].dept) /\ Become(r, q))
    BY <1>8 DEF CountUsers, Check, Goto
  <2>3. req[r].pc = "countUsers" /\ req[r].pc \in RemovePcs
    BY <1>8 DEF CountUsers, RemovePcs
  <2> HIDE DEF q
  <2>4. ASSUME \A u \in Users : user[u].deptId # req[r].dept, Become(r, q) PROVE DangleInv'
    <3>1. "remove" \notin raced => Clean(q)
      BY <1>4, <2>1, <2>3, <2>4 DEF Clean
    <3> QED BY <1>1, <1>2, <2>3, <2>4, <3>1, CheckedDangle
  <2> QED BY <1>3, <2>2, <2>4
<1>9. CASE CheckDept(r)
  <2> DEFINE q == [req[r] EXCEPT !.pc = "userWrite"]
  <2>1. q.pc = "userWrite" /\ q.parent = req[r].parent
    BY DEF TypeOK, Request
  <2>2. Return(r) \/ (Found(req[r].parent) /\ Become(r, q))
    BY <1>9 DEF CheckDept, Check, Goto
  <2> HIDE DEF q
  <2>3. ASSUME Found(req[r].parent), Become(r, q) PROVE DangleInv'
    <3>1. Clean(q)
      BY <2>1, <2>3, FoundLive DEF Clean
    <3> QED BY <1>1, <1>2, <2>1, <2>3, <3>1, CheckedDangle DEF RemovePcs
  <2> QED BY <1>3, <2>2, <2>3
<1> QED BY <1>5, <1>6, <1>7, <1>8, <1>9

LEMMA AbortDangle ==
  ASSUME TypeOK, DangleInv, NEW r \in Requests, Abort(r) PROVE DangleInv'
  BY EndDangle DEF Abort

-----------------------------------------------------------------------------
(* The writes.                                                              *)

\* The writer leaves; what the tables and the other requests need is shown
\* for each write.
LEMMA LeaveDangle ==
  ASSUME TypeOK, DangleInv, NEW r \in Requests, Return(r), raced' = raced,
         "remove" \notin raced =>
           /\ NoOrphan' /\ UsersPlaced'
           /\ \A s \in Requests \ {r} : req'[s] = req[s] => Clean(req[s])'
  PROVE  DangleInv'
<1> DEFINE q == IdleRequest
<1>1. q.pc = "idle"
  BY DEF IdleRequest
<1>2. Become(r, q)
  BY DEF Return
<1> HIDE DEF q
<1>3. q.pc \notin WriterPcs /\ q.pc = "idle"
  BY <1>1, <1>2 DEF WriterPcs, CreatePcs, UpdatePcs, RemovePcs, UserPcs
<1>4. RemoveAlone'
  BY <1>2, <1>3, RemoveAloneStep DEF DangleInv, MayEnter
<1>5. req'[r] = q /\ \A s \in Requests \ {r} : req'[s] = req[s]
  BY <1>2 DEF Become, TypeOK
<1>6. Clean(req[r])'
  BY <1>3, <1>5 DEF Clean
<1> QED BY <1>4, <1>5, <1>6 DEF DangleInv

\* A request other than a remove keeps what it knows while departments are
\* only added; a remove in progress would have overlapped.
LEMMA GrowClean ==
  ASSUME TypeOK, DangleInv, "remove" \notin raced, NEW r \in Requests, NEW s \in Requests,
         s # r, req'[s] = req[s], req[r].pc \in WriterPcs, Live \subseteq Live'
  PROVE  Clean(req[s])'
<1>1. Clean(req[s])
  BY DEF DangleInv
<1>2. req[s].pc \notin RemovePcs
  BY DEF DangleInv, RemoveAlone, InProgress
<1> QED BY <1>1, <1>2 DEF Clean, RemovePcs

LEMMA CreateWriteDangle ==
  ASSUME TypeOK, DangleInv, NEW r \in Requests, CreateWrite(r)
  PROVE  DangleInv'
<1> DEFINE p == req[r].parent
<1>1. PICK c \in Depts : /\ dept[c] = Absent
                         /\ dept' = [dept EXCEPT ![c] = [state |-> "live", parentId |-> p]]
  BY DEF CreateWrite
<1>2. req[r].pc = "createWrite" /\ req[r].pc \in WriterPcs /\ Return(r) /\ raced' = raced /\ user' = user
  BY DEF CreateWrite, WriterPcs, CreatePcs
<1>3. /\ dept'[c].state = "live" /\ dept'[c].parentId = p /\ dept[c].state = "absent"
      /\ \A d \in Depts \ {c} : dept'[d] = dept[d]
  BY <1>1 DEF TypeOK, Absent
<1>4. Live' = Live \cup {c}
  BY <1>3 DEF Live
<1>5. ASSUME "remove" \notin raced
      PROVE  NoOrphan' /\ UsersPlaced'
  <2>1. NoOrphan /\ UsersPlaced /\ p \in Live \cup {NoDept}
    BY <1>2, <1>5 DEF DangleInv, Clean
  <2>2. NoOrphan'
    BY <1>3, <1>4, <2>1 DEF NoOrphan, Live
  <2> QED BY <1>2, <1>4, <2>1, <2>2 DEF UsersPlaced
<1> QED BY <1>2, <1>4, <1>5, GrowClean, LeaveDangle

LEMMA UpdateWriteDangle ==
  ASSUME TypeOK, DangleInv, NEW r \in Requests, UpdateWrite(r)
  PROVE  DangleInv'
<1> DEFINE c == req[r].dept
           p == req[r].parent
<1>1. /\ raced' = raced /\ user' = user
      /\ req[r].pc = "updateWrite" /\ req[r].pc \in WriterPcs
  BY DEF UpdateWrite, UpdatePcs, WriterPcs
<1>2. CASE dept' = dept /\ Return(r)
  BY <1>1, <1>2, EndDangle
<1>3. CASE Found(c) /\ dept' = [dept EXCEPT ![c].parentId = p] /\ Return(r)
  <2>1. /\ c \in Depts /\ dept'[c].state = dept[c].state /\ dept'[c].parentId = p
        /\ \A d \in Depts \ {c} : dept'[d] = dept[d]
    BY <1>3 DEF TypeOK, Dept, Found
  <2>2. Live' = Live
    BY <2>1 DEF Live
  <2>3. ASSUME "remove" \notin raced
        PROVE  NoOrphan' /\ UsersPlaced'
    <3>1. NoOrphan /\ UsersPlaced /\ p \in Live \cup {NoDept}
      BY <1>1, <2>3 DEF DangleInv, Clean
    <3>2. NoOrphan'
      BY <2>1, <2>2, <3>1 DEF NoOrphan, Live
    <3> QED BY <1>1, <2>2, <3>1, <3>2 DEF UsersPlaced
  <2> QED BY <1>1, <1>3, <2>2, <2>3, GrowClean, LeaveDangle
<1> QED BY <1>2, <1>3 DEF UpdateWrite

LEMMA UserWriteDangle ==
  ASSUME TypeOK, DangleInv, NEW r \in Requests, UserWrite(r) \/ ScopeWrite(r)
  PROVE  DangleInv'
<1>1. dept' = dept /\ raced' = raced /\ Return(r) /\ Live' = Live
  BY DEF UserWrite, ScopeWrite, Live
<1>2. req[r].pc \in WriterPcs
  BY DEF UserWrite, ScopeWrite, WriterPcs, UserPcs
<1>3. ASSUME "remove" \notin raced
      PROVE  NoOrphan' /\ UsersPlaced'
  <2>1. NoOrphan /\ UsersPlaced /\ Clean(req[r])
    BY <1>3 DEF DangleInv
  <2>2. NoOrphan'
    BY <1>1, <2>1 DEF NoOrphan
  <2>3. CASE UserWrite(r)
    <3>1. req[r].parent \in Live \cup {NoDept}
      BY <2>1, <2>3 DEF Clean, UserWrite
    <3> QED BY <1>1, <2>1, <2>2, <2>3, <3>1 DEF UsersPlaced, UserWrite, TypeOK, User
  <2>4. CASE ScopeWrite(r)
    <3>1. req[r].custom \subseteq Live
      BY <2>1, <2>4 DEF Clean, ScopeWrite
    <3> QED BY <1>1, <2>1, <2>2, <2>4, <3>1 DEF UsersPlaced, ScopeWrite, TypeOK, User
  <2> QED BY <2>3, <2>4
<1> QED BY <1>1, <1>2, <1>3, GrowClean, LeaveDangle

\* Alone, a remove drops the last references there can be.
LEMMA RemoveWriteDangle ==
  ASSUME TypeOK, DangleInv, NEW r \in Requests, RemoveWrite(r)
  PROVE  DangleInv'
<1> DEFINE c == req[r].dept
<1>1. raced' = raced /\ req[r].pc = "removeWrite" /\ req[r].pc \in RemovePcs
  BY DEF RemoveWrite, RemovePcs
<1>2. CASE dept' = dept /\ user' = user /\ Return(r)
  BY <1>1, <1>2, EndDangle
<1>3. CASE /\ Found(c) /\ dept' = [dept EXCEPT ![c] = Deleted] /\ Return(r)
           /\ user' = [u \in Users |-> [user[u] EXCEPT !.custom = @ \ {c}]]
  <2>1. /\ c \in Depts /\ dept'[c].state = "deleted"
        /\ \A d \in Depts \ {c} : dept'[d] = dept[d]
    BY <1>3 DEF TypeOK, Deleted, Found
  <2>2. Live' = Live \ {c}
    BY <2>1 DEF Live
  <2>3. \A u \in Users : /\ user'[u].deptId = user[u].deptId
                         /\ user'[u].custom = user[u].custom \ {c}
    BY <1>3 DEF TypeOK, User
  <2>4. ASSUME "remove" \notin raced
        PROVE  /\ NoOrphan' /\ UsersPlaced'
               /\ \A s \in Requests \ {r} : req'[s] = req[s] => Clean(req[s])'
    <3>1. NoOrphan /\ UsersPlaced /\ Clean(req[r])
      BY <2>4 DEF DangleInv
    <3>2. /\ \A d \in Live : dept[d].parentId # c
          /\ \A u \in Users : user[u].deptId # c
      BY <1>1, <3>1 DEF Clean
    <3>3. NoOrphan'
      BY <2>1, <2>2, <3>1, <3>2 DEF NoOrphan, Live
    <3>4. UsersPlaced'
      BY <2>2, <2>3, <3>1, <3>2 DEF UsersPlaced
    <3>5. \A s \in Requests \ {r} : req[s].pc \notin WriterPcs
      BY <1>1, <2>4 DEF DangleInv, RemoveAlone, InProgress
    <3>6. \A s \in Requests \ {r} : req'[s] = req[s] => Clean(req[s])'
      BY <3>5 DEF Clean, WriterPcs, CreatePcs, UpdatePcs, RemovePcs, UserPcs
    <3> QED BY <3>3, <3>4, <3>6
  <2> QED BY <1>1, <1>3, <2>4, LeaveDangle
<1> QED BY <1>2, <1>3 DEF RemoveWrite

-----------------------------------------------------------------------------
LEMMA InitDangle == Init => DangleInv
<1> SUFFICES ASSUME Init PROVE DangleInv OBVIOUS
<1>1. \A r \in Requests : req[r].pc = "idle"
  BY DEF Init, IdleRequest
<1>2. RemoveAlone /\ \A r \in Requests : Clean(req[r])
  BY <1>1 DEF RemoveAlone, InProgress, RemovePcs, Clean
<1>3. UsersPlaced
  BY DEF Init, UsersPlaced
<1>4. NoOrphan
  <2>1. PICK S \in SUBSET Depts : \E parent \in [S -> S \cup {NoDept}] :
          dept = [d \in Depts |-> IF d \in S
                                  THEN [state |-> "live", parentId |-> parent[d]]
                                  ELSE Absent]
    BY DEF Init
  <2>2. PICK parent \in [S -> S \cup {NoDept}] :
          dept = [d \in Depts |-> IF d \in S
                                  THEN [state |-> "live", parentId |-> parent[d]]
                                  ELSE Absent]
    BY <2>1
  <2>3. Live = S
    BY <2>2 DEF Live, Absent
  <2> QED BY <2>2, <2>3 DEF NoOrphan
<1> QED BY <1>2, <1>3, <1>4 DEF DangleInv

LEMMA NextDangle == TypeOK /\ DangleInv /\ [Next]_vars => DangleInv'
<1> SUFFICES ASSUME TypeOK, DangleInv, [Next]_vars PROVE DangleInv' OBVIOUS
<1>1. ASSUME NEW r \in Requests, Step(r) PROVE DangleInv'
  BY <1>1, CreateWriteDangle, UpdateWriteDangle, RemoveWriteDangle, UserWriteDangle,
     ChecksDangle DEF Step
<1>2. CASE UNCHANGED <<dept, user, req, raced>>
  BY <1>2 DEF DangleInv, RemoveAlone, InProgress, NoOrphan, UsersPlaced, Live, Clean
<1>3. CASE UNCHANGED vars
  BY <1>2, <1>3 DEF vars
<1> QED
  BY <1>1, <1>3, BeginsDangle, AbortDangle DEF Next

\* As long as no remove has overlapped another write, no department, user or
\* data scope row refers to a removed department, for any tables and any
\* number of requests.
THEOREM NothingDangles == Spec => []NothingDanglesUnlessRemoveRaces
<1>1. DangleInv => NothingDanglesUnlessRemoveRaces
  BY DEF DangleInv, NothingDanglesUnlessRemoveRaces
<1> QED BY <1>1, TypeCorrect, InitDangle, NextDangle, PTL DEF Spec

-----------------------------------------------------------------------------
(* The search for the data scope.  The provers instantiate no theorem about *)
(* an operator, but the minimal element of a well-founded relation is one   *)
(* about sets: induction over the naturals follows from it, that recursive  *)
(* definitions define something follows from induction, and what the search *)
(* returns is an invariant of its turns.                                    *)

\* Induction over the naturals, about a set.
LEMMA NatSetInduction ==
  ASSUME NEW S, 0 \in S, \A n \in Nat : n \in S => n + 1 \in S
  PROVE  \A n \in Nat : n \in S
<1> SUFFICES ASSUME NEW n \in Nat, n \notin S PROVE FALSE
  OBVIOUS
<1> DEFINE U == {m \in Nat : m \notin S}
           T == {1 .. m : m \in U}
<1>1. T \subseteq FiniteSubsetsOf(Nat)
  <2> SUFFICES ASSUME NEW m \in Nat PROVE 1 .. m \in FiniteSubsetsOf(Nat)
    OBVIOUS
  <2>1. IsFiniteSet(1 .. m) /\ 1 .. m \in SUBSET Nat
    BY FS_Interval
  <2> QED BY <2>1 DEF FiniteSubsetsOf
<1>2. T # {}
  OBVIOUS
<1>3. IsWellFoundedOn(StrictSubsetOrdering(Nat), FiniteSubsetsOf(Nat))
  BY FS_StrictSubsetOrderingWellFounded
<1> HIDE DEF T
<1>4. PICK X \in T : \A Y \in T : <<Y, X>> \notin StrictSubsetOrdering(Nat)
  BY <1>1, <1>2, <1>3, WFMin, Zenon
<1> USE DEF T
<1>5. PICK m \in U : X = 1 .. m
  OBVIOUS
<1>6. m # 0 /\ m - 1 \in Nat
  BY <1>5
<1>7. m - 1 \notin S
  BY <1>5, <1>6
<1>8. 1 .. m - 1 \in T
  BY <1>6, <1>7
<1>9. <<1 .. m - 1, X>> \in StrictSubsetOrdering(Nat)
  <2>1. 1 .. m - 1 \in SUBSET Nat /\ X \in SUBSET Nat /\ 1 .. m - 1 \subseteq X
    BY <1>5, <1>6
  <2>2. m \in X /\ m \notin 1 .. m - 1
    BY <1>5, <1>6
  <2> QED BY <2>1, <2>2 DEF StrictSubsetOrdering
<1> QED BY <1>4, <1>8, <1>9

\* A function can be applied again and again.
Iterated(T, x, N, f) == f[0] = x /\ \A k \in 1 .. N : f[k] = T[f[k - 1]]

LEMMA Iterates ==
  ASSUME NEW R, NEW T \in [R -> R], NEW x \in R, NEW N \in Nat
  PROVE  \E f \in [0 .. N -> R] : Iterated(T, x, N, f)
<1> DEFINE Runs(n) == {f \in [0 .. n -> R] : Iterated(T, x, n, f)}
           S == {n \in Nat : Runs(n) # {}}
<1> USE DEF Iterated
<1>1. 0 \in S
  <2>1. [k \in 0 .. 0 |-> x] \in Runs(0)
    OBVIOUS
  <2> QED BY <2>1
<1>2. ASSUME NEW n \in Nat, n \in S PROVE n + 1 \in S
  <2>1. PICK f : f \in Runs(n)
    BY <1>2
  <2> DEFINE g == [k \in 0 .. n + 1 |-> IF k <= n THEN f[k] ELSE T[f[n]]]
  <2>2. f \in [0 .. n -> R] /\ T[f[n]] \in R
    BY <2>1
  <2>3. g \in [0 .. n + 1 -> R] /\ g[0] = x
    BY <2>1, <2>2
  <2>4. ASSUME NEW k \in 1 .. n + 1 PROVE g[k] = T[g[k - 1]]
    <3>1. CASE k <= n
      BY <2>1, <3>1
    <3>2. CASE k = n + 1
      BY <3>2
    <3> QED BY <3>1, <3>2
  <2> QED BY <2>3, <2>4
<1> HIDE DEF S
<1>3. \A n \in Nat : n \in S
  BY <1>1, <1>2, NatSetInduction
<1> QED BY <1>3 DEF S

\* The states of the search.
Searches == [visited : SUBSET Depts, queue : SUBSET Depts]
First(root) == [visited |-> {root}, queue |-> {root}]

LEMMA TurnType ==
  ASSUME NEW tree \in SUBSET FlatNode, NEW s \in Searches
  PROVE  Turn(tree, s) \in Searches
<1>1. \A d : ChildrenOf(tree, d) \subseteq Depts
  BY DEF ChildrenOf, FlatNode
<1> QED BY <1>1 DEF Turn, Searches

\* The recursive definition of the search defines it.
LEMMA SearchIsDefined ==
  ASSUME NEW tree \in SUBSET FlatNode, NEW root \in Depts
  PROVE  \E s \in [0 .. Cardinality(Depts) -> Searches] :
           /\ s[0] = First(root)
           /\ \A k \in 1 .. Cardinality(Depts) : s[k] = Turn(tree, s[k - 1])
           /\ DeptAndChildren(tree, root) = s[Cardinality(Depts)].visited
<1> DEFINE N == Cardinality(Depts)
           T == [s \in Searches |-> Turn(tree, s)]
           Search == CHOOSE f : f = [k \in 0 .. N |-> IF k = 0 THEN First(root) ELSE Turn(tree, f[k - 1])]
<1>1. N \in Nat
  BY DeptAssumption, FS_CardinalityType
<1>2. T \in [Searches -> Searches]
  BY TurnType
<1>3. First(root) \in Searches
  BY DEF First, Searches
<1> HIDE DEF N, T
<1>4. PICK f \in [0 .. N -> Searches] : Iterated(T, First(root), N, f)
  BY <1>1, <1>2, <1>3, Iterates
<1>5. f[0] = First(root) /\ \A k \in 1 .. N : f[k] = T[f[k - 1]]
  BY <1>4 DEF Iterated
<1>6. ASSUME NEW k \in 1 .. N PROVE f[k] = Turn(tree, f[k - 1])
  <2>1. k - 1 \in 0 .. N
    BY <1>1
  <2>2. f[k - 1] \in Searches
    BY <1>5, <2>1
  <2> QED BY <1>5, <2>2 DEF T
<1>7. f = [k \in 0 .. N |-> IF k = 0 THEN First(root) ELSE Turn(tree, f[k - 1])]
  BY <1>1, <1>5, <1>6
<1>8. Search = [k \in 0 .. N |-> IF k = 0 THEN First(root) ELSE Turn(tree, Search[k - 1])]
  BY <1>7, Zenon
<1>9. DeptAndChildren(tree, root) = Search[N].visited
  BY DEF DeptAndChildren, N, First
<1> HIDE DEF Search
<1>10. Search[0] = First(root) /\ \A k \in 1 .. N : Search[k] = Turn(tree, Search[k - 1])
  BY <1>1, <1>8
<1>11. \A k \in Nat : k \in 0 .. N => Search[k] \in Searches
  <2> DEFINE S == {k \in Nat : k \in 0 .. N => Search[k] \in Searches}
  <2>1. 0 \in S
    BY <1>3, <1>10
  <2>2. ASSUME NEW k \in Nat, k \in S PROVE k + 1 \in S
    BY <1>1, <1>10, <2>2, TurnType
  <2> HIDE DEF S
  <2>3. \A k \in Nat : k \in S
    BY <2>1, <2>2, NatSetInduction
  <2> QED BY <2>3 DEF S
<1>12. Search \in [0 .. N -> Searches]
  BY <1>1, <1>8, <1>11
<1> QED BY <1>9, <1>10, <1>12 DEF N

\* What every turn keeps: what is not in the queue any more has its children
\* visited, and only what is below the root is visited.
Searched(tree, root, s) ==
  /\ s \in Searches
  /\ root \in s.visited
  /\ s.queue \subseteq s.visited
  /\ s.visited \subseteq Ids(tree) \cup {root}
  /\ \A d \in s.visited \ s.queue : ChildrenOf(tree, d) \subseteq s.visited
  /\ \A S : root \in S /\ Closed(tree, S) => s.visited \subseteq S

LEMMA TurnSearches ==
  ASSUME NEW tree \in SUBSET FlatNode, NEW root, NEW s, Searched(tree, root, s)
  PROVE  /\ Searched(tree, root, Turn(tree, s))
         /\ s.queue # {} =>
              Cardinality(Turn(tree, s).visited \ Turn(tree, s).queue) =
                Cardinality(s.visited \ s.queue) + 1
<1>1. CASE s.queue = {}
  BY <1>1 DEF Turn
<1>2. CASE s.queue # {}
  <2> DEFINE current == CHOOSE d \in s.queue : TRUE
             unseen == ChildrenOf(tree, current) \ s.visited
             t == Turn(tree, s)
  <2>1. current \in s.queue
    BY <1>2
  <2> HIDE DEF current
  <2>2. t.visited = s.visited \cup unseen /\ t.queue = (s.queue \ {current}) \cup unseen
    BY <1>2 DEF Turn, current
  <2>3. t \in Searches
    BY TurnType DEF Searched
  <2>4. \A d : ChildrenOf(tree, d) \subseteq Ids(tree)
    BY DEF ChildrenOf, Ids
  <2> HIDE DEF t, unseen
  <2>5. t.visited \ t.queue = (s.visited \ s.queue) \cup {current}
    BY <2>1, <2>2 DEF Searched, unseen
  <2>6. \A d \in t.visited \ t.queue : ChildrenOf(tree, d) \subseteq t.visited
    BY <2>2, <2>5 DEF Searched, unseen
  <2>7. \A S : root \in S /\ Closed(tree, S) => t.visited \subseteq S
    BY <2>1, <2>2 DEF Searched, Closed, unseen
  <2>8. Searched(tree, root, t)
    BY <2>1, <2>2, <2>3, <2>4, <2>6, <2>7 DEF Searched, unseen
  <2>9. IsFiniteSet(s.visited \ s.queue)
    BY DeptAssumption, FS_Subset DEF Searched, Searches
  <2>10. current \notin s.visited \ s.queue
    BY <2>1
  <2>11. Cardinality((s.visited \ s.queue) \cup {current}) = Cardinality(s.visited \ s.queue) + 1
    BY <2>9, <2>10, FS_AddElement, Zenon
  <2> QED BY <2>5, <2>8, <2>11 DEF t
<1> QED BY <1>1, <1>2

\* The search ends within as many turns as there are departments, with all of
\* what is below the root.
LEMMA SearchFindsSubtree ==
  ASSUME NEW tree \in SUBSET FlatNode, NEW root \in Depts
  PROVE  DeptAndChildren(tree, root) = Subtree(tree, root)
<1> DEFINE N == Cardinality(Depts)
<1>1. N \in Nat
  BY DeptAssumption, FS_CardinalityType
<1>2. PICK s \in [0 .. N -> Searches] :
        /\ s[0] = First(root)
        /\ \A k \in 1 .. N : s[k] = Turn(tree, s[k - 1])
        /\ DeptAndChildren(tree, root) = s[N].visited
  BY SearchIsDefined
<1> DEFINE Done(k) == s[k].visited \ s[k].queue
           S == {k \in Nat : k \in 0 .. N => /\ Searched(tree, root, s[k])
                                             /\ s[k].queue = {} \/ Cardinality(Done(k)) = k}
<1> HIDE DEF N
<1>3. 0 \in S
  <2>1. Searched(tree, root, First(root))
    BY DEF Searched, First, Searches
  <2>2. First(root).visited \ First(root).queue = {}
    BY DEF First
  <2> QED BY <1>1, <1>2, <2>1, <2>2, FS_EmptySet
<1>4. ASSUME NEW k \in Nat, k \in S PROVE k + 1 \in S
  <2> SUFFICES ASSUME k + 1 \in 0 .. N
               PROVE  /\ Searched(tree, root, s[k + 1])
                      /\ s[k + 1].queue = {} \/ Cardinality(Done(k + 1)) = k + 1
    OBVIOUS
  <2>1. /\ Searched(tree, root, s[k])
        /\ s[k].queue = {} \/ Cardinality(Done(k)) = k
        /\ s[k + 1] = Turn(tree, s[k])
    BY <1>1, <1>2, <1>4
  <2>2. Searched(tree, root, s[k + 1])
    BY <2>1, TurnSearches
  <2>3. CASE s[k].queue = {}
    BY <2>1, <2>2, <2>3 DEF Turn
  <2>4. CASE s[k].queue # {}
    BY <2>1, <2>2, <2>4, TurnSearches
  <2> QED BY <2>3, <2>4
<1> HIDE DEF S
<1>5. N \in S
  BY <1>1, <1>3, <1>4, NatSetInduction
<1> USE DEF S
<1>6. Searched(tree, root, s[N]) /\ (s[N].queue = {} \/ Cardinality(Done(N)) = N)
  BY <1>1, <1>5
<1>7. s[N].queue = {}
  <2> SUFFICES ASSUME Cardinality(Done(N)) = N PROVE s[N].queue = {}
    BY <1>6
  <2>1. Done(N) \in SUBSET Depts /\ s[N].queue \subseteq Depts
    BY <1>6 DEF Searched, Searches
  <2>2. Done(N) = Depts
    BY <2>1, DeptAssumption, FS_Subset DEF N
  <2> QED BY <2>1, <2>2
<1>8. Closed(tree, s[N].visited)
  BY <1>6, <1>7 DEF Searched, Closed
<1> QED BY <1>2, <1>6, <1>8 DEF Searched, Subtree

\* The search of getDeptAndChildren ends and finds what is below the root and
\* nothing else, for every tree that can come about, cycles included.
THEOREM ScopeIsComputed == Spec => []ScopeIsSubtree
<1>1. TypeOK => ScopeIsSubtree
  BY TreeType, SearchFindsSubtree DEF ScopeIsSubtree
<1> QED BY <1>1, TypeCorrect, PTL

\* The scope of a viewer is what the level allows.
LEMMA ScopeAllowed ==
  ASSUME NEW tree \in SUBSET FlatNode, NEW deptOf \in Placements, NEW custom \in SUBSET Depts,
         NEW dataScope \in 1 .. 5, NEW v \in DOMAIN deptOf,
         LET scope == Resolve(dataScope, deptOf[Viewer], custom, tree)
         IN  \/ scope.all
             \/ scope.selfOnly /\ v = Viewer
             \/ ~scope.selfOnly /\ deptOf[v] \in scope.deptIds
  PROVE  v \in Allowed(dataScope, Viewer, deptOf, custom, tree)
<1> DEFINE own == deptOf[Viewer]
           scope == Resolve(dataScope, own, custom, tree)
<1>1. own \in Depts \cup {NoDept}
  BY DEF Placements, DeptOrNull
<1>2. CASE dataScope = 1
  BY <1>2 DEF Allowed
<1>3. CASE dataScope # 1 /\ (dataScope = 2 \/ own = NoDept)
  <2>1. scope = DenyAll
    BY <1>3 DEF Resolve
  <2>2. v = Viewer
    BY <2>1 DEF DenyAll
  <2> QED BY <2>2 DEF Allowed
<1>4. CASE dataScope \in 3 .. 5 /\ own # NoDept
  <2>1. ~scope.all /\ ~scope.selfOnly
    BY <1>4 DEF Resolve, Within
  <2>2. deptOf[v] \in scope.deptIds
    BY <2>1
  <2>3. CASE dataScope = 3
    <3>1. scope.deptIds = {own}
      BY <1>4, <2>3 DEF Resolve, Within
    <3> QED BY <1>4, <2>2, <2>3, <3>1 DEF Allowed
  <2>4. CASE dataScope = 4
    <3>1. scope.deptIds = DeptAndChildren(tree, own)
      BY <1>4, <2>4 DEF Resolve, Within
    <3>2. deptOf[v] \in Subtree(tree, own)
      BY <1>1, <1>4, <2>2, <3>1, SearchFindsSubtree
    <3> QED BY <1>4, <2>4, <3>2 DEF Allowed
  <2>5. CASE dataScope = 5
    <3>1. scope.deptIds = custom
      BY <1>4, <2>5 DEF Resolve, Within
    <3> QED BY <2>2, <2>5, <3>1 DEF Allowed
  <2> QED BY <1>4, <2>3, <2>4, <2>5
<1> QED BY <1>2, <1>3, <1>4

LEMMA ScopeRespected == TypeOK => ListsRespectScope
<1> SUFFICES ASSUME TypeOK, NEW deptOf \in Placements, NEW custom \in SUBSET Live,
                    NEW dataScope \in 1 .. 5
             PROVE  LET scope == Resolve(dataScope, deptOf[Viewer], custom, Tree)
                        may   == Allowed(dataScope, Viewer, deptOf, custom, Tree)
                    IN  /\ \A d \in DeptOrNull : UserList(scope, Viewer, d, deptOf) \subseteq may
                        /\ \A wanted, matching \in SUBSET DOMAIN deptOf :
                             /\ LoginLogList(scope, Viewer, wanted, matching, deptOf) \subseteq may
                             /\ OperationLogList(scope, Viewer, wanted, matching, deptOf) \subseteq may
  BY DEF ListsRespectScope
<1> DEFINE scope == Resolve(dataScope, deptOf[Viewer], custom, Tree)
           may   == Allowed(dataScope, Viewer, deptOf, custom, Tree)
<1>1. Tree \in SUBSET FlatNode /\ custom \in SUBSET Depts /\ Viewer \in DOMAIN deptOf
  BY TreeType DEF Live, Placements
<1>2. ASSUME NEW v \in DOMAIN deptOf,
             \/ scope.all
             \/ scope.selfOnly /\ v = Viewer
             \/ ~scope.selfOnly /\ deptOf[v] \in scope.deptIds
      PROVE  v \in may
  BY <1>1, <1>2, ScopeAllowed
<1> HIDE DEF scope, may
<1>3. \A d \in DeptOrNull : UserList(scope, Viewer, d, deptOf) \subseteq may
  <2>1. CASE scope.selfOnly
    BY <1>1, <1>2, <2>1 DEF UserList
  <2>2. CASE ~scope.selfOnly /\ scope.all
    BY <1>2, <2>2 DEF UserList
  <2>3. CASE ~scope.selfOnly /\ ~scope.all
    <3>1. \A d \in DeptOrNull : DeptWhere(scope, d) \subseteq scope.deptIds
      BY <2>3 DEF DeptWhere
    <3> QED BY <1>2, <2>3, <3>1 DEF UserList
  <2> QED BY <2>1, <2>2, <2>3
<1>4. \A wanted \in SUBSET DOMAIN deptOf : LogWhere(scope, Viewer, wanted, deptOf) \subseteq may
  <2>1. CASE scope.all
    BY <1>2, <2>1 DEF LogWhere
  <2>2. CASE ~scope.all /\ scope.selfOnly
    BY <1>1, <1>2, <2>2 DEF LogWhere
  <2>3. CASE ~scope.all /\ ~scope.selfOnly
    BY <1>2, <2>3 DEF LogWhere
  <2> QED BY <2>1, <2>2, <2>3
<1>5. \A wanted, matching \in SUBSET DOMAIN deptOf :
        /\ LoginLogList(scope, Viewer, wanted, matching, deptOf) \subseteq may
        /\ OperationLogList(scope, Viewer, wanted, matching, deptOf) \subseteq may
  BY <1>4 DEF LoginLogList, OperationLogList
<1> QED BY <1>3, <1>5 DEF scope, may

\* No list of users or of logs shows a viewer more than the data scope allows,
\* in any table and for whatever department or user is asked for.
THEOREM ScopeHolds == Spec => []ListsRespectScope
  BY ScopeRespected, TypeCorrect, PTL

-----------------------------------------------------------------------------
(* The tree of the response.                                                *)

\* A node that is not shown is below another one, and so on: without a cycle
\* there is none.
LEMMA AcyclicShown ==
  ASSUME TypeOK, Acyclic, NEW matching \in SUBSET Ids(Tree)
  PROVE  DeptList(Tree, matching) = matching
<1> DEFINE items == {n \in Tree : n.id \in matching}
           node(d) == [id |-> d, parentId |-> dept[d].parentId]
<1>1. \A d \in Live : node(d) \in Tree /\ node(d).id = d
  BY DEF Tree
<1>2. \A n \in Tree : n.id \in Live /\ n.parentId = dept[n.id].parentId
  BY DEF Tree
<1>3. Ids(Tree) = Live
  BY <1>1, <1>2 DEF Ids
<1>4. \A d \in matching : /\ node(d) \in items /\ node(d).id = d
                          /\ node(d).parentId = dept[d].parentId
  BY <1>1, <1>3
<1>5. \A n \in items : n.id \in matching /\ n.parentId = dept[n.id].parentId
  BY <1>2
<1>6. DeptList(Tree, matching) = Shown(items)
  BY DEF DeptList
<1> HIDE DEF items, node
<1>7. Ids(items) = matching
  BY <1>4, <1>5 DEF Ids
<1>8. Roots(items) = {d \in matching : dept[d].parentId \notin matching}
  <2>1. \A d \in Roots(items) : d \in matching /\ dept[d].parentId \notin matching
    BY <1>5, <1>7 DEF Roots
  <2>2. \A d \in matching : dept[d].parentId \notin matching => d \in Roots(items)
    BY <1>4, <1>7 DEF Roots
  <2> QED BY <2>1, <2>2
<1>9. \A d \in matching : d \in ChildrenOf(items, dept[d].parentId)
  BY <1>4 DEF ChildrenOf
<1>10. Shown(items) \subseteq matching
  BY <1>7, <1>8 DEF Shown, Subtree
<1>11. ASSUME NEW d \in matching, d \notin Shown(items)
      PROVE  dept[d].parentId \in matching \ Shown(items)
  <2>1. dept[d].parentId \in matching
    <3> SUFFICES ASSUME d \in Roots(items) PROVE FALSE
      BY <1>11, <1>8
    <3>1. d \in Subtree(items, d)
      BY DEF Subtree
    <3> QED BY <1>11, <3>1 DEF Shown
  <2>2. ASSUME NEW root \in Roots(items), dept[d].parentId \in Subtree(items, root)
        PROVE  d \in Subtree(items, root)
    BY <1>7, <1>9, <2>2 DEF Subtree, Closed
  <2> QED BY <1>11, <2>1, <2>2 DEF Shown
<1>12. matching \ Shown(items) \in SUBSET Live
  BY <1>3
<1>13. matching \ Shown(items) = {}
  BY <1>11, <1>12 DEF Acyclic
<1> QED BY <1>6, <1>10, <1>13

\* The tree of the response shows every department the query finds, whatever
\* ancestors it filters out, unless two moves have overlapped.
THEOREM TreeIsComplete == Spec => []EveryNodeShown
<1>1. TypeOK /\ AcyclicUnlessUpdatesRace => EveryNodeShown
  BY AcyclicShown DEF AcyclicUnlessUpdatesRace, EveryNodeShown
<1> QED BY <1>1, TypeCorrect, NoCycleUnlessUpdatesRace, PTL
=============================================================================
