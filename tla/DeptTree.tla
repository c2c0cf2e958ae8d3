------------------------------ MODULE DeptTree ------------------------------
(***************************************************************************)
(* Departments: DeptService (create, update, remove) and the operations of *)
(* UserService that refer to departments (update, assignDataScope).        *)
(*                                                                         *)
(* Every handler checks what it read and then writes, with no transaction  *)
(* around the two; each action below is one query and the code up to the   *)
(* next.  The copy of the tree in Redis, dropped after each write, is one  *)
(* of the entries of module Access.                                    *)
(*                                                                         *)
(* A soft-deleted row is invisible to every query, so its parent is not    *)
(* kept.                                                                   *)
(***************************************************************************)
EXTENDS DataScope

CONSTANTS
  Users,
  NoUser,
  Requests, \* requests that can be in progress at once
  Ops       \* the operations that are requested: subset of OpKinds

OpKinds == {"create", "update", "remove", "userUpdate", "assignDataScope"}

ASSUME DeptTreeAssumption == NoUser \notin Users /\ Ops \subseteq OpKinds

VARIABLES
  dept,  \* the depts table
  user,  \* of the users table, deptId; and the rows of user_data_scope_depts
  req,   \* the requests in progress
  raced  \* "update": two updates of parents overlapped;
         \* "remove": a remove overlapped another writer

vars == <<dept, user, req, raced>>

-----------------------------------------------------------------------------
Dept  == [state : {"absent", "live", "deleted"}, parentId : DeptOrNull]
User  == [deptId : DeptOrNull, custom : SUBSET Depts]

Absent  == [state |-> "absent", parentId |-> NoDept]
Deleted == [state |-> "deleted", parentId |-> NoDept]

CreatePcs == {"createWrite"}
UpdatePcs == {"checkParent", "assertNoCycle", "updateWrite"}
RemovePcs == {"countChildren", "countUsers", "removeWrite"}
UserPcs   == {"checkDept", "userWrite", "scopeWrite"}
WriterPcs == CreatePcs \cup UpdatePcs \cup RemovePcs \cup UserPcs

\* dept is the department a request is about, parent the parent or the
\* department it assigns; at and visited are the variables of assertNoCycle.
Request == [pc      : {"idle"} \cup WriterPcs,
            dept    : DeptOrNull,
            parent  : DeptOrNull,
            at      : DeptOrNull,
            visited : SUBSET Depts,
            user    : Users \cup {NoUser},
            custom  : SUBSET Depts]

IdleRequest == [pc |-> "idle", dept |-> NoDept, parent |-> NoDept, at |-> NoDept,
                visited |-> {}, user |-> NoUser, custom |-> {}]

\* A request knows the rows it is about.
Aimed(q) ==
  /\ q.pc \in UpdatePcs \cup RemovePcs => q.dept \in Depts
  /\ q.pc \in {"checkParent", "checkDept"} => q.parent \in Depts
  /\ q.pc = "assertNoCycle" => q.parent \in Depts /\ q.at \in Depts
  /\ q.pc \in UserPcs => q.user \in Users

TypeOK ==
  /\ dept \in [Depts -> Dept]
  /\ user \in [Users -> User]
  /\ req \in [Requests -> Request]
  /\ \A r \in Requests : Aimed(req[r])
  /\ raced \subseteq {"update", "remove"}

-----------------------------------------------------------------------------
\* What queries see.

Found(d)  == d \in Depts /\ dept[d].state = "live"
Live      == {d \in Depts : dept[d].state = "live"}
Tree      == {[id |-> d, parentId |-> dept[d].parentId] : d \in Live}

InProgress(pcs) == {r \in Requests : req[r].pc \in pcs}

\* Request r starts an operation and overlaps those in progress.
NowRaced(op) ==
  raced \cup (IF op = "update" /\ InProgress(UpdatePcs) # {} THEN {"update"} ELSE {})
        \cup (IF \/ op = "remove" /\ InProgress(WriterPcs) # {}
                 \/ InProgress(RemovePcs) # {}
              THEN {"remove"} ELSE {})

Begin(r, op, new) ==
  /\ op \in Ops
  /\ req[r].pc = "idle"
  /\ req' = [req EXCEPT ![r] = new]
  /\ raced' = NowRaced(op)
  /\ UNCHANGED <<dept, user>>

Become(r, new) == req' = [req EXCEPT ![r] = new]
Goto(r, pc)    == Become(r, [req[r] EXCEPT !.pc = pc])
Return(r)      == Become(r, IdleRequest)

\* A query that passes leads to pc, one that fails to an exception.
Check(r, pc, ok) == /\ IF ok THEN Goto(r, pc) ELSE Return(r)
                    /\ UNCHANGED <<dept, user, raced>>

-----------------------------------------------------------------------------
\* DeptService.create; the second guard bounds the ids.
CreateRead(r, p) ==
  /\ p # NoDept => Found(p)
  /\ Cardinality({d \in Depts : dept[d] = Absent}) > Cardinality(InProgress(CreatePcs))
  /\ Begin(r, "create", [IdleRequest EXCEPT !.pc = "createWrite", !.parent = p])

CreateWrite(r) ==
  /\ req[r].pc = "createWrite"
  /\ \E d \in Depts :
       /\ dept[d] = Absent
       /\ dept' = [dept EXCEPT ![d] = [state |-> "live", parentId |-> req[r].parent]]
  /\ Return(r)
  /\ UNCHANGED <<user, raced>>

-----------------------------------------------------------------------------
\* DeptService.update with a parentId; without one it does not touch the tree.
UpdateRead(r, d, p) ==
  /\ Found(d)
  /\ p # d
  /\ Begin(r, "update", [IdleRequest EXCEPT
       !.pc = IF p \in {NoDept, dept[d].parentId} THEN "updateWrite" ELSE "checkParent",
       !.dept = d, !.parent = p])

CheckParent(r) ==
  /\ req[r].pc = "checkParent"
  /\ IF Found(req[r].parent)
     THEN Become(r, [req[r] EXCEPT !.pc = "assertNoCycle", !.at = req[r].parent])
     ELSE Return(r)
  /\ UNCHANGED <<dept, user, raced>>

\* node?.parentId ?? null
ParentOf(d) == IF Found(d) THEN dept[d].parentId ELSE NoDept

Walk(r, pc, at) ==
  Become(r, [req[r] EXCEPT !.pc = pc, !.at = at, !.visited = @ \cup {req[r].at}])

\* Mutant: the grandparent is the last ancestor looked at.
CheckGrandparent(r) ==
  LET next == ParentOf(req[r].at)
  IN  /\ req[r].pc = "assertNoCycle"
      /\ IF next = req[r].dept THEN Return(r) ELSE Walk(r, "updateWrite", next)
      /\ UNCHANGED <<dept, user, raced>>

\* Mutant: an existing cycle is walked for ever.
WalkForever(r) ==
  LET next == ParentOf(req[r].at)
  IN  /\ req[r].pc = "assertNoCycle"
      /\ IF next = req[r].dept THEN Return(r)
         ELSE Walk(r, IF next = NoDept THEN "updateWrite" ELSE "assertNoCycle", next)
      /\ UNCHANGED <<dept, user, raced>>

\* Mutant: the walk goes on above the root.
WalkPastRoot(r) ==
  LET next == ParentOf(req[r].at)
  IN  /\ req[r].pc = "assertNoCycle"
      /\ IF next = req[r].dept THEN Return(r)
         ELSE Walk(r, IF next \in req[r].visited THEN "updateWrite" ELSE "assertNoCycle", next)
      /\ UNCHANGED <<dept, user, raced>>

\* One turn of the loop, from the query to the checks of the next turn.
AssertNoCycle(r) ==
  LET next == ParentOf(req[r].at)
      ends == next = NoDept \/ next \in req[r].visited \cup {req[r].at}
  IN  /\ req[r].pc = "assertNoCycle"
      /\ IF next = req[r].dept THEN Return(r)
         ELSE Walk(r, IF ends THEN "updateWrite" ELSE "assertNoCycle", next)
      /\ UNCHANGED <<dept, user, raced>>

UpdateWrite(r) ==
  /\ req[r].pc = "updateWrite"
  /\ IF Found(req[r].dept)
     THEN dept' = [dept EXCEPT ![req[r].dept].parentId = req[r].parent] /\ Return(r)
     ELSE UNCHANGED dept /\ Return(r)
  /\ UNCHANGED <<user, raced>>

-----------------------------------------------------------------------------
\* DeptService.remove
RemoveRead(r, d) ==
  /\ Found(d)
  /\ Begin(r, "remove", [IdleRequest EXCEPT !.pc = "countChildren", !.dept = d])

CountChildren(r) ==
  /\ req[r].pc = "countChildren"
  /\ Check(r, "countUsers", ChildrenOf(Tree, req[r].dept) = {})

CountUsers(r) ==
  /\ req[r].pc = "countUsers"
  /\ Check(r, "removeWrite", \A u \in Users : user[u].deptId # req[r].dept)

\* Mutant: the rows of user_data_scope_depts are left.
RemoveKeepsScopes(r) ==
  LET d == req[r].dept
  IN  /\ req[r].pc = "removeWrite"
      /\ IF Found(d)
         THEN dept' = [dept EXCEPT ![d] = Deleted] /\ Return(r)
         ELSE UNCHANGED dept /\ Return(r)
      /\ UNCHANGED <<user, raced>>

RemoveWrite(r) ==
  LET d == req[r].dept
  IN  /\ req[r].pc = "removeWrite"
      /\ IF Found(d)
         THEN /\ dept' = [dept EXCEPT ![d] = Deleted]
              /\ user' = [u \in Users |-> [user[u] EXCEPT !.custom = @ \ {d}]]
              /\ Return(r)
         ELSE UNCHANGED <<dept, user>> /\ Return(r)
      /\ UNCHANGED raced

-----------------------------------------------------------------------------
\* UserService.update with a deptId, and create.
UserRead(r, u, d) ==
  Begin(r, "userUpdate", [IdleRequest EXCEPT
    !.pc = IF d \in {NoDept, user[u].deptId} THEN "userWrite" ELSE "checkDept",
    !.user = u, !.parent = d])

CheckDept(r) ==
  /\ req[r].pc = "checkDept"
  /\ Check(r, "userWrite", Found(req[r].parent))

UserWrite(r) ==
  /\ req[r].pc = "userWrite"
  /\ user' = [user EXCEPT ![req[r].user].deptId = req[r].parent]
  /\ Return(r)
  /\ UNCHANGED <<dept, raced>>

\* UserService.assignDataScope: the rows are counted and then written in one
\* transaction, which holds no lock on them in between.
ScopeCount(r, u, S) ==
  /\ S \subseteq Live
  /\ Begin(r, "assignDataScope", [IdleRequest EXCEPT
       !.pc = "scopeWrite", !.user = u, !.custom = S])

ScopeWrite(r) ==
  /\ req[r].pc = "scopeWrite"
  /\ user' = [user EXCEPT ![req[r].user].custom = req[r].custom]
  /\ Return(r)
  /\ UNCHANGED <<dept, raced>>

-----------------------------------------------------------------------------
\* A query fails or the process dies: a taken code, a lost connection.
Abort(r) ==
  /\ req[r].pc # "idle"
  /\ Return(r)
  /\ UNCHANGED <<dept, user, raced>>

-----------------------------------------------------------------------------
\* The tables at the start: departments made before, in a sound tree.
Acyclic == \A S \in SUBSET Live : S # {} => \E d \in S : dept[d].parentId \notin S

NoOrphan == \A d \in Live : dept[d].parentId \in Live \cup {NoDept}
UsersPlaced == \A u \in Users : /\ user[u].deptId \in Live \cup {NoDept}
                                /\ user[u].custom \subseteq Live

Init ==
  /\ \E S \in SUBSET Depts : \E parent \in [S -> S \cup {NoDept}] :
       dept = [d \in Depts |-> IF d \in S
                               THEN [state |-> "live", parentId |-> parent[d]]
                               ELSE Absent]
  /\ Acyclic
  /\ user = [u \in Users |-> [deptId |-> NoDept, custom |-> {}]]
  /\ req = [r \in Requests |-> IdleRequest]
  /\ raced = {}

Step(r) ==
  \/ CreateWrite(r)
  \/ CheckParent(r) \/ AssertNoCycle(r) \/ UpdateWrite(r)
  \/ CountChildren(r) \/ CountUsers(r) \/ RemoveWrite(r)
  \/ CheckDept(r) \/ UserWrite(r) \/ ScopeWrite(r)

Next ==
  \/ \E r \in Requests :
       \/ \E p \in DeptOrNull : CreateRead(r, p)
       \/ \E d \in Depts, p \in DeptOrNull : UpdateRead(r, d, p)
       \/ \E d \in Depts : RemoveRead(r, d)
       \/ \E u \in Users, d \in DeptOrNull : UserRead(r, u, d)
       \/ \E u \in Users, S \in SUBSET Depts : ScopeCount(r, u, S)
       \/ Step(r)
       \/ Abort(r)

Spec == Init /\ [][Next]_vars
-----------------------------------------------------------------------------
\* assertNoCycle keeps the parents free of cycles unless two updates that
\* set a parent overlap: each may walk before the other has written.  What
\* creates, removes and users do meanwhile is no harm.
AcyclicUnlessUpdatesRace == "update" \notin raced => Acyclic

\* Unless a remove overlaps another write, no department, user or data scope
\* refers to a removed department: a remove finds children and users, and
\* drops the data scope rows itself.
NothingDanglesUnlessRemoveRaces ==
  "remove" \notin raced => NoOrphan /\ UsersPlaced

\* DeptService.tree and MenuService.tree: whatever nodes the query filters
\* out, buildTree shows every other one, unless a cycle has come about (the
\* nodes of a cycle hang from no root).
EveryNodeShown ==
  "update" \notin raced =>
    \A matching \in SUBSET Ids(Tree) : DeptList(Tree, matching) = matching

\* The search of getDeptAndChildren ends and finds what is below the root
\* and nothing else, in every table that can come about, cycles included.
ScopeIsSubtree == \A d \in Depts : DeptAndChildren(Tree, d) = Subtree(Tree, d)

\* Two people in any departments, and any custom scope of the first.
Viewer == "viewer"
Placements == [{Viewer, "other"} -> DeptOrNull]
Quiet == \A r \in Requests : req[r].pc = "idle"

\* No list shows a viewer more than the data scope allows, whatever
\* department or user is asked for.
ListsRespectScope ==
  Quiet =>
    \A deptOf \in Placements, custom \in SUBSET Live, dataScope \in 1 .. 5 :
      LET scope == Resolve(dataScope, deptOf[Viewer], custom, Tree)
          may   == Allowed(dataScope, Viewer, deptOf, custom, Tree)
      IN  /\ \A d \in DeptOrNull : UserList(scope, Viewer, d, deptOf) \subseteq may
          /\ \A wanted, matching \in SUBSET DOMAIN deptOf :
                /\ LoginLogList(scope, Viewer, wanted, matching, deptOf) \subseteq may
                /\ OperationLogList(scope, Viewer, wanted, matching, deptOf) \subseteq may

\* The walk of assertNoCycle ends: no turn of its loop reads a department
\* again, also when it meets a cycle that came about before or when others
\* move departments under its feet.
WalkProgresses ==
  [][\A r \in Requests :
       /\ req[r].pc = "assertNoCycle"
       /\ req[r]'.pc = "assertNoCycle"
       /\ req[r]' # req[r]
       => req[r].visited # req[r]'.visited]_vars

=============================================================================
