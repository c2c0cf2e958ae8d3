----------------------------- MODULE DataScope ------------------------------
(***************************************************************************)
(* Department trees and the data scope computed from them: the pure parts  *)
(* of DataScopeService and of buildTree.                                   *)
(*                                                                         *)
(* A flat tree is a set of nodes [id, parentId], as read from the database *)
(* or from Redis; the order of its nodes (sort) is left out.  A where      *)
(* clause on deptId is the set of the values it admits.                    *)
(***************************************************************************)
EXTENDS Naturals, FiniteSets

CONSTANTS
  Depts,  \* department ids
  NoDept  \* null

ASSUME DeptAssumption == NoDept \notin Depts /\ IsFiniteSet(Depts)

DeptOrNull == Depts \cup {NoDept}
FlatNode   == [id : Depts, parentId : DeptOrNull]
Ids(tree)  == {n.id : n \in tree}

-----------------------------------------------------------------------------
\* childrenMap.get(d) and the children of a node of buildTree.
ChildrenOf(tree, d) == {n.id : n \in {m \in tree : m.parentId = d}}

\* Mutant: the children of the root only.
DirectChildren(tree, root) == {root} \cup ChildrenOf(tree, root)

\* DataScopeService.getDeptAndChildren: a turn of its while loop; the order
\* of the queue does not show in the result.
Turn(tree, search) ==
  IF search.queue = {} THEN search
  ELSE LET current == CHOOSE d \in search.queue : TRUE
           unseen  == ChildrenOf(tree, current) \ search.visited
       IN  [visited |-> search.visited \cup unseen,
            queue   |-> (search.queue \ {current}) \cup unseen]

\* Each turn that finds the queue filled finishes one department.
DeptAndChildren(tree, root) ==
  LET search[k \in 0 .. Cardinality(Depts)] ==
        IF k = 0 THEN [visited |-> {root}, queue |-> {root}] ELSE Turn(tree, search[k - 1])
  IN  search[Cardinality(Depts)].visited

\* The definition it is compared with: root and everything below it.
Closed(tree, S) == \A d \in S : ChildrenOf(tree, d) \subseteq S
Subtree(tree, root) ==
  {d \in Ids(tree) \cup {root} :
     \A S \in SUBSET (Ids(tree) \cup {root}) : root \in S /\ Closed(tree, S) => d \in S}

\* Mutant: nodes whose parent is filtered out are dropped.
DropOrphans(items) == {n.id : n \in {m \in items : m.parentId = NoDept}}

\* buildTree: a node without a parent in items is a root (orphanAsRoot); the
\* response holds what hangs from the roots.
Roots(items) == {n.id : n \in {m \in items : m.parentId \notin Ids(items)}}
Shown(items) == UNION {Subtree(items, d) : d \in Roots(items)}

\* DeptService.tree: the query finds the departments of matching.
DeptList(tree, matching) == Shown({n \in tree : n.id \in matching})

-----------------------------------------------------------------------------
\* DataScopeFilter.
Filter   == [all : BOOLEAN, selfOnly : BOOLEAN, deptIds : SUBSET Depts]
DenyAll  == [all |-> FALSE, selfOnly |-> TRUE, deptIds |-> {}]
AllowAll == [all |-> TRUE, selfOnly |-> FALSE, deptIds |-> {}]
Within(deptIds) == [all |-> FALSE, selfOnly |-> FALSE, deptIds |-> deptIds]

\* DataScopeService.resolve for an enabled user who is not a super admin:
\* dataScope is 1 all, 2 self, 3 own department, 4 own and below, 5 custom.
Resolve(dataScope, dept, custom, tree) ==
  IF dataScope = 1 THEN AllowAll
  ELSE IF dataScope = 2 \/ dept = NoDept THEN DenyAll
  ELSE Within(CASE dataScope = 3 -> {dept}
                [] dataScope = 4 -> DeptAndChildren(tree, dept)
                [] OTHER -> custom)

\* Mutant: the department asked for replaces the scope.
RequestedAlone(scope, requested) ==
  IF scope.all \/ scope.selfOnly THEN DeptOrNull
  ELSE IF requested = NoDept THEN scope.deptIds
  ELSE {requested}

\* DataScopeService.buildDeptWhere; requested is NoDept when it is undefined.
DeptWhere(scope, requested) ==
  IF scope.all \/ scope.selfOnly THEN DeptOrNull
  ELSE IF requested = NoDept THEN scope.deptIds
  ELSE scope.deptIds \cap {requested}

\* UserService.list: the users of deptOf that viewer is shown.
UserList(scope, viewer, requested, deptOf) ==
  IF scope.selfOnly THEN {viewer}
  ELSE {v \in DOMAIN deptOf : deptOf[v] \in DeptWhere(scope, requested)}

\* DataScopeService.buildLogWhere: the users whose log entries viewer is
\* shown; wanted is the set of all users when requestedUserId is undefined.
LogWhere(scope, viewer, wanted, deptOf) ==
  IF scope.all THEN wanted
  ELSE IF scope.selfOnly THEN {viewer}
  ELSE {v \in DOMAIN deptOf : deptOf[v] \in scope.deptIds /\ v \in wanted}

\* LoginLogService.list and OperationLogService.list: the users whose entries
\* are shown when those of matching satisfy the rest of the query (of a page).
LoginLogList(scope, viewer, wanted, matching, deptOf) ==
  LogWhere(scope, viewer, wanted, deptOf) \cap matching
OperationLogList(scope, viewer, wanted, matching, deptOf) ==
  LogWhere(scope, viewer, wanted, deptOf) \cap matching

\* What the levels of the data scope mean: the users viewer may be shown.
Allowed(dataScope, viewer, deptOf, custom, tree) ==
  LET own == deptOf[viewer]
  IN  {v \in DOMAIN deptOf :
         \/ v = viewer
         \/ dataScope = 1
         \/ dataScope = 3 /\ own # NoDept /\ deptOf[v] = own
         \/ dataScope = 4 /\ own # NoDept /\ deptOf[v] \in Subtree(tree, own)
         \/ dataScope = 5 /\ deptOf[v] \in custom}
=============================================================================
