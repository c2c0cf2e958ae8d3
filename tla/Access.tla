------------------------------- MODULE Access -------------------------------
(***************************************************************************)
(* Who may do what: roles, permissions and menus with their link tables    *)
(* (RoleService, PermissionService, MenuService, and of UserService        *)
(* assignRoles, update, assignDataScope and remove), the configuration     *)
(* values, and the copies that UserContextService, SystemConfigService and *)
(* DataScopeService keep of them in Redis.                                 *)
(*                                                                         *)
(* Each action is one query, transaction or Redis command of a request and *)
(* the code up to the next one.  A link is a pair of rows; the table it    *)
(* belongs to follows from them.  Rows marked isSystem are those no        *)
(* request asks to remove.  What a row holds beyond its status is a member *)
(* of Data.                                                                *)
(***************************************************************************)
EXTENDS Naturals, FiniteSets

CONSTANTS
  Users, Roles, Permissions, Menus, NoMenu,
  ConfigRows, ConfigKeys, NoKey,
  Tree,     \* the departments' tree, seen from its copy
  Data, NoData,
  Requests, \* requests that can be in progress at once
  OpMixes   \* what a behaviour may request: see Mix

AssignOps == {"assignRoles", "assignPermissions", "assignMenus"}
RemoveOps == {"removeRole", "removePermission", "removeMenu", "removeUser"}
WriteOps  == {"userUpdate", "treeWrite", "configUpdate", "configRemove"}
OpKinds   == AssignOps \cup RemoveOps \cup WriteOps \cup
             {"createUser", "createRole", "createPermission", "status", "createMenu",
              "moveMenu", "configCreate", "refreshCache", "fill", "redisFails"}

\* Rows of different tables are different.
Disjoint == /\ Users \cap (Roles \cup Permissions \cup Menus) = {}
            /\ Roles \cap (Permissions \cup Menus) = {}
            /\ Permissions \cap Menus = {}
            /\ NoMenu \notin Users \cup Roles \cup Permissions \cup Menus
            /\ ConfigRows \cap (Users \cup Roles \cup Permissions \cup Menus) = {}
            /\ Tree \notin Users \cup ConfigRows

\* The operations, and how many roles and menus may be created.
Mix == [ops : SUBSET OpKinds, roles : Nat, menus : Nat]

ASSUME AccessAssumption ==
  /\ NoKey \notin ConfigKeys /\ NoData \notin Data /\ Data # {}
  /\ Disjoint
  /\ OpMixes \subseteq Mix

VARIABLES
  mix,       \* what is requested in this behaviour
  row,       \* users, roles, permissions and menus
  parent,    \* parentId of menus
  link,      \* user_roles, role_permissions, role_menus
  configKey, \* of a row of configs; NoKey without the row
  data,      \* what a user's row, a configuration row and the tree hold
  cache,     \* the entries in Redis
  req,       \* the requests in progress
  raced,     \* "link": a removal overlapped an assignment; "child": the removal
             \* of a menu overlapped a move or a creation; "move": two moves did
  late,      \* requests whose reads have been overtaken
  excused    \* entries that may be behind: see FreshUnlessExcused

Tables == <<row, parent, link, configKey, data>>
vars   == <<mix, Tables, cache, req, raced, late, excused>>

-----------------------------------------------------------------------------
Rows  == Users \cup Roles \cup Permissions \cup Menus
Row   == [state : {"absent", "live", "deleted"}, status : BOOLEAN]
Links == (Users \X Roles) \cup (Roles \X Permissions) \cup (Roles \X Menus)

Entries == ({"user", "roles", "perms"} \X Users) \cup ({"config"} \X ConfigKeys)
             \cup {<<"tree", Tree>>}
NoEntry == <<"none", Tree>>

\* An entry is {} when it is missing, else the set of the one value it holds;
\* a value is a set of codes, or of one element of Data.
Value == SUBSET (Roles \cup Permissions \cup Data)

AssignPcs == {"countRows", "assign"}
RemovePcs == {"countUsers", "countChildren", "remove"}
CreatePcs == {"create"}
MovePcs   == {"checkParent", "assertNoCycle", "move"}
FillPcs   == {"query", "queryLinks", "queryRows", "set"}
Reading   == FillPcs \ {"query"}

\* about: the row a request is for; ids: the rows to assign, or read by a fill;
\* to: the new parent; at, visited: of assertNoCycle; key, value: to be
\* written; keys: the entries to delete.
Request == [pc : {"idle", "write", "del"}
                   \cup AssignPcs \cup RemovePcs \cup CreatePcs \cup MovePcs \cup FillPcs,
            op : OpKinds,
            about : Rows \cup ConfigRows \cup {Tree, NoMenu},
            ids : SUBSET (Rows \cup Data),
            to : Menus \cup {NoMenu}, at : Menus \cup {NoMenu}, visited : SUBSET Menus,
            key : ConfigKeys \cup {NoKey}, value : Data \cup {NoData},
            entry : Entries \cup {NoEntry}, keys : SUBSET Entries]

IdleRequest == [pc |-> "idle", op |-> "fill", about |-> NoMenu, ids |-> {}, to |-> NoMenu,
                at |-> NoMenu, visited |-> {}, key |-> NoKey, value |-> NoData,
                entry |-> NoEntry, keys |-> {}]

TypeOK ==
  /\ mix \in OpMixes
  /\ row \in [Rows -> Row]
  /\ parent \in [Menus -> Menus \cup {NoMenu}]
  /\ link \subseteq Links
  /\ configKey \in [ConfigRows -> ConfigKeys \cup {NoKey}]
  /\ data \in [Users \cup ConfigRows \cup {Tree} -> Data]
  /\ DOMAIN cache = Entries
  /\ \A e \in Entries : cache[e] \subseteq Value /\ Cardinality(cache[e]) <= 1
  /\ req \in [Requests -> Request]
  /\ raced \subseteq {"link", "child", "move"}
  /\ late \subseteq Requests
  /\ excused \subseteq Entries

-----------------------------------------------------------------------------
\* What queries see.

Found(x)      == x \in Rows /\ row[x].state = "live"
Enabled(S)    == {x \in S : Found(x) /\ row[x].status}
Linked(S, of) == {x \in of : \E y \in S : <<y, x>> \in link}
Children(m)   == {x \in Menus : Found(x) /\ parent[x] = m}

\* What getUser, getRoleCodes, getPermissionCodes, getValueByKey and
\* getFlatDeptTree would store if they read everything at once: nothing when
\* there is no row.  A disabled role still grants its permissions.
Source(e) ==
  LET x     == e[2]
      roles == Linked({x}, Roles)
      perms == Linked(roles, Permissions)
      rows  == {c \in ConfigRows : configKey[c] = x}
  IN CASE e[1] = "user"   -> IF Found(x) THEN {{data[x]}} ELSE {}
       [] e[1] = "roles"  -> IF roles = {} THEN {} ELSE {Enabled(roles)}
       [] e[1] = "perms"  -> IF perms = {} THEN {} ELSE {Enabled(perms)}
       [] e[1] = "config" -> {{data[c]} : c \in rows}
       [] e[1] = "tree"   -> {{data[x]}}

\* The links that a fill follows, which may change and leave its result alone.
ReadBy(e) ==
  LET roles == Linked({e[2]}, Roles) IN
  CASE e[1] = "roles" -> <<roles, {}>>
    [] e[1] = "perms" -> <<roles, Linked(roles, Permissions)>>
    [] OTHER          -> <<{}, {}>>

\* The bookkeeping of FreshUnlessExcused.  A fill that has read, or a write
\* that knows its row's key, is late once what it read has changed.  Without
\* fills there are no entries.
Track == IF "fill" \notin mix.ops THEN UNCHANGED <<late, excused>> ELSE
  LET changed == IF UNCHANGED Tables THEN {} ELSE {e \in Entries : Source(e)' # Source(e)}
      touched == IF UNCHANGED link THEN changed
                 ELSE changed \cup {e \in Entries : ReadBy(e)' # ReadBy(e)}
      moved   == {c \in ConfigRows : configKey'[c] # configKey[c]}
      stepped == {r \in Requests : req'[r] # req[r]}
      silent  == \/ stepped = {}
                 \/ \E r \in stepped : \/ r \in late
                                       \/ req[r].op \in RemoveOps \cup {"assignPermissions"}
      failed  == UNION {req[r].keys \ req'[r].keys : r \in {q \in stepped : req[q].pc = "del"}}
      filled  == {r \in stepped : req[r].pc = "set" /\ cache'[req[r].entry] = {req[r].ids}}
  IN
  /\ late' = {r \in Requests :
                \/ r \in late
                \/ req[r].pc \in Reading /\ req[r].entry \in touched
                \/ req[r].pc = "write" /\ req[r].about \in moved}
             \ {r \in stepped : req'[r].pc \in {"idle", "del"}}
  /\ excused' = {e \in Entries :
                   /\ cache'[e] # {}
                   /\ \/ e \in excused /\ \A r \in filled : req[r].entry # e
                      \/ e \in failed
                      \/ e \in changed /\ silent
                      \/ \E r \in filled : req[r].entry = e /\ r \in late}

InProgress(pcs) == {r \in Requests : req[r].pc \in pcs}

Become(r, q) == req' = [req EXCEPT ![r] = q]
Goto(r, pc)  == Become(r, [req[r] EXCEPT !.pc = pc])
Return(r)    == Become(r, IdleRequest)
Delete(r, K) == Become(r, [IdleRequest EXCEPT !.pc = "del", !.op = req[r].op,
                             !.key = req[r].key, !.keys = K])

Begin(r, op, q) ==
  /\ op \in mix.ops /\ req[r].pc = "idle"
  /\ Become(r, [q EXCEPT !.op = op])
  /\ UNCHANGED <<mix, Tables, cache>>
  /\ Track

Query(r, pc, ok) == /\ IF ok THEN Goto(r, pc) ELSE Return(r)
                    /\ UNCHANGED <<mix, Tables, cache, raced>>
                    /\ Track

\* A request that starts now overlaps those in progress.
Race(what, pcs) == raced' = raced \cup (IF InProgress(pcs) # {} THEN {what} ELSE {})
NoRace          == UNCHANGED raced

-----------------------------------------------------------------------------
\* RoleService.create and PermissionService.create, and the status that their
\* update methods set.  UserService.create is in module Accounts.
CreateOp(x) == CASE x \in Users       -> "createUser"
                 [] x \in Roles       -> "createRole"
                 [] x \in Permissions -> "createPermission"
                 [] OTHER             -> "createMenu"

Created(of) == Cardinality({x \in of : row[x].state # "absent"})

CreateRow(x) ==
  /\ CreateOp(x) \in mix.ops \ {"createMenu"}
  /\ row[x].state = "absent"
  /\ x \in Roles => Created(Roles) < mix.roles
  /\ row' = [row EXCEPT ![x].state = "live"]
  /\ UNCHANGED <<mix, parent, link, configKey, data, cache, req, raced>>
  /\ Track

SetStatus(x) ==
  /\ "status" \in mix.ops /\ x \in Roles \cup Permissions \cup Menus
  /\ Found(x)
  /\ row' = [row EXCEPT ![x].status = ~@]
  /\ UNCHANGED <<mix, parent, link, configKey, data, cache, req, raced>>
  /\ Track

-----------------------------------------------------------------------------
\* assignRoles, assignPermissions and assignMenus

To(op) == IF op = "assignRoles" THEN Users ELSE Roles
Of(op) == CASE op = "assignRoles"       -> Roles
            [] op = "assignPermissions" -> Permissions
            [] op = "assignMenus"       -> Menus

AssignBegin(r, op, x, S) ==
  /\ Found(x)
  /\ Begin(r, op, [IdleRequest EXCEPT !.pc = IF S = {} THEN "assign" ELSE "countRows",
                     !.about = x, !.ids = S])
  /\ Race("link", RemovePcs)

\* Mutant: the rows to assign are not counted.
CountNothing(r) == req[r].pc = "countRows" /\ Query(r, "assign", TRUE)

CountRows(r) ==
  /\ req[r].pc = "countRows"
  /\ Query(r, "assign", \A x \in req[r].ids : Found(x))

\* userContextService.invalidate: one DEL of three keys.
UserEntries(u) == {"user", "roles", "perms"} \X {u}

\* One transaction.
Assign(r) ==
  /\ req[r].pc = "assign"
  /\ LET x == req[r].about  of == Of(req[r].op) IN
     /\ link' = {l \in link : l[1] # x \/ l[2] \notin of} \cup ({x} \X req[r].ids)
     /\ IF req[r].op = "assignRoles" THEN Delete(r, UserEntries(x)) ELSE Return(r)
  /\ UNCHANGED <<mix, row, parent, configKey, data, cache, raced>>
  /\ Track

-----------------------------------------------------------------------------
\* remove of users, roles, permissions and menus

Removes(op) == CASE op = "removeUser"       -> Users
                 [] op = "removeRole"       -> Roles
                 [] op = "removePermission" -> Permissions
                 [] op = "removeMenu"       -> Menus

RemoveBegin(r, op, x) ==
  /\ Found(x)
  /\ Begin(r, op, [IdleRequest EXCEPT !.about = x,
                     !.pc = CASE op = "removeRole" -> "countUsers"
                              [] op = "removeMenu" -> "countChildren"
                              [] OTHER -> "remove"])
  /\ raced' = raced \cup (IF InProgress(AssignPcs) # {} THEN {"link"} ELSE {})
                    \cup (IF op = "removeMenu" /\ InProgress(CreatePcs \cup MovePcs) # {}
                          THEN {"child"} ELSE {})

CountUsers(r) ==
  /\ req[r].pc = "countUsers"
  /\ Query(r, "remove", \A u \in Users : <<u, req[r].about>> \notin link)

CountChildren(r) ==
  /\ req[r].pc = "countChildren"
  /\ Query(r, "remove", Children(req[r].about) = {})

\* The links that go with a row: those of a role to its users do not.
Taken(x) == {l \in link : x \in {l[1], l[2]} /\ ~(x \in Roles /\ l[2] = x)}

\* One transaction, undone when the row is gone already.  No entry is deleted.
Remove(r) ==
  /\ req[r].pc = "remove"
  /\ LET x == req[r].about IN
     IF Found(x)
     THEN /\ row'    = [row EXCEPT ![x].state = "deleted"]
          /\ link'   = link \ Taken(x)
          /\ parent' = [m \in Menus |-> IF m = x THEN NoMenu ELSE parent[m]]
     ELSE UNCHANGED <<row, link, parent>>
  /\ Return(r)
  /\ UNCHANGED <<mix, configKey, data, cache, raced>>
  /\ Track

-----------------------------------------------------------------------------
\* MenuService.create and update

CreateBegin(r, p) ==
  /\ p # NoMenu => Found(p)
  /\ Created(Menus) + Cardinality(InProgress(CreatePcs)) < mix.menus
  /\ Begin(r, "createMenu", [IdleRequest EXCEPT !.pc = "create", !.to = p])
  /\ Race("child", {"countChildren", "remove"})

Create(r, m) ==
  /\ req[r].pc = "create" /\ row[m].state = "absent"
  /\ row'    = [row EXCEPT ![m].state = "live"]
  /\ parent' = [parent EXCEPT ![m] = req[r].to]
  /\ Return(r)
  /\ UNCHANGED <<mix, link, configKey, data, cache, raced>>
  /\ Track

MoveBegin(r, m, p) ==
  /\ Found(m) /\ p \notin {m, parent[m]}
  /\ Begin(r, "moveMenu", [IdleRequest EXCEPT !.pc = IF p = NoMenu THEN "move" ELSE "checkParent",
                             !.about = m, !.to = p])
  /\ raced' = raced \cup (IF InProgress(MovePcs) # {} THEN {"move"} ELSE {})
                    \cup (IF InProgress({"countChildren", "remove"}) # {} THEN {"child"} ELSE {})

CheckParent(r) ==
  /\ req[r].pc = "checkParent"
  /\ IF Found(req[r].to)
     THEN Become(r, [req[r] EXCEPT !.pc = "assertNoCycle", !.at = req[r].to])
     ELSE Return(r)
  /\ UNCHANGED <<mix, Tables, cache, raced>>
  /\ Track

\* Mutant: only the new parent itself is looked at.
AssertNotParent(r) ==
  /\ req[r].pc = "assertNoCycle"
  /\ Query(r, "move", req[r].at # req[r].about)

\* One turn of the loop; a cycle that is there already ends it.
AssertNoCycle(r) ==
  /\ req[r].pc = "assertNoCycle"
  /\ LET m  == req[r].at
         up == IF Found(m) THEN parent[m] ELSE NoMenu
     IN  CASE m = req[r].about -> Return(r)
           [] m \in req[r].visited -> Goto(r, "move")
           [] OTHER -> Become(r, [req[r] EXCEPT !.at = up, !.visited = @ \cup {m},
                                    !.pc = IF up = NoMenu THEN "move" ELSE @])
  /\ UNCHANGED <<mix, Tables, cache, raced>>
  /\ Track

Move(r) ==
  /\ req[r].pc = "move"
  /\ parent' = IF Found(req[r].about) THEN [parent EXCEPT ![req[r].about] = req[r].to] ELSE parent
  /\ Return(r)
  /\ UNCHANGED <<mix, row, link, configKey, data, cache, raced>>
  /\ Track

-----------------------------------------------------------------------------
\* Writes that delete entries afterwards: UserService.update and
\* assignDataScope, DeptService's, SystemConfigService.update and remove.

Exists(x) == CASE x \in Users      -> Found(x)
               [] x \in ConfigRows -> configKey[x] # NoKey
               [] x = Tree         -> TRUE

KeyOf(x)  == IF x \in ConfigRows THEN configKey[x] ELSE NoKey

Writes(op) == CASE op = "userUpdate" -> Users
                [] op = "treeWrite"  -> {Tree}
                [] op \in {"configUpdate", "configRemove"} -> ConfigRows
Keys(op)   == IF op = "configUpdate" THEN ConfigKeys ELSE {NoKey}

\* Mutant: a key that is not given is taken for one.
EntriesOfAny(x, k) ==
  CASE x \in Users      -> UserEntries(x)
    [] x = Tree         -> {<<"tree", x>>}
    [] x \in ConfigRows -> {"config"} \X {KeyOf(x), k}

EntriesOf(x, k) ==
  CASE x \in Users      -> UserEntries(x)
    [] x = Tree         -> {<<"tree", x>>}
    [] x \in ConfigRows -> {"config"} \X ({KeyOf(x), k} \ {NoKey})

\* The row is read first; its key is the one whose entry will be deleted.
WriteBegin(r, op, x, k, v) ==
  /\ Exists(x)
  /\ k \notin {configKey[c] : c \in ConfigRows \ {x}} \ {NoKey}
  /\ Begin(r, op, [IdleRequest EXCEPT !.pc = "write", !.about = x, !.key = k, !.value = v,
                     !.keys = EntriesOf(x, k)])
  /\ NoRace

\* Two rows with one key are refused by the database.
Unique(x, k) == \A c \in ConfigRows \ {x} : configKey[c] = NoKey \/ configKey[c] # k

\* Mutant: only the entry of the new key is deleted.
WriteKeepsOldKey(r) ==
  /\ req[r].pc = "write"
  /\ LET x == req[r].about  k == req[r].key IN
     IF Exists(x) /\ Unique(x, k)
     THEN /\ data' = IF req[r].op = "configRemove" THEN data ELSE [data EXCEPT ![x] = req[r].value]
          /\ configKey' = [c \in ConfigRows |-> IF c = x THEN k ELSE configKey[c]]
          /\ Delete(r, {e \in req[r].keys : e[1] # "config" \/ e[2] = k})
     ELSE Return(r) /\ UNCHANGED <<data, configKey>>
  /\ UNCHANGED <<mix, row, parent, link, cache, raced>>
  /\ Track

Write(r) ==
  /\ req[r].pc = "write"
  /\ LET x == req[r].about  k == req[r].key IN
     IF Exists(x) /\ Unique(x, k)
     THEN /\ data' = IF req[r].op = "configRemove" THEN data ELSE [data EXCEPT ![x] = req[r].value]
          /\ configKey' = [c \in ConfigRows |-> IF c = x THEN k ELSE configKey[c]]
          /\ Delete(r, req[r].keys)
     ELSE Return(r) /\ UNCHANGED <<data, configKey>>
  /\ UNCHANGED <<mix, row, parent, link, cache, raced>>
  /\ Track

\* SystemConfigService.create: a key that is not there is not cached either.
ConfigCreate(c, k, v) ==
  /\ "configCreate" \in mix.ops
  /\ configKey[c] = NoKey /\ Unique(c, k)
  /\ configKey' = [configKey EXCEPT ![c] = k]
  /\ data' = [data EXCEPT ![c] = v]
  /\ UNCHANGED <<mix, row, parent, link, cache, req, raced>>
  /\ Track

RefreshCache(r) ==
  /\ LET keys == {configKey[c] : c \in ConfigRows} \ {NoKey} IN
     /\ keys # {}
     /\ Begin(r, "refreshCache", [IdleRequest EXCEPT !.pc = "del", !.keys = {"config"} \X keys])
  /\ NoRace

\* The keys of the next DEL: of a configuration row the old key comes first.
NextKeys(r) ==
  LET old == req[r].keys \ {<<"config", req[r].key>>}
  IN  IF old = {} THEN req[r].keys ELSE old

Deleted(r) ==
  IF NextKeys(r) = req[r].keys THEN Return(r) ELSE Delete(r, req[r].keys \ NextKeys(r))

Del(r) ==
  /\ req[r].pc = "del"
  /\ cache' = [e \in Entries |-> IF e \in NextKeys(r) THEN {} ELSE cache[e]]
  /\ Deleted(r)
  /\ UNCHANGED <<mix, Tables, raced>>
  /\ Track

\* The failure is logged or ignored: the change is made, its entries stay.
DelFails(r) ==
  /\ "redisFails" \in mix.ops /\ req[r].pc = "del"
  /\ Deleted(r)
  /\ UNCHANGED <<mix, Tables, cache, raced>>
  /\ Track

-----------------------------------------------------------------------------
\* A fill: GET finds nothing (or fails, for a configuration value), the
\* database is queried, SETEX stores the result.  Nothing is stored when a
\* query on the way finds nothing.

FillBegin(r, e) ==
  /\ cache[e] = {} \/ (e[1] = "config" /\ "redisFails" \in mix.ops)
  /\ Begin(r, "fill", [IdleRequest EXCEPT !.pc = "query", !.entry = e])
  /\ NoRace

Keep(r, pc, S) == Become(r, [req[r] EXCEPT !.pc = pc, !.ids = S])

\* The row itself, or the roles of the user.
FillQuery(r) ==
  /\ req[r].pc = "query"
  /\ LET e     == req[r].entry
         roles == Linked({e[2]}, Roles)
     IN  CASE e[1] \in {"user", "config", "tree"} ->
                IF Source(e) = {} THEN Return(r) ELSE Keep(r, "set", UNION Source(e))
           [] roles = {} -> Return(r)
           [] e[1] = "roles" /\ roles # {} -> Keep(r, "queryRows", roles)
           [] e[1] = "perms" /\ roles # {} -> Keep(r, "queryLinks", roles)
  /\ UNCHANGED <<mix, Tables, cache, raced>>
  /\ Track

FillLinks(r) ==
  /\ req[r].pc = "queryLinks"
  /\ LET perms == Linked(req[r].ids, Permissions) IN
     IF perms = {} THEN Return(r) ELSE Keep(r, "queryRows", perms)
  /\ UNCHANGED <<mix, Tables, cache, raced>>
  /\ Track

FillRows(r) ==
  /\ req[r].pc = "queryRows"
  /\ Keep(r, "set", Enabled(req[r].ids))
  /\ UNCHANGED <<mix, Tables, cache, raced>>
  /\ Track

FillSet(r) ==
  /\ req[r].pc = "set"
  /\ cache' = [cache EXCEPT ![req[r].entry] = {req[r].ids}]
  /\ Return(r)
  /\ UNCHANGED <<mix, Tables, raced>>
  /\ Track

FillFails(r) ==
  /\ "redisFails" \in mix.ops /\ req[r].pc = "set"
  /\ Return(r)
  /\ UNCHANGED <<mix, Tables, cache, raced>>
  /\ Track

Expire(e) ==
  /\ cache[e] # {}
  /\ cache' = [cache EXCEPT ![e] = {}]
  /\ UNCHANGED <<mix, Tables, req, raced>>
  /\ Track

-----------------------------------------------------------------------------
Init ==
  /\ mix \in OpMixes
  /\ row = [x \in Rows |-> [state |-> "absent", status |-> TRUE]]
  /\ parent = [m \in Menus |-> NoMenu]
  /\ link = {}
  /\ configKey = [c \in ConfigRows |-> NoKey]
  /\ data \in [Users \cup ConfigRows \cup {Tree} -> {CHOOSE v \in Data : TRUE}]
  /\ cache = [e \in Entries |-> {}]
  /\ req = [r \in Requests |-> IdleRequest]
  /\ raced = {}
  /\ late = {}
  /\ excused = {}

Step(r) ==
  \/ \E op \in AssignOps \cap mix.ops :
       \E x \in To(op), S \in SUBSET Of(op) : AssignBegin(r, op, x, S)
  \/ CountRows(r) \/ Assign(r)
  \/ \E op \in RemoveOps \cap mix.ops : \E x \in Removes(op) : RemoveBegin(r, op, x)
  \/ CountUsers(r) \/ CountChildren(r) \/ Remove(r)
  \/ \E p \in Menus \cup {NoMenu} : CreateBegin(r, p) \/ \E m \in Menus : MoveBegin(r, m, p)
  \/ \E m \in Menus : Create(r, m)
  \/ CheckParent(r) \/ AssertNoCycle(r) \/ Move(r)
  \/ \E op \in WriteOps \cap mix.ops :
       \E x \in Writes(op), k \in Keys(op), v \in Data : WriteBegin(r, op, x, k, v)
  \/ Write(r) \/ RefreshCache(r) \/ Del(r) \/ DelFails(r)
  \/ \E e \in Entries : FillBegin(r, e)
  \/ FillQuery(r) \/ FillLinks(r) \/ FillRows(r) \/ FillSet(r) \/ FillFails(r)

Direct ==
  \/ \E x \in Rows : CreateRow(x) \/ SetStatus(x)
  \/ \E c \in ConfigRows, k \in ConfigKeys, v \in Data : ConfigCreate(c, k, v)
  \/ \E e \in Entries : Expire(e)

Next == (\E r \in Requests : Step(r)) \/ Direct

Spec == Init /\ [][Next]_vars

-----------------------------------------------------------------------------
\* remove checks and deletes links in other steps than the assignments check
\* and create them, and a removal knows its children before it removes: what
\* is linked and what is a parent exists, unless such requests overlapped.
NothingRefersToRemoved ==
  /\ "link" \in raced \/ \A l \in link : Found(l[1]) /\ Found(l[2])
  /\ "child" \in raced \/ \A m \in Menus : Found(m) /\ parent[m] # NoMenu => Found(parent[m])

\* assertNoCycle walks up before the move is written: the menus stay a forest
\* unless two moves overlapped.
MenusAreAForest ==
  "move" \in raced \/
  ~ \E S \in (SUBSET Menus) \ {{}} : \A m \in S : Found(m) /\ parent[m] \in S

\* Who changes a row deletes its entry afterwards: an entry differs from the
\* tables only while that DEL is on its way, after it failed, when a fill
\* stored what it had read before the change, and after the changes that
\* delete nothing: of a role or a permission, and removals.
FreshUnlessExcused ==
  \A e \in Entries :
    \/ cache[e] \subseteq Source(e)
    \/ e \in excused
    \/ \E r \in Requests : req[r].pc = "del" /\ e \in req[r].keys
=============================================================================
