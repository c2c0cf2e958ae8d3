---------------------------- MODULE AccessProofs ----------------------------
(* Proofs about Access, for every value of its constants. *)
EXTENDS Access, FiniteSetTheorems, TLAPS

-----------------------------------------------------------------------------
(* Type correctness, with what a request knows at each of its steps.       *)

Knows(q) ==
  /\ q.pc \in AssignPcs =>
       q.op \in AssignOps /\ q.about \in To(q.op) /\ q.ids \subseteq Of(q.op)
  /\ q.pc \in RemovePcs => q.op \in RemoveOps /\ q.about \in Removes(q.op)
  /\ q.pc = "countUsers" => q.about \in Roles
  /\ q.pc = "countChildren" => q.about \in Menus
  /\ q.pc \in MovePcs => q.about \in Menus
  /\ q.pc \in {"checkParent", "assertNoCycle"} => q.to \in Menus
  /\ q.pc = "assertNoCycle" => q.at \in Menus
  /\ q.pc = "write" => q.op \in WriteOps /\ q.about \in Writes(q.op) /\ q.value \in Data
  /\ q.pc \in FillPcs => q.entry \in Entries
  /\ q.pc = "queryLinks" => q.ids \subseteq Roles
  /\ q.pc = "queryRows" => q.ids \subseteq Roles \/ q.ids \subseteq Permissions
  /\ q.pc = "set" => q.ids \in Value

ReqOK == req \in [Requests -> Request] /\ \A r \in Requests : Knows(req[r])

TablesOK ==
  /\ row \in [Rows -> Row]
  /\ parent \in [Menus -> Menus \cup {NoMenu}]
  /\ link \subseteq Links
  /\ configKey \in [ConfigRows -> ConfigKeys \cup {NoKey}]
  /\ data \in [Users \cup ConfigRows \cup {Tree} -> Data]

\* An entry is missing or holds one value.
CacheOK ==
  /\ DOMAIN cache = Entries
  /\ \A e \in Entries : cache[e] = {} \/ \E v \in Value : cache[e] = {v}

RestOK == /\ mix \in OpMixes
          /\ raced \subseteq {"link", "child", "move"}
          /\ late \subseteq Requests /\ excused \subseteq Entries

IInv == TablesOK /\ CacheOK /\ ReqOK /\ RestOK

LEMMA BecomeOK ==
  ASSUME ReqOK, NEW r \in Requests, NEW q \in Request, Knows(q), Become(r, q)
  PROVE  ReqOK'
<1>1. req' \in [Requests -> Request]
  BY DEF ReqOK, Become
<1>2. ASSUME NEW s \in Requests PROVE Knows(req'[s])
  BY DEF ReqOK, Become
<1>3. \A s \in Requests : Knows(req[s])'
  BY <1>2 DEF Knows, Value, Writes, Removes, To, Of, Entries
<1> QED BY <1>1, <1>3 DEF ReqOK

LEMMA IdleOK == IdleRequest \in Request /\ Knows(IdleRequest)
<1>1. IdleRequest \in Request
  BY DEF IdleRequest, Request, OpKinds, Value
<1>2. IdleRequest.pc = "idle"
  BY DEF IdleRequest
<1> QED BY <1>1, <1>2 DEF Knows, AssignPcs, RemovePcs, MovePcs, FillPcs

LEMMA ReturnOK ==
  ASSUME ReqOK, NEW r \in Requests, Return(r) PROVE ReqOK'
  BY IdleOK, BecomeOK DEF Return

LEMMA IInvType == IInv => TypeOK
<1> SUFFICES ASSUME IInv PROVE TypeOK OBVIOUS
<1>1. ASSUME NEW e \in Entries PROVE cache[e] \subseteq Value /\ Cardinality(cache[e]) <= 1
  <2>1. CASE cache[e] = {}
    BY <2>1, FS_EmptySet
  <2>2. CASE \E v \in Value : cache[e] = {v}
    BY <2>2, FS_Singleton
  <2> QED BY <2>1, <2>2 DEF IInv, CacheOK
<1> QED BY <1>1 DEF IInv, TablesOK, CacheOK, ReqOK, RestOK, TypeOK

LEMMA TrackOK ==
  ASSUME RestOK, Track, mix' = mix, raced' \subseteq {"link", "child", "move"}
  PROVE  RestOK'
  BY DEF RestOK, Track

\* The first step of a request that is idle.
LEMMA BeginOK ==
  ASSUME IInv, NEW r \in Requests, NEW op \in OpKinds, NEW q \in Request,
         Knows([q EXCEPT !.op = op]), Begin(r, op, q),
         raced' \subseteq {"link", "child", "move"}
  PROVE  IInv'
<1> DEFINE p == [q EXCEPT !.op = op]
<1>1. p \in Request /\ Become(r, p)
  BY DEF Begin, Request
<1> HIDE DEF p
<1>2. ReqOK'
  BY <1>1, BecomeOK DEF IInv, p
<1>3. RestOK'
  BY TrackOK DEF Begin, IInv
<1>4. TablesOK' /\ CacheOK'
  BY DEF Begin, Tables, IInv, TablesOK, CacheOK
<1> QED BY <1>2, <1>3, <1>4 DEF IInv

LEMMA RacedOK ==
  ASSUME IInv, NEW what \in {"link", "child", "move"}, NEW pcs, Race(what, pcs)
  PROVE  raced' \subseteq {"link", "child", "move"}
  BY DEF IInv, RestOK, Race

LEMMA AssignBeginOK ==
  ASSUME IInv, NEW r \in Requests, NEW op \in AssignOps, NEW x \in To(op), NEW S \in SUBSET Of(op),
         AssignBegin(r, op, x, S)
  PROVE  IInv'
<1> DEFINE pc == IF S = {} THEN "assign" ELSE "countRows"
           q  == [IdleRequest EXCEPT !.pc = pc, !.about = x, !.ids = S]
<1>1. pc \in AssignPcs
  BY DEF AssignPcs
<1>2. x \in Rows /\ S \subseteq Rows
  BY DEF AssignOps, To, Of, Rows
<1>3. op \in OpKinds
  BY DEF OpKinds
<1> HIDE DEF pc
<1>4. q \in Request
  BY <1>1, <1>2, IdleOK DEF IdleRequest, Request
<1>5. /\ [q EXCEPT !.op = op].pc = pc /\ [q EXCEPT !.op = op].op = op
      /\ [q EXCEPT !.op = op].about = x /\ [q EXCEPT !.op = op].ids = S
  BY DEF IdleRequest
<1>6. Knows([q EXCEPT !.op = op])
  BY <1>1, <1>5 DEF Knows, AssignPcs, RemovePcs, MovePcs, FillPcs
<1>7. Begin(r, op, q) /\ Race("link", RemovePcs)
  BY DEF AssignBegin, pc
<1> HIDE DEF q
<1> QED BY <1>3, <1>4, <1>6, <1>7, BeginOK, RacedOK

LEMMA RemoveBeginOK ==
  ASSUME IInv, NEW r \in Requests, NEW op \in RemoveOps, NEW x \in Removes(op),
         RemoveBegin(r, op, x)
  PROVE  IInv'
<1> DEFINE pc == CASE op = "removeRole" -> "countUsers"
                   [] op = "removeMenu" -> "countChildren"
                   [] OTHER -> "remove"
           q  == [IdleRequest EXCEPT !.about = x, !.pc = pc]
<1>1. pc \in RemovePcs
  BY DEF RemovePcs
<1>2. x \in Rows /\ (pc = "countUsers" => x \in Roles) /\ (pc = "countChildren" => x \in Menus)
  BY DEF RemoveOps, Removes, Rows
<1>3. op \in OpKinds
  BY DEF OpKinds
<1> HIDE DEF pc
<1>4. q \in Request
  BY <1>1, <1>2, IdleOK DEF IdleRequest, Request
<1>5. /\ [q EXCEPT !.op = op].pc = pc /\ [q EXCEPT !.op = op].op = op
      /\ [q EXCEPT !.op = op].about = x
  BY DEF IdleRequest
<1>6. Knows([q EXCEPT !.op = op])
  BY <1>1, <1>2, <1>5 DEF Knows, AssignPcs, RemovePcs, MovePcs, FillPcs
<1>7. Begin(r, op, q) /\ raced' \subseteq {"link", "child", "move"}
  BY DEF RemoveBegin, pc, IInv, RestOK
<1> HIDE DEF q
<1> QED BY <1>3, <1>4, <1>6, <1>7, BeginOK

LEMMA CreateBeginOK ==
  ASSUME IInv, NEW r \in Requests, NEW p \in Menus \cup {NoMenu}, CreateBegin(r, p)
  PROVE  IInv'
<1> DEFINE q == [IdleRequest EXCEPT !.pc = "create", !.to = p]
<1>1. q \in Request
  BY IdleOK DEF IdleRequest, Request, CreatePcs
<1>2. [q EXCEPT !.op = "createMenu"].pc = "create"
  BY DEF IdleRequest
<1>3. Knows([q EXCEPT !.op = "createMenu"])
  BY <1>2 DEF Knows, AssignPcs, RemovePcs, MovePcs, FillPcs
<1>4. Begin(r, "createMenu", q) /\ raced' \subseteq {"link", "child", "move"}
  BY RacedOK DEF CreateBegin
<1>5. "createMenu" \in OpKinds
  BY DEF OpKinds
<1> HIDE DEF q
<1> QED BY <1>1, <1>3, <1>4, <1>5, BeginOK

LEMMA MoveBeginOK ==
  ASSUME IInv, NEW r \in Requests, NEW m \in Menus, NEW p \in Menus \cup {NoMenu},
         MoveBegin(r, m, p)
  PROVE  IInv'
<1> DEFINE pc == IF p = NoMenu THEN "move" ELSE "checkParent"
           q  == [IdleRequest EXCEPT !.pc = pc, !.about = m, !.to = p]
<1>1. pc \in {"move", "checkParent"} /\ (pc = "checkParent" => p \in Menus)
  OBVIOUS
<1> HIDE DEF pc
<1>2. q \in Request
  BY <1>1, IdleOK DEF IdleRequest, Request, MovePcs, Rows
<1>3. /\ [q EXCEPT !.op = "moveMenu"].pc = pc /\ [q EXCEPT !.op = "moveMenu"].about = m
      /\ [q EXCEPT !.op = "moveMenu"].to = p
  BY DEF IdleRequest
<1>4. Knows([q EXCEPT !.op = "moveMenu"])
  BY <1>1, <1>3 DEF Knows, AssignPcs, RemovePcs, MovePcs, FillPcs
<1>5. Begin(r, "moveMenu", q) /\ raced' \subseteq {"link", "child", "move"}
  BY DEF MoveBegin, pc, IInv, RestOK
<1>6. "moveMenu" \in OpKinds
  BY DEF OpKinds
<1> HIDE DEF q
<1> QED BY <1>2, <1>4, <1>5, <1>6, BeginOK

\* The entries of a row.
LEMMA EntriesOfOK ==
  ASSUME TablesOK, NEW x \in Users \cup ConfigRows \cup {Tree}, NEW k \in ConfigKeys \cup {NoKey}
  PROVE  EntriesOf(x, k) \subseteq Entries
<1>1. CASE x \in Users
  <2>1. EntriesOf(x, k) = UserEntries(x)
    BY <1>1, AccessAssumption DEF EntriesOf, Disjoint
  <2> QED BY <1>1, <2>1 DEF UserEntries, Entries
<1>2. CASE x = Tree
  BY <1>2, AccessAssumption DEF EntriesOf, Entries, Disjoint
<1>3. CASE x \in ConfigRows
  <2>1. KeyOf(x) \in ConfigKeys \cup {NoKey}
    BY <1>3 DEF KeyOf, TablesOK
  <2>2. EntriesOf(x, k) = {"config"} \X ({KeyOf(x), k} \ {NoKey})
    BY <1>3, AccessAssumption DEF EntriesOf, Disjoint
  <2> QED BY <2>1, <2>2 DEF Entries
<1> QED BY <1>1, <1>2, <1>3

LEMMA WriteBeginOK ==
  ASSUME IInv, NEW r \in Requests, NEW op \in WriteOps, NEW x \in Writes(op), NEW k \in Keys(op),
         NEW v \in Data, WriteBegin(r, op, x, k, v)
  PROVE  IInv'
<1> DEFINE q == [IdleRequest EXCEPT !.pc = "write", !.about = x, !.key = k, !.value = v,
                   !.keys = EntriesOf(x, k)]
<1>1. x \in Users \cup ConfigRows \cup {Tree} /\ k \in ConfigKeys \cup {NoKey}
  BY DEF WriteOps, Writes, Keys
<1>2. EntriesOf(x, k) \subseteq Entries
  BY <1>1, EntriesOfOK DEF IInv
<1>3. q \in Request
  BY <1>1, <1>2, IdleOK DEF IdleRequest, Request, Rows
<1>4. /\ [q EXCEPT !.op = op].pc = "write" /\ [q EXCEPT !.op = op].about = x
      /\ [q EXCEPT !.op = op].op = op /\ [q EXCEPT !.op = op].value = v
  BY DEF IdleRequest
<1>5. Knows([q EXCEPT !.op = op])
  BY <1>4 DEF Knows, AssignPcs, RemovePcs, MovePcs, FillPcs
<1>6. Begin(r, op, q) /\ raced' \subseteq {"link", "child", "move"} /\ op \in OpKinds
  BY DEF WriteBegin, NoRace, IInv, RestOK, OpKinds
<1> HIDE DEF q
<1> QED BY <1>3, <1>5, <1>6, BeginOK

LEMMA RefreshCacheOK ==
  ASSUME IInv, NEW r \in Requests, RefreshCache(r)
  PROVE  IInv'
<1> DEFINE K == {"config"} \X ({configKey[c] : c \in ConfigRows} \ {NoKey})
           q == [IdleRequest EXCEPT !.pc = "del", !.keys = K]
<1>1. K \in SUBSET Entries
  BY DEF IInv, TablesOK, Entries
<1>2. Begin(r, "refreshCache", q) /\ raced' \subseteq {"link", "child", "move"}
  BY DEF RefreshCache, NoRace, IInv, RestOK, K
<1> HIDE DEF K
<1>3. q \in Request
  BY <1>1, IdleOK DEF IdleRequest, Request
<1>4. [q EXCEPT !.op = "refreshCache"].pc = "del"
  BY DEF IdleRequest
<1>5. Knows([q EXCEPT !.op = "refreshCache"]) /\ "refreshCache" \in OpKinds
  BY <1>4 DEF Knows, AssignPcs, RemovePcs, MovePcs, FillPcs, OpKinds
<1> HIDE DEF q
<1> QED BY <1>2, <1>3, <1>5, BeginOK

LEMMA FillBeginOK ==
  ASSUME IInv, NEW r \in Requests, NEW e \in Entries, FillBegin(r, e)
  PROVE  IInv'
<1> DEFINE q == [IdleRequest EXCEPT !.pc = "query", !.entry = e]
<1>1. q \in Request
  BY IdleOK DEF IdleRequest, Request, FillPcs
<1>2. [q EXCEPT !.op = "fill"].pc = "query" /\ [q EXCEPT !.op = "fill"].entry = e
  BY DEF IdleRequest
<1>3. Knows([q EXCEPT !.op = "fill"]) /\ "fill" \in OpKinds
  BY <1>2 DEF Knows, AssignPcs, RemovePcs, MovePcs, FillPcs, OpKinds
<1>4. Begin(r, "fill", q) /\ raced' \subseteq {"link", "child", "move"}
  BY DEF FillBegin, NoRace, IInv, RestOK
<1> HIDE DEF q
<1> QED BY <1>1, <1>3, <1>4, BeginOK

-----------------------------------------------------------------------------
(* The steps of a request in progress, and those of no request.            *)

\* A step of request r that leaves the tables and the cache alone.
LEMMA QueryOK ==
  ASSUME IInv, ReqOK', UNCHANGED <<mix, Tables, cache, raced>>, Track
  PROVE  IInv'
<1>1. RestOK'
  BY TrackOK DEF IInv, RestOK
<1> QED BY <1>1 DEF Tables, IInv, TablesOK, CacheOK

LEMMA GotoOK ==
  ASSUME IInv, NEW r \in Requests, NEW pc, Goto(r, pc),
         [req[r] EXCEPT !.pc = pc] \in Request, Knows([req[r] EXCEPT !.pc = pc])
  PROVE  ReqOK'
<1> DEFINE q == [req[r] EXCEPT !.pc = pc]
<1>1. q \in Request /\ Knows(q) /\ Become(r, q) /\ ReqOK
  BY DEF Goto, IInv
<1> HIDE DEF q
<1> QED BY <1>1, BecomeOK

\* The keys of what was written are deleted next.
LEMMA DeleteOK ==
  ASSUME IInv, NEW r \in Requests, NEW K \in SUBSET Entries, Delete(r, K)
  PROVE  ReqOK'
<1> DEFINE q == [IdleRequest EXCEPT !.pc = "del", !.op = req[r].op, !.key = req[r].key, !.keys = K]
<1>1. req[r].op \in OpKinds /\ req[r].key \in ConfigKeys \cup {NoKey}
  BY DEF IInv, ReqOK, Request
<1>2. q \in Request
  BY <1>1, IdleOK DEF IdleRequest, Request
<1>3. q.pc = "del"
  BY DEF IdleRequest
<1>4. Knows(q) /\ Become(r, q)
  BY <1>3 DEF Delete, Knows, AssignPcs, RemovePcs, MovePcs, FillPcs
<1> HIDE DEF q
<1> QED BY <1>2, <1>4, BecomeOK DEF IInv

LEMMA RequestOK ==
  ASSUME IInv, NEW r \in Requests
  PROVE  req[r] \in Request /\ Knows(req[r]) /\ TablesOK /\ ReqOK
  BY DEF IInv, ReqOK

LEMMA CountsOK ==
  ASSUME IInv, NEW r \in Requests, CountRows(r) \/ CountUsers(r) \/ CountChildren(r)
  PROVE  IInv'
<1>1. PICK pc \in {"assign", "remove"} :
        /\ pc = "assign" => req[r].pc = "countRows"
        /\ pc = "remove" => req[r].pc \in {"countUsers", "countChildren"}
        /\ \E ok \in BOOLEAN : Query(r, pc, ok)
  BY DEF CountRows, CountUsers, CountChildren
<1>2. /\ Goto(r, pc) \/ Return(r)
      /\ UNCHANGED <<mix, Tables, cache, raced>> /\ Track
  BY <1>1 DEF Query
<1>3. [req[r] EXCEPT !.pc = pc] \in Request /\ Knows([req[r] EXCEPT !.pc = pc])
  BY <1>1, RequestOK DEF Request, Knows, AssignPcs, RemovePcs, MovePcs, FillPcs
<1> QED BY <1>2, <1>3, GotoOK, ReturnOK, RequestOK, QueryOK

\* Rows, parents and links change, and the request goes on as q.
LEMMA WritesOK ==
  ASSUME IInv, TablesOK', ReqOK', CacheOK', UNCHANGED <<mix, raced>>, Track
  PROVE  IInv'
  BY TrackOK DEF IInv, RestOK

LEMMA AssignOK ==
  ASSUME IInv, NEW r \in Requests, Assign(r)
  PROVE  IInv'
<1> DEFINE x == req[r].about
           of == Of(req[r].op)
<1>1. req[r].op \in AssignOps /\ x \in To(req[r].op) /\ req[r].ids \subseteq of
  BY RequestOK DEF Assign, Knows, AssignPcs
<1>2. {x} \X req[r].ids \subseteq Links
  BY <1>1 DEF AssignOps, To, Of, Links
<1>3. TablesOK'
  <2>1. link' \subseteq Links
    BY <1>2 DEF Assign, IInv, TablesOK
  <2> QED BY <2>1 DEF Assign, IInv, TablesOK
<1>4. ReqOK'
  <2>1. CASE req[r].op = "assignRoles"
    <3>1. UserEntries(x) \subseteq Entries /\ Delete(r, UserEntries(x))
      BY <1>1, <2>1 DEF Assign, UserEntries, Entries, To
    <3> QED BY <3>1, DeleteOK
  <2>2. CASE req[r].op # "assignRoles"
    BY <2>2, ReturnOK, RequestOK DEF Assign
  <2> QED BY <2>1, <2>2
<1>5. CacheOK' /\ UNCHANGED <<mix, raced>> /\ Track
  BY DEF Assign, IInv, CacheOK
<1> QED BY <1>3, <1>4, <1>5, WritesOK

LEMMA RemoveOK ==
  ASSUME IInv, NEW r \in Requests, Remove(r)
  PROVE  IInv'
<1>1. TablesOK'
  <2>1. CASE Found(req[r].about)
    <3>1. row' = [row EXCEPT ![req[r].about].state = "deleted"]
          /\ parent' = [m \in Menus |-> IF m = req[r].about THEN NoMenu ELSE parent[m]]
          /\ link' \subseteq link
      BY <2>1 DEF Remove
    <3>2. row' \in [Rows -> Row]
      BY <3>1 DEF IInv, TablesOK, Row
    <3> QED BY <3>1, <3>2 DEF Remove, IInv, TablesOK
  <2>2. CASE ~Found(req[r].about)
    BY <2>2 DEF Remove, IInv, TablesOK
  <2> QED BY <2>1, <2>2
<1>2. ReqOK'
  BY ReturnOK, RequestOK DEF Remove
<1>3. CacheOK' /\ UNCHANGED <<mix, raced>> /\ Track
  BY DEF Remove, IInv, CacheOK
<1> QED BY <1>1, <1>2, <1>3, WritesOK

LEMMA CreateOK ==
  ASSUME IInv, NEW r \in Requests, NEW m \in Menus, Create(r, m)
  PROVE  IInv'
<1>1. m \in Rows /\ req[r].to \in Menus \cup {NoMenu}
  BY RequestOK DEF Rows, Request
<1>2. row' \in [Rows -> Row]
  BY <1>1 DEF Create, IInv, TablesOK, Row
<1>3. parent' \in [Menus -> Menus \cup {NoMenu}]
  BY <1>1 DEF Create, IInv, TablesOK
<1>4. TablesOK' /\ CacheOK' /\ UNCHANGED <<mix, raced>> /\ Track
  BY <1>2, <1>3 DEF Create, IInv, TablesOK, CacheOK
<1>5. ReqOK'
  BY ReturnOK, RequestOK DEF Create
<1> QED BY <1>4, <1>5, WritesOK

LEMMA MoveOK ==
  ASSUME IInv, NEW r \in Requests, Move(r)
  PROVE  IInv'
<1>1. req[r].to \in Menus \cup {NoMenu} /\ req[r].about \in Menus
  BY RequestOK DEF Request, Move, Knows, MovePcs
<1>2. parent' \in [Menus -> Menus \cup {NoMenu}]
  BY <1>1 DEF Move, IInv, TablesOK
<1>3. TablesOK' /\ CacheOK' /\ UNCHANGED <<mix, raced>> /\ Track
  BY <1>2 DEF Move, IInv, TablesOK, CacheOK
<1>4. ReqOK'
  BY ReturnOK, RequestOK DEF Move
<1> QED BY <1>3, <1>4, WritesOK

LEMMA CheckParentOK ==
  ASSUME IInv, NEW r \in Requests, CheckParent(r)
  PROVE  IInv'
<1> DEFINE q == [req[r] EXCEPT !.pc = "assertNoCycle", !.at = req[r].to]
<1>1. req[r].to \in Menus /\ req[r].about \in Menus
  BY RequestOK DEF CheckParent, Knows, MovePcs
<1>2. q \in Request /\ q.pc = "assertNoCycle" /\ q.at = req[r].to /\ q.to = req[r].to
      /\ q.about = req[r].about
  BY <1>1, RequestOK DEF Request, MovePcs
<1>3. Become(r, q) \/ Return(r)
  BY DEF CheckParent
<1> HIDE DEF q
<1>4. Knows(q)
  BY <1>1, <1>2 DEF Knows, AssignPcs, RemovePcs, MovePcs, FillPcs
<1>5. ReqOK'
  BY <1>2, <1>3, <1>4, BecomeOK, ReturnOK, RequestOK
<1> QED BY <1>5, QueryOK DEF CheckParent

LEMMA AssertNoCycleOK ==
  ASSUME IInv, NEW r \in Requests, AssertNoCycle(r)
  PROVE  IInv'
<1> DEFINE m  == req[r].at
           up == IF Found(m) THEN parent[m] ELSE NoMenu
           pc == IF up = NoMenu THEN "move" ELSE req[r].pc
           q  == [req[r] EXCEPT !.at = up, !.visited = @ \cup {m}, !.pc = pc]
<1>1. req[r].pc = "assertNoCycle" /\ m \in Menus /\ req[r].to \in Menus /\ req[r].about \in Menus
  BY RequestOK DEF AssertNoCycle, Knows, MovePcs
<1>2. up \in Menus \cup {NoMenu}
  BY <1>1, RequestOK DEF TablesOK
<1>3. pc \in {"move", "assertNoCycle"} /\ (pc = "assertNoCycle" => up \in Menus)
  BY <1>1, <1>2
<1>4. Return(r) \/ Goto(r, "move") \/ Become(r, q)
  BY DEF AssertNoCycle
<1> HIDE DEF up, pc
<1>5. q \in Request /\ q.pc = pc /\ q.at = up /\ q.to = req[r].to /\ q.about = req[r].about
  BY <1>1, <1>2, <1>3, RequestOK DEF Request, MovePcs
<1> HIDE DEF q
<1>6. Knows(q)
  BY <1>1, <1>2, <1>3, <1>5 DEF Knows, AssignPcs, RemovePcs, MovePcs, FillPcs
<1>7. [req[r] EXCEPT !.pc = "move"] \in Request /\ Knows([req[r] EXCEPT !.pc = "move"])
  BY <1>1, RequestOK DEF Request, Knows, AssignPcs, RemovePcs, MovePcs, FillPcs
<1>8. ReqOK'
  BY <1>4, <1>5, <1>6, <1>7, BecomeOK, ReturnOK, RequestOK, GotoOK
<1> QED BY <1>8, QueryOK DEF AssertNoCycle

LEMMA WriteOK ==
  ASSUME IInv, NEW r \in Requests, Write(r)
  PROVE  IInv'
<1> DEFINE x == req[r].about
           k == req[r].key
<1>1. /\ req[r].value \in Data /\ k \in ConfigKeys \cup {NoKey} /\ req[r].keys \in SUBSET Entries
  BY RequestOK DEF Write, Knows, Request
<1>2. TablesOK' /\ ReqOK'
  <2>1. CASE Exists(x) /\ Unique(x, k)
    <3>1. data' = IF req[r].op = "configRemove" THEN data ELSE [data EXCEPT ![x] = req[r].value]
      BY <2>1 DEF Write
    <3>2. configKey' = [c \in ConfigRows |-> IF c = x THEN k ELSE configKey[c]]
      BY <2>1 DEF Write
    <3>3. Delete(r, req[r].keys)
      BY <2>1 DEF Write
    <3>4. data' \in [Users \cup ConfigRows \cup {Tree} -> Data]
      BY <1>1, <3>1 DEF IInv, TablesOK
    <3>5. configKey' \in [ConfigRows -> ConfigKeys \cup {NoKey}]
      BY <1>1, <3>2 DEF IInv, TablesOK
    <3>6. TablesOK'
      BY <3>4, <3>5 DEF Write, IInv, TablesOK
    <3> QED BY <1>1, <3>3, <3>6, DeleteOK
  <2>2. CASE ~(Exists(x) /\ Unique(x, k))
    <3>1. Return(r) /\ UNCHANGED <<data, configKey>>
      BY <2>2 DEF Write
    <3> QED BY <3>1, ReturnOK, RequestOK DEF Write, IInv, TablesOK
  <2> QED BY <2>1, <2>2
<1>3. CacheOK' /\ UNCHANGED <<mix, raced>> /\ Track
  BY DEF Write, IInv, CacheOK
<1> QED BY <1>2, <1>3, WritesOK

LEMMA DeletedOK ==
  ASSUME IInv, NEW r \in Requests, Deleted(r)
  PROVE  ReqOK'
<1>1. req[r].keys \ NextKeys(r) \in SUBSET Entries
  BY RequestOK DEF Request
<1> QED BY <1>1, DeleteOK, ReturnOK, RequestOK DEF Deleted

LEMMA DelOK ==
  ASSUME IInv, NEW r \in Requests, Del(r) \/ DelFails(r)
  PROVE  IInv'
<1>1. Deleted(r) /\ Track /\ UNCHANGED <<mix, Tables, raced>>
  BY DEF Del, DelFails
<1>2. CacheOK'
  <2>1. CASE Del(r)
    <3>1. cache' = [e \in Entries |-> IF e \in NextKeys(r) THEN {} ELSE cache[e]]
      BY <2>1 DEF Del
    <3> QED BY <3>1 DEF IInv, CacheOK
  <2>2. CASE DelFails(r)
    BY <2>2 DEF DelFails, IInv, CacheOK
  <2> QED BY <2>1, <2>2
<1>3. TablesOK'
  BY <1>1 DEF Tables, IInv, TablesOK
<1> QED BY <1>1, <1>2, <1>3, DeletedOK, WritesOK

LEMMA KeepOK ==
  ASSUME IInv, NEW r \in Requests, req[r].pc \in FillPcs, NEW S,
         NEW pc \in Reading, Keep(r, pc, S),
         pc = "queryLinks" => S \subseteq Roles,
         pc = "queryRows" => S \subseteq Roles \/ S \subseteq Permissions,
         pc = "set" => S \in Value
  PROVE  ReqOK'
<1> DEFINE q == [req[r] EXCEPT !.pc = pc, !.ids = S]
<1>1. pc \in {"queryLinks", "queryRows", "set"} /\ pc \in FillPcs
  BY DEF Reading, FillPcs
<1>2. S \subseteq Rows \cup Data
  BY <1>1 DEF Value, Rows
<1>3. /\ q \in Request /\ q.pc = pc /\ q.ids = S /\ q.entry = req[r].entry
  BY <1>1, <1>2, RequestOK DEF Request
<1>4. Become(r, q) /\ req[r].entry \in Entries
  BY RequestOK DEF Keep, Knows
<1> HIDE DEF q
<1>5. Knows(q)
  BY <1>1, <1>3, <1>4 DEF Knows, AssignPcs, RemovePcs, MovePcs
<1> QED BY <1>3, <1>4, <1>5, BecomeOK, RequestOK

LEMMA SourceOK ==
  ASSUME TablesOK, NEW e \in Entries
  PROVE  Source(e) \subseteq Value /\ (e[1] \in {"user", "config", "tree"} => UNION Source(e) \subseteq Data)
<1>1. CASE e[1] = "user"
  <2>1. e[2] \in Users
    BY <1>1 DEF Entries
  <2>2. Source(e) \subseteq {{data[e[2]]}}
    BY <1>1 DEF Source
  <2>3. data[e[2]] \in Data
    BY <2>1 DEF TablesOK
  <2> QED BY <2>2, <2>3 DEF Value
<1>2. CASE e[1] = "roles"
  <2>1. Source(e) \subseteq {Enabled(Linked({e[2]}, Roles))}
    BY <1>2 DEF Source
  <2>2. Enabled(Linked({e[2]}, Roles)) \subseteq Roles
    BY DEF Enabled, Linked
  <2> QED BY <1>2, <2>1, <2>2 DEF Value
<1>3. CASE e[1] = "perms"
  <2>1. Source(e) \subseteq {Enabled(Linked(Linked({e[2]}, Roles), Permissions))}
    BY <1>3 DEF Source
  <2>2. Enabled(Linked(Linked({e[2]}, Roles), Permissions)) \subseteq Permissions
    BY DEF Enabled, Linked
  <2> QED BY <1>3, <2>1, <2>2 DEF Value
<1>4. CASE e[1] = "config"
  <2>1. Source(e) \subseteq {{data[c]} : c \in ConfigRows}
    BY <1>4 DEF Source
  <2>2. \A c \in ConfigRows : data[c] \in Data
    BY DEF TablesOK
  <2> QED BY <2>1, <2>2 DEF Value
<1>5. CASE e[1] = "tree"
  <2>1. Source(e) = {{data[e[2]]}} /\ e[2] = Tree
    BY <1>5 DEF Source, Entries
  <2>2. data[Tree] \in Data
    BY DEF TablesOK
  <2> QED BY <2>1, <2>2 DEF Value
<1> QED BY <1>1, <1>2, <1>3, <1>4, <1>5 DEF Entries

LEMMA FillQueryOK ==
  ASSUME IInv, NEW r \in Requests, FillQuery(r)
  PROVE  IInv'
<1> DEFINE e     == req[r].entry
           roles == Linked({e[2]}, Roles)
<1>1. req[r].pc = "query" /\ req[r].pc \in FillPcs /\ e \in Entries /\ roles \subseteq Roles
  BY RequestOK DEF FillQuery, FillPcs, Knows, Linked
<1>2. e[1] \in {"user", "roles", "perms", "config", "tree"}
  BY <1>1 DEF Entries
<1>3. \/ Return(r)
      \/ e[1] \in {"user", "config", "tree"} /\ Keep(r, "set", UNION Source(e))
      \/ Keep(r, "queryRows", roles)
      \/ Keep(r, "queryLinks", roles)
  BY <1>2 DEF FillQuery
<1>4. e[1] \in {"user", "config", "tree"} => UNION Source(e) \in Value
  BY <1>1, SourceOK, RequestOK DEF Value
<1>5. {"set", "queryRows", "queryLinks"} \subseteq Reading
  BY DEF Reading, FillPcs
<1>6. ReqOK'
  BY <1>1, <1>3, <1>4, <1>5, KeepOK, ReturnOK, RequestOK
<1> QED BY <1>6, QueryOK DEF FillQuery

LEMMA FillReadsOK ==
  ASSUME IInv, NEW r \in Requests, FillLinks(r) \/ FillRows(r)
  PROVE  IInv'
<1>1. req[r].pc \in FillPcs
  BY DEF FillLinks, FillRows, FillPcs
<1>2. {"set", "queryRows"} \subseteq Reading
  BY DEF Reading, FillPcs
<1>3. CASE FillLinks(r)
  <2>1. Linked(req[r].ids, Permissions) \subseteq Permissions
    BY DEF Linked
  <2>2. Return(r) \/ Keep(r, "queryRows", Linked(req[r].ids, Permissions))
    BY <1>3 DEF FillLinks
  <2>3. ReqOK'
    BY <1>1, <1>2, <2>1, <2>2, KeepOK, ReturnOK, RequestOK
  <2> QED BY <1>3, <2>3, QueryOK DEF FillLinks
<1>4. CASE FillRows(r)
  <2>1. Enabled(req[r].ids) \in Value
    BY <1>4, RequestOK DEF FillRows, Knows, Enabled, Value
  <2>2. Keep(r, "set", Enabled(req[r].ids))
    BY <1>4 DEF FillRows
  <2>3. ReqOK'
    BY <1>1, <1>2, <2>1, <2>2, KeepOK
  <2> QED BY <1>4, <2>3, QueryOK DEF FillRows
<1> QED BY <1>3, <1>4

LEMMA FillSetOK ==
  ASSUME IInv, NEW r \in Requests, FillSet(r) \/ FillFails(r)
  PROVE  IInv'
<1>1. Return(r) /\ UNCHANGED <<mix, Tables, raced>> /\ Track
  BY DEF FillSet, FillFails
<1>2. CacheOK'
  <2>1. CASE FillSet(r)
    <3>1. req[r].ids \in Value
      BY <2>1, RequestOK DEF FillSet, Knows
    <3> QED BY <2>1, <3>1 DEF FillSet, IInv, CacheOK
  <2>2. CASE FillFails(r)
    BY <2>2 DEF FillFails, IInv, CacheOK
  <2> QED BY <2>1, <2>2
<1>3. TablesOK'
  BY <1>1 DEF Tables, IInv, TablesOK
<1> QED BY <1>1, <1>2, <1>3, ReturnOK, RequestOK, WritesOK

\* The steps of no request.
LEMMA DirectOK == ASSUME IInv, Direct PROVE IInv'
<1>1. ASSUME UNCHANGED req PROVE ReqOK'
  BY <1>1 DEF IInv, ReqOK, Knows, Value, Writes, Removes, To, Of, Entries
<1>2. ASSUME NEW x \in Rows, CreateRow(x) \/ SetStatus(x) PROVE IInv'
  <2>1. row' \in [Rows -> Row]
    <3>1. CASE CreateRow(x)
      BY <3>1 DEF CreateRow, IInv, TablesOK, Row
    <3>2. CASE SetStatus(x)
      <4>1. PICK b \in BOOLEAN : row' = [row EXCEPT ![x].status = b]
        BY <3>2 DEF SetStatus
      <4> QED BY <4>1 DEF IInv, TablesOK, Row
    <3> QED BY <1>2, <3>1, <3>2
  <2>2. TablesOK' /\ CacheOK' /\ UNCHANGED <<mix, req, raced>> /\ Track
    BY <1>2, <2>1 DEF CreateRow, SetStatus, IInv, TablesOK, CacheOK
  <2> QED BY <1>1, <2>2, WritesOK
<1>3. ASSUME NEW c \in ConfigRows, NEW k \in ConfigKeys, NEW v \in Data, ConfigCreate(c, k, v)
      PROVE  IInv'
  <2>1. /\ configKey' \in [ConfigRows -> ConfigKeys \cup {NoKey}]
        /\ data' \in [Users \cup ConfigRows \cup {Tree} -> Data]
    BY <1>3 DEF ConfigCreate, IInv, TablesOK
  <2>2. TablesOK' /\ CacheOK' /\ UNCHANGED <<mix, req, raced>> /\ Track
    BY <1>3, <2>1 DEF ConfigCreate, IInv, TablesOK, CacheOK
  <2> QED BY <1>1, <2>2, WritesOK
<1>4. ASSUME NEW e \in Entries, Expire(e) PROVE IInv'
  <2>1. TablesOK' /\ CacheOK' /\ UNCHANGED <<mix, req, raced>> /\ Track
    BY <1>4 DEF Expire, Tables, IInv, TablesOK, CacheOK
  <2> QED BY <1>1, <2>1, WritesOK
<1> QED BY <1>2, <1>3, <1>4 DEF Direct

LEMMA InitOK == Init => IInv
<1> SUFFICES ASSUME Init PROVE IInv OBVIOUS
<1>1. (CHOOSE v \in Data : TRUE) \in Data
  BY AccessAssumption
<1>2. data \in [Users \cup ConfigRows \cup {Tree} -> Data]
  <2>1. data \in [Users \cup ConfigRows \cup {Tree} -> {CHOOSE v \in Data : TRUE}]
    BY DEF Init
  <2> QED BY <1>1, <2>1
<1>3. TablesOK
  BY <1>2 DEF Init, TablesOK, Row
<1>4. ReqOK
  BY IdleOK DEF Init, ReqOK
<1> QED BY <1>3, <1>4 DEF Init, IInv, CacheOK, RestOK

LEMMA NextOK == IInv /\ [Next]_vars => IInv'
<1> SUFFICES ASSUME IInv, [Next]_vars PROVE IInv' OBVIOUS
<1>1. ASSUME NEW r \in Requests, Step(r) PROVE IInv'
  BY <1>1, AssignBeginOK, CountsOK, AssignOK, RemoveBeginOK, RemoveOK, CreateBeginOK, MoveBeginOK,
     CreateOK, CheckParentOK, AssertNoCycleOK, MoveOK, WriteBeginOK, WriteOK, RefreshCacheOK, DelOK,
     FillBeginOK, FillQueryOK, FillReadsOK, FillSetOK DEF Step
<1>2. CASE UNCHANGED vars
  BY <1>2 DEF vars, Tables, IInv, TablesOK, CacheOK, ReqOK, RestOK, Knows, Value, Writes, Removes,
     To, Of, Entries
<1> QED BY <1>1, <1>2, DirectOK DEF Next

\* Every variable keeps its type; an entry of Redis holds at most one value,
\* of the kind its readers expect, whatever fill or DEL came last.
THEOREM TypeCorrect == Spec => []TypeOK
  BY InitOK, NextOK, IInvType, PTL DEF Spec

-----------------------------------------------------------------------------
(* What steps of different kinds leave alone.                              *)

CopyPcs == {"idle", "write", "del"} \cup FillPcs

\* The steps of writes that delete entries, and of fills.
LEMMA CopyStep ==
  ASSUME IInv, NEW r \in Requests,
         \/ \E op \in WriteOps \cap mix.ops :
              \E x \in Writes(op), k \in Keys(op), v \in Data : WriteBegin(r, op, x, k, v)
         \/ Write(r) \/ RefreshCache(r) \/ Del(r) \/ DelFails(r)
         \/ \E e \in Entries : FillBegin(r, e)
         \/ FillQuery(r) \/ FillLinks(r) \/ FillRows(r) \/ FillSet(r) \/ FillFails(r)
  PROVE  /\ UNCHANGED <<row, parent, link, raced>>
         /\ \E q : q.pc \in CopyPcs /\ Become(r, q)
<1>1. IdleRequest.pc = "idle" /\ "idle" \in CopyPcs
  BY DEF IdleRequest, CopyPcs
<1>2. ASSUME Return(r) PROVE \E q : q.pc \in CopyPcs /\ Become(r, q)
  BY <1>1, <1>2 DEF Return
<1>3. ASSUME NEW K, Delete(r, K) PROVE \E q : q.pc \in CopyPcs /\ Become(r, q)
  BY <1>3 DEF Delete, CopyPcs, IdleRequest
<1>4. ASSUME NEW pc \in FillPcs, NEW S, Keep(r, pc, S) PROVE \E q : q.pc \in CopyPcs /\ Become(r, q)
  <2> DEFINE q == [req[r] EXCEPT !.pc = pc, !.ids = S]
  <2>1. q.pc = pc
    BY RequestOK DEF Request
  <2>2. Become(r, q)
    BY <1>4 DEF Keep
  <2> HIDE DEF q
  <2> QED BY <2>1, <2>2 DEF CopyPcs
<1>5. ASSUME NEW op, NEW q, q.pc \in CopyPcs, [q EXCEPT !.op = op].pc = q.pc, Begin(r, op, q)
      PROVE  \E p : p.pc \in CopyPcs /\ Become(r, p)
  BY <1>5 DEF Begin
<1>6. CASE \E op \in WriteOps \cap mix.ops :
             \E x \in Writes(op), k \in Keys(op), v \in Data : WriteBegin(r, op, x, k, v)
  <2>1. PICK op, x, k, v : WriteBegin(r, op, x, k, v)
    BY <1>6
  <2> DEFINE q == [IdleRequest EXCEPT !.pc = "write", !.about = x, !.key = k, !.value = v,
                     !.keys = EntriesOf(x, k)]
  <2>2. Begin(r, op, q) /\ NoRace
    BY <2>1 DEF WriteBegin
  <2>3. q.pc \in CopyPcs /\ [q EXCEPT !.op = op].pc = q.pc
    BY DEF IdleRequest, CopyPcs
  <2> HIDE DEF q
  <2> QED BY <1>5, <2>2, <2>3 DEF Begin, NoRace, Tables
<1>7. CASE RefreshCache(r)
  <2> DEFINE q == [IdleRequest EXCEPT !.pc = "del",
                     !.keys = {"config"} \X ({configKey[c] : c \in ConfigRows} \ {NoKey})]
  <2>1. Begin(r, "refreshCache", q) /\ NoRace
    BY <1>7 DEF RefreshCache
  <2>2. q.pc \in CopyPcs /\ [q EXCEPT !.op = "refreshCache"].pc = q.pc
    BY DEF IdleRequest, CopyPcs
  <2> HIDE DEF q
  <2> QED BY <1>5, <2>1, <2>2 DEF Begin, NoRace, Tables
<1>8. CASE \E e \in Entries : FillBegin(r, e)
  <2>1. PICK e \in Entries : FillBegin(r, e)
    BY <1>8
  <2> DEFINE q == [IdleRequest EXCEPT !.pc = "query", !.entry = e]
  <2>2. Begin(r, "fill", q) /\ NoRace
    BY <2>1 DEF FillBegin
  <2>3. q.pc \in CopyPcs /\ [q EXCEPT !.op = "fill"].pc = q.pc
    BY DEF IdleRequest, CopyPcs, FillPcs
  <2> HIDE DEF q
  <2> QED BY <1>5, <2>2, <2>3 DEF Begin, NoRace, Tables
<1>9. CASE Write(r)
  BY <1>2, <1>3, <1>9 DEF Write
<1>10. CASE Del(r) \/ DelFails(r)
  BY <1>2, <1>3, <1>10 DEF Del, DelFails, Deleted, Tables
<1>11. CASE FillQuery(r)
  <2>1. Return(r) \/ \E S : Keep(r, "set", S) \/ Keep(r, "queryRows", S) \/ Keep(r, "queryLinks", S)
    <3>1. req[r].entry[1] \in {"user", "roles", "perms", "config", "tree"}
      BY <1>11, RequestOK DEF FillQuery, Knows, FillPcs, Entries
    <3> QED BY <1>11, <3>1 DEF FillQuery
  <2> QED BY <1>2, <1>4, <1>11, <2>1 DEF FillQuery, FillPcs, Tables
<1>12. CASE FillLinks(r) \/ FillRows(r)
  <2>1. Return(r) \/ \E S : Keep(r, "set", S) \/ Keep(r, "queryRows", S)
    BY <1>12 DEF FillLinks, FillRows
  <2> QED BY <1>2, <1>4, <1>12, <2>1 DEF FillLinks, FillRows, FillPcs, Tables
<1>13. CASE FillSet(r) \/ FillFails(r)
  BY <1>2, <1>13 DEF FillSet, FillFails, Tables
<1> QED BY <1>6, <1>7, <1>8, <1>9, <1>10, <1>11, <1>12, <1>13

\* A row that is made stays made; what is found is found until it is removed.
FoundStays == \A x : Found(x) => Found(x)'

\* The steps of menus that are created and moved.
LEMMA MenuStep ==
  ASSUME IInv, NEW r \in Requests,
         \/ \E p \in Menus \cup {NoMenu} : CreateBegin(r, p) \/ \E m \in Menus : MoveBegin(r, m, p)
         \/ \E m \in Menus : Create(r, m)
         \/ CheckParent(r) \/ AssertNoCycle(r) \/ Move(r)
  PROVE  /\ UNCHANGED link /\ raced \subseteq raced' /\ FoundStays
         /\ \E q : q.pc \in {"idle"} \cup CreatePcs \cup MovePcs /\ Become(r, q)
<1> DEFINE Pcs == {"idle"} \cup CreatePcs \cup MovePcs
<1>1. ASSUME Return(r) PROVE \E q : q.pc \in Pcs /\ Become(r, q)
  BY <1>1 DEF Return, IdleRequest
<1>2. ASSUME NEW op, NEW q, q.pc \in Pcs, [q EXCEPT !.op = op].pc = q.pc, Begin(r, op, q)
      PROVE  \E p : p.pc \in Pcs /\ Become(r, p)
  BY <1>2 DEF Begin
<1>3. UNCHANGED row => FoundStays
  BY DEF FoundStays, Found
<1>4. CASE \E p \in Menus \cup {NoMenu} : CreateBegin(r, p)
  <2>1. PICK p \in Menus \cup {NoMenu} : CreateBegin(r, p)
    BY <1>4
  <2> DEFINE q == [IdleRequest EXCEPT !.pc = "create", !.to = p]
  <2>2. Begin(r, "createMenu", q) /\ raced \subseteq raced'
    BY <2>1 DEF CreateBegin, Race
  <2>3. q.pc \in Pcs /\ [q EXCEPT !.op = "createMenu"].pc = q.pc
    BY DEF IdleRequest, CreatePcs
  <2> HIDE DEF q, Pcs
  <2> QED BY <1>2, <1>3, <2>2, <2>3 DEF Begin, Tables, Pcs
<1>5. CASE \E p \in Menus \cup {NoMenu} : \E m \in Menus : MoveBegin(r, m, p)
  <2>1. PICK p \in Menus \cup {NoMenu}, m \in Menus : MoveBegin(r, m, p)
    BY <1>5
  <2> DEFINE q == [IdleRequest EXCEPT !.pc = IF p = NoMenu THEN "move" ELSE "checkParent",
                     !.about = m, !.to = p]
  <2>2. Begin(r, "moveMenu", q) /\ raced \subseteq raced'
    BY <2>1 DEF MoveBegin
  <2>3. q.pc \in Pcs /\ [q EXCEPT !.op = "moveMenu"].pc = q.pc
    BY DEF IdleRequest, MovePcs
  <2> HIDE DEF q, Pcs
  <2> QED BY <1>2, <1>3, <2>2, <2>3 DEF Begin, Tables, Pcs
<1>6. CASE \E m \in Menus : Create(r, m)
  <2>1. PICK m \in Menus : Create(r, m)
    BY <1>6
  <2>2. FoundStays
    BY <2>1 DEF Create, FoundStays, Found, Rows, Row, IInv, TablesOK
  <2> QED BY <1>1, <2>1, <2>2 DEF Create
<1>7. CASE CheckParent(r)
  <2> DEFINE q == [req[r] EXCEPT !.pc = "assertNoCycle", !.at = req[r].to]
  <2>1. Return(r) \/ Become(r, q)
    BY <1>7 DEF CheckParent
  <2>2. q.pc \in Pcs
    BY RequestOK DEF Request, MovePcs
  <2> HIDE DEF q
  <2> QED BY <1>1, <1>3, <1>7, <2>1, <2>2 DEF CheckParent, Tables
<1>8. CASE AssertNoCycle(r)
  <2> DEFINE m  == req[r].at
             up == IF Found(m) THEN parent[m] ELSE NoMenu
             p  == [req[r] EXCEPT !.pc = "move"]
             q  == [req[r] EXCEPT !.at = up, !.visited = @ \cup {m},
                      !.pc = IF up = NoMenu THEN "move" ELSE @]
  <2>1. Return(r) \/ Become(r, p) \/ Become(r, q)
    BY <1>8 DEF AssertNoCycle, Goto
  <2>2. p.pc \in Pcs /\ q.pc \in Pcs
    <3> HIDE DEF up
    <3> QED BY <1>8, RequestOK DEF AssertNoCycle, Request, MovePcs
  <2> HIDE DEF p, q
  <2> QED BY <1>1, <1>3, <1>8, <2>1, <2>2 DEF AssertNoCycle, Tables
<1>9. CASE Move(r)
  BY <1>1, <1>3, <1>9 DEF Move
<1> QED BY <1>4, <1>5, <1>6, <1>7, <1>8, <1>9

\* The steps of assignments.
LEMMA AssignStep ==
  ASSUME IInv, NEW r \in Requests,
         \/ \E op \in AssignOps \cap mix.ops :
              \E x \in To(op), S \in SUBSET Of(op) : AssignBegin(r, op, x, S)
         \/ CountRows(r) \/ Assign(r)
  PROVE  /\ UNCHANGED <<row, parent>> /\ raced \subseteq raced'
         /\ \E q : q.pc \in {"idle", "del"} \cup AssignPcs /\ Become(r, q)
<1> DEFINE Pcs == {"idle", "del"} \cup AssignPcs
<1>1. ASSUME Return(r) PROVE \E q : q.pc \in Pcs /\ Become(r, q)
  BY <1>1 DEF Return, IdleRequest
<1>2. CASE \E op \in AssignOps \cap mix.ops :
             \E x \in To(op), S \in SUBSET Of(op) : AssignBegin(r, op, x, S)
  <2>1. PICK op, x, S : AssignBegin(r, op, x, S)
    BY <1>2
  <2> DEFINE q == [IdleRequest EXCEPT !.pc = IF S = {} THEN "assign" ELSE "countRows",
                     !.about = x, !.ids = S]
             p == [q EXCEPT !.op = op]
  <2>2. Begin(r, op, q) /\ raced \subseteq raced'
    BY <2>1 DEF AssignBegin, Race
  <2>3. p.pc \in Pcs
    BY DEF IdleRequest, AssignPcs
  <2>4. Become(r, p) /\ UNCHANGED <<row, parent>>
    BY <2>2 DEF Begin, Tables
  <2> HIDE DEF p, Pcs
  <2> QED BY <2>2, <2>3, <2>4 DEF Pcs
<1>3. CASE CountRows(r)
  <2> DEFINE q == [req[r] EXCEPT !.pc = "assign"]
  <2>1. Return(r) \/ Become(r, q)
    BY <1>3 DEF CountRows, Query, Goto
  <2>2. q.pc \in Pcs
    BY RequestOK DEF Request, AssignPcs
  <2> HIDE DEF q
  <2> QED BY <1>1, <1>3, <2>1, <2>2 DEF CountRows, Query, Tables
<1>4. CASE Assign(r)
  <2> DEFINE q == [IdleRequest EXCEPT !.pc = "del", !.op = req[r].op, !.key = req[r].key,
                     !.keys = UserEntries(req[r].about)]
  <2>1. Return(r) \/ Become(r, q)
    BY <1>4 DEF Assign, Delete
  <2>2. q.pc \in Pcs
    BY DEF IdleRequest
  <2> HIDE DEF q
  <2> QED BY <1>1, <1>4, <2>1, <2>2 DEF Assign
<1> QED BY <1>2, <1>3, <1>4

\* Rows are added and enabled, configuration rows added, entries expire.
LEMMA DirectStep ==
  ASSUME IInv, Direct
  PROVE  /\ UNCHANGED <<parent, link, req, raced>> /\ FoundStays
         /\ \A m \in Menus : row'[m].state = row[m].state
<1>1. ASSUME NEW x \in Rows, CreateRow(x)
      PROVE  FoundStays /\ \A m \in Menus : row'[m].state = row[m].state
  <2>1. x \notin Menus
    <3>1. x \in Menus => CreateOp(x) = "createMenu"
      BY AccessAssumption DEF CreateOp, Disjoint
    <3> QED BY <1>1, <3>1 DEF CreateRow
  <2>2. row' = [row EXCEPT ![x].state = "live"]
    BY <1>1 DEF CreateRow
  <2> QED BY <2>1, <2>2 DEF FoundStays, Found, Rows, Row, IInv, TablesOK
<1>2. ASSUME NEW x \in Rows, SetStatus(x)
      PROVE  FoundStays /\ \A m \in Menus : row'[m].state = row[m].state
  <2>1. PICK b : row' = [row EXCEPT ![x].status = b]
    BY <1>2 DEF SetStatus
  <2> QED BY <2>1 DEF FoundStays, Found, Rows, Row, IInv, TablesOK
<1>3. UNCHANGED row => FoundStays
  BY DEF FoundStays, Found
<1> QED BY <1>1, <1>2, <1>3 DEF Direct, CreateRow, SetStatus, ConfigCreate, Expire, Tables

-----------------------------------------------------------------------------
(* Links refer to rows that exist.  While no removal overlaps an           *)
(* assignment, what an assignment has read stays, and a removal that has   *)
(* counted the users of its role stays right about them.                   *)

Apart(P, Q) == InProgress(P) = {} \/ InProgress(Q) = {}

LinkSound(q) ==
  /\ q.pc \in AssignPcs => Found(q.about)
  /\ q.pc = "assign" => \A x \in q.ids : Found(x)
  /\ q.pc = "remove" /\ q.about \in Roles => \A u \in Users : <<u, q.about>> \notin link

LinksExist == \A l \in link : Found(l[1]) /\ Found(l[2])

LinkInv == "link" \notin raced =>
  Apart(AssignPcs, RemovePcs) /\ LinksExist /\ \A r \in Requests : LinkSound(req[r])

\* A step of one request that removes no row and changes no link.
LEMMA LinkStep ==
  ASSUME IInv, LinkInv, NEW r \in Requests, NEW q, Become(r, q), UNCHANGED link,
         raced \subseteq raced', FoundStays, "link" \notin raced' => LinkSound(q),
         q.pc \in AssignPcs =>
           req[r].pc \in AssignPcs \/ InProgress(RemovePcs) = {} \/ "link" \in raced',
         q.pc \in RemovePcs =>
           req[r].pc \in RemovePcs \/ InProgress(AssignPcs) = {} \/ "link" \in raced'
  PROVE  LinkInv'
<1> SUFFICES ASSUME "link" \notin raced'
             PROVE  (Apart(AssignPcs, RemovePcs) /\ LinksExist
                       /\ \A s \in Requests : LinkSound(req[s]))'
  BY DEF LinkInv
<1>1. /\ Apart(AssignPcs, RemovePcs) /\ LinksExist
      /\ \A s \in Requests : LinkSound(req[s])
  BY DEF LinkInv
<1>2. req'[r] = q /\ \A s \in Requests \ {r} : req'[s] = req[s]
  BY DEF Become, IInv, ReqOK
<1>3. Apart(AssignPcs, RemovePcs)'
  <2>1. ASSUME NEW P, NEW Q, InProgress(P) = {}, InProgress(P)' # {}
        PROVE  q.pc \in P /\ req[r].pc \notin P
    BY <1>2, <2>1 DEF InProgress
  <2>2. ASSUME NEW P, req[r].pc \in P PROVE InProgress(P) # {}
    BY <2>2 DEF InProgress
  <2>3. ASSUME NEW P, InProgress(P)' # {}, InProgress(P) = {} PROVE InProgress(P)' = {r}
    BY <1>2, <2>3 DEF InProgress
  <2>4. ASSUME NEW P, InProgress(P)' # {} PROVE q.pc \in P \/ InProgress(P) # {}
    BY <1>2, <2>4 DEF InProgress
  <2>5. q.pc \in AssignPcs => q.pc \notin RemovePcs
    BY DEF AssignPcs, RemovePcs
  <2>6. q.pc \in AssignPcs => InProgress(RemovePcs)' = {}
    BY <1>1, <2>2, <2>4, <2>5 DEF Apart
  <2>7. q.pc \in RemovePcs => InProgress(AssignPcs)' = {}
    BY <1>1, <2>2, <2>4, <2>5 DEF Apart
  <2> QED BY <1>1, <2>4, <2>6, <2>7 DEF Apart
<1>4. LinksExist'
  BY <1>1 DEF LinksExist, FoundStays
<1>5. ASSUME NEW s \in Requests PROVE LinkSound(req'[s])
  BY <1>1, <1>2
<1>6. \A s \in Requests : LinkSound(req[s])'
  BY <1>5 DEF LinkSound, FoundStays
<1> QED BY <1>3, <1>4, <1>6

\* What neither assigns nor removes has nothing to show.
LEMMA OtherLink ==
  ASSUME IInv, LinkInv, NEW r \in Requests, NEW q, Become(r, q), UNCHANGED link,
         raced \subseteq raced', FoundStays, q.pc \notin AssignPcs \cup RemovePcs
  PROVE  LinkInv'
<1>1. LinkSound(q)
  BY DEF LinkSound, AssignPcs, RemovePcs
<1> QED BY <1>1, LinkStep

LEMMA RowStays == UNCHANGED row => FoundStays
  BY DEF FoundStays, Found

LEMMA OthersLink ==
  ASSUME IInv, LinkInv, NEW r \in Requests,
         UNCHANGED link, raced \subseteq raced', FoundStays,
         \E q : q.pc \in CopyPcs \cup CreatePcs \cup MovePcs /\ Become(r, q)
  PROVE  LinkInv'
  BY OtherLink DEF CopyPcs, FillPcs, CreatePcs, MovePcs, AssignPcs, RemovePcs

LEMMA ReturnLink ==
  ASSUME IInv, LinkInv, NEW r \in Requests, Return(r), UNCHANGED <<link, row>>,
         raced \subseteq raced'
  PROVE  LinkInv'
<1>1. IdleRequest.pc \in CopyPcs
  BY DEF IdleRequest, CopyPcs
<1> QED BY <1>1, OthersLink, RowStays DEF Return

LEMMA AssignBeginLink ==
  ASSUME IInv, LinkInv, NEW r \in Requests, NEW op, NEW x, NEW S, AssignBegin(r, op, x, S)
  PROVE  LinkInv'
<1> DEFINE pc == IF S = {} THEN "assign" ELSE "countRows"
           q  == [[IdleRequest EXCEPT !.pc = pc, !.about = x, !.ids = S] EXCEPT !.op = op]
<1>1. Become(r, q) /\ UNCHANGED <<link, row>> /\ Race("link", RemovePcs) /\ Found(x)
  BY DEF AssignBegin, Begin, Tables
<1>2. q.pc = pc /\ q.about = x /\ q.ids = S
  BY DEF IdleRequest
<1>3. pc \in AssignPcs /\ pc \notin RemovePcs /\ pc # "remove" /\ (pc = "assign" => S = {})
  BY DEF AssignPcs, RemovePcs
<1> HIDE DEF q, pc
<1>4. LinkSound(q)
  BY <1>1, <1>2, <1>3 DEF LinkSound
<1>5. raced \subseteq raced' /\ (InProgress(RemovePcs) = {} \/ "link" \in raced')
  BY <1>1 DEF Race
<1> QED BY <1>1, <1>2, <1>3, <1>4, <1>5, LinkStep, RowStays

LEMMA CountRowsLink ==
  ASSUME IInv, LinkInv, NEW r \in Requests, CountRows(r)
  PROVE  LinkInv'
<1> DEFINE q == [req[r] EXCEPT !.pc = "assign"]
<1>1. UNCHANGED <<link, row, raced>>
  BY DEF CountRows, Query, Tables
<1>2. CASE Return(r)
  BY <1>1, <1>2, ReturnLink
<1>3. CASE Become(r, q) /\ \A x \in req[r].ids : Found(x)
  <2>1. q.pc = "assign" /\ q.about = req[r].about /\ q.ids = req[r].ids
    BY RequestOK DEF Request
  <2>2. req[r].pc \in AssignPcs /\ q.pc \in AssignPcs /\ q.pc \notin RemovePcs
    BY <2>1 DEF CountRows, AssignPcs, RemovePcs
  <2> HIDE DEF q
  <2>3. "link" \notin raced => LinkSound(q)
    BY <1>3, <2>1, <2>2 DEF LinkSound, LinkInv
  <2> QED BY <1>1, <1>3, <2>2, <2>3, LinkStep, RowStays
<1> QED BY <1>2, <1>3 DEF CountRows, Query, Goto

LEMMA RemoveBeginLink ==
  ASSUME IInv, LinkInv, NEW r \in Requests, NEW op \in RemoveOps, NEW x \in Removes(op),
         RemoveBegin(r, op, x)
  PROVE  LinkInv'
<1> DEFINE pc == CASE op = "removeRole" -> "countUsers"
                   [] op = "removeMenu" -> "countChildren"
                   [] OTHER -> "remove"
           q  == [[IdleRequest EXCEPT !.about = x, !.pc = pc] EXCEPT !.op = op]
<1>1. Become(r, q) /\ UNCHANGED <<link, row>>
  BY DEF RemoveBegin, Begin, Tables
<1>2. q.pc = pc /\ q.about = x
  BY DEF IdleRequest
<1>3. pc \in RemovePcs /\ pc \notin AssignPcs /\ pc # "assign"
  BY DEF AssignPcs, RemovePcs
<1>4. pc = "remove" => x \notin Roles
  BY AccessAssumption DEF Removes, RemoveOps, Disjoint
<1>5. raced \subseteq raced' /\ (InProgress(AssignPcs) = {} \/ "link" \in raced')
  BY DEF RemoveBegin
<1> HIDE DEF q, pc
<1>6. LinkSound(q)
  BY <1>2, <1>3, <1>4 DEF LinkSound
<1> QED BY <1>1, <1>2, <1>3, <1>5, <1>6, LinkStep, RowStays

LEMMA CountsLink ==
  ASSUME IInv, LinkInv, NEW r \in Requests, CountUsers(r) \/ CountChildren(r)
  PROVE  LinkInv'
<1> DEFINE q == [req[r] EXCEPT !.pc = "remove"]
<1>1. UNCHANGED <<link, row, raced>>
  BY DEF CountUsers, CountChildren, Query, Tables
<1>2. CASE Return(r)
  BY <1>1, <1>2, ReturnLink
<1>3. CASE Become(r, q) /\ (req[r].about \in Roles => \A u \in Users : <<u, req[r].about>> \notin link)
  <2>1. q.pc = "remove" /\ q.about = req[r].about
    BY RequestOK DEF Request
  <2>2. req[r].pc \in RemovePcs /\ q.pc \notin AssignPcs
    BY <2>1 DEF CountUsers, CountChildren, AssignPcs, RemovePcs
  <2> HIDE DEF q
  <2>3. LinkSound(q)
    BY <1>3, <2>1, <2>2 DEF LinkSound
  <2> QED BY <1>1, <1>3, <2>2, <2>3, LinkStep, RowStays
<1>4. req[r].pc = "countChildren" => req[r].about \notin Roles
  BY RequestOK, AccessAssumption DEF Knows, Disjoint
<1> QED BY <1>2, <1>3, <1>4 DEF CountUsers, CountChildren, Query, Goto

\* The step of a request that has no part in either any more.
LEMMA DoneLink ==
  ASSUME IInv, LinkInv, NEW r \in Requests, NEW q, Become(r, q),
         q.pc \notin AssignPcs \cup RemovePcs, raced' = raced,
         "link" \notin raced => LinksExist'
                                 /\ \A s \in Requests \ {r} : req'[s] = req[s] => LinkSound(req[s])'
  PROVE  LinkInv'
<1> SUFFICES ASSUME "link" \notin raced'
             PROVE  (Apart(AssignPcs, RemovePcs) /\ LinksExist
                       /\ \A s \in Requests : LinkSound(req[s]))'
  BY DEF LinkInv
<1>1. req'[r] = q /\ \A s \in Requests \ {r} : req'[s] = req[s]
  BY DEF Become, IInv, ReqOK
<1>2. ASSUME NEW P, InProgress(P) = {}, q.pc \notin P PROVE InProgress(P)' = {}
  BY <1>1, <1>2 DEF InProgress
<1>3. Apart(AssignPcs, RemovePcs)'
  BY <1>2 DEF LinkInv, Apart
<1>4. LinkSound(req[r])'
  BY <1>1 DEF LinkSound, AssignPcs, RemovePcs
<1> QED BY <1>1, <1>3, <1>4

LEMMA AssignLink ==
  ASSUME IInv, LinkInv, NEW r \in Requests, Assign(r)
  PROVE  LinkInv'
<1> DEFINE x == req[r].about
<1>1. req[r].pc = "assign" /\ req[r].pc \in AssignPcs /\ UNCHANGED <<row, raced>>
  BY DEF Assign, AssignPcs
<1>2. \A l \in link' : l \in link \/ \E y \in req[r].ids : l = <<x, y>>
  BY DEF Assign
<1>3. \E q : Become(r, q) /\ q.pc \notin AssignPcs \cup RemovePcs
  <2>1. IdleRequest.pc \notin AssignPcs \cup RemovePcs
    BY DEF IdleRequest, AssignPcs, RemovePcs
  <2>2. ASSUME NEW K, NEW op, NEW key
        PROVE  [IdleRequest EXCEPT !.pc = "del", !.op = op, !.key = key, !.keys = K].pc
                 \notin AssignPcs \cup RemovePcs
    BY DEF IdleRequest, AssignPcs, RemovePcs
  <2> QED BY <2>1, <2>2 DEF Assign, Delete, Return
<1>4. ASSUME "link" \notin raced
      PROVE  LinksExist' /\ \A s \in Requests \ {r} : req'[s] = req[s] => LinkSound(req[s])'
  <2>1. LinksExist /\ LinkSound(req[r]) /\ InProgress(RemovePcs) = {}
    BY <1>1, <1>4 DEF LinkInv, Apart, InProgress
  <2>2. LinksExist'
    BY <1>1, <1>2, <2>1 DEF LinksExist, LinkSound, Found
  <2>3. ASSUME NEW s \in Requests \ {r}, req'[s] = req[s] PROVE LinkSound(req[s])'
    <3>1. req[s].pc # "remove" /\ LinkSound(req[s])
      BY <1>4, <2>1 DEF InProgress, RemovePcs, LinkInv
    <3> QED BY <1>1, <2>3, <3>1 DEF LinkSound, Found
  <2> QED BY <2>2, <2>3
<1> QED BY <1>1, <1>3, <1>4, DoneLink

LEMMA RemoveLink ==
  ASSUME IInv, LinkInv, NEW r \in Requests, Remove(r)
  PROVE  LinkInv'
<1> DEFINE x == req[r].about
<1>1. req[r].pc = "remove" /\ req[r].pc \in RemovePcs /\ Return(r) /\ raced' = raced
  BY DEF Remove, RemovePcs
<1>2. CASE ~Found(x)
  BY <1>1, <1>2, ReturnLink DEF Remove
<1>3. CASE Found(x)
  <2>1. row' = [row EXCEPT ![x].state = "deleted"] /\ link' = link \ Taken(x)
    BY <1>3 DEF Remove
  <2>2. x \in Rows /\ \A y \in Rows \ {x} : row'[y] = row[y]
    BY <1>3, <2>1 DEF Found, IInv, TablesOK
  <2>3. IdleRequest.pc \notin AssignPcs \cup RemovePcs
    BY DEF IdleRequest, AssignPcs, RemovePcs
  <2>4. ASSUME "link" \notin raced
        PROVE  LinksExist' /\ \A s \in Requests \ {r} : req'[s] = req[s] => LinkSound(req[s])'
    <3>1. LinksExist /\ LinkSound(req[r]) /\ InProgress(AssignPcs) = {}
      BY <1>1, <2>4 DEF LinkInv, Apart, InProgress
    <3>2. ASSUME NEW l \in link' PROVE l[1] # x /\ l[2] # x
      <4>1. l \in link /\ l \in Links /\ l \notin Taken(x)
        BY <2>1 DEF IInv, TablesOK
      <4>2. CASE x \in Roles /\ l[2] = x
        <5>1. l \in Users \X Roles
          BY <4>1, <4>2, AccessAssumption DEF Links, Disjoint
        <5> QED BY <1>1, <3>1, <4>1, <4>2, <5>1 DEF LinkSound
      <4>3. CASE ~(x \in Roles /\ l[2] = x)
        BY <4>1, <4>3 DEF Taken
      <4> QED BY <4>2, <4>3
    <3>3. LinksExist'
      BY <2>1, <2>2, <3>1, <3>2 DEF LinksExist, Found
    <3>4. ASSUME NEW s \in Requests \ {r}, req'[s] = req[s] PROVE LinkSound(req[s])'
      <4>1. req[s].pc \notin AssignPcs /\ LinkSound(req[s])
        BY <2>4, <3>1 DEF InProgress, LinkInv
      <4> QED BY <2>1, <3>4, <4>1 DEF LinkSound, AssignPcs
    <3> QED BY <3>3, <3>4
  <2> QED BY <1>1, <2>3, <2>4, DoneLink DEF Return
<1> QED BY <1>2, <1>3

LEMMA InitLink == Init => LinkInv
<1> SUFFICES ASSUME Init PROVE LinkInv OBVIOUS
<1>1. \A r \in Requests : req[r].pc = "idle"
  BY DEF Init, IdleRequest
<1>2. InProgress(AssignPcs) = {} /\ \A r \in Requests : LinkSound(req[r])
  BY <1>1 DEF InProgress, AssignPcs, LinkSound
<1> QED BY <1>2 DEF Init, LinkInv, Apart, LinksExist

LEMMA NextLink == IInv /\ LinkInv /\ [Next]_vars => LinkInv'
<1> SUFFICES ASSUME IInv, LinkInv, [Next]_vars PROVE LinkInv' OBVIOUS
<1>1. ASSUME UNCHANGED <<link, req, raced>>, FoundStays PROVE LinkInv'
  BY <1>1 DEF LinkInv, Apart, InProgress, LinksExist, LinkSound, FoundStays
<1>2. ASSUME NEW r \in Requests, Step(r) PROVE LinkInv'
  <2>1. CASE \/ \E op \in AssignOps \cap mix.ops :
                  \E x \in To(op), S \in SUBSET Of(op) : AssignBegin(r, op, x, S)
             \/ CountRows(r) \/ Assign(r)
    BY <2>1, AssignBeginLink, CountRowsLink, AssignLink
  <2>2. CASE \/ \E op \in RemoveOps \cap mix.ops : \E x \in Removes(op) : RemoveBegin(r, op, x)
             \/ CountUsers(r) \/ CountChildren(r) \/ Remove(r)
    BY <2>2, RemoveBeginLink, CountsLink, RemoveLink
  <2>3. CASE \/ \E p \in Menus \cup {NoMenu} : CreateBegin(r, p) \/ \E m \in Menus : MoveBegin(r, m, p)
             \/ \E m \in Menus : Create(r, m)
             \/ CheckParent(r) \/ AssertNoCycle(r) \/ Move(r)
    BY <2>3, MenuStep, OthersLink DEF CopyPcs
  <2>4. CASE \/ \E op \in WriteOps \cap mix.ops :
                  \E x \in Writes(op), k \in Keys(op), v \in Data : WriteBegin(r, op, x, k, v)
             \/ Write(r) \/ RefreshCache(r) \/ Del(r) \/ DelFails(r)
             \/ \E e \in Entries : FillBegin(r, e)
             \/ FillQuery(r) \/ FillLinks(r) \/ FillRows(r) \/ FillSet(r) \/ FillFails(r)
    BY <2>4, CopyStep, RowStays, OthersLink
  <2> QED BY <1>2, <2>1, <2>2, <2>3, <2>4 DEF Step
<1>3. CASE UNCHANGED vars
  BY <1>1, <1>3, RowStays DEF vars, Tables
<1>4. CASE Direct
  BY <1>1, <1>4, DirectStep
<1> QED BY <1>2, <1>3, <1>4 DEF Next

-----------------------------------------------------------------------------
(* Parents of menus exist.  While no removal of a menu overlaps a creation *)
(* or a move, the new parent stays and a removal that has counted the      *)
(* children stays right about them.                                        *)

Builds(q)   == q.pc \in CreatePcs \cup MovePcs
MenuGoes(q) == q.pc \in RemovePcs /\ q.about \in Menus

ChildSound(q) ==
  /\ q.pc = "assertNoCycle" => Found(q.to)
  /\ q.pc \in {"create", "move"} => q.to = NoMenu \/ Found(q.to)
  /\ q.pc = "remove" /\ q.about \in Menus =>
       \A m \in Menus : Found(m) => parent[m] # q.about

ParentsExist == \A m \in Menus : Found(m) /\ parent[m] # NoMenu => Found(parent[m])

ChildInv == "child" \notin raced =>
  /\ \A r, s \in Requests : Builds(req[r]) => ~MenuGoes(req[s])
  /\ ParentsExist
  /\ \A r \in Requests : ChildSound(req[r])

\* Menus are found as before and have the same parents.
MenusStay == UNCHANGED parent /\ \A m \in Menus : Found(m)' = Found(m)

LEMMA ChildStep ==
  ASSUME IInv, ChildInv, NEW r \in Requests, NEW q \in Request, Become(r, q), MenusStay,
         raced \subseteq raced', "child" \notin raced' => ChildSound(q),
         Builds(q) => Builds(req[r]) \/ (\A s \in Requests : ~MenuGoes(req[s])) \/ "child" \in raced',
         MenuGoes(q) => MenuGoes(req[r]) \/ (\A s \in Requests : ~Builds(req[s])) \/ "child" \in raced'
  PROVE  ChildInv'
<1> SUFFICES ASSUME "child" \notin raced'
             PROVE  (/\ \A s, t \in Requests : Builds(req[s]) => ~MenuGoes(req[t])
                     /\ ParentsExist
                     /\ \A s \in Requests : ChildSound(req[s]))'
  BY DEF ChildInv
<1>1. /\ \A s, t \in Requests : Builds(req[s]) => ~MenuGoes(req[t])
      /\ ParentsExist /\ \A s \in Requests : ChildSound(req[s])
  BY DEF ChildInv
<1>2. req'[r] = q /\ \A s \in Requests \ {r} : req'[s] = req[s]
  BY DEF Become, IInv, ReqOK
<1>3. ~(Builds(q) /\ MenuGoes(q))
  BY DEF Builds, MenuGoes, CreatePcs, MovePcs, RemovePcs
<1>4. \A s, t \in Requests : Builds(req'[s]) => ~MenuGoes(req'[t])
  BY <1>1, <1>2, <1>3
<1>5. \A s, t \in Requests : (Builds(req[s]) => ~MenuGoes(req[t]))'
  BY <1>4 DEF Builds, MenuGoes
<1>6. ParentsExist'
  <2>1. \A m \in Menus : parent[m] # NoMenu => parent[m] \in Menus
    BY DEF IInv, TablesOK
  <2> QED BY <1>1, <2>1 DEF ParentsExist, MenusStay
<1>7. ASSUME NEW s \in Requests PROVE ChildSound(req'[s])
  BY <1>1, <1>2
<1>8. ASSUME NEW s \in Requests PROVE ChildSound(req[s])'
  <2>1. req'[s].to \in Menus \cup {NoMenu}
    BY <1>2, RequestOK DEF Request
  <2>2. req[s]'.pc = "assertNoCycle" => Found(req'[s].to) /\ req'[s].to \in Menus
    BY <1>7, <2>1, AccessAssumption DEF ChildSound, Found, Rows, Disjoint
  <2> QED BY <1>7, <2>1, <2>2 DEF ChildSound, MenusStay
<1> QED BY <1>5, <1>6, <1>8

\* What neither builds nor removes menus has nothing to show.
LEMMA OtherChild ==
  ASSUME IInv, ChildInv, NEW r \in Requests, NEW q, Become(r, q), ReqOK', MenusStay,
         raced \subseteq raced', ~Builds(q), ~MenuGoes(q)
  PROVE  ChildInv'
<1>1. ChildSound(q)
  BY DEF ChildSound, Builds, MenuGoes, CreatePcs, MovePcs, RemovePcs
<1>2. q \in Request
  BY DEF Become, ReqOK, IInv
<1> QED BY <1>1, <1>2, ChildStep

LEMMA SameMenus == UNCHANGED <<row, parent>> => MenusStay
  BY DEF MenusStay, Found

LEMMA IdleElsewhere == ~Builds(IdleRequest) /\ ~MenuGoes(IdleRequest)
  BY DEF IdleRequest, Builds, MenuGoes, CreatePcs, MovePcs, RemovePcs

LEMMA ReturnChild ==
  ASSUME IInv, ChildInv, NEW r \in Requests, Return(r), MenusStay, raced \subseteq raced'
  PROVE  ChildInv'
  BY IdleElsewhere, OtherChild, ReturnOK, RequestOK DEF Return

\* Only a removal of a menu can be at the steps that CreateBegin looks for.
LEMMA MenuRemovals ==
  ASSUME IInv, InProgress({"countChildren", "remove"}) = {}
  PROVE  \A s \in Requests : ~MenuGoes(req[s])
<1> SUFFICES ASSUME NEW s \in Requests, MenuGoes(req[s]) PROVE FALSE
  OBVIOUS
<1>1. req[s].pc = "countUsers" /\ req[s].about \in Menus
  BY DEF MenuGoes, InProgress, RemovePcs
<1> QED BY <1>1, RequestOK, AccessAssumption DEF Knows, Disjoint

LEMMA CreateBeginChild ==
  ASSUME IInv, IInv', ChildInv, NEW r \in Requests, NEW p \in Menus \cup {NoMenu},
         CreateBegin(r, p)
  PROVE  ChildInv'
<1> DEFINE q == [[IdleRequest EXCEPT !.pc = "create", !.to = p] EXCEPT !.op = "createMenu"]
<1>1. Become(r, q) /\ UNCHANGED <<row, parent>>
  BY DEF CreateBegin, Begin, Tables
<1>2. q.pc = "create" /\ q.to = p
  BY DEF IdleRequest
<1>3. raced \subseteq raced' /\ (InProgress({"countChildren", "remove"}) = {} \/ "child" \in raced')
  BY DEF CreateBegin, Race
<1> HIDE DEF q
<1>4. ChildSound(q) /\ ~MenuGoes(q)
  BY <1>2 DEF ChildSound, MenuGoes, RemovePcs, CreateBegin
<1>5. q \in Request
  BY <1>1 DEF Become, IInv, ReqOK
<1> QED BY <1>1, <1>3, <1>4, <1>5, MenuRemovals, SameMenus, ChildStep

LEMMA MoveBeginChild ==
  ASSUME IInv, IInv', ChildInv, NEW r \in Requests, NEW m, NEW p, MoveBegin(r, m, p)
  PROVE  ChildInv'
<1> DEFINE pc == IF p = NoMenu THEN "move" ELSE "checkParent"
           q  == [[IdleRequest EXCEPT !.pc = pc, !.about = m, !.to = p] EXCEPT !.op = "moveMenu"]
<1>1. Become(r, q) /\ UNCHANGED <<row, parent>>
  BY DEF MoveBegin, Begin, Tables
<1>2. q.pc = pc /\ q.to = p
  BY DEF IdleRequest
<1>3. raced \subseteq raced' /\ (InProgress({"countChildren", "remove"}) = {} \/ "child" \in raced')
  BY DEF MoveBegin
<1>4. pc \in {"move", "checkParent"} /\ (pc = "move" => p = NoMenu)
  OBVIOUS
<1> HIDE DEF q, pc
<1>5. ChildSound(q) /\ ~MenuGoes(q)
  BY <1>2, <1>4 DEF ChildSound, MenuGoes, RemovePcs
<1>6. q \in Request
  BY <1>1 DEF Become, IInv, ReqOK
<1> QED BY <1>1, <1>3, <1>5, <1>6, MenuRemovals, SameMenus, ChildStep

LEMMA CheckParentChild ==
  ASSUME IInv, IInv', ChildInv, NEW r \in Requests, CheckParent(r)
  PROVE  ChildInv'
<1> DEFINE q == [req[r] EXCEPT !.pc = "assertNoCycle", !.at = req[r].to]
<1>1. UNCHANGED <<row, parent, raced>> /\ req[r].pc = "checkParent"
  BY DEF CheckParent, Tables
<1>2. CASE Return(r)
  BY <1>1, <1>2, ReturnChild, SameMenus
<1>3. CASE Found(req[r].to) /\ Become(r, q)
  <2>1. q.pc = "assertNoCycle" /\ q.to = req[r].to
    BY RequestOK DEF Request
  <2> HIDE DEF q
  <2>2. ChildSound(q) /\ ~MenuGoes(q) /\ Builds(req[r])
    BY <1>1, <1>3, <2>1 DEF ChildSound, MenuGoes, RemovePcs, Builds, MovePcs
  <2>3. q \in Request
    BY <1>3 DEF Become, IInv, ReqOK
  <2> QED BY <1>1, <1>3, <2>2, <2>3, SameMenus, ChildStep
<1> QED BY <1>2, <1>3 DEF CheckParent

LEMMA AssertNoCycleChild ==
  ASSUME IInv, IInv', ChildInv, NEW r \in Requests, AssertNoCycle(r)
  PROVE  ChildInv'
<1> DEFINE m  == req[r].at
           up == IF Found(m) THEN parent[m] ELSE NoMenu
           p  == [req[r] EXCEPT !.pc = "move"]
           q  == [req[r] EXCEPT !.at = up, !.visited = @ \cup {m},
                    !.pc = IF up = NoMenu THEN "move" ELSE @]
<1>1. UNCHANGED <<row, parent, raced>> /\ req[r].pc = "assertNoCycle" /\ Builds(req[r])
  BY DEF AssertNoCycle, Tables, Builds, MovePcs
<1>2. Return(r) \/ Become(r, p) \/ Become(r, q)
  BY DEF AssertNoCycle, Goto
<1>3. /\ p.pc = "move" /\ p.to = req[r].to
      /\ q.pc \in {"assertNoCycle", "move"} /\ q.to = req[r].to
  <2> HIDE DEF up
  <2> QED BY <1>1, RequestOK DEF Request
<1> HIDE DEF p, q
<1>4. ASSUME NEW t \in {p, q} PROVE ("child" \notin raced => ChildSound(t)) /\ ~MenuGoes(t)
  BY <1>1, <1>3 DEF ChildSound, MenuGoes, RemovePcs, ChildInv
<1>5. ASSUME NEW t \in {p, q}, Become(r, t) PROVE ChildInv'
  <2>1. t \in Request
    BY <1>5 DEF Become, IInv, ReqOK
  <2> QED BY <1>1, <1>4, <1>5, <2>1, SameMenus, ChildStep
<1> QED BY <1>1, <1>2, <1>5, ReturnChild, SameMenus

LEMMA RemoveBeginChild ==
  ASSUME IInv, IInv', ChildInv, NEW r \in Requests, NEW op \in RemoveOps, NEW x \in Removes(op),
         RemoveBegin(r, op, x)
  PROVE  ChildInv'
<1> DEFINE pc == CASE op = "removeRole" -> "countUsers"
                   [] op = "removeMenu" -> "countChildren"
                   [] OTHER -> "remove"
           q  == [[IdleRequest EXCEPT !.about = x, !.pc = pc] EXCEPT !.op = op]
<1>1. Become(r, q) /\ UNCHANGED <<row, parent>> /\ raced \subseteq raced'
  BY DEF RemoveBegin, Begin, Tables
<1>2. q.pc = pc /\ q.about = x
  BY DEF IdleRequest
<1>3. pc \in RemovePcs /\ (pc = "remove" => x \notin Menus)
  BY AccessAssumption DEF RemovePcs, RemoveOps, Removes, Disjoint
<1>4. x \in Menus => op = "removeMenu"
  BY AccessAssumption DEF RemoveOps, Removes, Disjoint
<1>5. x \in Menus => "child" \in raced' \/ InProgress(CreatePcs \cup MovePcs) = {}
  BY <1>4 DEF RemoveBegin
<1>6. InProgress(CreatePcs \cup MovePcs) = {} => \A s \in Requests : ~Builds(req[s])
  BY DEF InProgress, Builds
<1> HIDE DEF q, pc
<1>7. ChildSound(q) /\ ~Builds(q) /\ (MenuGoes(q) => x \in Menus)
  BY <1>2, <1>3 DEF ChildSound, MenuGoes, Builds, RemovePcs, CreatePcs, MovePcs
<1>8. q \in Request
  BY <1>1 DEF Become, IInv, ReqOK
<1> QED BY <1>1, <1>5, <1>6, <1>7, <1>8, SameMenus, ChildStep

LEMMA CountsChild ==
  ASSUME IInv, IInv', ChildInv, NEW r \in Requests, CountUsers(r) \/ CountChildren(r)
  PROVE  ChildInv'
<1> DEFINE q == [req[r] EXCEPT !.pc = "remove"]
<1>1. UNCHANGED <<row, parent, raced>> /\ req[r].pc \in RemovePcs
  BY DEF CountUsers, CountChildren, Query, Tables, RemovePcs
<1>2. CASE Return(r)
  BY <1>1, <1>2, ReturnChild, SameMenus
<1>3. CASE Become(r, q) /\ (CountChildren(r) => Children(req[r].about) = {})
  <2>1. q.pc = "remove" /\ q.about = req[r].about
    BY RequestOK DEF Request
  <2> HIDE DEF q
  <2>2. ~Builds(q) /\ (MenuGoes(q) => MenuGoes(req[r]))
    BY <1>1, <2>1 DEF Builds, MenuGoes, CreatePcs, MovePcs
  <2>3. q.about \in Menus => CountChildren(r)
    BY <2>1, RequestOK, AccessAssumption DEF CountUsers, Knows, Disjoint
  <2>4. ChildSound(q)
    BY <1>3, <2>1, <2>3 DEF ChildSound, Children
  <2>5. q \in Request
    BY <1>3 DEF Become, IInv, ReqOK
  <2> QED BY <1>1, <1>3, <2>2, <2>4, <2>5, SameMenus, ChildStep
<1> QED BY <1>2, <1>3 DEF CountUsers, CountChildren, Query, Goto

\* The step of a request that has no part in either any more.
LEMMA DoneChild ==
  ASSUME IInv, ChildInv, NEW r \in Requests, Return(r), raced' = raced,
         "child" \notin raced => ParentsExist'
                                  /\ \A s \in Requests \ {r} : req'[s] = req[s] => ChildSound(req[s])'
  PROVE  ChildInv'
<1> SUFFICES ASSUME "child" \notin raced'
             PROVE  (/\ \A s, t \in Requests : Builds(req[s]) => ~MenuGoes(req[t])
                     /\ ParentsExist
                     /\ \A s \in Requests : ChildSound(req[s]))'
  BY DEF ChildInv
<1>1. req'[r] = IdleRequest /\ \A s \in Requests \ {r} : req'[s] = req[s]
  BY DEF Return, Become, IInv, ReqOK
<1>2. \A s, t \in Requests : Builds(req'[s]) => ~MenuGoes(req'[t])
  BY <1>1, IdleElsewhere DEF ChildInv
<1>3. \A s, t \in Requests : (Builds(req[s]) => ~MenuGoes(req[t]))'
  BY <1>2 DEF Builds, MenuGoes
<1>4. ChildSound(req[r])'
  BY <1>1 DEF ChildSound, IdleRequest
<1> QED BY <1>1, <1>3, <1>4

LEMMA BuildChild ==
  ASSUME IInv, ChildInv, NEW r \in Requests, (\E m \in Menus : Create(r, m)) \/ Move(r)
  PROVE  ChildInv'
<1>1. FoundStays /\ Return(r) /\ raced' = raced /\ Builds(req[r])
  BY MenuStep DEF Create, Move, Builds, CreatePcs, MovePcs
<1>2. ASSUME "child" \notin raced
      PROVE  ParentsExist' /\ \A s \in Requests \ {r} : req'[s] = req[s] => ChildSound(req[s])'
  <2>1. /\ \A s \in Requests : ~MenuGoes(req[s])
        /\ ParentsExist /\ \A s \in Requests : ChildSound(req[s])
    BY <1>1, <1>2 DEF ChildInv
  <2>2. req[r].to = NoMenu \/ Found(req[r].to)
    BY <2>1 DEF Create, Move, ChildSound
  <2>3. ASSUME NEW n \in Menus, Found(n)', parent'[n] # NoMenu
        PROVE  parent'[n] = req[r].to \/ (Found(n) /\ parent'[n] = parent[n])
    <3>1. CASE \E m \in Menus : Create(r, m)
      <4>1. PICK m \in Menus : Create(r, m)
        BY <3>1
      <4>2. row' = [row EXCEPT ![m].state = "live"] /\ parent' = [parent EXCEPT ![m] = req[r].to]
        BY <4>1 DEF Create
      <4>3. row \in [Rows -> Row] /\ parent \in [Menus -> Menus \cup {NoMenu}] /\ m \in Rows
        BY DEF IInv, TablesOK, Rows
      <4>4. CASE n = m
        BY <4>2, <4>3, <4>4
      <4>5. CASE n # m
        <5>1. row'[n] = row[n] /\ parent'[n] = parent[n]
          BY <4>2, <4>3, <4>5, n \in Rows DEF Rows
        <5> QED BY <2>3, <5>1 DEF Found
      <4> QED BY <4>4, <4>5
    <3>2. CASE Move(r)
      <4>1. UNCHANGED row /\ parent \in [Menus -> Menus \cup {NoMenu}]
        BY <3>2 DEF Move, IInv, TablesOK
      <4>2. parent'[n] = parent[n] \/ parent'[n] = req[r].to
        BY <3>2, <4>1 DEF Move
      <4> QED BY <2>3, <4>1, <4>2 DEF Found
    <3> QED BY <3>1, <3>2
  <2>4. ParentsExist'
    BY <1>1, <2>1, <2>2, <2>3 DEF ParentsExist, FoundStays
  <2>5. ASSUME NEW s \in Requests \ {r}, req'[s] = req[s] PROVE ChildSound(req[s])'
    <3>1. ~(req[s].pc = "remove" /\ req[s].about \in Menus) /\ ChildSound(req[s])
      BY <2>1 DEF MenuGoes, RemovePcs
    <3> QED BY <1>1, <2>5, <3>1 DEF ChildSound, FoundStays
  <2> QED BY <2>4, <2>5
<1> QED BY <1>1, <1>2, DoneChild

LEMMA RemoveChild ==
  ASSUME IInv, ChildInv, NEW r \in Requests, Remove(r)
  PROVE  ChildInv'
<1>0. PICK x : x = req[r].about
  OBVIOUS
<1>1. req[r].pc = "remove" /\ req[r].pc \in RemovePcs /\ Return(r) /\ raced' = raced
  BY DEF Remove, RemovePcs
<1>2. CASE ~Found(x)
  BY <1>0, <1>1, <1>2, ReturnChild, SameMenus DEF Remove
<1>3. CASE Found(x)
  <2>1. /\ row' = [row EXCEPT ![x].state = "deleted"]
        /\ parent' = [m \in Menus |-> IF m = x THEN NoMenu ELSE parent[m]]
    BY <1>0, <1>3 DEF Remove
  <2>2. x \in Rows /\ ~Found(x)' /\ \A y : y # x => Found(y)' = Found(y)
    <3>1. row \in [Rows -> Row] /\ x \in Rows
      BY <1>3 DEF Found, IInv, TablesOK
    <3>2. row'[x].state = "deleted" /\ \A y \in Rows \ {x} : row'[y] = row[y]
      BY <2>1, <3>1 DEF Row
    <3> QED BY <3>1, <3>2 DEF Found
  <2>3. CASE x \notin Menus
    <3>1. MenusStay
      BY <2>1, <2>2, <2>3 DEF MenusStay, IInv, TablesOK
    <3> QED BY <1>1, <3>1, ReturnChild
  <2>4. CASE x \in Menus
    <3>1. ASSUME "child" \notin raced
          PROVE  ParentsExist' /\ \A s \in Requests \ {r} : req'[s] = req[s] => ChildSound(req[s])'
      <4>1. /\ \A s \in Requests : ~Builds(req[s])
            /\ ParentsExist /\ \A s \in Requests : ChildSound(req[s])
        BY <1>0, <1>1, <2>4, <3>1 DEF ChildInv, MenuGoes
      <4>2. \A m \in Menus : Found(m) => parent[m] # x
        BY <1>0, <1>1, <2>4, <4>1 DEF ChildSound
      <4>3. ASSUME NEW m \in Menus, Found(m)'
            PROVE  m # x /\ Found(m) /\ parent'[m] = parent[m]
        <5>1. m # x /\ Found(m)
          BY <2>2, <4>3
        <5> QED BY <2>1, <5>1
      <4>4. ParentsExist'
        BY <2>2, <4>1, <4>2, <4>3 DEF ParentsExist
      <4>5. ASSUME NEW s \in Requests \ {r}, req'[s] = req[s] PROVE ChildSound(req[s])'
        <5>1. req[s].pc \notin CreatePcs \cup MovePcs /\ ChildSound(req[s])
          BY <4>1 DEF Builds
        <5> QED BY <4>3, <4>5, <5>1 DEF ChildSound, CreatePcs, MovePcs
      <4> QED BY <4>4, <4>5
    <3> QED BY <1>1, <3>1, DoneChild
  <2> QED BY <2>3, <2>4
<1> QED BY <1>2, <1>3

LEMMA InitChild == Init => ChildInv
<1> SUFFICES ASSUME Init PROVE ChildInv OBVIOUS
<1>1. \A r \in Requests : req[r] = IdleRequest
  BY DEF Init
<1>2. \A r \in Requests : ~Builds(req[r]) /\ ChildSound(req[r])
  <2>1. ChildSound(IdleRequest)
    BY DEF ChildSound, IdleRequest
  <2> QED BY <1>1, <2>1, IdleElsewhere
<1>3. ParentsExist
  BY DEF Init, ParentsExist
<1> QED BY <1>2, <1>3 DEF ChildInv

LEMMA NextChild == IInv /\ IInv' /\ ChildInv /\ [Next]_vars => ChildInv'
<1> SUFFICES ASSUME IInv, IInv', ChildInv, [Next]_vars PROVE ChildInv' OBVIOUS
<1>1. ASSUME UNCHANGED <<req, raced>>, MenusStay PROVE ChildInv'
  <2>1. ParentsExist \/ "child" \in raced => ParentsExist' \/ "child" \in raced'
    <3>1. \A m \in Menus : parent[m] # NoMenu => parent[m] \in Menus
      BY DEF IInv, TablesOK
    <3> QED BY <1>1, <3>1 DEF ParentsExist, MenusStay
  <2>2. ASSUME NEW r \in Requests, ChildSound(req[r]) PROVE ChildSound(req[r])'
    <3>1. req[r].to = NoMenu \/ req[r].to \in Menus
      BY RequestOK DEF Request
    <3>2. req[r].pc = "assertNoCycle" => req[r].to \in Menus
      BY RequestOK DEF Knows
    <3> QED BY <1>1, <2>2, <3>1, <3>2 DEF ChildSound, MenusStay
  <2>3. UNCHANGED <<req, raced>>
    BY <1>1
  <2> QED BY <2>1, <2>2, <2>3 DEF ChildInv, Builds, MenuGoes
<1>2. ASSUME NEW r \in Requests, Step(r) PROVE ChildInv'
  <2>1. ReqOK'
    BY DEF IInv
  <2>2. CASE \/ \E op \in AssignOps \cap mix.ops :
                  \E x \in To(op), S \in SUBSET Of(op) : AssignBegin(r, op, x, S)
             \/ CountRows(r) \/ Assign(r)
    <3>1. PICK q : q.pc \in {"idle", "del"} \cup AssignPcs /\ Become(r, q)
      BY <2>2, AssignStep
    <3>2. ~Builds(q) /\ ~MenuGoes(q)
      BY <3>1 DEF Builds, MenuGoes, AssignPcs, CreatePcs, MovePcs, RemovePcs
    <3> QED BY <2>1, <2>2, <3>1, <3>2, AssignStep, SameMenus, OtherChild
  <2>3. CASE \/ \E op \in RemoveOps \cap mix.ops : \E x \in Removes(op) : RemoveBegin(r, op, x)
             \/ CountUsers(r) \/ CountChildren(r) \/ Remove(r)
    BY <2>3, RemoveBeginChild, CountsChild, RemoveChild
  <2>4. CASE \/ \E p \in Menus \cup {NoMenu} : CreateBegin(r, p) \/ \E m \in Menus : MoveBegin(r, m, p)
             \/ \E m \in Menus : Create(r, m)
             \/ CheckParent(r) \/ AssertNoCycle(r) \/ Move(r)
    BY <2>4, CreateBeginChild, MoveBeginChild, BuildChild, CheckParentChild, AssertNoCycleChild
  <2>5. CASE \/ \E op \in WriteOps \cap mix.ops :
                  \E x \in Writes(op), k \in Keys(op), v \in Data : WriteBegin(r, op, x, k, v)
             \/ Write(r) \/ RefreshCache(r) \/ Del(r) \/ DelFails(r)
             \/ \E e \in Entries : FillBegin(r, e)
             \/ FillQuery(r) \/ FillLinks(r) \/ FillRows(r) \/ FillSet(r) \/ FillFails(r)
    <3>1. UNCHANGED <<row, parent, link, raced>> /\ \E q : q.pc \in CopyPcs /\ Become(r, q)
      BY <2>5, CopyStep
    <3>2. PICK q : q.pc \in CopyPcs /\ Become(r, q)
      BY <3>1
    <3>3. ~Builds(q) /\ ~MenuGoes(q)
      BY <3>2 DEF Builds, MenuGoes, CopyPcs, FillPcs, CreatePcs, MovePcs, RemovePcs
    <3> QED BY <2>1, <3>1, <3>2, <3>3, SameMenus, OtherChild
  <2> QED BY <1>2, <2>2, <2>3, <2>4, <2>5 DEF Step
<1>3. CASE UNCHANGED vars
  BY <1>1, <1>3, SameMenus DEF vars, Tables
<1>4. CASE Direct
  <2>1. MenusStay
    BY <1>4, DirectStep DEF MenusStay, Found
  <2> QED BY <1>1, <1>4, <2>1, DirectStep
<1> QED BY <1>2, <1>3, <1>4 DEF Next

\* A link has both of its rows and a menu's parent exists, unless a removal
\* overlapped an assignment, a creation or a move: their checks suffice when
\* they run one after the other.
THEOREM NothingRefers == Spec => []NothingRefersToRemoved
<1>1. IInv /\ LinkInv /\ ChildInv => NothingRefersToRemoved
  BY DEF LinkInv, ChildInv, LinksExist, ParentsExist, NothingRefersToRemoved
<1> QED BY <1>1, InitOK, NextOK, InitLink, NextLink, InitChild, NextChild, PTL DEF Spec

-----------------------------------------------------------------------------
(* The menus stay a forest.  A walk leaves a certificate: the visited menus *)
(* are closed under parentId (up to the one the walk is at), contain the    *)
(* new parent and do not contain the menu that moves.  Creating and         *)
(* removing menus keeps it, another move does not.                          *)

Made == {m \in Menus : row[m].state # "absent"}

\* A parent is a menu that was made; only live menus have one.
RowsMade == \A m \in Menus : /\ parent[m] \in Made \cup {NoMenu}
                             /\ row[m].state # "live" => parent[m] = NoMenu

KnowsMade(q) ==
  /\ q.pc \in {"create", "assertNoCycle", "move"} => q.to \in Made \cup {NoMenu}
  /\ q.pc \in MovePcs => q.visited \subseteq Made
  /\ q.pc = "checkParent" => q.visited = {}
  /\ q.pc = "assertNoCycle" => q.at \in Made

MadeInv == RowsMade /\ \A r \in Requests : KnowsMade(req[r])

MoveAlone == "move" \notin raced => \A r, s \in InProgress(MovePcs) : r = s

\* The certificate of a walk that is at menu at, or has ended.
Certified(q, at) == /\ q.to \in q.visited \cup {at}
                    /\ q.about \notin q.visited
                    /\ \A v \in q.visited : parent[v] \in q.visited \cup {at, NoMenu}

Walked(q) == /\ q.pc = "assertNoCycle" => Certified(q, q.at)
             /\ q.pc = "move" => q.to = NoMenu \/ Certified(q, NoMenu)

Forest == ~ \E S \in (SUBSET Menus) \ {{}} : \A m \in S : Found(m) /\ parent[m] \in S

WalkInv == "move" \notin raced => Forest /\ \A r \in Requests : Walked(req[r])

ForestInv == MadeInv /\ MoveAlone /\ WalkInv

\* The rows of menus are where they were, below the same parents.
RowsStay == UNCHANGED parent /\ \A m \in Menus : row'[m].state = row[m].state

LEMMA MadeStep ==
  ASSUME IInv, MadeInv, NEW r \in Requests, NEW q, Become(r, q), RowsStay, KnowsMade(q)
  PROVE  MadeInv'
<1>1. \A s \in Requests : KnowsMade(req'[s])
  BY DEF MadeInv, Become, IInv, ReqOK
<1>2. Made' = Made
  BY DEF Made, RowsStay
<1> QED BY <1>1, <1>2 DEF MadeInv, RowsMade, KnowsMade, RowsStay

\* A move enters only when no other is in progress, or raises the flag.
LEMMA AloneStep ==
  ASSUME IInv, MoveAlone, NEW r \in Requests, NEW q, Become(r, q), raced \subseteq raced',
         q.pc \in MovePcs =>
           req[r].pc \in MovePcs \/ InProgress(MovePcs) = {} \/ "move" \in raced'
  PROVE  MoveAlone'
  BY DEF MoveAlone, InProgress, Become, IInv, ReqOK

LEMMA WalkedStep ==
  ASSUME IInv, WalkInv, NEW r \in Requests, NEW q, Become(r, q), RowsStay,
         raced \subseteq raced', "move" \notin raced => Walked(q)
  PROVE  WalkInv'
<1> SUFFICES ASSUME "move" \notin raced'
             PROVE  (Forest /\ \A s \in Requests : Walked(req[s]))'
  BY DEF WalkInv
<1>1. Forest /\ \A s \in Requests : Walked(req[s])
  BY DEF WalkInv
<1>2. Forest'
  <2>1. \A m \in Menus : Found(m)' = Found(m)
    BY DEF Found, RowsStay
  <2> QED BY <1>1, <2>1 DEF Forest, RowsStay
<1>3. \A s \in Requests : Walked(req'[s])
  BY <1>1 DEF Become, IInv, ReqOK
<1>4. \A s \in Requests : Walked(req[s])'
  BY <1>3 DEF Walked, Certified, RowsStay
<1> QED BY <1>2, <1>4

\* What neither creates nor moves has nothing to show.
LEMMA OtherForest ==
  ASSUME IInv, ForestInv, NEW r \in Requests, NEW q, Become(r, q), RowsStay,
         raced \subseteq raced', ~Builds(q)
  PROVE  ForestInv'
<1>1. KnowsMade(q) /\ Walked(q) /\ q.pc \notin MovePcs
  BY DEF KnowsMade, Walked, Builds, CreatePcs, MovePcs
<1> QED BY <1>1, MadeStep, AloneStep, WalkedStep DEF ForestInv

LEMMA SameRows == UNCHANGED <<row, parent>> => RowsStay
  BY DEF RowsStay

LEMMA ReturnForest ==
  ASSUME IInv, ForestInv, NEW r \in Requests, Return(r), RowsStay, raced \subseteq raced'
  PROVE  ForestInv'
  BY IdleElsewhere, OtherForest DEF Return

LEMMA FoundMade == \A m \in Menus : Found(m) => m \in Made
  BY DEF Found, Made

LEMMA CreateBeginForest ==
  ASSUME IInv, ForestInv, NEW r \in Requests, NEW p \in Menus \cup {NoMenu}, CreateBegin(r, p)
  PROVE  ForestInv'
<1> DEFINE q == [[IdleRequest EXCEPT !.pc = "create", !.to = p] EXCEPT !.op = "createMenu"]
<1>1. Become(r, q) /\ UNCHANGED <<row, parent>> /\ raced \subseteq raced'
  BY DEF CreateBegin, Begin, Tables, Race
<1>2. q.pc = "create" /\ q.to = p
  BY DEF IdleRequest
<1>3. p \in Made \cup {NoMenu}
  BY FoundMade DEF CreateBegin
<1> HIDE DEF q
<1>4. KnowsMade(q) /\ Walked(q) /\ q.pc \notin MovePcs
  BY <1>2, <1>3 DEF KnowsMade, Walked, MovePcs
<1> QED BY <1>1, <1>4, SameRows, MadeStep, AloneStep, WalkedStep DEF ForestInv

LEMMA MoveBeginForest ==
  ASSUME IInv, ForestInv, NEW r \in Requests, NEW m, NEW p, MoveBegin(r, m, p)
  PROVE  ForestInv'
<1> DEFINE pc == IF p = NoMenu THEN "move" ELSE "checkParent"
           q  == [[IdleRequest EXCEPT !.pc = pc, !.about = m, !.to = p] EXCEPT !.op = "moveMenu"]
<1>1. Become(r, q) /\ UNCHANGED <<row, parent>>
  BY DEF MoveBegin, Begin, Tables
<1>2. q.pc = pc /\ q.to = p /\ q.visited = {}
  BY DEF IdleRequest
<1>3. raced \subseteq raced' /\ (InProgress(MovePcs) = {} \/ "move" \in raced')
  BY DEF MoveBegin
<1>4. pc \in {"move", "checkParent"} /\ (pc = "move" => p = NoMenu)
  OBVIOUS
<1> HIDE DEF q, pc
<1>5. KnowsMade(q) /\ Walked(q)
  BY <1>2, <1>4 DEF KnowsMade, Walked, MovePcs
<1> QED BY <1>1, <1>3, <1>5, SameRows, MadeStep, AloneStep, WalkedStep DEF ForestInv

LEMMA CheckParentForest ==
  ASSUME IInv, ForestInv, NEW r \in Requests, CheckParent(r)
  PROVE  ForestInv'
<1> DEFINE q == [req[r] EXCEPT !.pc = "assertNoCycle", !.at = req[r].to]
<1>1. UNCHANGED <<row, parent, raced>> /\ req[r].pc = "checkParent" /\ req[r].pc \in MovePcs
  BY DEF CheckParent, Tables, MovePcs
<1>2. CASE Return(r)
  BY <1>1, <1>2, ReturnForest, SameRows
<1>3. CASE Found(req[r].to) /\ Become(r, q)
  <2>1. q.pc = "assertNoCycle" /\ q.to = req[r].to /\ q.at = req[r].to /\ q.visited = req[r].visited
    BY RequestOK DEF Request
  <2>2. req[r].visited = {} /\ req[r].to \in Made
    <3>1. req[r].to \in Menus
      BY <1>1, RequestOK DEF Knows
    <3> QED BY <1>1, <1>3, <3>1, FoundMade DEF ForestInv, MadeInv, KnowsMade
  <2> HIDE DEF q
  <2>3. KnowsMade(q) /\ Walked(q)
    BY <2>1, <2>2 DEF KnowsMade, Walked, Certified, MovePcs
  <2> QED BY <1>1, <1>3, <2>3, SameRows, MadeStep, AloneStep, WalkedStep DEF ForestInv
<1> QED BY <1>2, <1>3 DEF CheckParent

\* Where the walk ends, the visited menus are closed; a turn adds one menu.
LEMMA AssertNoCycleForest ==
  ASSUME IInv, ForestInv, NEW r \in Requests, AssertNoCycle(r)
  PROVE  ForestInv'
<1> DEFINE m  == req[r].at
           up == IF Found(m) THEN parent[m] ELSE NoMenu
           p  == [req[r] EXCEPT !.pc = "move"]
           q  == [req[r] EXCEPT !.at = up, !.visited = @ \cup {m},
                    !.pc = IF up = NoMenu THEN "move" ELSE @]
<1>1. UNCHANGED <<row, parent, raced>> /\ req[r].pc = "assertNoCycle" /\ req[r].pc \in MovePcs
  BY DEF AssertNoCycle, Tables, MovePcs
<1>2. /\ KnowsMade(req[r]) /\ RowsMade /\ m \in Menus /\ m \in Made /\ req[r].to \in Made \cup {NoMenu}
      /\ req[r].visited \subseteq Made
  BY <1>1, RequestOK DEF ForestInv, MadeInv, KnowsMade, Knows
<1>3. up = parent[m] /\ up \in Made \cup {NoMenu}
  BY <1>2 DEF RowsMade, Found, Rows
<1>4. "move" \notin raced => Certified(req[r], m)
  BY <1>1 DEF ForestInv, WalkInv, Walked
<1> HIDE DEF up
<1>5. CASE Return(r)
  BY <1>1, <1>5, ReturnForest, SameRows
<1>6. CASE m \in req[r].visited /\ Become(r, p)
  <2>1. p.pc = "move" /\ p.to = req[r].to /\ p.visited = req[r].visited /\ p.about = req[r].about
    BY RequestOK DEF Request
  <2> HIDE DEF p
  <2>2. KnowsMade(p) /\ ("move" \notin raced => Walked(p))
    BY <1>2, <1>4, <1>6, <2>1 DEF KnowsMade, Walked, Certified, MovePcs
  <2> QED BY <1>1, <1>6, <2>2, SameRows, MadeStep, AloneStep, WalkedStep DEF ForestInv
<1>7. CASE m # req[r].about /\ Become(r, q)
  <2>1. /\ q.pc = IF up = NoMenu THEN "move" ELSE "assertNoCycle"
        /\ q.to = req[r].to /\ q.at = up /\ q.about = req[r].about
        /\ q.visited = req[r].visited \cup {m}
    BY <1>1, RequestOK DEF Request
  <2> HIDE DEF q
  <2>2. KnowsMade(q) /\ ("move" \notin raced => Walked(q))
    <3>1. KnowsMade(q)
      BY <1>2, <1>3, <2>1 DEF KnowsMade, MovePcs
    <3>2. ASSUME "move" \notin raced PROVE Certified(q, up)
      BY <1>3, <1>4, <1>7, <2>1, <3>2 DEF Certified
    <3> QED BY <2>1, <3>1, <3>2 DEF Walked
  <2> QED BY <1>1, <1>7, <2>2, SameRows, MadeStep, AloneStep, WalkedStep DEF ForestInv
<1> QED BY <1>5, <1>6, <1>7 DEF AssertNoCycle, Goto, up

\* The writer has nothing left to show; what the others know must survive.
LEMMA WrittenForest ==
  ASSUME IInv, ForestInv, NEW r \in Requests, Return(r), raced' = raced,
         Made \subseteq Made', RowsMade',
         "move" \notin raced => Forest',
         \A s \in Requests \ {r} :
           "move" \notin raced /\ req'[s] = req[s] => Walked(req[s])'
  PROVE  ForestInv'
<1> DEFINE q == IdleRequest
<1>1. Become(r, q) /\ q.pc = "idle"
  BY DEF Return, IdleRequest
<1> HIDE DEF q
<1>2. req'[r] = q /\ \A s \in Requests \ {r} : req'[s] = req[s]
  BY <1>1 DEF Become, IInv, ReqOK
<1>3. MoveAlone'
  BY <1>1, AloneStep DEF ForestInv, MovePcs
<1>4. ASSUME NEW s \in Requests PROVE KnowsMade(req[s])'
  <2>1. CASE s = r
    BY <1>1, <1>2, <2>1 DEF KnowsMade, MovePcs
  <2>2. CASE s # r
    <3>1. KnowsMade(req[s]) /\ req'[s] = req[s]
      BY <1>2, <2>2 DEF ForestInv, MadeInv
    <3> QED BY <3>1 DEF KnowsMade
  <2> QED BY <2>1, <2>2
<1>5. Walked(req[r])'
  BY <1>1, <1>2 DEF Walked
<1> QED BY <1>2, <1>3, <1>4, <1>5 DEF ForestInv, MadeInv, WalkInv

\* A new menu has no children, so it closes no cycle.
LEMMA CreateForest ==
  ASSUME IInv, ForestInv, NEW r \in Requests, NEW c \in Menus, Create(r, c)
  PROVE  ForestInv'
<1>0. PICK p : p = req[r].to
  OBVIOUS
<1>1. /\ row[c].state = "absent" /\ Return(r) /\ raced' = raced /\ req[r].pc = "create"
      /\ row' = [row EXCEPT ![c].state = "live"] /\ parent' = [parent EXCEPT ![c] = p]
  BY <1>0 DEF Create
<1>2. p \in Made \cup {NoMenu} /\ RowsMade
  BY <1>0, <1>1 DEF ForestInv, MadeInv, KnowsMade
<1>3. row \in [Rows -> Row] /\ parent \in [Menus -> Menus \cup {NoMenu}] /\ Menus \subseteq Rows
  BY DEF IInv, TablesOK, Rows
<1>4. /\ row'[c].state = "live" /\ parent'[c] = p
      /\ \A m \in Menus \ {c} : row'[m] = row[m] /\ parent'[m] = parent[m]
  BY <1>1, <1>3 DEF Row
<1>5. c \notin Made /\ Made' = Made \cup {c} /\ \A m \in Menus \ {c} : Found(m)' = Found(m)
  BY <1>1, <1>4 DEF Made, Found
<1>6. RowsMade'
  BY <1>2, <1>4, <1>5 DEF RowsMade
<1>7. ASSUME "move" \notin raced PROVE Forest'
  <2> SUFFICES ASSUME NEW S \in (SUBSET Menus) \ {{}}, \A m \in S : Found(m)' /\ parent'[m] \in S
               PROVE  FALSE
    BY DEF Forest
  <2>1. Forest
    BY <1>7 DEF ForestInv, WalkInv
  <2>2. c # NoMenu /\ NoMenu \notin S
    BY AccessAssumption DEF Disjoint
  <2> DEFINE T == S \ {c}
  <2>3. \A m \in T : Found(m) /\ parent[m] \in T
    BY <1>2, <1>4, <1>5, <2>2 DEF RowsMade
  <2>4. T # {}
    <3>1. CASE c \in S
      <4>1. p \in S
        BY <1>4, <3>1
      <4> QED BY <1>2, <1>5, <2>2, <4>1
    <3>2. CASE c \notin S
      <4>1. PICK m : m \in S
        OBVIOUS
      <4> QED BY <3>2, <4>1
    <3> QED BY <3>1, <3>2
  <2> HIDE DEF T
  <2>5. T \in (SUBSET Menus) \ {{}}
    BY <2>4 DEF T
  <2> QED BY <2>1, <2>3, <2>5 DEF Forest
<1>8. ASSUME NEW s \in Requests \ {r}, "move" \notin raced, req'[s] = req[s] PROVE Walked(req[s])'
  <2>1. Walked(req[s]) /\ KnowsMade(req[s])
    BY <1>8 DEF ForestInv, WalkInv, MadeInv
  <2>2. \A m \in Made : parent'[m] = parent[m]
    BY <1>4, <1>5 DEF Made
  <2>3. ASSUME NEW at, req[s].pc \in MovePcs, Certified(req[s], at) PROVE Certified(req[s], at)'
    BY <1>8, <2>1, <2>2, <2>3 DEF Certified, KnowsMade
  <2> QED BY <1>8, <2>1, <2>3 DEF Walked, MovePcs
<1> QED BY <1>1, <1>5, <1>6, <1>7, <1>8, WrittenForest

\* A removed menu has no parent any more.
LEMMA RemoveForest ==
  ASSUME IInv, ForestInv, NEW r \in Requests, Remove(r)
  PROVE  ForestInv'
<1>0. PICK x : x = req[r].about
  OBVIOUS
<1>1. Return(r) /\ raced' = raced
  BY DEF Remove
<1>2. CASE ~Found(x)
  BY <1>0, <1>1, <1>2, ReturnForest, SameRows DEF Remove
<1>3. CASE Found(x)
  <2>1. /\ row' = [row EXCEPT ![x].state = "deleted"]
        /\ parent' = [m \in Menus |-> IF m = x THEN NoMenu ELSE parent[m]]
    BY <1>0, <1>3 DEF Remove
  <2>2. row \in [Rows -> Row] /\ parent \in [Menus -> Menus \cup {NoMenu}] /\ Menus \subseteq Rows
    BY DEF IInv, TablesOK, Rows
  <2>3. /\ row[x].state = "live" /\ row'[x].state = "deleted"
        /\ \A m \in Menus \ {x} : row'[m] = row[m]
        /\ \A m \in Menus : parent'[m] = IF m = x THEN NoMenu ELSE parent[m]
    BY <1>3, <2>1, <2>2 DEF Row, Found
  <2>4. Made' = Made /\ \A m \in Menus : Found(m)' => Found(m) /\ m # x
    BY <2>3 DEF Made, Found
  <2>5. RowsMade'
    BY <2>3, <2>4 DEF RowsMade, ForestInv, MadeInv
  <2>6. ASSUME "move" \notin raced PROVE Forest'
    <3>1. Forest
      BY <2>6 DEF ForestInv, WalkInv
    <3> QED BY <2>3, <2>4, <3>1 DEF Forest
  <2>7. ASSUME NEW s \in Requests \ {r}, "move" \notin raced, req'[s] = req[s]
        PROVE  Walked(req[s])'
    <3>1. Walked(req[s]) /\ KnowsMade(req[s])
      BY <2>7 DEF ForestInv, WalkInv, MadeInv
    <3>2. \A m \in Made : parent'[m] = parent[m] \/ parent'[m] = NoMenu
      BY <2>3 DEF Made
    <3>3. ASSUME NEW at, req[s].pc \in MovePcs, Certified(req[s], at) PROVE Certified(req[s], at)'
      BY <2>7, <3>1, <3>2, <3>3 DEF Certified, KnowsMade
    <3> QED BY <2>7, <3>1, <3>3 DEF Walked, MovePcs
  <2> QED BY <1>1, <2>4, <2>5, <2>6, <2>7, WrittenForest
<1> QED BY <1>2, <1>3

\* The certificate rules out that the new parent is below the menu: a closed
\* set that contains both would contain a closed set of old parents.
LEMMA MoveForest ==
  ASSUME IInv, ForestInv, NEW r \in Requests, Move(r)
  PROVE  ForestInv'
<1>0. PICK c, p : c = req[r].about /\ p = req[r].to
  OBVIOUS
<1>1. raced' = raced /\ req[r].pc = "move" /\ req[r].pc \in MovePcs /\ Return(r) /\ UNCHANGED row
  BY DEF Move, MovePcs
<1>2. CASE ~Found(c)
  <2>1. RowsStay
    BY <1>0, <1>1, <1>2, SameRows DEF Move
  <2> QED BY <1>1, <2>1, ReturnForest
<1>3. CASE Found(c)
  <2>1. c \in Menus /\ parent' = [parent EXCEPT ![c] = p]
    BY <1>0, <1>1, <1>3, RequestOK DEF Move, Knows
  <2>2. parent'[c] = p /\ \A m \in Menus \ {c} : parent'[m] = parent[m]
    BY <2>1 DEF IInv, TablesOK
  <2>3. Made' = Made /\ \A m \in Menus : Found(m)' = Found(m)
    BY <1>1 DEF Made, Found
  <2>4. p \in Made \cup {NoMenu}
    BY <1>0, <1>1 DEF ForestInv, MadeInv, KnowsMade
  <2>5. RowsMade'
    BY <1>1, <1>3, <2>2, <2>3, <2>4 DEF RowsMade, ForestInv, MadeInv, Found
  <2>6. ASSUME "move" \notin raced PROVE Forest'
    <3> SUFFICES ASSUME NEW S \in (SUBSET Menus) \ {{}}, \A m \in S : Found(m) /\ parent'[m] \in S
                 PROVE  FALSE
      BY <2>3 DEF Forest
    <3>1. Forest /\ Walked(req[r])
      BY <2>6 DEF ForestInv, WalkInv
    <3>2. NoMenu \notin S
      BY AccessAssumption DEF Disjoint
    <3>3. \A m \in S \ {c} : parent[m] \in S
      BY <2>2
    <3>4. PICK m \in S : parent[m] \notin S
      BY <3>1 DEF Forest
    <3>5. c \in S /\ p \in S
      BY <2>2, <3>3, <3>4
    <3>6. Certified(req[r], NoMenu)
      BY <1>0, <1>1, <3>1, <3>2, <3>5 DEF Walked
    <3> DEFINE T == S \cap req[r].visited
    <3>7. p \in T /\ c \notin T
      BY <1>0, <3>2, <3>5, <3>6 DEF Certified
    <3>8. \A e \in T : Found(e) /\ parent[e] \in T
      BY <3>2, <3>3, <3>6, <3>7 DEF Certified
    <3>9. T \in (SUBSET Menus) \ {{}}
      BY <3>7
    <3> HIDE DEF T
    <3> QED BY <3>1, <3>8, <3>9 DEF Forest
  <2>7. ASSUME NEW s \in Requests \ {r}, "move" \notin raced, req'[s] = req[s]
        PROVE  Walked(req[s])'
    <3>1. req[s].pc \notin MovePcs
      BY <1>1, <2>7 DEF ForestInv, MoveAlone, InProgress
    <3> QED BY <2>7, <3>1 DEF Walked, MovePcs
  <2> QED BY <1>1, <2>3, <2>5, <2>6, <2>7, WrittenForest
<1> QED BY <1>2, <1>3

LEMMA InitForest == Init => ForestInv
<1> SUFFICES ASSUME Init PROVE ForestInv OBVIOUS
<1>1. \A r \in Requests : req[r] = IdleRequest
  BY DEF Init
<1>2. RowsMade
  BY DEF Init, RowsMade
<1>3. KnowsMade(IdleRequest) /\ Walked(IdleRequest) /\ IdleRequest.pc \notin MovePcs
  BY DEF KnowsMade, Walked, IdleRequest, MovePcs
<1>4. Forest
  <2>1. \A m \in Menus : ~Found(m)
    BY DEF Init, Found
  <2> QED BY <2>1 DEF Forest
<1> QED BY <1>1, <1>2, <1>3, <1>4 DEF ForestInv, MadeInv, MoveAlone, WalkInv, InProgress

LEMMA NextForest == IInv /\ ForestInv /\ [Next]_vars => ForestInv'
<1> SUFFICES ASSUME IInv, ForestInv, [Next]_vars PROVE ForestInv' OBVIOUS
<1>1. ASSUME UNCHANGED <<req, raced>>, RowsStay PROVE ForestInv'
  <2>1. Made' = Made /\ \A m \in Menus : Found(m)' = Found(m)
    BY <1>1 DEF Made, Found, RowsStay
  <2>2. MadeInv'
    BY <1>1, <2>1 DEF ForestInv, MadeInv, RowsMade, KnowsMade, RowsStay
  <2>3. MoveAlone'
    BY <1>1 DEF ForestInv, MoveAlone, InProgress
  <2>4. WalkInv'
    <3>1. Forest => Forest'
      BY <1>1, <2>1 DEF Forest, RowsStay
    <3>2. \A r \in Requests : Walked(req[r]) => Walked(req[r])'
      BY <1>1 DEF Walked, Certified, RowsStay
    <3>3. UNCHANGED raced
      BY <1>1
    <3> QED BY <3>1, <3>2, <3>3 DEF ForestInv, WalkInv
  <2> QED BY <2>2, <2>3, <2>4 DEF ForestInv
<1>2. ASSUME NEW r \in Requests, Step(r) PROVE ForestInv'
  <2>1. ASSUME NEW q, q.pc \in {"idle", "del"} \cup AssignPcs \cup CopyPcs \cup RemovePcs
        PROVE  ~Builds(q)
    BY <2>1 DEF Builds, AssignPcs, CopyPcs, FillPcs, RemovePcs, CreatePcs, MovePcs
  <2>2. CASE \/ \E op \in AssignOps \cap mix.ops :
                  \E x \in To(op), S \in SUBSET Of(op) : AssignBegin(r, op, x, S)
             \/ CountRows(r) \/ Assign(r)
    BY <2>1, <2>2, AssignStep, SameRows, OtherForest
  <2>3. CASE \E op \in RemoveOps \cap mix.ops : \E x \in Removes(op) : RemoveBegin(r, op, x)
    <3>1. PICK op, x : RemoveBegin(r, op, x)
      BY <2>3
    <3> DEFINE pc == CASE op = "removeRole" -> "countUsers"
                       [] op = "removeMenu" -> "countChildren"
                       [] OTHER -> "remove"
               q  == [[IdleRequest EXCEPT !.about = x, !.pc = pc] EXCEPT !.op = op]
    <3>2. Become(r, q) /\ UNCHANGED <<row, parent>> /\ raced \subseteq raced'
      BY <3>1 DEF RemoveBegin, Begin, Tables
    <3>3. q.pc \in RemovePcs
      BY DEF IdleRequest, RemovePcs
    <3> HIDE DEF q
    <3> QED BY <2>1, <3>2, <3>3, SameRows, OtherForest
  <2>4. CASE CountUsers(r) \/ CountChildren(r)
    <3> DEFINE q == [req[r] EXCEPT !.pc = "remove"]
    <3>1. UNCHANGED <<row, parent, raced>> /\ (Return(r) \/ Become(r, q))
      BY <2>4 DEF CountUsers, CountChildren, Query, Goto, Tables
    <3>2. q.pc \in RemovePcs
      BY RequestOK DEF Request, RemovePcs
    <3> HIDE DEF q
    <3> QED BY <2>1, <3>1, <3>2, SameRows, OtherForest, ReturnForest
  <2>5. CASE Remove(r)
    BY <2>5, RemoveForest
  <2>6. CASE \/ \E p \in Menus \cup {NoMenu} : CreateBegin(r, p) \/ \E m \in Menus : MoveBegin(r, m, p)
             \/ \E m \in Menus : Create(r, m)
             \/ CheckParent(r) \/ AssertNoCycle(r) \/ Move(r)
    BY <2>6, CreateBeginForest, MoveBeginForest, CreateForest, CheckParentForest,
       AssertNoCycleForest, MoveForest
  <2>7. CASE \/ \E op \in WriteOps \cap mix.ops :
                  \E x \in Writes(op), k \in Keys(op), v \in Data : WriteBegin(r, op, x, k, v)
             \/ Write(r) \/ RefreshCache(r) \/ Del(r) \/ DelFails(r)
             \/ \E e \in Entries : FillBegin(r, e)
             \/ FillQuery(r) \/ FillLinks(r) \/ FillRows(r) \/ FillSet(r) \/ FillFails(r)
    <3>1. UNCHANGED <<row, parent, link, raced>> /\ \E q : q.pc \in CopyPcs /\ Become(r, q)
      BY <2>7, CopyStep
    <3> QED BY <2>1, <3>1, SameRows, OtherForest
  <2> QED BY <1>2, <2>2, <2>3, <2>4, <2>5, <2>6, <2>7 DEF Step
<1>3. CASE UNCHANGED vars
  BY <1>1, <1>3, SameRows DEF vars, Tables
<1>4. CASE Direct
  BY <1>1, <1>4, DirectStep DEF RowsStay
<1> QED BY <1>2, <1>3, <1>4 DEF Next

\* The menus have no cycle as long as no two moves have overlapped, for any
\* number of menus and whatever is created and removed meanwhile.
THEOREM NoMenuCycle == Spec => []MenusAreAForest
<1>1. ForestInv => MenusAreAForest
  BY DEF ForestInv, WalkInv, Forest, MenusAreAForest
<1> QED BY <1>1, InitOK, NextOK, InitForest, NextForest, PTL DEF Spec

-----------------------------------------------------------------------------
(* The copies in Redis.  A fill that is not late holds what the tables say, *)
(* a write that is not late holds the keys of all entries that it changes.  *)

KeysUnique ==
  \A c, d \in ConfigRows : configKey[c] = configKey[d] /\ configKey[c] # NoKey => c = d

\* What a request that is not late has read is still so.
UpToDate(q) ==
  /\ q.pc = "set" => Source(q.entry) = {q.ids}
  /\ q.pc = "queryLinks" => q.entry[1] = "perms" /\ q.ids = ReadBy(q.entry)[1]
  /\ q.pc = "queryRows" => /\ q.ids # {}
                           /\ \/ q.entry[1] = "roles" /\ q.ids = ReadBy(q.entry)[1]
                              \/ q.entry[1] = "perms" /\ q.ids = ReadBy(q.entry)[2]
  /\ q.pc = "write" => q.keys = EntriesOf(q.about, q.key)

Accounted(e) == e \in excused \/ \E r \in Requests : req[r].pc = "del" /\ e \in req[r].keys

CopyInv ==
  IF "fill" \in mix.ops
  THEN /\ KeysUnique
       /\ \A r \in Requests \ late : UpToDate(req[r])
       /\ \A e \in Entries : cache[e] \subseteq Source(e) \/ Accounted(e)
  ELSE /\ \A e \in Entries : cache[e] = {}
       /\ \A r \in Requests : req[r].pc \notin FillPcs
LEMMA SameTables ==
  ASSUME UNCHANGED Tables, NEW e PROVE Source(e)' = Source(e) /\ ReadBy(e)' = ReadBy(e)
<1>1. UNCHANGED <<row, link, configKey, data>>
  BY DEF Tables
<1>2. \A S, of : Linked(S, of)' = Linked(S, of)
  BY <1>1 DEF Linked
<1>3. \A S : Enabled(S)' = Enabled(S)
  BY <1>1 DEF Enabled, Found
<1> QED BY <1>1, <1>2, <1>3 DEF Source, ReadBy, Found

-----------------------------------------------------------------------------
(* What Track keeps, one fact at a time.                                    *)

\* A request that is not late and has not stepped read what is still there.
LEMMA NotOvertaken ==
  ASSUME "fill" \in mix.ops, Track, NEW s \in Requests, s \notin late', req'[s] = req[s]
  PROVE  /\ s \notin late
         /\ \A e \in Entries : req[s].pc \in Reading /\ req[s].entry = e =>
              Source(e)' = Source(e) /\ ReadBy(e)' = ReadBy(e)
         /\ \A c \in ConfigRows : req[s].pc = "write" /\ req[s].about = c => configKey'[c] = configKey[c]
<1>1. s \notin late
  BY DEF Track
<1>2. ASSUME NEW e \in Entries, req[s].pc \in Reading, req[s].entry = e
      PROVE  Source(e)' = Source(e) /\ ReadBy(e)' = ReadBy(e)
  <2>1. CASE UNCHANGED Tables
    BY <2>1, SameTables
  <2>2. CASE ~UNCHANGED Tables
    <3>1. Source(e)' = Source(e)
      BY <1>2, <2>2 DEF Track
    <3>2. CASE UNCHANGED link
      <4>1. \A S, of : Linked(S, of)' = Linked(S, of)
        BY <3>2 DEF Linked
      <4> QED BY <3>1, <4>1 DEF ReadBy
    <3>3. CASE ~UNCHANGED link
      BY <1>2, <2>2, <3>3 DEF Track
    <3> QED BY <3>1, <3>2, <3>3
  <2> QED BY <2>1, <2>2
<1>3. ASSUME NEW c \in ConfigRows, req[s].pc = "write", req[s].about = c
      PROVE  configKey'[c] = configKey[c]
  BY <1>3 DEF Track
<1> QED BY <1>1, <1>2, <1>3

LEMMA LateStays ==
  ASSUME "fill" \in mix.ops, Track, NEW s \in Requests, s \in late, req'[s].pc \notin {"idle", "del"}
  PROVE  s \in late'
  BY DEF Track

LEMMA ExcuseStays ==
  ASSUME "fill" \in mix.ops, Track, NEW e \in Entries, e \in excused, cache'[e] # {}
  PROVE  \/ e \in excused'
         \/ \E r \in Requests : /\ req'[r] # req[r] /\ req[r].pc = "set" /\ r \notin late
                                /\ req[r].entry = e /\ cache'[e] = {req[r].ids}
  BY DEF Track

LEMMA FailExcuses ==
  ASSUME "fill" \in mix.ops, Track, NEW e \in Entries, cache'[e] # {},
         NEW r \in Requests, req'[r] # req[r], req[r].pc = "del",
         e \in req[r].keys, e \notin req'[r].keys
  PROVE  e \in excused'
  BY DEF Track

LEMMA SilenceExcuses ==
  ASSUME "fill" \in mix.ops, Track, NEW e \in Entries, cache'[e] # {}, Source(e)' # Source(e),
         \A r \in Requests : req'[r] # req[r] =>
           r \in late \/ req[r].op \in RemoveOps \cup {"assignPermissions"}
  PROVE  e \in excused'
<1>1. ~UNCHANGED Tables
  BY SameTables
<1> QED BY <1>1 DEF Track

LEMMA LateFillExcuses ==
  ASSUME "fill" \in mix.ops, Track, NEW e \in Entries, cache'[e] # {},
         NEW r \in late, r \in Requests, req'[r] # req[r], req[r].pc = "set",
         req[r].entry = e, cache'[e] = {req[r].ids}
  PROVE  e \in excused'
  BY DEF Track

\* What is said of an entry stays said, or a fill makes it true.
LEMMA AccountStays ==
  ASSUME "fill" \in mix.ops, Track, NEW e \in Entries, cache'[e] # {}, Accounted(e),
         \A r \in Requests : /\ req[r].pc = "del" => req'[r].pc = "del" \/ req'[r].keys = {}
                             /\ req[r].pc = "set" /\ req'[r] # req[r] => UNCHANGED Tables,
         \A r \in Requests \ late : UpToDate(req[r])
  PROVE  cache'[e] \subseteq Source(e)' \/ Accounted(e)'
<1>1. CASE e \in excused
  <2>1. CASE e \in excused'
    BY <2>1 DEF Accounted
  <2>2. CASE e \notin excused'
    <3>1. PICK r \in Requests : /\ req'[r] # req[r] /\ req[r].pc = "set" /\ r \notin late
                                /\ req[r].entry = e /\ cache'[e] = {req[r].ids}
      BY <1>1, <2>2, ExcuseStays
    <3>2. Source(e) = {req[r].ids}
      BY <3>1 DEF UpToDate
    <3>3. Source(e)' = Source(e)
      BY <3>1, SameTables
    <3> QED BY <3>1, <3>2, <3>3
  <2> QED BY <2>1, <2>2
<1>2. CASE \E r \in Requests : req[r].pc = "del" /\ e \in req[r].keys
  <2>1. PICK r \in Requests : req[r].pc = "del" /\ e \in req[r].keys
    BY <1>2
  <2>2. CASE e \in req'[r].keys
    BY <2>1, <2>2 DEF Accounted
  <2>3. CASE e \notin req'[r].keys
    <3>1. e \in excused'
      BY <2>1, <2>3, FailExcuses
    <3> QED BY <3>1 DEF Accounted
  <2> QED BY <2>2, <2>3
<1> QED BY <1>1, <1>2 DEF Accounted

LEMMA UpToDateStays ==
  ASSUME IInv, "fill" \in mix.ops, Track, NEW s \in Requests, s \notin late', req'[s] = req[s],
         s \notin late => UpToDate(req[s])
  PROVE  UpToDate(req[s])'
<1>0. PICK p : p = req[s]
  OBVIOUS
<1>1. UpToDate(p) /\ req'[s] = p
  BY <1>0, NotOvertaken
<1>2. p.pc \in Reading => p.entry \in Entries
  BY <1>0, RequestOK DEF Knows, Reading
<1>3. p.pc \in Reading => Source(p.entry)' = Source(p.entry) /\ ReadBy(p.entry)' = ReadBy(p.entry)
  BY <1>0, <1>2, NotOvertaken
<1>4. p.pc = "write" => EntriesOf(p.about, p.key)' = EntriesOf(p.about, p.key)
  <2>1. p.pc = "write" /\ p.about \in ConfigRows => configKey'[p.about] = configKey[p.about]
    BY <1>0, NotOvertaken
  <2> QED BY <2>1 DEF EntriesOf, KeyOf
<1> QED BY <1>1, <1>3, <1>4 DEF UpToDate, Reading, FillPcs

\* A step of one request.  Here is all that the steps have to do: a request
\* reads without writing, and names the entries it changes unless it is one
\* of those that Track calls silent.
LEMMA CopyKept ==
  ASSUME IInv, CopyInv, NEW r \in Requests, NEW q, Become(r, q), Track, UNCHANGED mix,
         "fill" \in mix.ops, KeysUnique',
         req[r].pc = "del" => q.pc = "del" \/ q.keys = {},
         req[r].pc = "set" \/ q.pc \in Reading \cup {"write"} => UNCHANGED Tables,
         r \notin late => UpToDate(q),
         \A e \in Entries : \/ cache'[e] \in {cache[e], {}}
                            \/ req[r].pc = "set" /\ q # req[r] /\ req[r].entry = e /\ cache'[e] = {req[r].ids},
         \/ r \in late
         \/ req[r].op \in RemoveOps \cup {"assignPermissions"}
         \/ \A e \in Entries : Source(e)' = Source(e) \/ (q.pc = "del" /\ e \in q.keys)
  PROVE  CopyInv'
<1>1. req'[r] = q /\ \A s \in Requests \ {r} : req'[s] = req[s]
  BY DEF Become, IInv, ReqOK
<1>2. /\ \A s \in Requests \ late : UpToDate(req[s])
      /\ \A e \in Entries : cache[e] \subseteq Source(e) \/ Accounted(e)
  BY DEF CopyInv
<1>3. ASSUME NEW s \in Requests, s \notin late' PROVE UpToDate(req[s])'
  <2>0. PICK p : p = req'[s]
    OBVIOUS
  <2>1. CASE p.pc \notin Reading \cup {"write"}
    BY <2>0, <2>1 DEF UpToDate, Reading, FillPcs
  <2>2. CASE p.pc \in Reading \cup {"write"} /\ req'[s] # req[s]
    <3>1. s = r /\ p = q /\ s \notin late /\ UNCHANGED Tables
      BY <1>1, <1>3, <2>0, <2>2, LateStays DEF Reading, FillPcs
    <3>2. UpToDate(p) /\ req'[s] = p
      BY <2>0, <3>1
    <3>3. /\ Source(p.entry)' = Source(p.entry) /\ ReadBy(p.entry)' = ReadBy(p.entry)
      BY <3>1, SameTables
    <3>4. EntriesOf(p.about, p.key)' = EntriesOf(p.about, p.key)
      BY <3>1 DEF EntriesOf, KeyOf, Tables
    <3> QED BY <3>2, <3>3, <3>4 DEF UpToDate
  <2>3. CASE req'[s] = req[s]
    BY <1>2, <1>3, <2>3, UpToDateStays
  <2> QED BY <2>1, <2>2, <2>3
<1>4. ASSUME NEW e \in Entries PROVE cache'[e] \subseteq Source(e)' \/ Accounted(e)'
  <2>1. CASE cache'[e] = {}
    BY <2>1
  <2>2. CASE Accounted(e) /\ cache'[e] # {}
    <3>1. \A s \in Requests : /\ req[s].pc = "del" => req'[s].pc = "del" \/ req'[s].keys = {}
                              /\ req[s].pc = "set" /\ req'[s] # req[s] => UNCHANGED Tables
      BY <1>1
    <3> QED BY <1>2, <2>2, <3>1, AccountStays
  <2>3. CASE cache[e] \subseteq Source(e) /\ cache'[e] = cache[e] /\ cache'[e] # {}
    <3>1. CASE Source(e)' = Source(e)
      BY <2>3, <3>1
    <3>2. CASE q.pc = "del" /\ e \in q.keys
      BY <1>1, <3>2 DEF Accounted
    <3>3. CASE Source(e)' # Source(e)
               /\ (r \in late \/ req[r].op \in RemoveOps \cup {"assignPermissions"})
      <4>1. e \in excused'
        BY <1>1, <2>3, <3>3, SilenceExcuses
      <4> QED BY <4>1 DEF Accounted
    <3> QED BY <3>1, <3>2, <3>3
  <2>4. CASE /\ req[r].pc = "set" /\ q # req[r] /\ req[r].entry = e
             /\ cache'[e] = {req[r].ids} /\ cache'[e] # {}
    <3>1. CASE r \in late
      <4>1. e \in excused'
        BY <1>1, <2>4, <3>1, LateFillExcuses
      <4> QED BY <4>1 DEF Accounted
    <3>2. CASE r \notin late
      <4>1. Source(e) = {req[r].ids}
        BY <1>2, <2>4, <3>2 DEF UpToDate
      <4>2. Source(e)' = Source(e)
        BY <2>4, SameTables
      <4> QED BY <2>4, <4>1, <4>2
    <3> QED BY <3>1, <3>2
  <2> QED BY <1>2, <2>1, <2>2, <2>3, <2>4
<1> QED BY <1>3, <1>4 DEF CopyInv

LEMMA PlainUpToDate ==
  ASSUME NEW q, q.pc \notin Reading \cup {"write"} PROVE UpToDate(q)
  BY DEF UpToDate, Reading, FillPcs

\* A step that changes neither the tables nor the cache.
LEMMA QuietCopy ==
  ASSUME IInv, CopyInv, NEW r \in Requests, NEW q, Become(r, q), Track,
         "fill" \in mix.ops, UNCHANGED <<mix, Tables, cache>>,
         req[r].pc = "del" => q.pc = "del" \/ q.keys = {},
         r \notin late => UpToDate(q)
  PROVE  CopyInv'
<1>1. KeysUnique'
  BY DEF CopyInv, KeysUnique, Tables
<1>2. UNCHANGED Tables /\ UNCHANGED mix /\ UNCHANGED cache
  OBVIOUS
<1>3. \A e \in Entries : Source(e)' = Source(e)
  BY <1>2, SameTables
<1>4. \A e \in Entries : cache'[e] \in {cache[e], {}}
  BY <1>2
<1> QED BY <1>1, <1>2, <1>3, <1>4, CopyKept

\* It begins, or goes on with, what neither fills nor writes.
LEMMA PlainCopy ==
  ASSUME IInv, CopyInv, NEW r \in Requests, Track,
         "fill" \in mix.ops, UNCHANGED <<mix, Tables, cache>>, req[r].pc # "del",
         \E q : q.pc \notin Reading \cup {"write"} /\ Become(r, q)
  PROVE  CopyInv'
  BY PlainUpToDate, QuietCopy

LEMMA ReturnCopy ==
  ASSUME IInv, CopyInv, NEW r \in Requests, Return(r), Track,
         "fill" \in mix.ops, UNCHANGED <<mix, Tables, cache>>
  PROVE  CopyInv'
<1>1. IdleRequest.pc \notin Reading \cup {"write"} /\ IdleRequest.keys = {}
  BY DEF IdleRequest, Reading, FillPcs
<1> QED BY <1>1, PlainUpToDate, QuietCopy DEF Return

LEMMA AssignBeginCopy ==
  ASSUME IInv, CopyInv, NEW r \in Requests, "fill" \in mix.ops,
         \/ \E op \in AssignOps \cap mix.ops :
              \E x \in To(op), S \in SUBSET Of(op) : AssignBegin(r, op, x, S)
         \/ CountRows(r)
  PROVE  CopyInv'
<1>1. Track /\ UNCHANGED <<mix, Tables, cache>> /\ req[r].pc # "del"
  BY DEF AssignBegin, CountRows, Begin, Query
<1>2. \E q : q.pc \notin Reading \cup {"write"} /\ Become(r, q)
  BY AssignStep DEF AssignPcs, Reading, FillPcs
<1> QED BY <1>1, <1>2, PlainCopy

LEMMA RemoveBeginCopy ==
  ASSUME IInv, CopyInv, NEW r \in Requests, "fill" \in mix.ops, NEW op, NEW x,
         RemoveBegin(r, op, x)
  PROVE  CopyInv'
<1> DEFINE pc == CASE op = "removeRole" -> "countUsers"
                   [] op = "removeMenu" -> "countChildren"
                   [] OTHER -> "remove"
           q  == [[IdleRequest EXCEPT !.about = x, !.pc = pc] EXCEPT !.op = op]
<1>1. Track /\ UNCHANGED <<mix, Tables, cache>> /\ req[r].pc # "del" /\ Become(r, q)
  BY DEF RemoveBegin, Begin
<1>2. q.pc \notin Reading \cup {"write"}
  BY DEF IdleRequest, Reading, FillPcs
<1> HIDE DEF q
<1> QED BY <1>1, <1>2, PlainCopy

LEMMA CountsCopy ==
  ASSUME IInv, CopyInv, NEW r \in Requests, "fill" \in mix.ops, CountUsers(r) \/ CountChildren(r)
  PROVE  CopyInv'
<1> DEFINE q == [req[r] EXCEPT !.pc = "remove"]
<1>1. Track /\ UNCHANGED <<mix, Tables, cache>> /\ req[r].pc # "del" /\ (Return(r) \/ Become(r, q))
  BY DEF CountUsers, CountChildren, Query, Goto
<1>2. q.pc \notin Reading \cup {"write"}
  BY RequestOK DEF Request, Reading, FillPcs
<1> HIDE DEF q
<1> QED BY <1>1, <1>2, PlainCopy, ReturnCopy

LEMMA MenuChecksCopy ==
  ASSUME IInv, CopyInv, NEW r \in Requests, "fill" \in mix.ops,
         \/ \E p \in Menus \cup {NoMenu} : CreateBegin(r, p) \/ \E m \in Menus : MoveBegin(r, m, p)
         \/ CheckParent(r) \/ AssertNoCycle(r)
  PROVE  CopyInv'
<1>1. Track /\ UNCHANGED <<mix, Tables, cache>> /\ req[r].pc # "del"
  BY DEF CreateBegin, MoveBegin, CheckParent, AssertNoCycle, Begin
<1>2. \E q : q.pc \notin Reading \cup {"write"} /\ Become(r, q)
  BY MenuStep DEF CreatePcs, MovePcs, Reading, FillPcs
<1> QED BY <1>1, <1>2, PlainCopy

LEMMA RefreshCacheCopy ==
  ASSUME IInv, CopyInv, NEW r \in Requests, "fill" \in mix.ops, RefreshCache(r)
  PROVE  CopyInv'
<1> DEFINE q == [[IdleRequest EXCEPT !.pc = "del",
                   !.keys = {"config"} \X ({configKey[c] : c \in ConfigRows} \ {NoKey})]
                   EXCEPT !.op = "refreshCache"]
<1>1. Track /\ UNCHANGED <<mix, Tables, cache>> /\ req[r].pc # "del" /\ Become(r, q)
  BY DEF RefreshCache, Begin
<1>2. q.pc \notin Reading \cup {"write"}
  BY DEF IdleRequest, Reading, FillPcs
<1> HIDE DEF q
<1> QED BY <1>1, <1>2, PlainCopy

LEMMA FillBeginCopy ==
  ASSUME IInv, CopyInv, NEW r \in Requests, "fill" \in mix.ops, NEW e, FillBegin(r, e)
  PROVE  CopyInv'
<1> DEFINE q == [[IdleRequest EXCEPT !.pc = "query", !.entry = e] EXCEPT !.op = "fill"]
<1>1. Track /\ UNCHANGED <<mix, Tables, cache>> /\ req[r].pc # "del" /\ Become(r, q)
  BY DEF FillBegin, Begin
<1>2. q.pc \notin Reading \cup {"write"}
  BY DEF IdleRequest, Reading, FillPcs
<1> HIDE DEF q
<1> QED BY <1>1, <1>2, PlainCopy

\* The keys of a write are those of the row it has read.
LEMMA WriteBeginCopy ==
  ASSUME IInv, CopyInv, NEW r \in Requests, "fill" \in mix.ops,
         NEW op, NEW x, NEW k, NEW v, WriteBegin(r, op, x, k, v)
  PROVE  CopyInv'
<1> DEFINE q == [[IdleRequest EXCEPT !.pc = "write", !.about = x, !.key = k, !.value = v,
                   !.keys = EntriesOf(x, k)] EXCEPT !.op = op]
<1>1. Track /\ UNCHANGED <<mix, Tables, cache>> /\ req[r].pc # "del" /\ Become(r, q)
  BY DEF WriteBegin, Begin
<1>2. q.pc = "write" /\ q.keys = EntriesOf(q.about, q.key)
  BY DEF IdleRequest
<1> HIDE DEF q
<1>3. UpToDate(q)
  BY <1>2 DEF UpToDate
<1> QED BY <1>1, <1>3, QuietCopy

LEMMA FailsCopy ==
  ASSUME IInv, CopyInv, NEW r \in Requests, "fill" \in mix.ops, FillFails(r)
  PROVE  CopyInv'
  BY ReturnCopy DEF FillFails

LEMMA DelCopy ==
  ASSUME IInv, CopyInv, NEW r \in Requests, "fill" \in mix.ops, Del(r) \/ DelFails(r)
  PROVE  CopyInv'
<1> DEFINE p == [IdleRequest EXCEPT !.pc = "del", !.op = req[r].op, !.key = req[r].key,
                   !.keys = req[r].keys \ NextKeys(r)]
<1>1. Track /\ UNCHANGED <<mix, Tables>> /\ req[r].pc = "del"
  BY DEF Del, DelFails
<1>2. \E q : Become(r, q) /\ (q = IdleRequest \/ q = p)
  BY DEF Del, DelFails, Deleted, Return, Delete
<1>3. /\ IdleRequest.pc \notin Reading \cup {"write"} /\ IdleRequest.keys = {}
      /\ p.pc = "del"
  BY DEF IdleRequest, Reading, FillPcs
<1> HIDE DEF p
<1>4. PICK q : Become(r, q) /\ (q.pc = "del" \/ q.keys = {}) /\ q.pc \notin Reading \cup {"write"}
  BY <1>2, <1>3 DEF Reading, FillPcs
<1>5. \A e \in Entries : cache'[e] \in {cache[e], {}}
  BY DEF Del, DelFails
<1>6. \A e \in Entries : Source(e)' = Source(e)
  BY <1>1, SameTables
<1>7. KeysUnique'
  BY <1>1 DEF CopyInv, KeysUnique, Tables
<1>8. UNCHANGED Tables /\ UNCHANGED mix
  BY <1>1
<1> QED BY <1>1, <1>4, <1>5, <1>6, <1>7, <1>8, PlainUpToDate, CopyKept

LEMMA FillSetCopy ==
  ASSUME IInv, CopyInv, NEW r \in Requests, "fill" \in mix.ops, FillSet(r)
  PROVE  CopyInv'
<1>1. /\ Track /\ UNCHANGED mix /\ UNCHANGED Tables /\ req[r].pc = "set"
      /\ Become(r, IdleRequest) /\ cache' = [cache EXCEPT ![req[r].entry] = {req[r].ids}]
  BY DEF FillSet, Return
<1>2. IdleRequest.pc = "idle" /\ IdleRequest.pc \notin Reading \cup {"write"} /\ IdleRequest # req[r]
  BY <1>1 DEF IdleRequest, Reading, FillPcs
<1>3. \A e \in Entries : \/ cache'[e] \in {cache[e], {}}
                         \/ req[r].pc = "set" /\ IdleRequest # req[r] /\ req[r].entry = e
                              /\ cache'[e] = {req[r].ids}
  BY <1>1, <1>2 DEF IInv, CacheOK
<1>4. \A e \in Entries : Source(e)' = Source(e)
  BY <1>1, SameTables
<1>5. KeysUnique'
  BY <1>1 DEF CopyInv, KeysUnique, Tables
<1> QED BY <1>1, <1>2, <1>3, <1>4, <1>5, PlainUpToDate, CopyKept

\* What is read at once is one value: a key belongs to one row.
LEMMA OneValue ==
  ASSUME KeysUnique, NEW e \in Entries, e[1] \in {"user", "config", "tree"}, Source(e) # {}
  PROVE  Source(e) = {UNION Source(e)}
<1>1. ASSUME NEW v, Source(e) = {v} PROVE Source(e) = {UNION Source(e)}
  BY <1>1
<1>2. CASE e[1] = "user"
  BY <1>1, <1>2 DEF Source
<1>3. CASE e[1] = "tree"
  BY <1>1, <1>3 DEF Source
<1>4. CASE e[1] = "config"
  <2>1. Source(e) = {{data[c]} : c \in {d \in ConfigRows : configKey[d] = e[2]}}
    BY <1>4 DEF Source
  <2>2. e[2] \in ConfigKeys
    BY <1>4 DEF Entries
  <2>3. PICK c \in ConfigRows : configKey[c] = e[2]
    BY <2>1
  <2>4. {d \in ConfigRows : configKey[d] = e[2]} = {c}
    BY <2>2, <2>3, AccessAssumption DEF KeysUnique
  <2>5. Source(e) = {{data[c]}}
    BY <2>1, <2>4
  <2> QED BY <1>1, <2>5
<1> QED BY <1>2, <1>3, <1>4

LEMMA KeepCopy ==
  ASSUME IInv, CopyInv, NEW r \in Requests, "fill" \in mix.ops, req[r].pc \in FillPcs,
         NEW pc \in Reading, NEW S, Keep(r, pc, S), Track, UNCHANGED <<mix, Tables, cache>>,
         r \notin late /\ pc = "set" => Source(req[r].entry) = {S},
         r \notin late /\ pc = "queryLinks" => req[r].entry[1] = "perms" /\ S = ReadBy(req[r].entry)[1],
         r \notin late /\ pc = "queryRows" =>
           /\ S # {}
           /\ \/ req[r].entry[1] = "roles" /\ S = ReadBy(req[r].entry)[1]
              \/ req[r].entry[1] = "perms" /\ S = ReadBy(req[r].entry)[2]
  PROVE  CopyInv'
<1> DEFINE q == [req[r] EXCEPT !.pc = pc, !.ids = S]
<1>1. Become(r, q) /\ q.pc = pc /\ q.ids = S /\ q.entry = req[r].entry
  BY RequestOK DEF Keep, Request
<1>2. pc # "write" /\ req[r].pc # "del"
  BY DEF Reading, FillPcs
<1> HIDE DEF q
<1>3. r \notin late => UpToDate(q)
  BY <1>1, <1>2 DEF UpToDate
<1> QED BY <1>1, <1>2, <1>3, QuietCopy

LEMMA FillReadsCopy ==
  ASSUME IInv, CopyInv, NEW r \in Requests, "fill" \in mix.ops,
         FillQuery(r) \/ FillLinks(r) \/ FillRows(r)
  PROVE  CopyInv'
<1>0. PICK e : e = req[r].entry
  OBVIOUS
<1>1. Track /\ UNCHANGED <<mix, Tables, cache>> /\ req[r].pc \in FillPcs /\ e \in Entries
  BY <1>0, RequestOK DEF FillQuery, FillLinks, FillRows, FillPcs, Knows
<1>2. {"set", "queryRows", "queryLinks"} \subseteq Reading
  BY DEF Reading, FillPcs
<1>3. KeysUnique /\ (r \notin late => UpToDate(req[r]))
  BY DEF CopyInv
<1>4. CASE Return(r)
  BY <1>1, <1>4, ReturnCopy
<1>5. CASE FillQuery(r) /\ ~Return(r)
  <2>1. e[1] \in {"user", "roles", "perms", "config", "tree"}
    BY <1>1 DEF Entries
  <2>2. CASE e[1] \in {"user", "config", "tree"}
    <3>1. Source(e) # {} /\ Keep(r, "set", UNION Source(e))
      BY <1>0, <1>5, <2>2 DEF FillQuery
    <3>2. Source(e) = {UNION Source(e)}
      BY <1>1, <1>3, <2>2, <3>1, OneValue
    <3> QED BY <1>0, <1>1, <1>2, <3>1, <3>2, KeepCopy
  <2>3. CASE e[1] = "roles"
    <3>1. Linked({e[2]}, Roles) # {} /\ Keep(r, "queryRows", Linked({e[2]}, Roles))
      BY <1>0, <1>5, <2>3 DEF FillQuery
    <3>2. ReadBy(e)[1] = Linked({e[2]}, Roles)
      BY <2>3 DEF ReadBy
    <3> QED BY <1>0, <1>1, <1>2, <2>3, <3>1, <3>2, KeepCopy
  <2>4. CASE e[1] = "perms"
    <3>1. Keep(r, "queryLinks", Linked({e[2]}, Roles))
      BY <1>0, <1>5, <2>4 DEF FillQuery
    <3>2. ReadBy(e)[1] = Linked({e[2]}, Roles)
      BY <2>4 DEF ReadBy
    <3> QED BY <1>0, <1>1, <1>2, <2>4, <3>1, <3>2, KeepCopy
  <2> QED BY <2>1, <2>2, <2>3, <2>4
<1>6. CASE FillLinks(r) /\ ~Return(r)
  <2>1. /\ req[r].pc = "queryLinks" /\ Linked(req[r].ids, Permissions) # {}
        /\ Keep(r, "queryRows", Linked(req[r].ids, Permissions))
    BY <1>6 DEF FillLinks
  <2>2. r \notin late => e[1] = "perms" /\ Linked(req[r].ids, Permissions) = ReadBy(e)[2]
    <3>1. ASSUME e[1] = "perms"
          PROVE  /\ ReadBy(e)[1] = Linked({e[2]}, Roles)
                 /\ ReadBy(e)[2] = Linked(ReadBy(e)[1], Permissions)
      BY <3>1 DEF ReadBy
    <3>2. r \notin late => e[1] = "perms" /\ req[r].ids = ReadBy(e)[1]
      BY <1>0, <1>3, <2>1 DEF UpToDate
    <3> QED BY <3>1, <3>2
  <2> QED BY <1>0, <1>1, <1>2, <2>1, <2>2, KeepCopy
<1>7. CASE FillRows(r)
  <2>1. req[r].pc = "queryRows" /\ Keep(r, "set", Enabled(req[r].ids))
    BY <1>7 DEF FillRows
  <2>2. ASSUME r \notin late PROVE Source(e) = {Enabled(req[r].ids)}
    <3>1. /\ req[r].ids # {}
          /\ \/ e[1] = "roles" /\ req[r].ids = ReadBy(e)[1]
             \/ e[1] = "perms" /\ req[r].ids = ReadBy(e)[2]
      BY <1>0, <1>3, <2>1, <2>2 DEF UpToDate
    <3>2. CASE e[1] = "roles"
      <4>1. ReadBy(e)[1] = Linked({e[2]}, Roles)
        BY <3>2 DEF ReadBy
      <4> QED BY <3>1, <3>2, <4>1 DEF Source
    <3>3. CASE e[1] = "perms"
      <4>1. ReadBy(e)[2] = Linked(Linked({e[2]}, Roles), Permissions)
        BY <3>3 DEF ReadBy
      <4> QED BY <3>1, <3>3, <4>1 DEF Source
    <3> QED BY <3>1, <3>2, <3>3
  <2> QED BY <1>0, <1>1, <1>2, <2>1, <2>2, KeepCopy
<1> QED BY <1>4, <1>5, <1>6, <1>7

\* A step that writes the tables and goes on with what has nothing to read.
LEMMA WriterCopy ==
  ASSUME IInv, CopyInv, NEW r \in Requests, NEW q, Become(r, q), Track, UNCHANGED <<mix, cache>>,
         "fill" \in mix.ops, KeysUnique', req[r].pc \notin {"del", "set"},
         q.pc \notin Reading \cup {"write"},
         \/ r \in late
         \/ req[r].op \in RemoveOps \cup {"assignPermissions"}
         \/ \A e \in Entries : Source(e)' = Source(e) \/ (q.pc = "del" /\ e \in q.keys)
  PROVE  CopyInv'
<1>1. UpToDate(q) /\ UNCHANGED mix /\ \A e \in Entries : cache'[e] \in {cache[e], {}}
  BY PlainUpToDate
<1> QED BY <1>1, CopyKept

LEMMA IdlePlain == IdleRequest.pc = "idle" /\ IdleRequest.pc \notin Reading \cup {"write"}
  BY DEF IdleRequest, Reading, FillPcs

\* No entry shows a menu, or a link to one.
LEMMA SourceStays ==
  ASSUME NEW e \in Entries, UNCHANGED <<configKey, data>>,
         \A x \in Users \cup Roles \cup Permissions : row'[x] = row[x],
         \A x, y : y \in Roles \cup Permissions => (<<x, y>> \in link' <=> <<x, y>> \in link)
  PROVE  Source(e)' = Source(e)
<1>1. \A S : Linked(S, Roles)' = Linked(S, Roles) /\ Linked(S, Permissions)' = Linked(S, Permissions)
  BY DEF Linked
<1>2. \A S : S \subseteq Roles \/ S \subseteq Permissions => Enabled(S)' = Enabled(S)
  BY DEF Enabled, Found
<1>3. Linked({e[2]}, Roles) \subseteq Roles
      /\ Linked(Linked({e[2]}, Roles), Permissions) \subseteq Permissions
  BY DEF Linked
<1>4. e[1] = "user" => Found(e[2])' = Found(e[2])
  BY DEF Found, Entries
<1>5. CASE e[1] = "user"
  <2>1. e[2] \in Users
    BY <1>5 DEF Entries
  <2> QED BY <1>4, <1>5, <2>1 DEF Source
<1>6. CASE e[1] = "roles"
  BY <1>1, <1>2, <1>3, <1>6 DEF Source
<1>7. CASE e[1] = "perms"
  BY <1>1, <1>2, <1>3, <1>7 DEF Source
<1>8. CASE e[1] \in {"config", "tree"}
  BY <1>8 DEF Source
<1> QED BY <1>5, <1>6, <1>7, <1>8 DEF Entries

\* A user's roles are in the entries of that user, which assignRoles deletes.
LEMMA AssignCopy ==
  ASSUME IInv, CopyInv, NEW r \in Requests, "fill" \in mix.ops, Assign(r)
  PROVE  CopyInv'
<1>0. PICK x, S : x = req[r].about /\ S = req[r].ids
  OBVIOUS
<1>1. /\ Track /\ UNCHANGED <<mix, cache>> /\ UNCHANGED <<row, configKey, data>>
      /\ req[r].pc = "assign" /\ req[r].pc \in AssignPcs
      /\ link' = {l \in link : l[1] # x \/ l[2] \notin Of(req[r].op)} \cup ({x} \X S)
  BY <1>0 DEF Assign, AssignPcs
<1>2. req[r].op \in AssignOps /\ x \in To(req[r].op) /\ S \subseteq Of(req[r].op)
  BY <1>0, <1>1, RequestOK DEF Knows
<1>3. KeysUnique'
  BY <1>1 DEF CopyInv, KeysUnique
<1>4. CASE req[r].op = "assignPermissions"
  <2>1. Become(r, IdleRequest)
    BY <1>4 DEF Assign, Return
  <2> QED BY <1>1, <1>3, <1>4, <2>1, IdlePlain, WriterCopy
<1>5. CASE req[r].op = "assignMenus"
  <2>1. Become(r, IdleRequest)
    BY <1>5 DEF Assign, Return
  <2>2. S \subseteq Menus /\ link' = {l \in link : l[1] # x \/ l[2] \notin Menus} \cup ({x} \X S)
    BY <1>1, <1>2, <1>5 DEF Of
  <2>3. ASSUME NEW a, NEW y \in Roles \cup Permissions PROVE <<a, y>> \in link' <=> <<a, y>> \in link
    <3>1. y \notin Menus
      BY AccessAssumption DEF Disjoint
    <3> QED BY <2>2, <3>1
  <2>4. \A e \in Entries : Source(e)' = Source(e)
    BY <1>1, <2>3, SourceStays
  <2> QED BY <1>1, <1>3, <2>1, <2>4, IdlePlain, WriterCopy
<1>6. CASE req[r].op = "assignRoles"
  <2> DEFINE q == [IdleRequest EXCEPT !.pc = "del", !.op = req[r].op, !.key = req[r].key,
                     !.keys = UserEntries(x)]
  <2>1. Become(r, q)
    BY <1>0, <1>6 DEF Assign, Delete
  <2>2. q.pc = "del" /\ q.keys = UserEntries(x) /\ q.pc \notin Reading \cup {"write"}
    BY DEF IdleRequest, Reading, FillPcs
  <2> HIDE DEF q
  <2>3. S \subseteq Roles /\ x \in Users /\ link' = {l \in link : l[1] # x \/ l[2] \notin Roles} \cup ({x} \X S)
    BY <1>1, <1>2, <1>6 DEF Of, To
  <2>4. ASSUME NEW e \in Entries PROVE Source(e)' = Source(e) \/ e \in UserEntries(x)
    <3>1. CASE e[1] \in {"user", "config", "tree"}
      BY <1>1, <3>1 DEF Source, Found
    <3>2. CASE e[1] \in {"roles", "perms"} /\ e[2] = x
      BY <3>2 DEF UserEntries, Entries
    <3>3. CASE e[1] \in {"roles", "perms"} /\ e[2] # x
      <4>1. Linked({e[2]}, Roles)' = Linked({e[2]}, Roles)
        BY <2>3, <3>3 DEF Linked
      <4>2. \A T : Linked(T, Permissions)' = Linked(T, Permissions)
        <5>1. \A y \in Permissions : y \notin Roles
          BY AccessAssumption DEF Disjoint
        <5> QED BY <2>3, <5>1 DEF Linked
      <4>3. \A T : Enabled(T)' = Enabled(T)
        BY <1>1 DEF Enabled, Found
      <4> QED BY <3>3, <4>1, <4>2, <4>3 DEF Source
    <3> QED BY <3>1, <3>2, <3>3 DEF Entries
  <2> QED BY <1>1, <1>3, <2>1, <2>2, <2>4, WriterCopy
<1> QED BY <1>2, <1>4, <1>5, <1>6 DEF AssignOps

LEMMA RemoveCopy ==
  ASSUME IInv, CopyInv, NEW r \in Requests, "fill" \in mix.ops, Remove(r)
  PROVE  CopyInv'
<1>1. /\ Track /\ UNCHANGED <<mix, cache>> /\ UNCHANGED configKey /\ req[r].pc = "remove"
      /\ Become(r, IdleRequest)
  BY DEF Remove, Return
<1>2. req[r].op \in RemoveOps
  BY <1>1, RequestOK DEF Knows, RemovePcs
<1>3. KeysUnique'
  BY <1>1 DEF CopyInv, KeysUnique
<1> QED BY <1>1, <1>2, <1>3, IdlePlain, WriterCopy

LEMMA BuildCopy ==
  ASSUME IInv, CopyInv, NEW r \in Requests, "fill" \in mix.ops,
         (\E m \in Menus : Create(r, m)) \/ Move(r)
  PROVE  CopyInv'
<1>1. /\ Track /\ UNCHANGED <<mix, cache>> /\ UNCHANGED <<configKey, data>> /\ UNCHANGED link
      /\ req[r].pc \in {"create", "move"} /\ Become(r, IdleRequest)
  BY DEF Create, Move, Return
<1>2. \A x \in Users \cup Roles \cup Permissions : row'[x] = row[x]
  <2>1. CASE Move(r)
    BY <2>1 DEF Move
  <2>2. CASE \E m \in Menus : Create(r, m)
    <3>1. PICK m \in Menus : Create(r, m)
      BY <2>2
    <3>2. row' = [row EXCEPT ![m].state = "live"]
      BY <3>1 DEF Create
    <3>3. m \notin Users \cup Roles \cup Permissions
      BY AccessAssumption DEF Disjoint
    <3> QED BY <3>2, <3>3 DEF IInv, TablesOK, Rows
  <2> QED BY <2>1, <2>2
<1>3. \A e \in Entries : Source(e)' = Source(e)
  BY <1>1, <1>2, SourceStays
<1>4. KeysUnique'
  BY <1>1 DEF CopyInv, KeysUnique
<1> QED BY <1>1, <1>3, <1>4, IdlePlain, WriterCopy

\* A write that knows the row's key deletes the entries of both its keys.
LEMMA WriteCopy ==
  ASSUME IInv, CopyInv, NEW r \in Requests, "fill" \in mix.ops, Write(r)
  PROVE  CopyInv'
<1>0. PICK x, k : x = req[r].about /\ k = req[r].key
  OBVIOUS
<1>1. Track /\ UNCHANGED <<mix, cache>> /\ UNCHANGED <<row, link, parent>> /\ req[r].pc = "write"
  BY DEF Write
<1>2. /\ x \in Users \cup ConfigRows \cup {Tree} /\ k \in ConfigKeys \cup {NoKey}
      /\ CopyInv /\ KeysUnique /\ (r \notin late => req[r].keys = EntriesOf(x, k))
  BY <1>0, <1>1, RequestOK DEF Knows, WriteOps, Writes, Request, CopyInv, UpToDate
<1>3. CASE Return(r) /\ UNCHANGED <<data, configKey>>
  BY <1>1, <1>3, ReturnCopy DEF Tables
<1>4. CASE Exists(x) /\ Unique(x, k)
  <2> DEFINE q == [IdleRequest EXCEPT !.pc = "del", !.op = req[r].op, !.key = req[r].key,
                     !.keys = req[r].keys]
  <2>1. /\ data' = IF req[r].op = "configRemove" THEN data ELSE [data EXCEPT ![x] = req[r].value]
        /\ configKey' = [c \in ConfigRows |-> IF c = x THEN k ELSE configKey[c]]
        /\ Become(r, q)
    BY <1>0, <1>4 DEF Write, Delete
  <2>2. q.pc = "del" /\ q.keys = req[r].keys /\ q.pc \notin Reading \cup {"write"}
    BY DEF IdleRequest, Reading, FillPcs
  <2> HIDE DEF q
  <2>3. \A y \in Users \cup ConfigRows \cup {Tree} : y # x => data'[y] = data[y]
    BY <2>1 DEF IInv, TablesOK
  <2>4. KeysUnique'
    BY <1>2, <1>4, <2>1 DEF KeysUnique, Unique
  <2>5. ASSUME NEW e \in Entries PROVE Source(e)' = Source(e) \/ e \in EntriesOf(x, k)
    <3>1. CASE e[1] = "user"
      <4>1. CASE e[2] = x
        <5>1. x \in Users
          BY <3>1, <4>1 DEF Entries
        <5>2. e \in UserEntries(x)
          BY <3>1, <4>1 DEF Entries, UserEntries
        <5>3. EntriesOf(x, k) = UserEntries(x)
          BY <5>1, AccessAssumption DEF EntriesOf, Disjoint
        <5> QED BY <5>2, <5>3
      <4>2. CASE e[2] # x
        <5>1. e[2] \in Users /\ data'[e[2]] = data[e[2]]
          BY <2>3, <3>1, <4>2 DEF Entries
        <5> QED BY <1>1, <3>1, <5>1 DEF Source, Found
      <4> QED BY <4>1, <4>2
    <3>2. CASE e[1] = "tree"
      <4>1. CASE x = Tree
        <5>1. EntriesOf(x, k) = {<<"tree", x>>}
          BY <4>1, AccessAssumption DEF EntriesOf, Disjoint
        <5> QED BY <3>2, <4>1, <5>1 DEF Entries
      <4>2. CASE x # Tree
        BY <2>3, <3>2, <4>2 DEF Source, Entries
      <4> QED BY <4>1, <4>2
    <3>3. CASE e[1] \in {"roles", "perms"}
      <4>1. \A T, of : Linked(T, of)' = Linked(T, of) /\ Enabled(T)' = Enabled(T)
        BY <1>1 DEF Linked, Enabled, Found
      <4> QED BY <3>3, <4>1 DEF Source
    <3>4. CASE e[1] = "config"
      <4>1. PICK key \in ConfigKeys : e = <<"config", key>>
        BY <3>4 DEF Entries
      <4>2. Source(e) = {{data[c]} : c \in {d \in ConfigRows : configKey[d] = key}}
        BY <4>1 DEF Source
      <4>3. Source(e)' = {{data'[c]} : c \in {d \in ConfigRows : configKey'[d] = key}}
        BY <4>1 DEF Source
      <4>4. CASE x \notin ConfigRows
        <5>1. {d \in ConfigRows : configKey'[d] = key} = {d \in ConfigRows : configKey[d] = key}
          BY <2>1, <4>4
        <5>2. \A c \in ConfigRows : data'[c] = data[c]
          BY <2>3, <4>4
        <5> QED BY <4>2, <4>3, <5>1, <5>2
      <4>5. CASE x \in ConfigRows
        <5>1. EntriesOf(x, k) = {"config"} \X ({configKey[x], k} \ {NoKey})
          BY <4>5, AccessAssumption DEF EntriesOf, KeyOf, Disjoint
        <5>2. CASE key \in {configKey[x], k}
          BY <4>1, <5>1, <5>2, AccessAssumption
        <5>3. CASE key \notin {configKey[x], k}
          <6>1. {d \in ConfigRows : configKey'[d] = key} = {d \in ConfigRows : configKey[d] = key}
            BY <2>1, <5>3
          <6>2. \A c \in {d \in ConfigRows : configKey[d] = key} : data'[c] = data[c]
            BY <2>3, <5>3
          <6> QED BY <4>2, <4>3, <6>1, <6>2
        <5> QED BY <5>2, <5>3
      <4> QED BY <4>4, <4>5
    <3> QED BY <3>1, <3>2, <3>3, <3>4 DEF Entries
  <2>6. r \in late \/ \A e \in Entries : Source(e)' = Source(e) \/ (q.pc = "del" /\ e \in q.keys)
    BY <1>2, <2>2, <2>5
  <2> QED BY <1>1, <2>1, <2>2, <2>4, <2>6, WriterCopy
<1> QED BY <1>0, <1>3, <1>4 DEF Write

\* No request deletes what these steps change: Track excuses it.
LEMMA DirectCopy ==
  ASSUME IInv, CopyInv, "fill" \in mix.ops, Direct
  PROVE  CopyInv'
<1>1. Track /\ UNCHANGED <<mix, req>>
  BY DEF Direct, CreateRow, SetStatus, ConfigCreate, Expire
<1>2. KeysUnique'
  <2>1. KeysUnique
    BY DEF CopyInv
  <2>2. UNCHANGED configKey => KeysUnique'
    BY <2>1 DEF KeysUnique
  <2>3. ASSUME NEW c \in ConfigRows, NEW k \in ConfigKeys, NEW v \in Data, ConfigCreate(c, k, v)
        PROVE  KeysUnique'
    <3>1. configKey' = [configKey EXCEPT ![c] = k] /\ Unique(c, k)
      BY <2>3 DEF ConfigCreate
    <3> QED BY <2>1, <3>1 DEF KeysUnique, Unique, IInv, TablesOK
  <2> QED BY <2>2, <2>3 DEF Direct, CreateRow, SetStatus, Expire, Tables
<1>3. \A e \in Entries : cache'[e] \in {cache[e], {}}
  <2>1. ASSUME NEW f \in Entries, Expire(f) PROVE \A e \in Entries : cache'[e] \in {cache[e], {}}
    BY <2>1 DEF Expire, IInv, CacheOK
  <2> QED BY <2>1 DEF Direct, CreateRow, SetStatus, ConfigCreate
<1>4. /\ \A s \in Requests \ late : UpToDate(req[s])
      /\ \A e \in Entries : cache[e] \subseteq Source(e) \/ Accounted(e)
  BY DEF CopyInv
<1>5. \A r \in Requests : req'[r] = req[r]
  BY <1>1
<1>6. ASSUME NEW s \in Requests, s \notin late' PROVE UpToDate(req[s])'
  BY <1>1, <1>4, <1>5, <1>6, UpToDateStays
<1>7. ASSUME NEW e \in Entries PROVE cache'[e] \subseteq Source(e)' \/ Accounted(e)'
  <2>1. CASE cache'[e] = {}
    BY <2>1
  <2>2. CASE cache'[e] # {} /\ Source(e)' # Source(e)
    <3>1. e \in excused'
      BY <1>1, <1>5, <2>2, SilenceExcuses
    <3> QED BY <3>1 DEF Accounted
  <2>3. CASE cache'[e] # {} /\ Accounted(e)
    <3>1. e \in excused => e \in excused'
      BY <1>1, <1>5, <2>3, ExcuseStays
    <3> QED BY <1>5, <2>3, <3>1 DEF Accounted
  <2>4. CASE cache[e] \subseteq Source(e) /\ Source(e)' = Source(e)
    BY <1>3, <2>4
  <2> QED BY <1>4, <2>1, <2>2, <2>3, <2>4
<1> QED BY <1>1, <1>2, <1>6, <1>7 DEF CopyInv

\* Without fills there are no entries and no request comes to store one.
LEMMA NoFills ==
  ASSUME IInv, CopyInv, "fill" \notin mix.ops, [Next]_vars, UNCHANGED mix
  PROVE  CopyInv'
<1>1. /\ \A e \in Entries : cache[e] = {}
      /\ \A r \in Requests : req[r].pc \notin FillPcs
  BY DEF CopyInv
<1> DEFINE Goes(r) == \E q : q.pc \notin FillPcs /\ Become(r, q)
           Empties == \A e \in Entries : cache'[e] = {}
<1>2. ASSUME NEW r \in Requests, Goes(r), Empties PROVE CopyInv'
  <2>1. PICK q : q.pc \notin FillPcs /\ Become(r, q)
    BY <1>2
  <2>2. req'[r] = q /\ \A s \in Requests \ {r} : req'[s] = req[s]
    BY <2>1 DEF Become, IInv, ReqOK
  <2>3. \A s \in Requests : req'[s].pc \notin FillPcs
    BY <1>1, <2>1, <2>2
  <2> QED BY <1>2, <2>3 DEF CopyInv
<1>3. ASSUME NEW r \in Requests, Step(r) PROVE CopyInv'
  <2>1. UNCHANGED cache => Empties
    BY <1>1
  <2>2. CASE \/ \E op \in AssignOps \cap mix.ops :
                  \E x \in To(op), S \in SUBSET Of(op) : AssignBegin(r, op, x, S)
             \/ CountRows(r) \/ Assign(r)
    <3>1. UNCHANGED cache
      BY <2>2 DEF AssignBegin, CountRows, Assign, Begin, Query
    <3>2. Goes(r)
      BY <2>2, AssignStep DEF AssignPcs, FillPcs
    <3> QED BY <1>2, <2>1, <3>1, <3>2
  <2>3. CASE \E op \in RemoveOps \cap mix.ops : \E x \in Removes(op) : RemoveBegin(r, op, x)
    <3>1. PICK op, x : RemoveBegin(r, op, x)
      BY <2>3
    <3> DEFINE pc == CASE op = "removeRole" -> "countUsers"
                       [] op = "removeMenu" -> "countChildren"
                       [] OTHER -> "remove"
               q  == [[IdleRequest EXCEPT !.about = x, !.pc = pc] EXCEPT !.op = op]
    <3>2. Become(r, q) /\ UNCHANGED cache
      BY <3>1 DEF RemoveBegin, Begin
    <3>3. q.pc \notin FillPcs
      BY DEF IdleRequest, FillPcs
    <3> HIDE DEF q
    <3> QED BY <1>2, <2>1, <3>2, <3>3
  <2>4. CASE CountUsers(r) \/ CountChildren(r) \/ Remove(r)
    <3> DEFINE q == [req[r] EXCEPT !.pc = "remove"]
    <3>1. UNCHANGED cache /\ (Become(r, IdleRequest) \/ Become(r, q))
      BY <2>4 DEF CountUsers, CountChildren, Remove, Query, Goto, Return
    <3>2. q.pc \notin FillPcs /\ IdleRequest.pc \notin FillPcs
      BY RequestOK DEF Request, FillPcs, IdleRequest
    <3> HIDE DEF q
    <3> QED BY <1>2, <2>1, <3>1, <3>2
  <2>5. CASE \/ \E p \in Menus \cup {NoMenu} : CreateBegin(r, p) \/ \E m \in Menus : MoveBegin(r, m, p)
             \/ \E m \in Menus : Create(r, m)
             \/ CheckParent(r) \/ AssertNoCycle(r) \/ Move(r)
    <3>1. UNCHANGED cache
      BY <2>5 DEF CreateBegin, MoveBegin, Create, CheckParent, AssertNoCycle, Move, Begin
    <3>2. Goes(r)
      BY <2>5, MenuStep DEF CreatePcs, MovePcs, FillPcs
    <3> QED BY <1>2, <2>1, <3>1, <3>2
  <2>6. CASE \E op \in WriteOps \cap mix.ops :
               \E x \in Writes(op), k \in Keys(op), v \in Data : WriteBegin(r, op, x, k, v)
    <3>1. PICK op, x, k, v : WriteBegin(r, op, x, k, v)
      BY <2>6
    <3> DEFINE q == [[IdleRequest EXCEPT !.pc = "write", !.about = x, !.key = k, !.value = v,
                       !.keys = EntriesOf(x, k)] EXCEPT !.op = op]
    <3>2. Become(r, q) /\ UNCHANGED cache
      BY <3>1 DEF WriteBegin, Begin
    <3>3. q.pc \notin FillPcs
      BY DEF IdleRequest, FillPcs
    <3> HIDE DEF q
    <3> QED BY <1>2, <2>1, <3>2, <3>3
  <2>7. CASE RefreshCache(r)
    <3> DEFINE q == [[IdleRequest EXCEPT !.pc = "del",
                       !.keys = {"config"} \X ({configKey[c] : c \in ConfigRows} \ {NoKey})]
                       EXCEPT !.op = "refreshCache"]
    <3>2. Become(r, q) /\ UNCHANGED cache
      BY <2>7 DEF RefreshCache, Begin
    <3>3. q.pc \notin FillPcs
      BY DEF IdleRequest, FillPcs
    <3> HIDE DEF q
    <3> QED BY <1>2, <2>1, <3>2, <3>3
  <2>8. CASE Write(r) \/ Del(r) \/ DelFails(r)
    <3>1. Return(r) \/ \E K : Delete(r, K)
      BY <2>8 DEF Write, Del, DelFails, Deleted
    <3>2. ASSUME NEW K, Delete(r, K) PROVE Goes(r)
      BY <3>2 DEF Delete, IdleRequest, FillPcs
    <3>3. Return(r) => Goes(r)
      BY DEF Return, IdleRequest, FillPcs
    <3>4. Empties
      BY <1>1, <2>8 DEF Write, Del, DelFails
    <3> QED BY <1>2, <3>1, <3>2, <3>3, <3>4
  <2>9. ~ \/ \E e \in Entries : FillBegin(r, e)
          \/ FillQuery(r) \/ FillLinks(r) \/ FillRows(r) \/ FillSet(r) \/ FillFails(r)
    BY <1>1 DEF FillBegin, Begin, FillQuery, FillLinks, FillRows, FillSet, FillFails, FillPcs
  <2> QED BY <1>3, <2>2, <2>3, <2>4, <2>5, <2>6, <2>7, <2>8, <2>9 DEF Step
<1>4. CASE Direct
  <2>1. UNCHANGED req /\ Empties
    BY <1>1, <1>4 DEF Direct, CreateRow, SetStatus, ConfigCreate, Expire
  <2> QED BY <1>1, <2>1 DEF CopyInv
<1>5. CASE UNCHANGED vars
  BY <1>1, <1>5 DEF CopyInv, vars
<1> QED BY <1>3, <1>4, <1>5 DEF Next

LEMMA MixStays == [Next]_vars => UNCHANGED mix
<1>1. ASSUME NEW r, Step(r) PROVE UNCHANGED mix
  BY <1>1 DEF Step, AssignBegin, CountRows, Assign, RemoveBegin, CountUsers, CountChildren, Remove,
     CreateBegin, MoveBegin, Create, CheckParent, AssertNoCycle, Move, WriteBegin, Write,
     RefreshCache, Del, DelFails, FillBegin, FillQuery, FillLinks, FillRows, FillSet, FillFails,
     Begin, Query
<1>2. Direct => UNCHANGED mix
  BY DEF Direct, CreateRow, SetStatus, ConfigCreate, Expire
<1> QED BY <1>1, <1>2 DEF Next, vars

LEMMA InitCopy == Init => CopyInv
<1> SUFFICES ASSUME Init PROVE CopyInv OBVIOUS
<1>1. \A r \in Requests : req[r] = IdleRequest
  BY DEF Init
<1>2. UpToDate(IdleRequest) /\ IdleRequest.pc \notin FillPcs
  BY DEF UpToDate, IdleRequest, FillPcs
<1>3. KeysUnique /\ \A e \in Entries : cache[e] = {}
  BY DEF Init, KeysUnique
<1> QED BY <1>1, <1>2, <1>3 DEF CopyInv

LEMMA NextCopy == IInv /\ CopyInv /\ [Next]_vars => CopyInv'
<1> SUFFICES ASSUME IInv, CopyInv, [Next]_vars, "fill" \in mix.ops PROVE CopyInv'
  BY NoFills, MixStays
<1>1. ASSUME NEW r \in Requests, Step(r) PROVE CopyInv'
  BY <1>1, AssignBeginCopy, AssignCopy, RemoveBeginCopy, CountsCopy, RemoveCopy, MenuChecksCopy,
     BuildCopy, WriteBeginCopy, WriteCopy, RefreshCacheCopy, DelCopy, FillBeginCopy, FillReadsCopy,
     FillSetCopy, FailsCopy DEF Step
<1>2. CASE UNCHANGED vars
  <2>1. UNCHANGED Tables /\ UNCHANGED <<mix, req, cache, late, excused>>
    BY <1>2 DEF vars
  <2>2. \A e : Source(e)' = Source(e) /\ ReadBy(e)' = ReadBy(e)
    BY <2>1, SameTables
  <2>3. \A x, k : EntriesOf(x, k)' = EntriesOf(x, k)
    BY <2>1 DEF EntriesOf, KeyOf, Tables
  <2>4. ASSUME NEW r \in Requests, UpToDate(req[r]) PROVE UpToDate(req[r])'
    BY <2>1, <2>2, <2>3, <2>4 DEF UpToDate
  <2>5. KeysUnique => KeysUnique'
    BY <2>1 DEF KeysUnique, Tables
  <2>6. \A e \in Entries : Accounted(e)' = Accounted(e)
    BY <2>1 DEF Accounted
  <2> QED BY <2>1, <2>2, <2>4, <2>5, <2>6 DEF CopyInv
<1> QED BY <1>1, <1>2, DirectCopy DEF Next

\* An entry of Redis agrees with the tables, or one of the reasons that the
\* code has for it to lag is there: for any number of requests that read,
\* write, delete and fail in any order.
THEOREM CopiesAreFresh == Spec => []FreshUnlessExcused
<1>1. CopyInv => FreshUnlessExcused
  BY DEF CopyInv, Accounted, FreshUnlessExcused
<1> QED BY <1>1, InitOK, NextOK, InitCopy, NextCopy, PTL DEF Spec
=============================================================================
