---------------------------- MODULE Dictionary -----------------------------
(***************************************************************************)
(* Dictionary types and items: DictTypeService and DictItemService.        *)
(*                                                                         *)
(* A step of a request is one query or transaction.  An item's transaction *)
(* has steps of its own when it takes the default from other items:        *)
(* updateMany sees the committed rows, waits for the row locks of other    *)
(* transactions, and holds its own until the commit.  A check of a unique  *)
(* code or value has no step: the unique index decides when the row is     *)
(* written.  Labels, colours, status and order are the member "edited" or  *)
(* "seed" of a row's data.                                                 *)
(***************************************************************************)
EXTENDS Naturals, FiniteSets

CONSTANTS
  Types, NoType, Codes,
  Items, NoItem, Values,
  Requests, \* requests that can be in progress at once
  OpMixes   \* what a behaviour may request: the operations, how many at once,
            \* and the values of isDefault they give

ASSUME DictionaryAssumption ==
  /\ NoType \notin Types /\ NoItem \notin Items
  /\ \A m \in OpMixes : m.atOnce \in Nat /\ m.wishes \subseteq {"yes", "no", "keep"}

VARIABLES
  mix,   \* what is requested in this behaviour
  type,  \* dict_types
  item,  \* dict_items
  req,   \* the requests in progress
  raced  \* <<"default", t>>: transactions that set the default of t overlapped;
         \* <<"type", t>>: the removal of t overlapped the creation of an item

dictVars == <<type, item, req, raced>>

-----------------------------------------------------------------------------
State   == {"absent", "live", "deleted"}
Content == {"seed", "edited"}

Type == [state : State, code : Codes, isSystem : BOOLEAN, data : Content]
Item == [state : State, of : Types \cup {NoType}, value : Values,
         isDefault : BOOLEAN, data : Content]

\* isDefault as a request gives it: "keep" when an update does not.
Wish == {"yes", "no", "keep"}

Request == [pc : {"idle", "updateType", "count", "removeType",
                  "clear", "lock", "write", "removeItem"},
            type : Types \cup {NoType}, item : Items \cup {NoItem},
            code : Codes, value : Values, isDefault : Wish,
            ids : SUBSET Items]

IdleRequest == [pc |-> "idle", type |-> NoType, item |-> NoItem,
                code |-> CHOOSE c \in Codes : TRUE, value |-> CHOOSE v \in Values : TRUE,
                isDefault |-> "keep", ids |-> {}]

DictTypeOK ==
  /\ mix \in OpMixes
  /\ type \in [Types -> Type]
  /\ item \in [Items -> Item]
  /\ req \in [Requests -> Request]
  /\ raced \subseteq {"default", "type"} \X Types

TypeFound(t) == type[t].state = "live"
ItemFound(i) == item[i].state = "live"
ItemsOf(t)   == {i \in Items : ItemFound(i) /\ item[i].of = t}
Defaults(t)  == {i \in ItemsOf(t) : item[i].isDefault}

\* The unique indexes of code and of type and value.
CodeFree(c, t)     == \A u \in Types \ {t} : TypeFound(u) => type[u].code # c
ValueFree(t, v, i) == \A j \in ItemsOf(t) \ {i} : item[j].value # v

\* The row locks of other transactions.
Locked(r) == UNION {req[q].ids : q \in {p \in Requests \ {r} : req[p].pc = "write"}}

InProgress(pcs, t) == {r \in Requests : req[r].pc \in pcs /\ req[r].type = t}

\* Requests on t that have looked at its default items.
Setting(t) == {r \in InProgress({"lock", "write"}, t) : req[r].isDefault = "yes"}

Become(r, q) == req' = [req EXCEPT ![r] = q]
Goto(r, pc)  == Become(r, [req[r] EXCEPT !.pc = pc])
Return(r)    == Become(r, IdleRequest)

\* A request may begin.
Idle(r) == /\ req[r].pc = "idle"
           /\ Cardinality({q \in Requests : req[q].pc # "idle"}) < mix.atOnce

-----------------------------------------------------------------------------
\* DictTypeService

CreateType(t, c) ==
  /\ "createType" \in mix.ops
  /\ type[t].state = "absent" /\ CodeFree(c, t)
  /\ type' = [type EXCEPT ![t] = [state |-> "live", code |-> c, isSystem |-> FALSE,
                                  data |-> "edited"]]
  /\ UNCHANGED <<mix, item, req, raced>>

UpdateTypeBegin(r, t, c) ==
  /\ "updateType" \in mix.ops /\ Idle(r)
  /\ TypeFound(t) /\ (type[t].isSystem => c = type[t].code)
  /\ Become(r, [IdleRequest EXCEPT !.pc = "updateType", !.type = t, !.code = c])
  /\ UNCHANGED <<mix, type, item, raced>>

UpdateType(r) ==
  /\ req[r].pc = "updateType"
  /\ LET t == req[r].type  c == req[r].code IN
     type' = IF TypeFound(t) /\ CodeFree(c, t)
             THEN [type EXCEPT ![t].code = c, ![t].data = "edited"] ELSE type
  /\ Return(r)
  /\ UNCHANGED <<mix, item, raced>>

RemoveTypeBegin(r, t) ==
  /\ "removeType" \in mix.ops /\ Idle(r)
  /\ TypeFound(t) /\ ~type[t].isSystem
  /\ Become(r, [IdleRequest EXCEPT !.pc = "count", !.type = t])
  /\ UNCHANGED <<mix, type, item, raced>>

\* Mutant: the items are not counted.
CountNoItems(r) ==
  /\ req[r].pc = "count"
  /\ Goto(r, "removeType")
  /\ raced' = IF InProgress({"clear", "lock", "write"}, req[r].type) = {} THEN raced
              ELSE raced \cup {<<"type", req[r].type>>}
  /\ UNCHANGED <<mix, type, item>>

\* An item being created is not counted.
CountItems(r) ==
  /\ req[r].pc = "count"
  /\ LET t == req[r].type IN
     /\ IF ItemsOf(t) = {} THEN Goto(r, "removeType") ELSE Return(r)
     /\ raced' = IF InProgress({"clear", "lock", "write"}, t) = {} THEN raced
                 ELSE raced \cup {<<"type", t>>}
  /\ UNCHANGED <<mix, type, item>>

RemoveType(r) ==
  /\ req[r].pc = "removeType"
  /\ type' = IF TypeFound(req[r].type)
             THEN [type EXCEPT ![req[r].type].state = "deleted"] ELSE type
  /\ Return(r)
  /\ UNCHANGED <<mix, item, raced>>

-----------------------------------------------------------------------------
\* DictItemService

\* A removal of the type that has counted does not count the item.
Created(t) == raced' = IF InProgress({"removeType"}, t) = {} THEN raced
                       ELSE raced \cup {<<"type", t>>}

\* Mutant: the other items keep the default.
WriteAtOnce(r, t, i, v, d) ==
  Become(r, [IdleRequest EXCEPT !.pc = "write",
               !.type = t, !.item = i, !.value = v, !.isDefault = d])

WriteItem(r, t, i, v, d) ==
  Become(r, [IdleRequest EXCEPT !.pc = IF d = "yes" THEN "clear" ELSE "write",
               !.type = t, !.item = i, !.value = v, !.isDefault = d])

CreateItemBegin(r, t, v, d) ==
  /\ "createItem" \in mix.ops /\ Idle(r) /\ d # "keep"
  /\ TypeFound(t)
  /\ WriteItem(r, t, NoItem, v, d)
  /\ Created(t)
  /\ UNCHANGED <<mix, type, item>>

UpdateItemBegin(r, i, v, d) ==
  /\ "updateItem" \in mix.ops /\ Idle(r)
  /\ ItemFound(i)
  /\ WriteItem(r, item[i].of, i, v, d)
  /\ UNCHANGED <<mix, type, item, raced>>

\* updateMany looks for the default items, waits for other transactions ...
ClearDefaults(r) ==
  /\ req[r].pc = "clear"
  /\ LET t   == req[r].type
         ids == Defaults(t) \ {req[r].item}
     IN  /\ Become(r, [req[r] EXCEPT !.pc = IF ids = {} THEN "write" ELSE "lock", !.ids = ids])
         /\ raced' = IF Setting(t) = {} THEN raced ELSE raced \cup {<<"default", t>>}
  /\ UNCHANGED <<mix, type, item>>

\* ... and changes those that still are.
LockDefaults(r) ==
  /\ req[r].pc = "lock" /\ req[r].ids \cap Locked(r) = {}
  /\ Become(r, [req[r] EXCEPT !.pc = "write", !.ids = @ \cap Defaults(req[r].type)])
  /\ UNCHANGED <<mix, type, item, raced>>

ClearedItems(ids) ==
  [j \in Items |-> IF j \in ids THEN [item[j] EXCEPT !.isDefault = FALSE] ELSE item[j]]

\* The row itself, and the commit.  Both changes are undone when it fails.
CreateItem(r, i) ==
  /\ req[r].pc = "write" /\ req[r].item = NoItem
  /\ item[i].state = "absent"
  /\ LET t == req[r].type IN
     item' = IF ValueFree(t, req[r].value, i)
             THEN [ClearedItems(req[r].ids) EXCEPT ![i] =
                     [state |-> "live", of |-> t, value |-> req[r].value,
                      isDefault |-> req[r].isDefault = "yes", data |-> "edited"]]
             ELSE item
  /\ Return(r)
  /\ UNCHANGED <<mix, type, raced>>

UpdateItem(r) ==
  /\ req[r].pc = "write" /\ req[r].item \in Items \ Locked(r)
  /\ LET i == req[r].item IN
     item' = IF ItemFound(i) /\ ValueFree(req[r].type, req[r].value, i)
             THEN [ClearedItems(req[r].ids) EXCEPT ![i].value = req[r].value,
                     ![i].isDefault = IF req[r].isDefault = "keep" THEN @ ELSE req[r].isDefault = "yes",
                     ![i].data = "edited"]
             ELSE item
  /\ Return(r)
  /\ UNCHANGED <<mix, type, raced>>

\* The transaction times out, or the database ends a deadlock with it.
Abort(r) ==
  /\ req[r].pc = "write" /\ req[r].isDefault = "yes"
  /\ Return(r)
  /\ UNCHANGED <<mix, type, item, raced>>

RemoveItemBegin(r, i) ==
  /\ "removeItem" \in mix.ops /\ Idle(r)
  /\ ItemFound(i) /\ ~type[item[i].of].isSystem
  /\ Become(r, [IdleRequest EXCEPT !.pc = "removeItem", !.item = i])
  /\ UNCHANGED <<mix, type, item, raced>>

RemoveItem(r) ==
  /\ req[r].pc = "removeItem" /\ req[r].item \notin Locked(r)
  /\ item' = IF ItemFound(req[r].item)
             THEN [item EXCEPT ![req[r].item].state = "deleted"] ELSE item
  /\ Return(r)
  /\ UNCHANGED <<mix, type, raced>>

-----------------------------------------------------------------------------
DictInit ==
  /\ mix \in OpMixes
  /\ type = [t \in Types |-> [state |-> "absent", code |-> CHOOSE c \in Codes : TRUE,
                              isSystem |-> FALSE, data |-> "seed"]]
  /\ item = [i \in Items |-> [state |-> "absent", of |-> NoType,
                              value |-> CHOOSE v \in Values : TRUE,
                              isDefault |-> FALSE, data |-> "seed"]]
  /\ req = [r \in Requests |-> IdleRequest]
  /\ raced = {}

DictNext ==
  \/ \E t \in Types, c \in Codes : CreateType(t, c)
  \/ \E r \in Requests :
       \/ \E t \in Types, c \in Codes : UpdateTypeBegin(r, t, c)
       \/ \E t \in Types : RemoveTypeBegin(r, t)
       \/ UpdateType(r) \/ CountItems(r) \/ RemoveType(r)
       \/ \E t \in Types, v \in Values, d \in mix.wishes : CreateItemBegin(r, t, v, d)
       \/ \E i \in Items, v \in Values, d \in mix.wishes : UpdateItemBegin(r, i, v, d)
       \/ \E i \in Items : CreateItem(r, i) \/ RemoveItemBegin(r, i)
       \/ ClearDefaults(r) \/ LockDefaults(r) \/ UpdateItem(r) \/ Abort(r) \/ RemoveItem(r)

-----------------------------------------------------------------------------
\* An item made the default takes it from the others in one transaction: a
\* type has one default item, unless two such transactions overlapped or the
\* seed came on top of an administrator's default.
OneDefault ==
  \A t \in Types : <<"default", t>> \in raced \/ Cardinality(Defaults(t)) <= 1

\* A type is removed when it has no items: a live item has a live type, unless
\* the removal overlapped the item's creation.
ItemsHaveTypes ==
  \A i \in Items : ItemFound(i) => TypeFound(item[i].of) \/ <<"type", item[i].of>> \in raced
=============================================================================
