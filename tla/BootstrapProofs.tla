-------------------------- MODULE BootstrapProofs ---------------------------
(* Proofs about Bootstrap and the dictionaries it shares, for every value  *)
(* of the constants.                                                       *)
EXTENDS Bootstrap, FiniteSetTheorems, TLAPS

-----------------------------------------------------------------------------
(* The inductive invariant.                                                *)

TypePcs == {"updateType", "count", "removeType"}
ItemPcs == {"clear", "lock", "write"}

\* What a request is about exists, or did; an item that is or was there has
\* a type.
Aimed ==
  /\ \A r \in Requests :
       /\ req[r].pc \in TypePcs => req[r].type \in Types /\ type[req[r].type].state # "absent"
       /\ req[r].pc \in ItemPcs => req[r].type \in Types
       /\ req[r].pc = "removeItem" => req[r].item \in Items
  /\ \A i \in Items : item[i].state # "absent" => item[i].of \in Types

Raced(t)     == <<"type", t>> \in raced
Creates(q)   == req[q].pc \in ItemPcs /\ req[q].item = NoItem
Inhabits(t)  == \E i \in Items : ItemFound(i) /\ item[i].of = t

\* An item that is being created has a type, and a type that is about to be
\* removed has no items and gets none, unless the two overlapped.
CreatesHaveType ==
  \A q \in Requests : Creates(q) => TypeFound(req[q].type) \/ Raced(req[q].type)

RemovalsAlone ==
  \A r \in Requests : req[r].pc = "removeType" =>
    \/ Raced(req[r].type)
    \/ /\ ~Inhabits(req[r].type)
       /\ \A q \in Requests : Creates(q) => req[q].type # req[r].type

\* What requests do to a type that is marked isSystem.
SystemTypesStay ==
  \A r \in Requests :
    /\ req[r].pc = "updateType" /\ type[req[r].type].isSystem
         => req[r].code = type[req[r].type].code
    /\ req[r].pc \in {"count", "removeType"} => ~type[req[r].type].isSystem

\* The code of the seed's type is nobody else's: requests are served when
\* there is a seed.
SeedIsSystem == \A t \in Types : TypeFound(t) /\ type[t].code = SeedCode => type[t].isSystem

RunningHasAdmin == \A b \in Procs : boot[b].pc = "running" => admin

\* A row that a transaction has found is still there when it commits.
FoundStays ==
  \A b \in Procs : boot[b].pc = "commit" =>
    \A x \in SystemRows : x \notin boot[b].missing => row[x] # "absent"

Parts == /\ Aimed /\ CreatesHaveType /\ RemovalsAlone /\ SystemTypesStay
         /\ SeedIsSystem /\ RunningHasAdmin /\ FoundStays
         /\ ItemsHaveTypes /\ SystemDataStays

IInv == TypeOK /\ Parts

-----------------------------------------------------------------------------
\* A request that has not begun.
LEMMA Beginning == IdleRequest \in Request /\ IdleRequest.pc = "idle"
  BY BootstrapAssumption DEF IdleRequest, Request, Wish

LEMMA Initially == Init => IInv
<1> SUFFICES ASSUME Init PROVE IInv
  OBVIOUS
<1>1. IdleRequest \in Request /\ IdleRequest.pc = "idle"
  BY BootstrapAssumption DEF IdleRequest, Request, Wish
<1>2. TypeOK
  <2>1. type \in [Types -> Type] /\ item \in [Items -> Item]
    BY BootstrapAssumption DEF Init, DictInit, Type, Item, State, Content
  <2>2. req \in [Requests -> Request] /\ raced = {} /\ mix \in OpMixes
    BY <1>1 DEF Init, DictInit
  <2>3. boot \in [Procs -> Seeding]
    BY DEF Init, Down, Seeding
  <2> QED BY <2>1, <2>2, <2>3 DEF Init, TypeOK, DictTypeOK, Content
<1>3. Aimed /\ CreatesHaveType /\ RemovalsAlone /\ SystemTypesStay
  BY <1>1 DEF Init, DictInit, Aimed, CreatesHaveType, RemovalsAlone, SystemTypesStay, Creates,
     TypePcs, ItemPcs
<1>4. SeedIsSystem /\ ItemsHaveTypes
  BY DEF Init, DictInit, SeedIsSystem, ItemsHaveTypes, TypeFound, ItemFound
<1>5. RunningHasAdmin /\ FoundStays /\ SystemDataStays
  BY DEF Init, RunningHasAdmin, FoundStays, SystemDataStays, Down
<1> QED BY <1>2, <1>3, <1>4, <1>5 DEF IInv, Parts

LEMMA Summed == IInv => TypeOK /\ ItemsHaveTypes /\ SystemDataStays
  BY DEF IInv, Parts

-----------------------------------------------------------------------------
(* Steps that change a request, and may find an overlap.                   *)

\* A request r may become q: what the invariant says of q.
MayBecome(r, q, overlaps) ==
  /\ q.pc \in TypePcs => q.type \in Types /\ type[q.type].state # "absent"
  /\ q.pc \in ItemPcs => q.type \in Types
  /\ q.pc = "removeItem" => q.item \in Items
  /\ q.pc \in ItemPcs /\ q.item = NoItem =>
       /\ TypeFound(q.type) \/ <<"type", q.type>> \in overlaps
       /\ \A p \in Requests \ {r} :
            req[p].pc = "removeType" /\ req[p].type = q.type => <<"type", q.type>> \in overlaps
  /\ q.pc = "removeType" =>
       \/ <<"type", q.type>> \in overlaps
       \/ /\ ~Inhabits(q.type)
          /\ \A p \in Requests \ {r} : Creates(p) => req[p].type # q.type
  /\ q.pc = "updateType" /\ type[q.type].isSystem => q.code = type[q.type].code
  /\ q.pc \in {"count", "removeType"} => ~type[q.type].isSystem

LEMMA BecomeKeeps ==
  ASSUME IInv, NEW r \in Requests, NEW q \in Request,
         Become(r, q), MayBecome(r, q, raced'),
         raced \subseteq raced', raced' \subseteq {"default", "type"} \X Types,
         UNCHANGED <<mix, type, item, sysVars, boot>>
  PROVE  IInv'
<1> USE DEF IInv, Parts, TypeOK, DictTypeOK, Become, MayBecome, sysVars
<1>1. \A p \in Requests : req'[p] = IF p = r THEN q ELSE req[p]
  OBVIOUS
<1>2. TypeOK'
  BY <1>1
<1>3. Aimed'
  BY <1>1 DEF Aimed
<1>4. CreatesHaveType'
  BY <1>1 DEF CreatesHaveType, Creates, Raced, TypeFound
<1>5. RemovalsAlone'
  <2>1. ASSUME NEW p \in Requests, req'[p].pc = "removeType",
               <<"type", req'[p].type>> \notin raced'
        PROVE  \A i \in Items : ~(ItemFound(i) /\ item[i].of = req'[p].type)
    BY <1>1, <2>1 DEF RemovalsAlone, Raced, Inhabits
  <2>2. ASSUME NEW p \in Requests, req'[p].pc = "removeType",
               <<"type", req'[p].type>> \notin raced',
               NEW c \in Requests, req'[c].pc \in ItemPcs, req'[c].item = NoItem
        PROVE  req'[c].type # req'[p].type
    <3>1. p # c
      BY <2>2 DEF ItemPcs
    <3>2. CASE p = r
      BY <1>1, <2>2, <3>1, <3>2 DEF Creates
    <3>3. CASE c = r
      BY <1>1, <2>2, <3>1, <3>3
    <3>4. CASE p # r /\ c # r
      <4>1. Creates(c) /\ ~Raced(req[p].type) /\ req[p].pc = "removeType"
        BY <1>1, <2>2, <3>4 DEF Creates, Raced
      <4>2. req[c].type # req[p].type
        BY <4>1 DEF RemovalsAlone
      <4> QED BY <1>1, <3>4, <4>2
    <3> QED BY <3>2, <3>3, <3>4
  <2> QED BY <2>1, <2>2 DEF RemovalsAlone, Raced, Inhabits, ItemFound, Creates
<1>6. SystemTypesStay'
  BY <1>1 DEF SystemTypesStay
<1>7. SeedIsSystem' /\ RunningHasAdmin' /\ FoundStays'
  BY DEF SeedIsSystem, RunningHasAdmin, FoundStays, TypeFound
<1>8. ItemsHaveTypes'
  BY DEF ItemsHaveTypes, ItemFound, TypeFound
<1>9. SystemDataStays'
  BY DEF SystemDataStays, SeedTypes, TypeFound
<1> QED BY <1>2, <1>3, <1>4, <1>5, <1>6, <1>7, <1>8, <1>9

\* A request that is refused, or fails, does no harm.
LEMMA ReturnKeeps ==
  ASSUME IInv, NEW r \in Requests, Return(r), UNCHANGED <<mix, type, item, raced, sysVars, boot>>
  PROVE  IInv'
<1>1. IdleRequest \in Request /\ IdleRequest.pc = "idle"
  BY Beginning
<1>2. MayBecome(r, IdleRequest, raced')
  BY <1>1 DEF MayBecome, TypePcs, ItemPcs
<1>3. raced \subseteq raced' /\ raced' \subseteq {"default", "type"} \X Types
  BY DEF IInv, TypeOK, DictTypeOK
<1> QED BY <1>1, <1>2, <1>3, BecomeKeeps DEF Return

LEMMA TypeBeginKeeps ==
  ASSUME IInv, NEW r \in Requests, NEW t \in Types, NEW c \in Codes,
         UNCHANGED <<sysVars, boot>>,
         UpdateTypeBegin(r, t, c) \/ RemoveTypeBegin(r, t)
  PROVE  IInv'
<1>1. raced \subseteq {"default", "type"} \X Types
  BY DEF IInv, TypeOK, DictTypeOK
<1>2. CASE UpdateTypeBegin(r, t, c)
  <2> DEFINE q == [IdleRequest EXCEPT !.pc = "updateType", !.type = t, !.code = c]
  <2>1. q \in Request /\ q.pc = "updateType" /\ q.type = t /\ q.code = c
    BY Beginning DEF Request
  <2>2. MayBecome(r, q, raced')
    BY <1>2, <2>1 DEF MayBecome, UpdateTypeBegin, TypeFound, TypePcs, ItemPcs
  <2> QED BY <1>1, <1>2, <2>1, <2>2, BecomeKeeps DEF UpdateTypeBegin
<1>3. CASE RemoveTypeBegin(r, t)
  <2> DEFINE q == [IdleRequest EXCEPT !.pc = "count", !.type = t]
  <2>1. q \in Request /\ q.pc = "count" /\ q.type = t
    BY Beginning DEF Request
  <2>2. MayBecome(r, q, raced')
    BY <1>3, <2>1 DEF MayBecome, RemoveTypeBegin, TypeFound, TypePcs, ItemPcs
  <2> QED BY <1>1, <1>3, <2>1, <2>2, BecomeKeeps DEF RemoveTypeBegin
<1> QED BY <1>2, <1>3

\* An overlap with the creation of an item is noticed by whoever comes second.
LEMMA CountItemsKeeps ==
  ASSUME IInv, NEW r \in Requests, UNCHANGED <<sysVars, boot>>, CountItems(r)
  PROVE  IInv'
<1> DEFINE t == req[r].type
<1>1. /\ req[r] \in Request /\ req[r].pc = "count" /\ t \in Types
      /\ type[t].state # "absent" /\ ~type[t].isSystem
      /\ raced \subseteq {"default", "type"} \X Types
  BY DEF IInv, Parts, TypeOK, DictTypeOK, CountItems, Aimed, TypePcs, SystemTypesStay
<1>2. /\ raced \subseteq raced' /\ raced' \subseteq {"default", "type"} \X Types
      /\ \A p \in Requests : Creates(p) /\ req[p].type = t => <<"type", t>> \in raced'
  BY <1>1 DEF CountItems, InProgress, Creates, ItemPcs
<1>3. CASE ItemsOf(t) = {}
  <2> DEFINE q == [req[r] EXCEPT !.pc = "removeType"]
  <2>1. q \in Request /\ q.pc = "removeType" /\ q.type = t
    BY <1>1 DEF Request
  <2>2. ~Inhabits(t)
    BY <1>3 DEF Inhabits, ItemsOf
  <2>3. MayBecome(r, q, raced')
    BY <1>1, <1>2, <2>1, <2>2 DEF MayBecome, TypePcs, ItemPcs
  <2> QED BY <1>2, <1>3, <2>1, <2>3, BecomeKeeps DEF CountItems, Goto
<1>4. CASE ItemsOf(t) # {}
  <2>1. MayBecome(r, IdleRequest, raced')
    BY Beginning DEF MayBecome, TypePcs, ItemPcs
  <2> QED BY <1>2, <1>4, <2>1, Beginning, BecomeKeeps DEF CountItems, Return
<1> QED BY <1>3, <1>4

LEMMA ItemBeginKeeps ==
  ASSUME IInv, NEW r \in Requests, NEW v \in Values, NEW d \in Wish,
         UNCHANGED <<sysVars, boot>>,
         \/ \E t \in Types : CreateItemBegin(r, t, v, d)
         \/ \E i \in Items : UpdateItemBegin(r, i, v, d)
  PROVE  IInv'
<1>1. raced \subseteq {"default", "type"} \X Types
  BY DEF IInv, TypeOK, DictTypeOK
<1> DEFINE q(t, i) == [IdleRequest EXCEPT !.pc = IF d = "yes" THEN "clear" ELSE "write",
                         !.type = t, !.item = i, !.value = v, !.isDefault = d]
<1>2. ASSUME NEW t \in Types, CreateItemBegin(r, t, v, d) PROVE IInv'
  <2>1. /\ raced \subseteq raced' /\ raced' \subseteq {"default", "type"} \X Types
        /\ \A p \in Requests : req[p].pc = "removeType" /\ req[p].type = t
             => <<"type", t>> \in raced'
    BY <1>1, <1>2 DEF CreateItemBegin, Created, InProgress
  <2> DEFINE new == q(t, NoItem)
  <2>2. new \in Request /\ new.pc \in {"clear", "write"} /\ new.type = t
    BY Beginning DEF Request
  <2>3. Become(r, new)
    BY <1>2 DEF CreateItemBegin, WriteItem
  <2> HIDE DEF new
  <2>4. MayBecome(r, new, raced')
    BY <1>2, <2>1, <2>2 DEF MayBecome, CreateItemBegin, TypePcs, ItemPcs
  <2> QED BY <1>2, <2>1, <2>2, <2>3, <2>4, BecomeKeeps DEF CreateItemBegin
<1>3. ASSUME NEW i \in Items, UpdateItemBegin(r, i, v, d) PROVE IInv'
  <2>1. i # NoItem
    BY DictionaryAssumption
  <2>2. item[i].of \in Types
    BY <1>3 DEF UpdateItemBegin, ItemFound, IInv, Parts, Aimed
  <2> DEFINE new == q(item[i].of, i)
  <2>3. /\ new \in Request /\ new.pc \in {"clear", "write"}
        /\ new.type \in Types /\ new.item # NoItem
    BY <2>1, <2>2, Beginning DEF Request
  <2>4. Become(r, new)
    BY <1>3 DEF UpdateItemBegin, WriteItem
  <2> HIDE DEF new
  <2>5. MayBecome(r, new, raced')
    BY <2>3 DEF MayBecome, TypePcs, ItemPcs
  <2> QED BY <1>1, <1>3, <2>3, <2>4, <2>5, BecomeKeeps DEF UpdateItemBegin
<1> QED BY <1>2, <1>3

LEMMA RemoveItemBeginKeeps ==
  ASSUME IInv, NEW r \in Requests, NEW i \in Items, UNCHANGED <<sysVars, boot>>,
         RemoveItemBegin(r, i)
  PROVE  IInv'
<1> DEFINE q == [IdleRequest EXCEPT !.pc = "removeItem", !.item = i]
<1>1. q \in Request /\ q.pc = "removeItem" /\ q.item = i
  BY Beginning DEF Request
<1>2. MayBecome(r, q, raced')
  BY <1>1 DEF MayBecome, TypePcs, ItemPcs
<1> QED BY <1>1, <1>2, BecomeKeeps DEF RemoveItemBegin, IInv, TypeOK, DictTypeOK

\* The transaction that takes the default goes on with its type and its item.
LEMMA DefaultsKeep ==
  ASSUME IInv, NEW r \in Requests, UNCHANGED <<sysVars, boot>>,
         ClearDefaults(r) \/ LockDefaults(r)
  PROVE  IInv'
<1>1. /\ req[r] \in Request /\ req[r].type \in Types /\ req[r].pc \in {"clear", "lock"}
      /\ raced \subseteq {"default", "type"} \X Types
  BY DEF IInv, Parts, TypeOK, DictTypeOK, Aimed, ItemPcs, ClearDefaults, LockDefaults
<1>2. raced \subseteq raced' /\ raced' \subseteq {"default", "type"} \X Types
  BY <1>1 DEF ClearDefaults, LockDefaults
<1>3. ASSUME NEW pc \in {"lock", "write"}, NEW ids \in SUBSET Items
      PROVE  /\ [req[r] EXCEPT !.pc = pc, !.ids = ids] \in Request
             /\ MayBecome(r, [req[r] EXCEPT !.pc = pc, !.ids = ids], raced')
  <2> DEFINE q == [req[r] EXCEPT !.pc = pc, !.ids = ids]
  <2>1. q \in Request /\ q.pc = pc /\ q.type = req[r].type /\ q.item = req[r].item
    BY <1>1 DEF Request
  <2>2. q.item = NoItem => Creates(r)
    BY <1>1, <2>1 DEF Creates, ItemPcs
  <2>3. q.item = NoItem => TypeFound(q.type) \/ <<"type", q.type>> \in raced'
    BY <1>2, <2>1, <2>2 DEF IInv, Parts, CreatesHaveType, Raced
  <2>4. \A p \in Requests :
          q.item = NoItem /\ req[p].pc = "removeType" /\ req[p].type = q.type
            => <<"type", q.type>> \in raced'
    BY <1>2, <2>1, <2>2 DEF IInv, Parts, RemovalsAlone, Raced
  <2>5. MayBecome(r, q, raced')
    BY <1>1, <2>1, <2>3, <2>4 DEF MayBecome, TypePcs, ItemPcs
  <2> QED BY <2>1, <2>5
<1>4. CASE ClearDefaults(r)
  <2>1. Defaults(req[r].type) \ {req[r].item} \in SUBSET Items
    BY DEF Defaults, ItemsOf
  <2> QED BY <1>2, <1>3, <1>4, <2>1, BecomeKeeps DEF ClearDefaults
<1>5. CASE LockDefaults(r)
  <2>1. req[r].ids \cap Defaults(req[r].type) \in SUBSET Items
    BY DEF Defaults, ItemsOf
  <2> QED BY <1>2, <1>3, <1>5, <2>1, BecomeKeeps DEF LockDefaults
<1> QED BY <1>4, <1>5

LEMMA AbortKeeps ==
  ASSUME IInv, NEW r \in Requests, UNCHANGED <<sysVars, boot>>, Abort(r)
  PROVE  IInv'
  BY ReturnKeeps DEF Abort

-----------------------------------------------------------------------------
(* Steps that write types.                                                 *)

USE DEF IInv, Parts, TypeOK, DictTypeOK, sysVars

\* With a seed there is no room for another type of its code.
LEMMA CreateTypeKeeps ==
  ASSUME IInv, admin, NEW t \in Types, NEW c \in Codes, UNCHANGED <<sysVars, boot>>,
         CreateType(t, c)
  PROVE  IInv'
<1> DEFINE new == [state |-> "live", code |-> c, isSystem |-> FALSE, data |-> "edited"]
<1>1. /\ type[t].state = "absent" /\ c # SeedCode
      /\ type' = [type EXCEPT ![t] = new]
      /\ UNCHANGED <<mix, item, req, raced>>
  BY DEF CreateType, CodeFree, SystemDataStays, SeedTypes, TypeFound
<1>2. type' \in [Types -> Type]
  BY <1>1 DEF Type, State, Content
<1>3. \A u \in Types : type'[u] = IF u = t THEN new ELSE type[u]
  BY <1>1
<1>4. TypeOK'
  BY <1>1, <1>2
<1>5. Aimed'
  BY <1>1, <1>3 DEF Aimed, TypePcs
<1>6. CreatesHaveType' /\ RemovalsAlone'
  BY <1>1, <1>3 DEF CreatesHaveType, RemovalsAlone, Creates, Inhabits, Raced, TypeFound,
     ItemFound, Aimed
<1>7. SystemTypesStay'
  BY <1>1, <1>3 DEF SystemTypesStay, Aimed, TypePcs
<1>8. SeedIsSystem' /\ SystemDataStays'
  BY <1>1, <1>3 DEF SeedIsSystem, SystemDataStays, SeedTypes, TypeFound
<1>9. RunningHasAdmin' /\ FoundStays' /\ ItemsHaveTypes'
  BY <1>1, <1>3 DEF RunningHasAdmin, FoundStays, ItemsHaveTypes, ItemFound, TypeFound, Aimed
<1> QED BY <1>4, <1>5, <1>6, <1>7, <1>8, <1>9

\* A write to t by r, after which r is idle.
LEMMA WriteTypeKeeps ==
  ASSUME IInv, NEW r \in Requests, NEW new \in Type, UNCHANGED <<sysVars, boot>>,
         req[r].pc \in TypePcs, Return(r),
         type' = [type EXCEPT ![req[r].type] = new],
         new.state # "absent",
         new.isSystem = type[req[r].type].isSystem,
         type[req[r].type].isSystem => new.state = type[req[r].type].state
                                       /\ new.code = type[req[r].type].code,
         ~new.isSystem /\ new.state = "live" => new.code # SeedCode,
         new.state # "live" => req[r].pc = "removeType",
         UNCHANGED <<mix, item, raced>>
  PROVE  IInv'
<1> DEFINE t == req[r].type
<1>1. t \in Types /\ type[t].state # "absent"
  BY DEF Aimed
<1>2. /\ \A u \in Types : type'[u] = IF u = t THEN new ELSE type[u]
      /\ \A p \in Requests : req'[p] = IF p = r THEN IdleRequest ELSE req[p]
  BY <1>1 DEF Return, Become
<1>3. TypeOK'
  BY <1>1, Beginning DEF Return, Become
<1>4. Aimed'
  BY <1>1, <1>2, Beginning DEF Aimed, TypePcs, ItemPcs
<1>5. CreatesHaveType'
  <2> SUFFICES ASSUME NEW p \in Requests, Creates(p)'
               PROVE  TypeFound(req[p].type)' \/ Raced(req[p].type)'
    BY <1>2, Beginning DEF CreatesHaveType, Creates, ItemPcs
  <2>1. p # r /\ Creates(p) /\ req'[p] = req[p] /\ req[p].type \in Types
    BY <1>2, Beginning DEF Creates, ItemPcs, Aimed
  <2>2. new.state = "live" \/ req[p].type # t \/ Raced(t)
    BY <2>1 DEF RemovalsAlone
  <2> QED BY <1>2, <2>1, <2>2 DEF CreatesHaveType, TypeFound, Raced
<1>6. RemovalsAlone'
  BY <1>2, Beginning DEF RemovalsAlone, Creates, Inhabits, Raced, ItemFound, ItemPcs
<1>7. SystemTypesStay'
  BY <1>1, <1>2, Beginning DEF SystemTypesStay, Aimed, TypePcs
<1>8. SeedIsSystem'
  BY <1>1, <1>2 DEF SeedIsSystem, TypeFound
<1>9. SystemDataStays'
  BY <1>1, <1>2 DEF SystemDataStays, SeedTypes, TypeFound
<1>10. ItemsHaveTypes'
  BY <1>1, <1>2 DEF ItemsHaveTypes, RemovalsAlone, Inhabits, Raced, ItemFound, TypeFound, Aimed
<1>11. RunningHasAdmin' /\ FoundStays'
  BY DEF RunningHasAdmin, FoundStays
<1> QED BY <1>3, <1>4, <1>5, <1>6, <1>7, <1>8, <1>9, <1>10, <1>11

LEMMA UpdateTypeKeeps ==
  ASSUME IInv, admin, NEW r \in Requests, UNCHANGED <<sysVars, boot>>, UpdateType(r)
  PROVE  IInv'
<1> DEFINE t == req[r].type
           new == [type[t] EXCEPT !.code = req[r].code, !.data = "edited"]
<1>1. /\ req[r].pc = "updateType" /\ t \in Types
      /\ type[t] \in Type /\ req[r].code \in Codes
  BY DEF UpdateType, Aimed, TypePcs, Request
<1>2. CASE TypeFound(t) /\ CodeFree(req[r].code, t)
  <2>1. /\ new \in Type /\ new.state = "live" /\ new.isSystem = type[t].isSystem
        /\ new.code = req[r].code
    BY <1>1, <1>2 DEF Type, Content, TypeFound
  <2>2. ~new.isSystem => new.code # SeedCode
    BY <1>1, <1>2, <2>1 DEF CodeFree, SystemDataStays, SeedTypes, TypeFound, SeedIsSystem
  <2>3. type[t].isSystem => new.code = type[t].code
    BY <1>1, <2>1 DEF SystemTypesStay
  <2>4. type' = [type EXCEPT ![t] = new]
    BY <1>1, <1>2 DEF UpdateType
  <2> HIDE DEF new
  <2> QED BY <1>1, <1>2, <2>1, <2>2, <2>3, <2>4, WriteTypeKeeps
             DEF UpdateType, TypePcs, TypeFound
<1>3. CASE ~(TypeFound(t) /\ CodeFree(req[r].code, t))
  BY <1>3, ReturnKeeps DEF UpdateType
<1> QED BY <1>2, <1>3

LEMMA RemoveTypeKeeps ==
  ASSUME IInv, NEW r \in Requests, UNCHANGED <<sysVars, boot>>, RemoveType(r)
  PROVE  IInv'
<1> DEFINE t == req[r].type
           new == [type[t] EXCEPT !.state = "deleted"]
<1>1. req[r].pc = "removeType" /\ t \in Types /\ ~type[t].isSystem
  BY DEF RemoveType, Aimed, TypePcs, SystemTypesStay
<1>2. CASE TypeFound(t)
  <2>1. new \in Type /\ new.state = "deleted" /\ new.isSystem = type[t].isSystem
    BY <1>1 DEF Type, State
  <2>2. type' = [type EXCEPT ![t] = new]
    BY <1>1, <1>2 DEF RemoveType
  <2> HIDE DEF new
  <2> QED BY <1>1, <2>1, <2>2, WriteTypeKeeps DEF RemoveType, TypePcs
<1>3. CASE ~TypeFound(t)
  BY <1>3, ReturnKeeps DEF RemoveType
<1> QED BY <1>2, <1>3

-----------------------------------------------------------------------------
(* Steps that write items.                                                 *)

\* A write by r, after which r is idle: an item is only made by a request
\* that creates one, and items stay in their types.
LEMMA WriteItemsKeeps ==
  ASSUME IInv, NEW r \in Requests, UNCHANGED <<sysVars, boot>>,
         Return(r), item' \in [Items -> Item],
         \A i \in Items : item[i].state # "absent" =>
           item'[i].of = item[i].of /\ (ItemFound(i)' => ItemFound(i)),
         \A i \in Items : item[i].state = "absent" /\ item'[i].state # "absent" =>
           Creates(r) /\ item'[i].of = req[r].type,
         UNCHANGED <<mix, type, raced>>
  PROVE  IInv'
<1>1. /\ Creates(r) => req[r].type \in Types
      /\ \A p \in Requests : req'[p] = IF p = r THEN IdleRequest ELSE req[p]
  BY DEF Return, Become, Creates, Aimed
<1>2. TypeOK'
  BY Beginning DEF Return, Become
<1>3. Aimed'
  BY <1>1, Beginning DEF Aimed, TypePcs, ItemPcs
<1>4. CreatesHaveType'
  BY <1>1, Beginning DEF CreatesHaveType, Creates, Raced, TypeFound, ItemPcs
<1>5. RemovalsAlone'
  <2> SUFFICES ASSUME NEW p \in Requests, req'[p].pc = "removeType",
                      <<"type", req'[p].type>> \notin raced'
               PROVE  /\ \A i \in Items : ~(ItemFound(i)' /\ item'[i].of = req'[p].type)
                      /\ \A q \in Requests : Creates(q)' => req'[q].type # req'[p].type
    BY DEF RemovalsAlone, Raced, Inhabits
  <2>1. p # r /\ req'[p] = req[p] /\ req[p].pc = "removeType" /\ ~Raced(req[p].type)
    BY <1>1, Beginning DEF Raced
  <2>2. ~Inhabits(req[p].type) /\ \A q \in Requests : Creates(q) => req[q].type # req[p].type
    BY <2>1 DEF RemovalsAlone
  <2>3. \A i \in Items : ~(ItemFound(i)' /\ item'[i].of = req[p].type)
    BY <2>2 DEF Inhabits, ItemFound
  <2>4. \A q \in Requests : Creates(q)' => req'[q].type # req[p].type
    BY <1>1, <2>2, Beginning DEF Creates, ItemPcs
  <2> QED BY <2>1, <2>3, <2>4
<1>6. SystemTypesStay'
  BY <1>1, Beginning DEF SystemTypesStay
<1>7. ItemsHaveTypes'
  BY <1>1 DEF ItemsHaveTypes, CreatesHaveType, Raced, ItemFound, TypeFound, Aimed
<1>8. SeedIsSystem' /\ SystemDataStays'
  BY DEF SeedIsSystem, SystemDataStays, SeedTypes, TypeFound
<1>9. RunningHasAdmin' /\ FoundStays'
  BY DEF RunningHasAdmin, FoundStays
<1> QED BY <1>2, <1>3, <1>4, <1>5, <1>6, <1>7, <1>8, <1>9

\* What a transaction does to the items it takes the default from.
LEMMA Clearing ==
  ASSUME IInv, NEW ids
  PROVE  /\ ClearedItems(ids) \in [Items -> Item]
         /\ \A i \in Items : ClearedItems(ids)[i].state = item[i].state
                             /\ ClearedItems(ids)[i].of = item[i].of
  BY DEF ClearedItems, Item

LEMMA CreateItemKeeps ==
  ASSUME IInv, NEW r \in Requests, NEW i \in Items, UNCHANGED <<sysVars, boot>>,
         CreateItem(r, i)
  PROVE  IInv'
<1> DEFINE new == [state |-> "live", of |-> req[r].type, value |-> req[r].value,
                   isDefault |-> req[r].isDefault = "yes", data |-> "edited"]
<1>1. Creates(r) /\ item[i].state = "absent" /\ req[r].type \in Types
  BY DEF CreateItem, Creates, ItemPcs, Aimed
<1>2. new \in Item /\ new.of = req[r].type
  BY <1>1 DEF Item, State, Content, Request
<1>3. item' = item \/ item' = [ClearedItems(req[r].ids) EXCEPT ![i] = new]
  BY DEF CreateItem
<1> HIDE DEF new
<1>4. /\ item' \in [Items -> Item]
      /\ \A j \in Items \ {i} : item'[j].state = item[j].state /\ item'[j].of = item[j].of
      /\ item'[i].state # "absent" => item'[i].of = req[r].type
  BY <1>1, <1>2, <1>3, Clearing
<1> QED BY <1>1, <1>4, WriteItemsKeeps DEF CreateItem, ItemFound

LEMMA UpdateItemKeeps ==
  ASSUME IInv, NEW r \in Requests, UNCHANGED <<sysVars, boot>>, UpdateItem(r)
  PROVE  IInv'
<1> DEFINE i == req[r].item
           old == ClearedItems(req[r].ids)
           d == IF req[r].isDefault = "keep" THEN old[i].isDefault ELSE req[r].isDefault = "yes"
           new == [old[i] EXCEPT !.value = req[r].value, !.isDefault = d, !.data = "edited"]
<1>1. i \in Items /\ req[r].value \in Values
  BY DEF UpdateItem, Request
<1>2. old \in [Items -> Item]
  BY Clearing
<1>3. new \in Item /\ new.state = old[i].state /\ new.of = old[i].of
  <2>1. old[i] \in Item /\ d \in BOOLEAN
    BY <1>1, <1>2 DEF Item
  <2> HIDE DEF d, old, i
  <2> QED BY <1>1, <2>1 DEF Item, Content
<1>4. item' = item \/ item' = [old EXCEPT ![i] = new]
  BY <1>1, <1>2 DEF UpdateItem
<1> HIDE DEF new
<1>5. /\ item' \in [Items -> Item]
      /\ \A j \in Items : item'[j].state = item[j].state /\ item'[j].of = item[j].of
  BY <1>1, <1>2, <1>3, <1>4, Clearing
<1> QED BY <1>5, WriteItemsKeeps DEF UpdateItem, ItemFound

LEMMA RemoveItemKeeps ==
  ASSUME IInv, NEW r \in Requests, UNCHANGED <<sysVars, boot>>, RemoveItem(r)
  PROVE  IInv'
<1>1. req[r].item \in Items
  BY DEF RemoveItem, Aimed
<1>2. /\ item' \in [Items -> Item]
      /\ \A j \in Items : item'[j].of = item[j].of /\ (ItemFound(j)' => ItemFound(j))
                          /\ (item[j].state = "absent" => item'[j].state = "absent")
  BY <1>1 DEF RemoveItem, Item, State, ItemFound
<1> QED BY <1>2, WriteItemsKeeps DEF RemoveItem

LEMMA DictKeeps ==
  ASSUME IInv, admin, DictNext, UNCHANGED <<sysVars, boot>> PROVE IInv'
<1> HIDE DEF IInv
<1>1. ASSUME NEW d \in mix.wishes PROVE d \in Wish
  BY DictionaryAssumption DEF IInv, Wish
<1>2. ASSUME NEW r \in Requests,
             \E v \in Values, d \in mix.wishes :
               \/ \E t \in Types : CreateItemBegin(r, t, v, d)
               \/ \E i \in Items : UpdateItemBegin(r, i, v, d)
      PROVE  IInv'
  BY <1>1, <1>2, ItemBeginKeeps
<1>3. ASSUME NEW r \in Requests,
             \/ \E t \in Types : RemoveTypeBegin(r, t) \/ \E c \in Codes : UpdateTypeBegin(r, t, c)
             \/ UpdateType(r) \/ CountItems(r) \/ RemoveType(r)
      PROVE  IInv'
  <2>1. \A t \in Types, c \in Codes : UpdateTypeBegin(r, t, c) \/ RemoveTypeBegin(r, t) => IInv'
    BY TypeBeginKeeps
  <2>2. \E c \in Codes : TRUE
    BY BootstrapAssumption
  <2> QED BY <1>3, <2>1, <2>2, UpdateTypeKeeps, CountItemsKeeps, RemoveTypeKeeps
<1>4. ASSUME NEW r \in Requests,
             \/ \E i \in Items : CreateItem(r, i) \/ RemoveItemBegin(r, i)
             \/ ClearDefaults(r) \/ LockDefaults(r) \/ UpdateItem(r) \/ Abort(r) \/ RemoveItem(r)
      PROVE  IInv'
  BY <1>4, CreateItemKeeps, RemoveItemBeginKeeps, DefaultsKeep, UpdateItemKeeps, AbortKeeps,
     RemoveItemKeeps
<1>5. ASSUME NEW t \in Types, NEW c \in Codes, CreateType(t, c) PROVE IInv'
  BY <1>5, CreateTypeKeeps
<1>6. CASE \E t \in Types, c \in Codes : CreateType(t, c)
  BY <1>5, <1>6
<1>7. ASSUME NEW r \in Requests,
             \/ \E t \in Types, c \in Codes : UpdateTypeBegin(r, t, c)
             \/ \E t \in Types : RemoveTypeBegin(r, t)
             \/ UpdateType(r) \/ CountItems(r) \/ RemoveType(r)
             \/ \E t \in Types, v \in Values, d \in mix.wishes : CreateItemBegin(r, t, v, d)
             \/ \E i \in Items, v \in Values, d \in mix.wishes : UpdateItemBegin(r, i, v, d)
             \/ \E i \in Items : CreateItem(r, i) \/ RemoveItemBegin(r, i)
             \/ ClearDefaults(r) \/ LockDefaults(r) \/ UpdateItem(r) \/ Abort(r) \/ RemoveItem(r)
      PROVE  IInv'
  BY <1>2, <1>3, <1>4, <1>7
<1> QED BY <1>6, <1>7 DEF DictNext

-----------------------------------------------------------------------------
(* Administrators, and the seeding processes up to their commit.           *)

LEMMA EditKeeps ==
  ASSUME IInv,
         \/ \E x \in SystemRows : Edit(x)
         \/ \E x \in Grantable : Unlink(x)
         \/ ChangePassword
  PROVE  IInv'
<1>1. /\ UNCHANGED <<mix, dictVars, admin, boot>>
      /\ row' \in [SystemRows -> {"absent"} \cup Content]
      /\ granted' \subseteq Grantable /\ password' \in {"none", "seed", "own"}
      /\ password # "none" => password' # "none"
      /\ \A x \in SystemRows : row[x] # "absent" => row'[x] # "absent"
  BY DEF Edit, Unlink, ChangePassword, Content
<1>2. TypeOK'
  BY <1>1 DEF dictVars
<1>3. RunningHasAdmin' /\ FoundStays'
  BY <1>1 DEF RunningHasAdmin, FoundStays
<1>4. SeedIsSystem' /\ SystemDataStays'
  BY <1>1 DEF SeedIsSystem, SystemDataStays, SeedTypes, TypeFound, dictVars
<1>5. Aimed' /\ CreatesHaveType' /\ RemovalsAlone' /\ SystemTypesStay' /\ ItemsHaveTypes'
  BY <1>1 DEF Aimed, CreatesHaveType, RemovalsAlone, SystemTypesStay, ItemsHaveTypes, dictVars,
     Creates, Raced, Inhabits, TypeFound, ItemFound
<1> QED BY <1>2, <1>3, <1>4, <1>5

\* A seeding process that only gets further, or has to start over.
LEMMA BootKeeps ==
  ASSUME IInv, NEW b \in Procs, NEW s \in Seeding,
         boot' = [boot EXCEPT ![b] = s],
         s.pc = "running" => admin,
         s.pc = "commit" => \A x \in SystemRows : x \notin s.missing => row[x] # "absent",
         UNCHANGED <<mix, dictVars, sysVars>>
  PROVE  IInv'
<1>1. TypeOK'
  BY DEF dictVars
<1>2. RunningHasAdmin' /\ FoundStays'
  BY DEF RunningHasAdmin, FoundStays
<1>3. SeedIsSystem' /\ SystemDataStays'
  BY DEF SeedIsSystem, SystemDataStays, SeedTypes, TypeFound, dictVars
<1>4. Aimed' /\ CreatesHaveType' /\ RemovalsAlone' /\ SystemTypesStay' /\ ItemsHaveTypes'
  BY DEF Aimed, CreatesHaveType, RemovalsAlone, SystemTypesStay, ItemsHaveTypes, dictVars,
     Creates, Raced, Inhabits, TypeFound, ItemFound
<1> QED BY <1>1, <1>2, <1>3, <1>4

LEMMA FailKeeps ==
  ASSUME IInv, NEW b \in Procs, Fail(b), UNCHANGED <<mix, dictVars, sysVars>> PROVE IInv'
<1>1. Down \in Seeding /\ Down.pc = "down"
  BY DEF Down, Seeding
<1> QED BY <1>1, BootKeeps DEF Fail

LEMMA StartKeeps ==
  ASSUME IInv, NEW b \in Procs,
         Start(b) \/ (b = Script /\ Main) \/ Check(b) \/ Select(b) \/ InsertAdmin(b)
  PROVE  IInv'
<1> HIDE DEF IInv
<1>1. boot[b] \in Seeding
  BY DEF IInv
<1>2. ASSUME NEW pc \in {"check", "select", "insert", "plan", "running"},
             boot' = [boot EXCEPT ![b].pc = pc], pc = "running" => admin,
             UNCHANGED <<mix, dictVars, sysVars>>
      PROVE  IInv'
  <2>1. [boot[b] EXCEPT !.pc = pc] \in Seeding /\ [boot[b] EXCEPT !.pc = pc].pc = pc
    BY <1>1 DEF Seeding
  <2> QED BY <1>2, <2>1, BootKeeps
<1>3. CASE Start(b) \/ (b = Script /\ Main) \/ Check(b) \/ Select(b)
  BY <1>2, <1>3 DEF Start, Main, Check, Select, StepTo
<1>4. CASE InsertAdmin(b) /\ admin
  BY <1>4, FailKeeps DEF InsertAdmin
<1>5. CASE InsertAdmin(b) /\ ~admin
  <2> DEFINE new == [boot[b] EXCEPT !.pc = "plan", !.inserted = TRUE]
  <2>1. new \in Seeding /\ new.pc = "plan" /\ boot' = [boot EXCEPT ![b] = new]
    BY <1>1, <1>5 DEF Seeding, InsertAdmin
  <2> QED BY <1>5, <2>1, BootKeeps DEF InsertAdmin
<1> QED BY <1>3, <1>4, <1>5

LEMMA PlanKeeps == ASSUME IInv, NEW b \in Procs, Plan(b) PROVE IInv'
<1> DEFINE new == [boot[b] EXCEPT !.pc = "commit", !.missing = Missing]
<1>1. Missing \in SUBSET (SystemRows \cup {"type", "item"})
  BY DEF Missing
<1>2. new \in Seeding /\ new.pc = "commit" /\ new.missing = Missing
  BY <1>1 DEF Seeding
<1>3. boot' = [boot EXCEPT ![b] = new]
  BY DEF Plan
<1>4. \A x \in SystemRows : x \notin new.missing => row[x] # "absent"
  BY <1>2 DEF Missing
<1> HIDE DEF new, IInv
<1> QED BY <1>2, <1>3, <1>4, BootKeeps DEF Plan

-----------------------------------------------------------------------------
(* The commit of a seeding transaction.                                    *)

\* The seed's type is new or has been marked isSystem all along.
LEMMA SeededType ==
  ASSUME IInv, NEW b \in Procs, NEW t \in Types, NEW i \in Items, SeedDict(b, t, i)
  PROVE  /\ type' \in [Types -> Type]
         /\ \A u \in Types \ {t} : type'[u] = type[u]
         /\ TypeFound(t)' /\ type'[t].code = SeedCode /\ type'[t].isSystem
         /\ \/ type[t].state = "absent"
            \/ TypeFound(t) /\ type[t].code = SeedCode /\ type[t].isSystem
<1>1. NewType \in Type
  BY BootstrapAssumption DEF NewType, Type, State, Content
<1>2. type' = [type EXCEPT ![t] = IF "type" \in boot[b].missing THEN NewType
                                  ELSE Keep(b, type[t], NewType)]
  BY DEF SeedDict
<1>3. CASE "type" \in boot[b].missing
  <2>1. type[t].state = "absent"
    BY <1>3 DEF SeedDict
  <2> QED BY <1>1, <1>2, <1>3, <2>1 DEF NewType, TypeFound
<1>4. CASE "type" \notin boot[b].missing
  <2>1. TypeFound(t) /\ type[t].code = SeedCode /\ type[t].isSystem
    BY <1>4 DEF SeedDict, SeedTypes, SeedIsSystem
  <2> QED BY <1>1, <1>2, <1>4, <2>1 DEF Keep, NewType, TypeFound
<1> QED BY <1>3, <1>4

LEMMA SeededItem ==
  ASSUME IInv, NEW b \in Procs, NEW t \in Types, NEW i \in Items, SeedDict(b, t, i)
  PROVE  /\ item' \in [Items -> Item]
         /\ \A j \in Items \ {i} : item'[j] = item[j]
         /\ ItemFound(i)' /\ item'[i].of = t
<1>1. NewItem(t) \in Item
  BY BootstrapAssumption DEF NewItem, Item, State, Content
<1>2. item' = [item EXCEPT ![i] = IF "item" \in boot[b].missing THEN NewItem(t)
                                  ELSE Keep(b, item[i], NewItem(t))]
  BY DEF SeedDict
<1>3. "item" \notin boot[b].missing => ItemFound(i) /\ item[i].of = t
  BY DEF SeedDict, SeedItems, ItemsOf
<1> QED BY <1>1, <1>2, <1>3 DEF Keep, NewItem, ItemFound

LEMMA CommitKeeps == ASSUME IInv, NEW b \in Procs, Commit(b) PROVE IInv'
<1>1. CASE ~(boot[b].missing \subseteq Missing)
  BY <1>1, FailKeeps DEF Commit, dictVars
<1>2. CASE boot[b].missing \subseteq Missing
  <2>1. PICK t \in Types, i \in Items : SeedDict(b, t, i)
    BY <1>2 DEF Commit
  <2>2. /\ type' \in [Types -> Type]
        /\ \A u \in Types \ {t} : type'[u] = type[u]
        /\ TypeFound(t)' /\ type'[t].code = SeedCode /\ type'[t].isSystem
        /\ \/ type[t].state = "absent"
           \/ TypeFound(t) /\ type[t].code = SeedCode /\ type[t].isSystem
    BY <2>1, SeededType
  <2>3. /\ item' \in [Items -> Item]
        /\ \A j \in Items \ {i} : item'[j] = item[j]
        /\ ItemFound(i)' /\ item'[i].of = t
    BY <2>1, SeededItem
  <2>4. raced \subseteq raced' /\ raced' \subseteq {"default", "type"} \X Types
    BY <2>1 DEF SeedDict
  <2>5. /\ UNCHANGED <<mix, req>> /\ admin' = TRUE
        /\ password' = IF password = "none" THEN "seed" ELSE password
        /\ row' = [x \in SystemRows |->
                     IF x \in boot[b].missing THEN "seed" ELSE Keep(b, row[x], "seed")]
        /\ granted' = Grantable
    BY <1>2 DEF Commit, NewLinks, Upserted
  <2>6. /\ boot' \in [Procs -> Seeding]
        /\ \A c \in Procs \ {b} : boot'[c] = boot[c]
        /\ boot'[b].pc # "commit"
    <3>1. ASSUME NEW pc \in {"down", "running"}
          PROVE  [Down EXCEPT !.pc = pc] \in Seeding /\ [Down EXCEPT !.pc = pc].pc = pc
      BY DEF Down, Seeding
    <3>2. \E pc \in {"down", "running"} : boot' = [boot EXCEPT ![b] = [Down EXCEPT !.pc = pc]]
      BY <1>2 DEF Commit
    <3>3. PICK pc \in {"down", "running"} : boot' = [boot EXCEPT ![b] = [Down EXCEPT !.pc = pc]]
      BY <3>2
    <3> QED BY <3>1, <3>3
  <2>7. \A x \in SystemRows :
          /\ row'[x] \in {"absent"} \cup Content
          /\ (x \in boot[b].missing \/ row[x] # "absent") => row'[x] # "absent"
    BY <2>5 DEF Keep, Content
  <2>8. \A x \in SystemRows : row'[x] # "absent"
    BY <2>7 DEF Commit, FoundStays
  <2> HIDE <2>1
  <2>9. TypeOK'
    BY <2>2, <2>3, <2>4, <2>5, <2>6, <2>7
  <2>10. Aimed'
    BY <2>2, <2>3, <2>5 DEF Aimed, TypeFound
  <2>11. CreatesHaveType'
    BY <2>2, <2>4, <2>5 DEF CreatesHaveType, Creates, Raced, TypeFound, Aimed
  <2>12. \A r \in Requests : req[r].pc = "removeType" => req[r].type # t
    BY <2>2 DEF Aimed, TypePcs, SystemTypesStay
  <2>13. RemovalsAlone'
    <3> SUFFICES ASSUME NEW r \in Requests, req[r].pc = "removeType", ~Raced(req[r].type)
                 PROVE  /\ \A j \in Items : ~(ItemFound(j)' /\ item'[j].of = req[r].type)
                        /\ \A q \in Requests : Creates(q) => req[q].type # req[r].type
      BY <2>4, <2>5 DEF RemovalsAlone, Raced, Inhabits, Creates
    <3> QED BY <2>3, <2>12 DEF RemovalsAlone, Inhabits, ItemFound
  <2>14. SystemTypesStay'
    BY <2>2, <2>5 DEF SystemTypesStay, Aimed, TypePcs
  <2>15. SeedIsSystem' /\ SystemDataStays'
    BY <2>2, <2>5, <2>8 DEF SeedIsSystem, SystemDataStays, SeedTypes, TypeFound
  <2>16. RunningHasAdmin' /\ FoundStays'
    BY <2>5, <2>6, <2>8 DEF RunningHasAdmin, FoundStays
  <2>17. ItemsHaveTypes'
    BY <2>2, <2>3, <2>4 DEF ItemsHaveTypes, ItemFound, TypeFound, Aimed
  <2> QED BY <2>9, <2>10, <2>11, <2>13, <2>14, <2>15, <2>16, <2>17
<1> QED BY <1>1, <1>2

LEMMA CrashKeeps == ASSUME IInv, NEW b \in Procs, Crash(b) PROVE IInv'
  BY FailKeeps DEF Crash

-----------------------------------------------------------------------------
HIDE DEF IInv, Parts, TypeOK, DictTypeOK, sysVars

LEMMA Stutters == IInv /\ UNCHANGED vars => IInv'
<1> SUFFICES ASSUME IInv, UNCHANGED vars PROVE IInv'
  OBVIOUS
<1>1. UNCHANGED <<mix, dictVars, sysVars>> /\ boot' = boot
  BY DEF vars
<1>2. \E b \in Procs : boot' = [boot EXCEPT ![b] = boot[b]]
  BY <1>1 DEF Procs, IInv, TypeOK
<1>3. PICK b \in Procs : boot' = [boot EXCEPT ![b] = boot[b]]
  BY <1>2
<1>4. /\ boot[b] \in Seeding
      /\ boot[b].pc = "running" => admin
      /\ boot[b].pc = "commit" => \A x \in SystemRows : x \notin boot[b].missing => row[x] # "absent"
  BY DEF IInv, Parts, TypeOK, RunningHasAdmin, FoundStays
<1> QED BY <1>1, <1>3, <1>4, BootKeeps

LEMMA Inductive == IInv /\ [Next]_vars => IInv'
<1> SUFFICES ASSUME IInv, [Next]_vars PROVE IInv'
  OBVIOUS
<1>1. CASE Serve
  <2>1. admin
    BY <1>1 DEF Serve, IInv, Parts, RunningHasAdmin, Procs
  <2> QED BY <1>1, <2>1, DictKeeps, EditKeeps DEF Serve
<1>2. CASE Main
  BY <1>2, StartKeeps DEF Procs
<1>3. ASSUME NEW b \in Procs, Start(b) \/ Check(b) \/ Select(b) \/ InsertAdmin(b) PROVE IInv'
  BY <1>3, StartKeeps
<1>4. ASSUME NEW b \in Procs, Plan(b) \/ Commit(b) \/ Crash(b) PROVE IInv'
  BY <1>4, PlanKeeps, CommitKeeps, CrashKeeps
<1>5. CASE UNCHANGED vars
  BY <1>5, Stutters
<1> QED BY <1>1, <1>2, <1>3, <1>4, <1>5 DEF Next

\* The variables of dictionaries and seed keep their types.
THEOREM TypeCorrect == Spec => []TypeOK
<1>1. IInv => TypeOK
  BY Summed
<1> QED BY <1>1, Initially, Inductive, PTL DEF Spec

\* onApplicationBootstrap asks for admin only, and may: whenever there is one
\* the whole seed is there, for any number of instances that start, crash,
\* fail and are overtaken by the script and by administrators.
THEOREM SeedIsComplete == Spec => []SystemDataStays
<1>1. IInv => SystemDataStays
  BY Summed
<1> QED BY <1>1, Initially, Inductive, PTL DEF Spec

\* DictTypeService.remove counts the items before it removes: an item's type
\* is there, unless the removal overlapped the item's creation.
THEOREM NoItemWithoutType == Spec => []ItemsHaveTypes
<1>1. IInv => ItemsHaveTypes
  BY Summed
<1> QED BY <1>1, Initially, Inductive, PTL DEF Spec

-----------------------------------------------------------------------------
(* What an instance leaves alone.                                          *)

RowsKept ==
  /\ \A x \in SystemRows : row[x] # "absent" => row'[x] = row[x]
  /\ \A t \in Types : type[t].state # "absent" => type'[t] = type[t]
  /\ \A i \in Items : item[i].state # "absent" => item'[i] = item[i]
  /\ password # "none" => password' = password

EditsKept ==
  \A b \in Instances : boot[b].pc = "commit" /\ boot'[b] # boot[b] => RowsKept

LEMMA CommitKeepsRows ==
  ASSUME TypeOK, NEW b \in Instances, Commit(b)
  PROVE  RowsKept
<1>1. b # Script
  BY BootstrapAssumption
<1>2. CASE ~(boot[b].missing \subseteq Missing)
  BY <1>2 DEF Commit, sysVars, RowsKept
<1>3. CASE boot[b].missing \subseteq Missing
  <2>1. PICK t \in Types, i \in Items : SeedDict(b, t, i)
    BY <1>3 DEF Commit
  <2>2. \A u \in Types : type[u].state # "absent" => type'[u] = type[u]
    BY <1>1, <2>1 DEF SeedDict, Keep, TypeOK, DictTypeOK
  <2>3. \A j \in Items : item[j].state # "absent" => item'[j] = item[j]
    BY <1>1, <2>1 DEF SeedDict, Keep, TypeOK, DictTypeOK
  <2>4. \A x \in SystemRows : row[x] # "absent" => row'[x] = row[x]
    <3> SUFFICES ASSUME NEW x \in SystemRows, row[x] # "absent" PROVE row'[x] = row[x]
      OBVIOUS
    <3>1. row' = [y \in SystemRows |->
                    IF y \in boot[b].missing THEN "seed" ELSE Keep(b, row[y], "seed")]
      BY <1>3 DEF Commit, Upserted
    <3>2. x \notin boot[b].missing
      BY <1>3, BootstrapAssumption DEF Missing, SystemRows, Grantable
    <3> QED BY <1>1, <3>1, <3>2 DEF Keep
  <2>5. password # "none" => password' = password
    BY <1>3 DEF Commit
  <2> QED BY <2>2, <2>3, <2>4, <2>5 DEF RowsKept
<1> QED BY <1>2, <1>3

\* Only a commit changes rows together with the process that seeds.
LEMMA StepKeepsEdits == TypeOK /\ [Next]_vars => EditsKept
<1> SUFFICES ASSUME TypeOK, [Next]_vars, NEW b \in Instances,
                    boot[b].pc = "commit", boot'[b] # boot[b]
             PROVE  RowsKept
  BY DEF EditsKept
<1>1. boot \in [Procs -> Seeding] /\ b \in Procs /\ b # Script
  BY BootstrapAssumption DEF TypeOK, Procs
<1>2. CASE Serve
  BY <1>2 DEF Serve, Edit, Unlink, ChangePassword
<1>3. CASE Main
  BY <1>1, <1>3 DEF Main, StepTo
<1>4. ASSUME NEW c \in Procs,
             Start(c) \/ Check(c) \/ Select(c) \/ InsertAdmin(c) \/ Plan(c)
      PROVE  FALSE
  BY <1>1, <1>4 DEF Start, Check, Select, InsertAdmin, Plan, StepTo, Fail
<1>5. ASSUME NEW c \in Procs, Commit(c) PROVE RowsKept
  <2>1. c = b
    BY <1>1, <1>5 DEF Commit, Fail
  <2> QED BY <1>5, <2>1, CommitKeepsRows
<1>6. ASSUME NEW c \in Procs, Crash(c) PROVE RowsKept
  BY <1>6 DEF Crash, sysVars, dictVars, RowsKept
<1>7. ~ UNCHANGED vars
  BY DEF vars
<1> QED BY <1>2, <1>3, <1>4, <1>5, <1>6, <1>7 DEF Next

\* BootstrapService upserts with an empty update: what administrators changed
\* stays as they left it, however late an instance commits.
THEOREM EditsStay == Spec => BootstrapKeepsEdits
<1>1. TypeOK /\ [Next]_vars => [EditsKept]_vars
  BY StepKeepsEdits
<1>2. BootstrapKeepsEdits <=> [][EditsKept]_vars
  BY DEF BootstrapKeepsEdits, EditsKept, RowsKept
<1> QED BY <1>1, <1>2, TypeCorrect, PTL DEF Spec


-----------------------------------------------------------------------------
(* One default item.                                                       *)

AtMostOne(S) == \A x, y \in S : x = y

\* While no two transactions that set the default of t have overlapped: at
\* most one has looked at the default items, and no other item than those it
\* is about to clear, or its own, is one.
SetAlone(t) ==
  /\ AtMostOne(Defaults(t))
  /\ AtMostOne(Setting(t))
  /\ \A r \in Setting(t) : Defaults(t) \subseteq req[r].ids \cup {req[r].item}

\* An item that is being updated is, or was, an item of the request's type.
UpdatesOwn ==
  \A r \in Requests : req[r].pc \in ItemPcs /\ req[r].item \in Items =>
    item[req[r].item].state # "absent" /\ item[req[r].item].of = req[r].type

DefaultsInv ==
  /\ \A t \in Types : <<"default", t>> \in raced \/ SetAlone(t)
  /\ UpdatesOwn

LEMMA StartsAlone == Init => DefaultsInv
<1> SUFFICES ASSUME Init PROVE DefaultsInv
  OBVIOUS
<1>1. \A r \in Requests : req[r].pc = "idle"
  BY Beginning DEF Init, DictInit
<1>2. \A i \in Items : ~ItemFound(i)
  BY DEF Init, DictInit, ItemFound
<1>3. \A t \in Types : Defaults(t) = {} /\ Setting(t) = {}
  BY <1>1, <1>2 DEF Defaults, ItemsOf, Setting, InProgress
<1>4. \A t \in Types : SetAlone(t)
  BY <1>3 DEF SetAlone, AtMostOne
<1> QED BY <1>1, <1>4 DEF DefaultsInv, UpdatesOwn, ItemPcs

\* Who is in Setting, and what is in Defaults.
LEMMA Listed ==
  /\ \A t, r : r \in Setting(t) <=> /\ r \in Requests /\ req[r].pc \in {"lock", "write"}
                                    /\ req[r].type = t /\ req[r].isDefault = "yes"
  /\ \A t, i : i \in Defaults(t) <=> /\ i \in Items /\ item[i].state = "live"
                                     /\ item[i].of = t /\ item[i].isDefault
  BY DEF Setting, InProgress, Defaults, ItemsOf, ItemFound

LEMMA ListedNext ==
  /\ \A t, r : r \in Setting(t)' <=> /\ r \in Requests /\ req'[r].pc \in {"lock", "write"}
                                     /\ req'[r].type = t /\ req'[r].isDefault = "yes"
  /\ \A t, i : i \in Defaults(t)' <=> /\ i \in Items /\ item'[i].state = "live"
                                      /\ item'[i].of = t /\ item'[i].isDefault
  BY DEF Setting, InProgress, Defaults, ItemsOf, ItemFound

\* Fewer default items, and fewer that look.
LEMMA AloneFewer ==
  ASSUME NEW t \in Types, SetAlone(t),
         \A i : i \in Defaults(t)' => i \in Defaults(t),
         \A q : q \in Setting(t)' =>
           q \in Setting(t) /\ req'[q].ids = req[q].ids /\ req'[q].item = req[q].item
  PROVE  SetAlone(t)'
  BY DEF SetAlone, AtMostOne

LEMMA AloneNone ==
  ASSUME NEW t \in Types, NEW x,
         \A i : i \in Defaults(t)' => i = x,
         \A q : q \notin Setting(t)'
  PROVE  SetAlone(t)'
  BY DEF SetAlone, AtMostOne

ItemsStay ==
  \A i \in Items : item[i].state # "absent" =>
    item'[i].state # "absent" /\ item'[i].of = item[i].of

LEMMA OwnKeeps ==
  ASSUME TypeOK, UpdatesOwn, ItemsStay, NEW r \in Requests, NEW q, Become(r, q),
         q.pc \in ItemPcs /\ q.item \in Items =>
           item[q.item].state # "absent" /\ item[q.item].of = q.type
  PROVE  UpdatesOwn'
<1>1. \A p \in Requests : req'[p] = IF p = r THEN q ELSE req[p]
  BY DEF TypeOK, DictTypeOK, Become
<1> QED BY <1>1 DEF UpdatesOwn, ItemsStay

\* A request becomes one that has not looked at the default items.
LEMMA LooksNot ==
  ASSUME TypeOK, DefaultsInv, NEW r \in Requests, NEW q, Become(r, q),
         q.pc \in {"lock", "write"} => q.isDefault # "yes",
         q.pc \in ItemPcs /\ q.item \in Items =>
           item[q.item].state # "absent" /\ item[q.item].of = q.type,
         item' = item, raced \subseteq raced'
  PROVE  DefaultsInv'
<1>1. UpdatesOwn'
  <2>1. UpdatesOwn /\ ItemsStay
    BY DEF DefaultsInv, ItemsStay
  <2> QED BY <2>1, OwnKeeps
<1>2. \A p \in Requests : req'[p] = IF p = r THEN q ELSE req[p]
  BY DEF TypeOK, DictTypeOK, Become
<1>3. ASSUME NEW t \in Types, <<"default", t>> \notin raced' PROVE SetAlone(t)'
  <2>1. SetAlone(t)
    BY <1>3 DEF DefaultsInv
  <2>2. \A i : i \in Defaults(t)' => i \in Defaults(t)
    BY Listed, ListedNext
  <2>3. \A p : p \in Setting(t)' =>
          p \in Setting(t) /\ req'[p].ids = req[p].ids /\ req'[p].item = req[p].item
    BY <1>2, Listed, ListedNext
  <2> QED BY <2>1, <2>2, <2>3, AloneFewer
<1> QED BY <1>1, <1>3 DEF DefaultsInv

\* The steps of LooksNot.
LEMMA OthersLookNot ==
  ASSUME TypeOK, Aimed, DefaultsInv, NEW r \in Requests,
         \/ \E t \in Types, c \in Codes : UpdateTypeBegin(r, t, c)
         \/ \E t \in Types : RemoveTypeBegin(r, t)
         \/ UpdateType(r) \/ CountItems(r) \/ RemoveType(r)
         \/ \E i \in Items : RemoveItemBegin(r, i)
         \/ Abort(r)
  PROVE  DefaultsInv'
<1>1. ASSUME Return(r), item' = item, raced \subseteq raced' PROVE DefaultsInv'
  BY <1>1, Beginning, LooksNot DEF Return, ItemPcs
<1>2. ASSUME NEW pc \in {"updateType", "count", "removeType", "removeItem"}, NEW q,
             q.pc = pc, Become(r, q), item' = item, raced \subseteq raced'
      PROVE  DefaultsInv'
  BY <1>2, LooksNot DEF ItemPcs
<1>3. CASE \E t \in Types, c \in Codes : UpdateTypeBegin(r, t, c)
  <2>1. PICK t \in Types, c \in Codes : UpdateTypeBegin(r, t, c)
    BY <1>3
  <2> DEFINE q == [IdleRequest EXCEPT !.pc = "updateType", !.type = t, !.code = c]
  <2>2. q.pc = "updateType" /\ Become(r, q) /\ item' = item /\ raced' = raced
    BY <2>1, Beginning DEF UpdateTypeBegin, Request
  <2> HIDE DEF q
  <2> QED BY <2>2, <1>2
<1>4. CASE \E t \in Types : RemoveTypeBegin(r, t)
  <2>1. PICK t \in Types : RemoveTypeBegin(r, t)
    BY <1>4
  <2> DEFINE q == [IdleRequest EXCEPT !.pc = "count", !.type = t]
  <2>2. q.pc = "count" /\ Become(r, q) /\ item' = item /\ raced' = raced
    BY <2>1, Beginning DEF RemoveTypeBegin, Request
  <2> HIDE DEF q
  <2> QED BY <2>2, <1>2
<1>5. CASE \E i \in Items : RemoveItemBegin(r, i)
  <2>1. PICK i \in Items : RemoveItemBegin(r, i)
    BY <1>5
  <2> DEFINE q == [IdleRequest EXCEPT !.pc = "removeItem", !.item = i]
  <2>2. q.pc = "removeItem" /\ Become(r, q) /\ item' = item /\ raced' = raced
    BY <2>1, Beginning DEF RemoveItemBegin, Request
  <2> HIDE DEF q
  <2> QED BY <2>2, <1>2
<1>6. CASE CountItems(r)
  <2> DEFINE q == [req[r] EXCEPT !.pc = "removeType"]
  <2>1. item' = item /\ raced \subseteq raced' /\ (Become(r, q) \/ Return(r))
    BY <1>6 DEF CountItems, Goto
  <2>2. q.pc = "removeType"
    BY DEF TypeOK, DictTypeOK, Request
  <2> HIDE DEF q
  <2> QED BY <2>1, <2>2, <1>1, <1>2
<1>7. CASE UpdateType(r) \/ RemoveType(r) \/ Abort(r)
  BY <1>1, <1>7 DEF UpdateType, RemoveType, Abort
<1> QED BY <1>3, <1>4, <1>5, <1>6, <1>7

LEMMA ItemsBegin ==
  ASSUME TypeOK, DefaultsInv, NEW r \in Requests, NEW v \in Values, NEW d,
         \/ \E t \in Types : CreateItemBegin(r, t, v, d)
         \/ \E i \in Items : UpdateItemBegin(r, i, v, d)
  PROVE  DefaultsInv'
<1> DEFINE q(t, i) == [IdleRequest EXCEPT !.pc = IF d = "yes" THEN "clear" ELSE "write",
                         !.type = t, !.item = i, !.value = v, !.isDefault = d]
<1>1. \A t, i : /\ q(t, i).pc = IF d = "yes" THEN "clear" ELSE "write"
                /\ q(t, i).type = t /\ q(t, i).item = i /\ q(t, i).isDefault = d
  BY Beginning DEF Request
<1>2. ASSUME NEW t \in Types, CreateItemBegin(r, t, v, d) PROVE DefaultsInv'
  <2>1. Become(r, q(t, NoItem)) /\ item' = item /\ raced \subseteq raced'
    BY <1>2 DEF CreateItemBegin, WriteItem, Created
  <2>2. NoItem \notin Items
    BY DictionaryAssumption
  <2> HIDE DEF q
  <2> QED BY <1>1, <2>1, <2>2, LooksNot
<1>3. ASSUME NEW i \in Items, UpdateItemBegin(r, i, v, d) PROVE DefaultsInv'
  <2>1. /\ Become(r, q(item[i].of, i)) /\ item' = item /\ raced' = raced
        /\ item[i].state # "absent"
    BY <1>3 DEF UpdateItemBegin, WriteItem, ItemFound
  <2> HIDE DEF q
  <2> QED BY <1>1, <2>1, LooksNot
<1> QED BY <1>2, <1>3

\* Who looks at the default items is alone or makes the type one of "raced".
LEMMA ClearsAlone ==
  ASSUME TypeOK, Aimed, DefaultsInv, NEW r \in Requests, ClearDefaults(r)
  PROVE  DefaultsInv'
<1>1. PICK t, i, ids : t = req[r].type /\ i = req[r].item /\ ids = Defaults(t) \ {i}
  OBVIOUS
<1>2. PICK q : q = [req[r] EXCEPT !.pc = IF ids = {} THEN "write" ELSE "lock", !.ids = ids]
  OBVIOUS
<1>3. /\ q.pc \in {"lock", "write"} /\ q.type = t /\ q.item = i /\ q.ids = ids
      /\ req[r].pc = "clear" /\ Become(r, q) /\ item' = item
      /\ raced' = IF Setting(t) = {} THEN raced ELSE raced \cup {<<"default", t>>}
  BY <1>1, <1>2 DEF ClearDefaults, TypeOK, DictTypeOK, Request
<1>4. UpdatesOwn'
  <2>1. UpdatesOwn /\ ItemsStay
    BY <1>3 DEF DefaultsInv, ItemsStay
  <2>2. i \in Items => item[i].state # "absent" /\ item[i].of = t
    BY <1>1, <1>3, <2>1 DEF UpdatesOwn, ItemPcs
  <2> QED BY <1>3, <2>1, <2>2, OwnKeeps
<1>5. \A p \in Requests : req'[p] = IF p = r THEN q ELSE req[p]
  BY <1>3 DEF TypeOK, DictTypeOK, Become
<1>6. ASSUME NEW u \in Types, <<"default", u>> \notin raced' PROVE SetAlone(u)'
  <2>1. SetAlone(u) /\ (u = t => Setting(t) = {})
    BY <1>3, <1>6 DEF DefaultsInv
  <2>2. \A j : j \in Defaults(u)' <=> j \in Defaults(u)
    BY <1>3, Listed, ListedNext
  <2>3. CASE u # t
    <3>1. \A p : p \in Setting(u)' =>
            p \in Setting(u) /\ req'[p].ids = req[p].ids /\ req'[p].item = req[p].item
      BY <1>3, <1>5, <2>3, Listed, ListedNext
    <3> QED BY <2>1, <2>2, <3>1, AloneFewer
  <2>4. CASE u = t
    <3>1. \A p : p \in Setting(u)' => p = r
      BY <1>5, <2>1, <2>4, Listed, ListedNext
    <3>2. \A j \in Defaults(u)' : j \in req'[r].ids \cup {req'[r].item}
      BY <1>1, <1>3, <1>5, <2>2, <2>4
    <3> QED BY <2>1, <2>2, <3>1, <3>2 DEF SetAlone, AtMostOne
  <2> QED BY <2>3, <2>4
<1> QED BY <1>4, <1>6 DEF DefaultsInv

\* Items that are no default any more need not be cleared.
LEMMA LocksAlone ==
  ASSUME TypeOK, Aimed, DefaultsInv, NEW r \in Requests, LockDefaults(r)
  PROVE  DefaultsInv'
<1>1. PICK q : q = [req[r] EXCEPT !.pc = "write", !.ids = req[r].ids \cap Defaults(req[r].type)]
  OBVIOUS
<1>2. /\ q.pc = "write" /\ q.type = req[r].type /\ q.item = req[r].item
      /\ q.isDefault = req[r].isDefault /\ q.ids = req[r].ids \cap Defaults(q.type)
      /\ req[r].pc = "lock" /\ Become(r, q) /\ item' = item /\ raced' = raced
  BY <1>1 DEF LockDefaults, TypeOK, DictTypeOK, Request
<1>3. UpdatesOwn'
  <2>1. UpdatesOwn /\ ItemsStay
    BY <1>2 DEF DefaultsInv, ItemsStay
  <2>2. q.item \in Items => item[q.item].state # "absent" /\ item[q.item].of = q.type
    BY <1>2, <2>1 DEF UpdatesOwn, ItemPcs
  <2> QED BY <1>2, <2>1, <2>2, OwnKeeps
<1>4. \A p \in Requests : req'[p] = IF p = r THEN q ELSE req[p]
  BY <1>2 DEF TypeOK, DictTypeOK, Become
<1>5. ASSUME NEW u \in Types, <<"default", u>> \notin raced' PROVE SetAlone(u)'
  <2>1. SetAlone(u)
    BY <1>2, <1>5 DEF DefaultsInv
  <2>2. \A j : j \in Defaults(u)' <=> j \in Defaults(u)
    BY <1>2, Listed, ListedNext
  <2>3. \A p : p \in Setting(u)' => p \in Setting(u)
    BY <1>2, <1>4, Listed, ListedNext
  <2>4. ASSUME NEW p \in Setting(u)', NEW j \in Defaults(u)'
        PROVE  j \in req'[p].ids \cup {req'[p].item}
    <3>1. p \in Setting(u) /\ j \in Defaults(u) /\ j \in req[p].ids \cup {req[p].item}
      BY <2>1, <2>2, <2>3, <2>4 DEF SetAlone
    <3>2. p \in Requests /\ req[p].type = u
      BY <3>1, Listed
    <3> QED BY <1>2, <1>4, <3>1, <3>2
  <2> QED BY <2>1, <2>2, <2>3, <2>4 DEF SetAlone, AtMostOne
<1> QED BY <1>3, <1>5 DEF DefaultsInv

\* A request ends and writes: either no item becomes a default, or one of the
\* type it had to itself and no other item of it stays one.
LEMMA WritesAlone ==
  ASSUME TypeOK, DefaultsInv, NEW r \in Requests, Return(r), ItemsStay, raced' = raced,
         NEW x,
         \A u \in Types : \A i : i \in Defaults(u)' =>
           i \in Defaults(u) \/ (i = x /\ u = req[r].type /\ r \in Setting(u)),
         \A u \in Types : \A i :
           <<"default", u>> \notin raced /\ r \in Setting(u) /\ i \in Defaults(u)'
             => i = x
  PROVE  DefaultsInv'
<1>1. UpdatesOwn'
  BY Beginning, OwnKeeps DEF DefaultsInv, Return, ItemPcs
<1>2. \A p \in Requests : req'[p] = IF p = r THEN IdleRequest ELSE req[p]
  BY DEF TypeOK, DictTypeOK, Return, Become
<1>3. ASSUME NEW u \in Types, <<"default", u>> \notin raced PROVE SetAlone(u)'
  <2>1. SetAlone(u)
    BY <1>3 DEF DefaultsInv
  <2>2. \A p : p \in Setting(u)' => p # r /\ p \in Setting(u) /\ req'[p] = req[p]
    BY <1>2, Beginning, Listed, ListedNext
  <2>3. CASE r \in Setting(u)
    <3>1. \A p : p \notin Setting(u)'
      BY <2>1, <2>2, <2>3 DEF SetAlone, AtMostOne
    <3>2. \A i : i \in Defaults(u)' => i = x
      BY <1>3, <2>3
    <3> QED BY <3>1, <3>2, AloneNone
  <2>4. CASE r \notin Setting(u)
    BY <2>1, <2>2, <2>4, AloneFewer
  <2> QED BY <2>3, <2>4
<1> QED BY <1>1, <1>3 DEF DefaultsInv

\* What is left of the defaults when a transaction has cleared those it locked.
LEMMA ClearedDefaults ==
  ASSUME TypeOK, NEW ids, NEW i \in Items
  PROVE  /\ ClearedItems(ids) \in [Items -> Item]
         /\ ClearedItems(ids)[i].state = item[i].state
         /\ ClearedItems(ids)[i].of = item[i].of
         /\ ClearedItems(ids)[i].isDefault => item[i].isDefault /\ i \notin ids
  BY DEF ClearedItems, Item, TypeOK, DictTypeOK

LEMMA CreatesAlone ==
  ASSUME TypeOK, DefaultsInv, NEW r \in Requests, NEW i \in Items, CreateItem(r, i)
  PROVE  DefaultsInv'
<1> DEFINE t == req[r].type
           old == ClearedItems(req[r].ids)
           new == [state |-> "live", of |-> t, value |-> req[r].value,
                   isDefault |-> req[r].isDefault = "yes", data |-> "edited"]
<1>1. /\ req[r].pc = "write" /\ req[r].item = NoItem /\ item[i].state = "absent"
      /\ Return(r) /\ raced' = raced
      /\ item' = item \/ item' = [old EXCEPT ![i] = new]
  BY DEF CreateItem
<1>2. CASE item' = item
  BY <1>1, <1>2, Beginning, LooksNot DEF Return, ItemPcs
<1>3. CASE item' = [old EXCEPT ![i] = new]
  <2>1. /\ new.state = "live" /\ new.of = t
        /\ new.isDefault => req[r].isDefault = "yes"
    OBVIOUS
  <2>2. \A j \in Items :
          /\ old[j].state = item[j].state /\ old[j].of = item[j].of
          /\ old[j].isDefault => item[j].isDefault /\ j \notin req[r].ids
    BY ClearedDefaults
  <2>3. old \in [Items -> Item]
    BY ClearedDefaults
  <2> HIDE DEF old, new
  <2>4. \A j \in Items : item'[j] = IF j = i THEN new ELSE old[j]
    BY <1>3, <2>3
  <2>5. ItemsStay
    BY <1>1, <2>2, <2>4 DEF ItemsStay
  <2>6. ASSUME NEW u \in Types, NEW j, j \in Defaults(u)', j # i
        PROVE  j \in Defaults(u) /\ j \notin req[r].ids
    BY <2>2, <2>4, <2>6, Listed, ListedNext
  <2>7. ASSUME NEW u \in Types, i \in Defaults(u)' PROVE u = t /\ r \in Setting(u)
    BY <1>1, <2>1, <2>4, <2>7, Listed, ListedNext
  <2>8. ASSUME NEW u \in Types, NEW j, <<"default", u>> \notin raced, r \in Setting(u),
               j \in Defaults(u)'
        PROVE  j = i
    <3>1. ASSUME j # i PROVE FALSE
      <4>1. j \in Defaults(u) /\ j \notin req[r].ids /\ j \in Items
        BY <2>6, <2>8, <3>1, Listed
      <4>2. Defaults(u) \subseteq req[r].ids \cup {NoItem}
        BY <1>1, <2>8 DEF DefaultsInv, SetAlone
      <4> QED BY <4>1, <4>2, DictionaryAssumption
    <3> QED BY <3>1
  <2> HIDE DEF t
  <2>9. \A u \in Types : \A j : j \in Defaults(u)' =>
          j \in Defaults(u) \/ (j = i /\ u = req[r].type /\ r \in Setting(u))
    BY <2>6, <2>7 DEF t
  <2> QED BY <1>1, <2>5, <2>8, <2>9, WritesAlone
<1> QED BY <1>1, <1>2, <1>3

LEMMA UpdatesAlone ==
  ASSUME TypeOK, DefaultsInv, NEW r \in Requests, UpdateItem(r)
  PROVE  DefaultsInv'
<1> DEFINE i == req[r].item
           old == ClearedItems(req[r].ids)
           d == IF req[r].isDefault = "keep" THEN old[i].isDefault ELSE req[r].isDefault = "yes"
           new == [old[i] EXCEPT !.value = req[r].value, !.isDefault = d, !.data = "edited"]
<1>1. old \in [Items -> Item] /\ i \in Items
  BY ClearedDefaults DEF UpdateItem
<1>2. /\ req[r].pc = "write" /\ Return(r) /\ raced' = raced
      /\ item' = item \/ item' = [old EXCEPT ![i] = new]
  BY <1>1 DEF UpdateItem
<1>3. item[i].state # "absent" /\ item[i].of = req[r].type
  BY <1>1, <1>2 DEF DefaultsInv, UpdatesOwn, ItemPcs
<1>4. CASE item' = item
  BY <1>2, <1>4, Beginning, LooksNot DEF Return, ItemPcs
<1>5. CASE item' = [old EXCEPT ![i] = new]
  <2>1. \A j \in Items :
          /\ old[j].state = item[j].state /\ old[j].of = item[j].of
          /\ old[j].isDefault => item[j].isDefault /\ j \notin req[r].ids
    BY ClearedDefaults
  <2>2. new.state = old[i].state /\ new.of = old[i].of /\ new.isDefault = d
    <3>1. old[i] \in Item
      BY <1>1
    <3> HIDE DEF d, old, i
    <3> QED BY <3>1 DEF Item
  <2> HIDE DEF new, old
  <2>3. \A j \in Items : item'[j] = IF j = i THEN new ELSE old[j]
    BY <1>1, <1>5
  <2>4. ItemsStay
    BY <2>1, <2>2, <2>3 DEF ItemsStay
  <2>5. ASSUME NEW u \in Types, NEW j, j \in Defaults(u)', j # i
        PROVE  j \in Defaults(u) /\ j \notin req[r].ids
    BY <2>1, <2>3, <2>5, Listed, ListedNext
  <2>6. ASSUME NEW u \in Types, i \in Defaults(u)', i \notin Defaults(u)
        PROVE  u = req[r].type /\ r \in Setting(u)
    <3>1. new.state = "live" /\ new.of = u /\ new.isDefault
      BY <1>1, <2>3, <2>6, ListedNext
    <3>2. u = req[r].type /\ item[i].state = "live" /\ item[i].of = u
      BY <1>1, <1>3, <2>1, <2>2, <3>1
    <3>3. ~ item[i].isDefault
      BY <1>1, <2>6, <3>2, Listed
    <3>4. d /\ ~ old[i].isDefault
      BY <1>1, <2>1, <2>2, <3>1, <3>3
    <3>5. req[r].isDefault = "yes"
      BY <3>4
    <3> QED BY <1>2, <3>2, <3>5, Listed
  <2>7. ASSUME NEW u \in Types, NEW j, <<"default", u>> \notin raced, r \in Setting(u),
               j \in Defaults(u)'
        PROVE  j = i
    <3>1. ASSUME j # i PROVE FALSE
      <4>1. j \in Defaults(u) /\ j \notin req[r].ids
        BY <2>5, <2>7, <3>1
      <4>2. Defaults(u) \subseteq req[r].ids \cup {i}
        BY <2>7 DEF DefaultsInv, SetAlone
      <4> QED BY <3>1, <4>1, <4>2
    <3> QED BY <3>1
  <2> HIDE DEF i, d
  <2>8. \A u \in Types : \A j : j \in Defaults(u)' =>
          j \in Defaults(u) \/ (j = i /\ u = req[r].type /\ r \in Setting(u))
    BY <2>5, <2>6
  <2> QED BY <1>2, <2>4, <2>7, <2>8, WritesAlone
<1> QED BY <1>2, <1>4, <1>5

LEMMA RemovesAlone ==
  ASSUME TypeOK, Aimed, DefaultsInv, NEW r \in Requests, RemoveItem(r)
  PROVE  DefaultsInv'
<1>1. req[r].pc = "removeItem" /\ req[r].item \in Items /\ Return(r) /\ raced' = raced
  BY DEF RemoveItem, Aimed
<1>2. /\ ItemsStay
      /\ \A j \in Items : /\ item'[j].of = item[j].of /\ item'[j].isDefault = item[j].isDefault
                          /\ item'[j].state = "live" => item[j].state = "live"
  BY <1>1 DEF RemoveItem, ItemsStay, TypeOK, DictTypeOK, Item, ItemFound
<1>3. \A u \in Types : \A i : i \in Defaults(u)' => i \in Defaults(u)
  BY <1>2, Listed, ListedNext
<1>4. \A u : r \notin Setting(u)
  BY <1>1, Listed
<1> QED BY <1>1, <1>2, <1>3, <1>4, WritesAlone

\* The seed comes on top of a default only when it says so.
LEMMA SeedsAlone ==
  ASSUME TypeOK, DefaultsInv, NEW b \in Procs, NEW t \in Types, NEW i \in Items,
         SeedDict(b, t, i), req' = req
  PROVE  DefaultsInv'
<1>1. /\ item' = [item EXCEPT ![i] = IF "item" \in boot[b].missing THEN NewItem(t)
                                     ELSE Keep(b, item[i], NewItem(t))]
      /\ item[i].state = "absent" \/ (item[i].state = "live" /\ item[i].of = t)
      /\ raced \subseteq raced'
      /\ <<"default", t>> \in raced' \/ (Defaults(t) \subseteq {i} /\ Setting(t) = {})
  BY DEF SeedDict, SeedItems, ItemsOf, ItemFound
<1>2. \A j \in Items : j # i => item'[j] = item[j]
  BY <1>1 DEF TypeOK, DictTypeOK
<1>3. item'[i] = item[i] \/ item'[i] = NewItem(t)
  BY <1>1 DEF TypeOK, DictTypeOK, Keep
<1>4. ItemsStay
  BY <1>1, <1>2, <1>3 DEF ItemsStay, NewItem
<1>5. UpdatesOwn'
  BY <1>4 DEF DefaultsInv, UpdatesOwn, ItemsStay
<1>6. ASSUME NEW u \in Types, <<"default", u>> \notin raced' PROVE SetAlone(u)'
  <2>1. SetAlone(u)
    BY <1>1, <1>6 DEF DefaultsInv
  <2>2. \A q : q \in Setting(u)' <=> q \in Setting(u)
    BY Listed, ListedNext
  <2>3. CASE u = t
    <3>1. \A j : j \in Defaults(u)' => j = i
      BY <1>1, <1>2, <1>6, <2>3, Listed, ListedNext
    <3> QED BY <1>1, <1>6, <2>2, <2>3, <3>1, AloneNone
  <2>4. CASE u # t
    <3>1. \A j : j \in Defaults(u)' => j \in Defaults(u)
      BY <1>2, <1>3, <2>4, Listed, ListedNext DEF NewItem
    <3> QED BY <2>1, <2>2, <3>1, AloneFewer
  <2> QED BY <2>3, <2>4
<1> QED BY <1>5, <1>6 DEF DefaultsInv

\* Nothing else is written about items.
LEMMA SameAlone ==
  ASSUME DefaultsInv, UNCHANGED <<item, req>>, raced' = raced PROVE DefaultsInv'
<1>1. \A t \in Types : SetAlone(t) => SetAlone(t)'
  BY Listed, ListedNext, AloneFewer
<1> QED BY <1>1 DEF DefaultsInv, UpdatesOwn

LEMMA CommitsAlone ==
  ASSUME TypeOK, DefaultsInv, NEW b \in Procs, Commit(b) PROVE DefaultsInv'
<1>1. CASE boot[b].missing \subseteq Missing
  <2>1. PICK t \in Types, i \in Items : SeedDict(b, t, i)
    BY <1>1 DEF Commit
  <2> QED BY <2>1, SeedsAlone DEF Commit
<1>2. CASE ~(boot[b].missing \subseteq Missing)
  BY <1>2, SameAlone DEF Commit
<1> QED BY <1>1, <1>2

LEMMA DictAlone == ASSUME TypeOK, Aimed, DefaultsInv, DictNext PROVE DefaultsInv'
<1>1. CASE \E t \in Types, c \in Codes : CreateType(t, c)
  BY <1>1, SameAlone DEF CreateType
<1>2. ASSUME NEW r \in Requests,
             \/ \E t \in Types, c \in Codes : UpdateTypeBegin(r, t, c)
             \/ \E t \in Types : RemoveTypeBegin(r, t)
             \/ UpdateType(r) \/ CountItems(r) \/ RemoveType(r)
             \/ \E i \in Items : RemoveItemBegin(r, i)
             \/ Abort(r)
      PROVE  DefaultsInv'
  BY <1>2, OthersLookNot
<1>3. ASSUME NEW r \in Requests,
             \/ \E t \in Types, v \in Values, d \in mix.wishes : CreateItemBegin(r, t, v, d)
             \/ \E i \in Items, v \in Values, d \in mix.wishes : UpdateItemBegin(r, i, v, d)
      PROVE  DefaultsInv'
  <2>1. PICK v \in Values, d \in mix.wishes :
          \/ \E t \in Types : CreateItemBegin(r, t, v, d)
          \/ \E i \in Items : UpdateItemBegin(r, i, v, d)
    BY <1>3
  <2> QED BY <2>1, ItemsBegin
<1>4. ASSUME NEW r \in Requests,
             \/ \E i \in Items : CreateItem(r, i)
             \/ ClearDefaults(r) \/ LockDefaults(r) \/ UpdateItem(r) \/ RemoveItem(r)
      PROVE  DefaultsInv'
  BY <1>4, CreatesAlone, ClearsAlone, LocksAlone, UpdatesAlone, RemovesAlone
<1>5. CASE ~ \E t \in Types, c \in Codes : CreateType(t, c)
  <2>1. PICK r \in Requests :
          \/ \E t \in Types, c \in Codes : UpdateTypeBegin(r, t, c)
          \/ \E t \in Types : RemoveTypeBegin(r, t)
          \/ UpdateType(r) \/ CountItems(r) \/ RemoveType(r)
          \/ \E t \in Types, v \in Values, d \in mix.wishes : CreateItemBegin(r, t, v, d)
          \/ \E i \in Items, v \in Values, d \in mix.wishes : UpdateItemBegin(r, i, v, d)
          \/ \E i \in Items : CreateItem(r, i) \/ RemoveItemBegin(r, i)
          \/ ClearDefaults(r) \/ LockDefaults(r) \/ UpdateItem(r) \/ Abort(r) \/ RemoveItem(r)
    BY <1>5 DEF DictNext
  <2> QED BY <2>1, <1>2, <1>3, <1>4
<1> QED BY <1>1, <1>5

LEMMA InductiveAlone == TypeOK /\ Aimed /\ DefaultsInv /\ [Next]_vars => DefaultsInv'
<1> SUFFICES ASSUME TypeOK, Aimed, DefaultsInv, [Next]_vars PROVE DefaultsInv'
  OBVIOUS
<1>1. CASE Serve
  BY <1>1, DictAlone, SameAlone DEF Serve, Edit, Unlink, ChangePassword, dictVars
<1>2. ASSUME NEW b \in Procs,
             \/ Main \/ Start(b) \/ Check(b) \/ Select(b) \/ InsertAdmin(b)
             \/ Plan(b) \/ Crash(b)
      PROVE  DefaultsInv'
  BY <1>2, SameAlone DEF Main, Start, Check, Select, InsertAdmin, Plan, Crash, dictVars
<1>3. ASSUME NEW b \in Procs, Commit(b) PROVE DefaultsInv'
  BY <1>3, CommitsAlone
<1>4. CASE UNCHANGED vars
  BY <1>4, SameAlone DEF vars, dictVars
<1>5. Script \in Procs
  BY DEF Procs
<1> QED BY <1>1, <1>2, <1>3, <1>4, <1>5 DEF Next

\* DictItemService.create and update take the default from the other items in
\* the transaction that gives it: a type has one default item, for any number
\* of requests and of instances that seed, unless two such transactions
\* overlapped or the seed came on top of an administrator's default.
THEOREM DefaultIsUnique == Spec => []OneDefault
<1>1. IInv => TypeOK /\ Aimed
  BY DEF IInv, Parts
<1>2. DefaultsInv => OneDefault
  <2> SUFFICES ASSUME DefaultsInv, NEW t \in Types, <<"default", t>> \notin raced
               PROVE  Cardinality(Defaults(t)) <= 1
    BY DEF OneDefault
  <2>1. AtMostOne(Defaults(t))
    BY DEF DefaultsInv, SetAlone
  <2>2. CASE Defaults(t) = {}
    BY <2>2, FS_EmptySet
  <2>3. CASE Defaults(t) # {}
    <3>1. PICK x : x \in Defaults(t)
      BY <2>3
    <3>2. Defaults(t) = {x}
      BY <2>1, <3>1 DEF AtMostOne
    <3>3. Cardinality({x}) = 1
      BY FS_Singleton
    <3>4. Cardinality(Defaults(t)) = 1
      BY <3>2, <3>3, Zenon
    <3> QED BY <3>4
  <2> QED BY <2>2, <2>3
<1> QED BY <1>1, <1>2, Initially, Inductive, StartsAlone, InductiveAlone, PTL DEF Spec
=============================================================================
