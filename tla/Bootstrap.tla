----------------------------- MODULE Bootstrap -----------------------------
(***************************************************************************)
(* The system's own data: BootstrapService, which every instance of the    *)
(* application runs when it starts, and prisma/seed.ts, which an operator  *)
(* runs.  Both write the administrator, the menus, the permissions, the    *)
(* role ADMIN with its links and the dictionaries in one transaction; the  *)
(* first keeps the rows that are there, the second sets them back.  They   *)
(* share the dictionaries with the requests of module Dictionary.          *)
(*                                                                         *)
(* The rows that the transaction finds are read in one step, and its       *)
(* writes are the commit; the row of the administrator comes first, and    *)
(* who wants to insert it waits for another transaction that has.  Menus,  *)
(* permissions and the role are rows that are missing, as seeded or        *)
(* edited; their requests are those of module Access.                      *)
(***************************************************************************)
EXTENDS Dictionary

CONSTANTS
  Instances, Script,  \* who seeds
  SeedMenus, SeedPermissions, AdminRole, \* the rows of the seed
  SeedCode, SeedValue \* the type and its default item, of the seed's dictionaries

ASSUME BootstrapAssumption ==
  /\ Script \notin Instances /\ SeedCode \in Codes /\ SeedValue \in Values
  /\ {"type", "item"} \cap (SeedMenus \cup SeedPermissions \cup {AdminRole}) = {}

VARIABLES
  admin,    \* is there a user admin?
  password, \* of admin: "none", "seed" or "own"
  row,      \* SystemRows: "absent", or what they hold
  granted,  \* the menus and permissions that the role is linked to
  boot      \* the seeding processes

sysVars == <<admin, password, row, granted>>
vars    == <<mix, dictVars, sysVars, boot>>

-----------------------------------------------------------------------------
Procs == Instances \cup {Script}

\* Both have the same menuTree, permissions and dictTypes.
Grantable  == SeedMenus \cup SeedPermissions
SystemRows == Grantable \cup {AdminRole}

\* inserted: did this transaction insert admin?  missing: the rows it did not find.
Seeding == [pc : {"down", "check", "select", "insert", "plan", "commit", "running"},
            inserted : BOOLEAN,
            missing : SUBSET (SystemRows \cup {"type", "item"})]

Down == [pc |-> "down", inserted |-> FALSE, missing |-> {}]

TypeOK ==
  /\ DictTypeOK
  /\ admin \in BOOLEAN
  /\ password \in {"none", "seed", "own"}
  /\ row \in [SystemRows -> {"absent"} \cup Content]
  /\ granted \subseteq Grantable
  /\ boot \in [Procs -> Seeding]

SeedTypes    == {t \in Types : TypeFound(t) /\ type[t].code = SeedCode}
SeedItems(t) == {i \in ItemsOf(t) : item[i].value = SeedValue}

\* What upsert does not find.
Missing ==
  {x \in SystemRows : row[x] = "absent"}
    \cup (IF SeedTypes = {} THEN {"type"} ELSE {})
    \cup (IF \A t \in SeedTypes : SeedItems(t) = {} THEN {"item"} ELSE {})

StepTo(b, pc) == boot' = [boot EXCEPT ![b].pc = pc]
Fail(b)       == boot' = [boot EXCEPT ![b] = Down]

-----------------------------------------------------------------------------
\* Instances are started, and started again when they failed; without "late"
\* none is once one runs.
Start(b) ==
  /\ boot[b].pc = "down" /\ b # Script
  /\ "late" \in mix.ops \/ \A c \in Instances : boot[c].pc # "running"
  /\ StepTo(b, "check")
  /\ UNCHANGED <<mix, dictVars, sysVars>>

\* The script does not look whether there is something to do.
Main ==
  /\ "script" \in mix.ops /\ boot[Script].pc = "down"
  /\ StepTo(Script, "select")
  /\ UNCHANGED <<mix, dictVars, sysVars>>

\* onApplicationBootstrap
Check(b) ==
  /\ boot[b].pc = "check"
  /\ StepTo(b, IF admin THEN "running" ELSE "select")
  /\ UNCHANGED <<mix, dictVars, sysVars>>

\* Upsert is a SELECT, and an INSERT when it found nothing.
Select(b) ==
  /\ boot[b].pc = "select"
  /\ StepTo(b, IF admin THEN "plan" ELSE "insert")
  /\ UNCHANGED <<mix, dictVars, sysVars>>

\* The unique index makes the second one wait, and fail when the first commits.
InsertAdmin(b) ==
  /\ boot[b].pc = "insert"
  /\ \A c \in Procs : ~boot[c].inserted
  /\ IF admin THEN Fail(b)
     ELSE boot' = [boot EXCEPT ![b].pc = "plan", ![b].inserted = TRUE]
  /\ UNCHANGED <<mix, dictVars, sysVars>>

Plan(b) ==
  /\ boot[b].pc = "plan"
  /\ boot' = [boot EXCEPT ![b].pc = "commit", ![b].missing = Missing]
  /\ UNCHANGED <<mix, dictVars, sysVars>>

\* Mutant: the application sets rows back too.
KeepNothing(b, old, new) == new

\* A row that the script finds is set back; the application leaves it alone.
Keep(b, old, new) == IF b = Script THEN new ELSE old

NewType    == [state |-> "live", code |-> SeedCode, isSystem |-> TRUE, data |-> "seed"]
NewItem(t) == [state |-> "live", of |-> t, value |-> SeedValue, isDefault |-> TRUE,
               data |-> "seed"]

\* The dictionaries with the seed's type t and item i, each found or new.
SeedDict(b, t, i) ==
  LET missing == boot[b].missing IN
  /\ IF "type" \in missing THEN type[t].state = "absent" ELSE t \in SeedTypes
  /\ IF "item" \in missing THEN item[i].state = "absent" ELSE i \in SeedItems(t)
  /\ type' = [type EXCEPT ![t] = IF "type" \in missing THEN NewType ELSE Keep(b, @, NewType)]
  /\ item' = [item EXCEPT ![i] = IF "item" \in missing THEN NewItem(t) ELSE Keep(b, @, NewItem(t))]
  /\ raced' = raced \cup (IF Defaults(t) \subseteq {i} /\ Setting(t) = {} THEN {}
                          ELSE {<<"default", t>>})

\* The upserts of menus, permissions and the role.
Upserted(b) ==
  [x \in SystemRows |-> IF x \in boot[b].missing THEN "seed" ELSE Keep(b, row[x], "seed")]

\* Mutant: what was inserted is linked, of whatever table.
LinkInserted(b) == granted \cup boot[b].missing

\* Links that are there are skipped, the others created.
NewLinks(b) == Grantable

\* Mutant: the administrator is committed before the rest.
CommitAdminFirst(b) ==
  /\ boot[b].pc = "commit"
  /\ admin' = TRUE
  /\ boot' = [boot EXCEPT ![b] = [Down EXCEPT !.pc = "plan"]]
  /\ UNCHANGED <<mix, dictVars, password, row, granted>>

\* A row that was missing has been inserted by another: the transaction fails.
Commit(b) ==
  /\ boot[b].pc = "commit"
  /\ IF boot[b].missing \subseteq Missing
     THEN /\ \E t \in Types, i \in Items \ UNION {req[r].ids : r \in Requests} : SeedDict(b, t, i)
          /\ admin' = TRUE
          /\ password' = IF password = "none" THEN "seed" ELSE password
          /\ row' = Upserted(b)
          /\ granted' = NewLinks(b)
          /\ boot' = [boot EXCEPT ![b] = [Down EXCEPT !.pc = IF b = Script THEN "down"
                                                             ELSE "running"]]
     ELSE Fail(b) /\ UNCHANGED <<type, item, raced, sysVars>>
  /\ UNCHANGED <<mix, req>>

\* A transaction that has not committed leaves nothing.
Crash(b) ==
  /\ "crash" \in mix.ops /\ boot[b].pc # "down"
  /\ Fail(b)
  /\ UNCHANGED <<mix, dictVars, sysVars>>

-----------------------------------------------------------------------------
\* What administrators change in the system's data: rows marked isSystem are
\* edited, never removed.

Edit(x) ==
  /\ "edit" \in mix.ops /\ row[x] = "seed"
  /\ row' = [row EXCEPT ![x] = "edited"]
  /\ UNCHANGED <<mix, dictVars, admin, password, granted, boot>>

Unlink(x) ==
  /\ "edit" \in mix.ops /\ x \in granted
  /\ granted' = granted \ {x}
  /\ UNCHANGED <<mix, dictVars, admin, password, row, boot>>

ChangePassword ==
  /\ "edit" \in mix.ops /\ password = "seed"
  /\ password' = "own"
  /\ UNCHANGED <<mix, dictVars, admin, row, granted, boot>>

-----------------------------------------------------------------------------
Init ==
  /\ DictInit
  /\ admin = FALSE /\ password = "none"
  /\ row = [x \in SystemRows |-> "absent"]
  /\ granted = {}
  /\ boot = [b \in Procs |-> Down]

Serve ==
  /\ \E b \in Instances : boot[b].pc = "running"
  /\ \/ DictNext /\ UNCHANGED <<sysVars, boot>>
     \/ \E x \in SystemRows : Edit(x)
     \/ \E x \in Grantable : Unlink(x)
     \/ ChangePassword

Next ==
  \/ Serve
  \/ Main
  \/ \E b \in Procs : Start(b) \/ Check(b) \/ Select(b) \/ InsertAdmin(b)
                        \/ Plan(b) \/ Commit(b) \/ Crash(b)

Spec == Init /\ [][Next]_vars

-----------------------------------------------------------------------------
\* onApplicationBootstrap looks for admin only: when there is one, everything
\* else of the seed has been written too, whoever crashed or lost a race on
\* the way, and no request has removed it.
SystemDataStays ==
  admin =>
    /\ password # "none"
    /\ \A x \in SystemRows : row[x] # "absent"
    /\ \E t \in SeedTypes : type[t].isSystem

\* bootstrap.service.ts:11-12: rows that exist are left alone, so that what
\* users changed is not overwritten, even by an instance that started before
\* the change.  The links of ADMIN are excepted: an instance that is late
\* creates those again that an administrator removed.
BootstrapKeepsEdits ==
  [][\A b \in Instances :
       boot[b].pc = "commit" /\ boot'[b] # boot[b] =>
         /\ \A x \in SystemRows : row[x] # "absent" => row'[x] = row[x]
         /\ \A t \in Types : type[t].state # "absent" => type'[t] = type[t]
         /\ \A i \in Items : item[i].state # "absent" => item'[i] = item[i]
         /\ password # "none" => password' = password]_vars
=============================================================================
