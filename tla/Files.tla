-------------------------------- MODULE Files --------------------------------
(***************************************************************************)
(* Uploaded files: FileService, S3Service, and the avatars that UserService *)
(* creates and updates users with.                                         *)
(*                                                                         *)
(* A file's row and its object in S3 are written one after the other, by   *)
(* requests that may run at the same time; each step is one call of the    *)
(* database or of S3.  The object's key is new for every upload, so a file  *)
(* stands for both.  What presign returns is the key of a row it found.    *)
(* The database knows no foreign keys (relationMode = "prisma"): an avatar  *)
(* is a number, and Prisma clears it when it deletes the file.             *)
(***************************************************************************)
EXTENDS Naturals, FiniteSets

CONSTANTS
  FileIds, NoFile,
  Users,
  Requests, \* requests that can be in progress at once
  MaxFaults \* bounds the faults: failed and unanswered calls, crashes

ASSUME FilesAssumption == NoFile \notin FileIds /\ MaxFaults \in Nat

VARIABLES
  bucket,     \* is the bucket there?
  object,     \* the objects in it
  file,       \* files
  avatar,     \* avatarFileId of users
  req,        \* the requests in progress
  faults,
  unanswered, \* files whose row was written though its insert failed
  stray,      \* objects whose removal failed, or whose request died
  overlapped  \* files that were being deleted while a user was given them

vars == <<bucket, object, file, avatar, req, faults, unanswered, stray, overlapped>>

-----------------------------------------------------------------------------
Request == [pc : {"idle", "put", "create", "undo", "deleteRow", "deleteCommit",
                  "deleteObject", "getObject", "setAvatar"},
            file : FileIds \cup {NoFile},
            users : SUBSET Users] \* to be given the file, or to lose it

IdleRequest == [pc |-> "idle", file |-> NoFile, users |-> {}]

TypeOK ==
  /\ bucket \in BOOLEAN
  /\ object \subseteq FileIds
  /\ file \in [FileIds -> {"absent", "live", "deleted"}]
  /\ avatar \in [Users -> FileIds \cup {NoFile}]
  /\ req \in [Requests -> Request]
  /\ faults \in 0 .. MaxFaults
  /\ unanswered \subseteq FileIds
  /\ stray \subseteq FileIds
  /\ overlapped \subseteq FileIds

Live(f)   == file[f] = "live"
Busy(pcs) == {req[r].file : r \in {q \in Requests : req[q].pc \in pcs}}

Begin(r, q)  == req[r].pc = "idle" /\ req' = [req EXCEPT ![r] = q]
Goto(r, pc)  == req' = [req EXCEPT ![r].pc = pc]
Return(r)    == req' = [req EXCEPT ![r] = IdleRequest]
Fault        == faults < MaxFaults /\ faults' = faults + 1

-----------------------------------------------------------------------------
\* An instance starts: HeadBucket, and CreateBucket when it is not there.
\* Without either the application runs, and uploads fail.
OnModuleInit ==
  /\ ~bucket /\ bucket' = TRUE
  /\ UNCHANGED <<object, file, avatar, req, faults, unanswered, stray, overlapped>>

-----------------------------------------------------------------------------
\* FileService.upload

\* The size is within the limit; the key is new.
UploadBegin(r, f) ==
  /\ file[f] = "absent" /\ f \notin object \cup stray
  /\ \A q \in Requests : req[q].file # f
  /\ Begin(r, [IdleRequest EXCEPT !.pc = "put", !.file = f])
  /\ UNCHANGED <<bucket, object, file, avatar, faults, unanswered, stray, overlapped>>

\* Mutant: the object's key is empty.
PutNoKey(r) ==
  /\ req[r].pc = "put"
  /\ IF bucket THEN Goto(r, "create") /\ object' = object \cup {NoFile}
               ELSE Return(r) /\ UNCHANGED object
  /\ UNCHANGED <<bucket, file, avatar, faults, unanswered, stray, overlapped>>

Put(r) ==
  /\ req[r].pc = "put"
  /\ IF bucket THEN Goto(r, "create") /\ object' = object \cup {req[r].file}
               ELSE Return(r) /\ UNCHANGED object
  /\ UNCHANGED <<bucket, file, avatar, faults, unanswered, stray, overlapped>>

\* The object may have arrived all the same; nobody will look for it.
PutFails(r, arrived) ==
  /\ req[r].pc = "put" /\ Fault
  /\ arrived => bucket
  /\ object' = IF arrived THEN object \cup {req[r].file} ELSE object
  /\ stray'  = IF arrived THEN stray \cup {req[r].file} ELSE stray
  /\ Return(r)
  /\ UNCHANGED <<bucket, file, avatar, unanswered, overlapped>>

Create(r) ==
  /\ req[r].pc = "create"
  /\ file' = [file EXCEPT ![req[r].file] = "live"]
  /\ Return(r)
  /\ UNCHANGED <<bucket, object, avatar, faults, unanswered, stray, overlapped>>

\* Mutant: the object is not removed again.
CreateOnlyFails(r, arrived) ==
  /\ req[r].pc = "create" /\ Fault
  /\ Return(r)
  /\ UNCHANGED <<bucket, object, file, avatar, unanswered, stray, overlapped>>

\* The row may have been written all the same; its object goes.
CreateFails(r, arrived) ==
  /\ req[r].pc = "create" /\ Fault
  /\ Goto(r, "undo")
  /\ file'       = IF arrived THEN [file EXCEPT ![req[r].file] = "live"] ELSE file
  /\ unanswered' = IF arrived THEN unanswered \cup {req[r].file} ELSE unanswered
  /\ UNCHANGED <<bucket, object, avatar, stray, overlapped>>

-----------------------------------------------------------------------------
\* FileService.delete

DeleteBegin(r, f) ==
  /\ Live(f)
  /\ Begin(r, [IdleRequest EXCEPT !.pc = "deleteRow", !.file = f])
  /\ overlapped' = overlapped \cup ({f} \cap Busy({"setAvatar"}))
  /\ UNCHANGED <<bucket, object, file, avatar, faults, unanswered, stray>>

\* file.delete is a transaction of Prisma's: it reads the file and the users
\* whose avatar it is (onDelete: SetNull) ...
DeleteRow(r) ==
  /\ req[r].pc = "deleteRow"
  /\ LET f == req[r].file IN
     IF Live(f)
     THEN req' = [req EXCEPT ![r].pc = "deleteCommit",
                             ![r].users = {u \in Users : avatar[u] = f}]
     ELSE Return(r)
  /\ UNCHANGED <<bucket, object, file, avatar, faults, unanswered, stray, overlapped>>

\* ... then clears the avatars of the users it has read and deletes the row.  Of
\* two deletions the second finds no row left here: it fails, or does not notice.
DeleteCommit(r) ==
  /\ req[r].pc = "deleteCommit"
  /\ \/ /\ file'   = [file EXCEPT ![req[r].file] = "deleted"]
        /\ avatar' = [u \in Users |-> IF u \in req[r].users THEN NoFile ELSE avatar[u]]
        /\ Goto(r, "deleteObject")
     \/ ~Live(req[r].file) /\ Return(r) /\ UNCHANGED <<file, avatar>>
  /\ UNCHANGED <<bucket, object, faults, unanswered, stray, overlapped>>

\* s3.delete, for a deletion and for an upload that is undone.
DeleteObject(r) ==
  /\ req[r].pc \in {"deleteObject", "undo"}
  /\ object' = object \ {req[r].file}
  /\ Return(r)
  /\ UNCHANGED <<bucket, file, avatar, faults, unanswered, stray, overlapped>>

\* The failure is logged or ignored.
DeleteObjectFails(r) ==
  /\ req[r].pc \in {"deleteObject", "undo"} /\ Fault
  /\ stray' = stray \cup {req[r].file}
  /\ Return(r)
  /\ UNCHANGED <<bucket, object, file, avatar, unanswered, overlapped>>

-----------------------------------------------------------------------------
\* getStreamById: the row, then the object.

ProxyBegin(r, f) ==
  /\ Live(f)
  /\ Begin(r, [IdleRequest EXCEPT !.pc = "getObject", !.file = f])
  /\ UNCHANGED <<bucket, object, file, avatar, faults, unanswered, stray, overlapped>>

GetObject(r) ==
  /\ req[r].pc = "getObject"
  /\ Return(r)
  /\ UNCHANGED <<bucket, object, file, avatar, faults, unanswered, stray, overlapped>>

-----------------------------------------------------------------------------
\* UserService.create and update: the file is looked for, then the user written.

AvatarBegin(r, u, f) ==
  /\ f # NoFile => Live(f)
  /\ Begin(r, [pc |-> "setAvatar", file |-> f, users |-> {u}])
  /\ overlapped' = overlapped \cup ({f} \cap Busy({"deleteRow", "deleteCommit"}))
  /\ UNCHANGED <<bucket, object, file, avatar, faults, unanswered, stray>>

\* Nothing looks at the file again: it may be gone by now.
SetAvatar(r) ==
  /\ req[r].pc = "setAvatar"
  /\ avatar' = [u \in Users |-> IF u \in req[r].users THEN req[r].file ELSE avatar[u]]
  /\ Return(r)
  /\ UNCHANGED <<bucket, object, file, faults, unanswered, stray, overlapped>>

-----------------------------------------------------------------------------
\* The process dies, or a call of the database fails.
Crash(r) ==
  /\ req[r].pc # "idle" /\ Fault
  /\ stray' = IF req[r].pc \in {"create", "undo", "deleteObject"}
              THEN stray \cup {req[r].file} ELSE stray
  /\ Return(r)
  /\ UNCHANGED <<bucket, object, file, avatar, unanswered, overlapped>>

Init ==
  /\ bucket = FALSE
  /\ object = {}
  /\ file = [f \in FileIds |-> "absent"]
  /\ avatar = [u \in Users |-> NoFile]
  /\ req = [r \in Requests |-> IdleRequest]
  /\ faults = 0
  /\ unanswered = {}
  /\ stray = {}
  /\ overlapped = {}

Step(r) ==
  \/ \E f \in FileIds : UploadBegin(r, f) \/ DeleteBegin(r, f) \/ ProxyBegin(r, f)
  \/ \E u \in Users, f \in FileIds \cup {NoFile} : AvatarBegin(r, u, f)
  \/ \E arrived \in BOOLEAN : PutFails(r, arrived) \/ CreateFails(r, arrived)
  \/ Put(r) \/ Create(r) \/ DeleteRow(r) \/ DeleteCommit(r) \/ DeleteObject(r)
  \/ DeleteObjectFails(r) \/ GetObject(r) \/ SetAvatar(r) \/ Crash(r)

Next == OnModuleInit \/ \E r \in Requests : Step(r)

Spec == Init /\ [][Next]_vars

-----------------------------------------------------------------------------
\* The object is stored before the row and removed after it, and a deletion
\* clears the avatars: what a row, a proxy or an avatar refers to is there,
\* unless the insert failed though it had been committed, or a user was given
\* the file while it was being deleted; and an object without a row belongs to a
\* request in progress, or is one that a failure has left behind.
ObjectsMatchRows ==
  \A f \in FileIds :
    /\ Live(f) => f \in object \cup unanswered
    /\ f \in object /\ ~Live(f) => f \in stray \cup Busy({"create", "undo", "deleteObject"})
    /\ \A u \in Users : avatar[u] = f => Live(f) \/ f \in overlapped
=============================================================================
