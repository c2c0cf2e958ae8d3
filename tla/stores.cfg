\* Three requests at a time upload, delete, read and refer to two files; two
\* requests or logins are logged while broker, database and processes fail.
SPECIFICATION StoresSpec
CONSTANTS
  FileIds = {f1, f2}
  NoFile = NoFile
  Users = {u1}
  Requests = {r1, r2, r3}
  MaxFaults = 1
  Entries = {e1, e2}
  MaxTime = 2
  MaxLogFaults = 3
INVARIANTS TypeOK ObjectsMatchRows WrittenOncePerFault
PROPERTY EveryRequestIsLogged
CHECK_DEADLOCK FALSE
