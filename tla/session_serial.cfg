\* One request at a time, in either configuration; time passes between requests.
SPECIFICATION Spec
CONSTANTS
  Users = {u1}
  Sessions = {s1, s2, s3}
  Tokens = {t1, t2, t3, t4}
  Requests = {r1}
  NoUser = NoUser
  NoSession = NoSession
  NoToken = NoToken
  TTL = 2
  MaxTime = 5
  Faults = {}
  MaxCrashes = 0
CHECK_DEADLOCK FALSE
INVARIANTS TypeOK ActiveSessionsListed
