\* Two concurrent requests; requests are slow or die halfway.
SPECIFICATION Spec
CONSTANTS
  Users = {u1}
  Sessions = {s1}
  Tokens = {t1, t2, t3}
  Requests = {r1, r2}
  NoUser = NoUser
  NoSession = NoSession
  NoToken = NoToken
  TTL = 2
  MaxTime = 3
  Faults = {"slow", "crash"}
  MaxCrashes = 1
CHECK_DEADLOCK FALSE
PROPERTIES DeadStaysDead ReuseEndsSession
