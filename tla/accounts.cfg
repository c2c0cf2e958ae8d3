\* Passwords and locks; signing in and linking; binding and unbinding.
SPECIFICATION Spec
CONSTANTS
  Users = {u1, u2}
  NoUser = NoUser
  g1 = g1
  g2 = g2
  q1 = q1
  Accounts = {g1, g2, q1}
  NoAccount = NoAccount
  ProviderOf <- MCProviderOf
  PkceProviders = {"pkce"}
  Codes = {c1, c2}
  NoCode = NoCode
  Requests = {r1, r2}
  Threshold = 2
  Duration = 2
  MaxTime = 5
  OpMixes <- MCMixes
SYMMETRY Symmetry
INVARIANTS TypeOK AlwaysAWayIn CodesUsedOnce RemovedGetNoTokens
PROPERTIES GuessesAreCounted
CHECK_DEADLOCK FALSE
