\* Links and removals; menus; the copies of rows, codes and values in Redis.
SPECIFICATION Spec
CONSTANTS
  Users = {u1}
  Roles = {ro1, ro2}
  Permissions = {pe1}
  Menus = {m1, m2, m3}
  NoMenu = NoMenu
  ConfigRows = {co1}
  ConfigKeys = {k1, k2}
  NoKey = NoKey
  Tree = Tree
  Data = {v1, v2}
  NoData = NoData
  Requests = {r1, r2}
  OpMixes <- MCMixes
SYMMETRY Symmetry
INVARIANTS TypeOK NothingRefersToRemoved MenusAreAForest FreshUnlessExcused
CHECK_DEADLOCK FALSE
