\* Two concurrent requests on three departments.
SPECIFICATION Spec
CONSTANTS
  Depts = {d1, d2, d3}
  NoDept = NoDept
  Users = {u1}
  NoUser = NoUser
  Requests = {r1, r2}
  Ops = {"create", "update", "remove", "userUpdate", "assignDataScope"}
SYMMETRY Symmetry
INVARIANTS TypeOK AcyclicUnlessUpdatesRace NothingDanglesUnlessRemoveRaces EveryNodeShown ScopeIsSubtree ListsRespectScope
CHECK_DEADLOCK FALSE
PROPERTY WalkProgresses
