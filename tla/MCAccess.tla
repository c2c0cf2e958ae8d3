------------------------------ MODULE MCAccess ------------------------------
(* Instances of Access for TLC. *)
EXTENDS Access, TLC

RoleOps == {"createUser", "createRole", "assignRoles"}

MCMixes == {
  [ops |-> RoleOps \cup {"status", "fill"}, roles |-> 2, menus |-> 0],
  [ops |-> RoleOps \cup {"createPermission", "assignPermissions", "fill"}, roles |-> 1, menus |-> 0],
  [ops |-> RoleOps \cup {"createPermission", "assignPermissions",
                       "removeUser", "removeRole", "removePermission"}, roles |-> 2, menus |-> 0],
  [ops |-> {"createMenu", "moveMenu", "removeMenu"}, roles |-> 0, menus |-> 3],
  [ops |-> {"createRole", "createMenu", "assignMenus", "removeMenu", "removeRole"},
   roles |-> 1, menus |-> 2],
  [ops |-> {"createUser", "userUpdate", "removeUser", "fill"}, roles |-> 0, menus |-> 0],
  [ops |-> {"configCreate", "configUpdate", "configRemove", "fill", "refreshCache", "redisFails"},
   roles |-> 0, menus |-> 0],
  [ops |-> {"treeWrite", "fill"}, roles |-> 0, menus |-> 0]}

\* Rows of a kind and requests are interchangeable.
Symmetry == Permutations(Requests) \cup Permutations(Menus) \cup Permutations(Roles)
              \cup Permutations(ConfigKeys)
=============================================================================
