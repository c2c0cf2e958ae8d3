\* Instances start on an empty database; dictionaries; the seed script.
SPECIFICATION Spec
CONSTANTS
  Types = {ty1, ty2}
  NoType = NoType
  Codes = {c1, c2}
  Items = {i1, i2, i3}
  NoItem = NoItem
  Values = {v1, v2}
  Requests = {r1, r2}
  OpMixes <- MCMixes
  Instances = {b1, b2}
  Script = Script
  SeedMenus = {me1}
  SeedPermissions = {pe1}
  AdminRole = AdminRole
  SeedCode = c1
  SeedValue = v1
SYMMETRY Symmetry
INVARIANTS TypeOK OneDefault ItemsHaveTypes SystemDataStays
PROPERTIES BootstrapKeepsEdits
CHECK_DEADLOCK FALSE
