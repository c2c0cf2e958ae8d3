\* One or two instances that start, stop, fail and rotate on their timers.
SPECIFICATION Spec
CONSTANTS
  Instances = {i1, i2}
  Rotations = {r1, r2}
  KeyPairs = {k1, k2, k3}
  NoPair = NoPair
  NoInstance = NoInstance
  RotateSeconds = 2
  TtlSeconds = 4
  Buffer = 1
  MaxTime = 7
SYMMETRY Symmetry
INVARIANTS TypeOK FetchedKeyWorks OneInstanceRotatesOnce
CHECK_DEADLOCK FALSE
