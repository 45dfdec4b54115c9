\* Both versions of the translator, with the lock that nat.h asks for.
SPECIFICATION Spec
CONSTANTS
  Key = {1, 2}
  Node = {1, 2, 3}
  Locked = TRUE
  Versions = {"nat", "nat_new_2"}
INVARIANTS TypeOK WellLinked SafeWalk
PROPERTY AtomicUpdates
