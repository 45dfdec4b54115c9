\* nat.c as it is: neither thread takes the lock.
SPECIFICATION Spec
CONSTANTS
  Key = {1, 2}
  Node = {1, 2}
  Locked = FALSE
  Versions = {"nat"}
INVARIANT SafeWalk
