\* The program as it is: operations of the two threads overlap.
SPECIFICATION Spec
CONSTANTS
  a = a
  b = b
  MAC <- TwoHosts
  Iface = {1, 2}
  MAC_PORT_TIMEOUT = 2
  SweepPeriod = 1
  Node = {1, 2}
  Overlap = TRUE
INVARIANT SafeWalk
