\* Operations of the two threads that do not overlap.
SPECIFICATION Spec
CONSTANTS
  a = a
  b = b
  MAC <- TwoHosts
  Iface = {1, 2}
  MAC_PORT_TIMEOUT = 2
  SweepPeriod = 1
  Node = {1, 2, 3}
  Overlap = FALSE
INVARIANTS TypeOK WellLinked SafeWalk
PROPERTY ImplementsTable
