\* Two hosts on three interfaces, one of them movable, sweeps up to a second late.
SPECIFICATION FairSpec
CONSTANTS
  a = a
  b = b
  bcast = bcast
  p1 = p1
  p2 = p2
  p3 = p3
  MAC <- TwoHosts
  Group <- Everyone
  Mobile <- OneMoves
  Iface <- ThreePorts
  MAC_PORT_TIMEOUT = 2
  SweepPeriod = 2
INVARIANTS TypeOK UniqueMacs AgeBound
PROPERTIES ImplementsTable SettledDelivery Forgotten
