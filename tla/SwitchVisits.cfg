\* Two hosts on two interfaces that stay where they are; sweeps are in time.
SPECIFICATION VisitSpec
CONSTANTS
  MAC = {a, b}
  Group = {bcast}
  Mobile = {}
  Iface = {p1, p2}
  MAC_PORT_TIMEOUT = 2
  SweepPeriod = 1
INVARIANT VisitedStay
