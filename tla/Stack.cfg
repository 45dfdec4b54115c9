\* The whole switch with two interfaces, two hosts, one of which moves.
SPECIFICATION FairSpec
CONSTANTS
  a = a
  b = b
  bcast = bcast
  MAC <- TwoHosts
  Group <- Everyone
  Mobile <- OneMoves
  MAC_PORT_TIMEOUT = 1
  SweepPeriod = 1
  nifs = 2
  MaxFrames = 2
  MaxQueue = 2
  MaxErrors = 0
PROPERTIES ImplementsSwitch Delivered
