\* Both programs with three interfaces; those of the switch may fail to open.
SPECIFICATION FairSpec
CONSTANTS
  nifs = 3
  MaxFrames = 3
  MaxQueue = 2
  MaxErrors = 1
INVARIANTS TypeOK NeverBlocks HandledOnce BoundedBypass
PROPERTY Received
CHECK_DEADLOCK FALSE
