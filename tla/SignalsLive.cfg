SPECIFICATION FairSpec
CONSTANTS
  Sig = {2, 15}
  MaxSignals = 2
  MaxCommands = 2
PROPERTIES
  PendingDrained
CHECK_DEADLOCK FALSE
