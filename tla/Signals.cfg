SPECIFICATION Spec
CONSTANTS
  Sig = {1, 10, 14}
  MaxSignals = 2
  MaxCommands = 3
INVARIANTS
  PendingIsFlagged
  TrapsNested
  DispositionFollowsTrap
CHECK_DEADLOCK FALSE
