SPECIFICATION Spec
CONSTANTS
  Sig = {15}
  MaxSignals = 1
  MaxCommands = 2
PROPERTIES
  AnsweredIsNotFatal
CHECK_DEADLOCK FALSE
