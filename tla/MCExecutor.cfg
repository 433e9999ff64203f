SPECIFICATION Spec
CONSTANTS
  Scenarios <- MCScenarios
  MaxDepth = 5
  MaxItems = 1
  MaxSignals = 1
  FuncNest = 2
INVARIANTS
  ContextCoherent
  ExitTrapOnce
PROPERTIES
  
  ErrexitHonoured
