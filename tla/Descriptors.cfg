CONSTANTS
  User = {1, 2}
  Source = {1, 2, 50, 60}
  Inherited = {0, 1, 2}
  Limit = 256
  CoprocName = {"COPROC", "worker"}
  MaxDepth = 2
  MaxSteps = 3
  MaxCoprocs = 2
SPECIFICATION Spec
INVARIANTS
  DescriptorsOwned
PROPERTIES
  RedirectionsScoped
CHECK_DEADLOCK FALSE
