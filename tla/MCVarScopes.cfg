SPECIFICATION Spec
CONSTANTS
    Names = {"x", "y"}
    Numerals = {"1", "2"}
    Keys = {"0", "1"}
    Scripts <- AllScripts
INVARIANTS
  StoreCoherent
PROPERTIES
  DeepScope
  ReadonlyHolds
  AssignmentsTakenBack
