SPECIFICATION Spec
CONSTANTS
    s1 = s1
    s2 = s2
    Shells <- MCShells
    Texts <- MCTexts
    Plans <- MCPlans
    PlanOf <- MCPlanOf
    NoLimit <- MCNoLimit
INVARIANTS
  SaveMarkExact
  FileKeeps
PROPERTIES
  EventsStable
CHECK_DEADLOCK FALSE
