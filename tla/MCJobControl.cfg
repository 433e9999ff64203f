SPECIFICATION Spec
CONSTANTS
  Pid = {p1, p2}
  Command = {c1}
  Raw <- MCRaw
  checkjobs = FALSE
  Commands <- AllCommands
  MaxForks = 2
  MaxStops = 2
SYMMETRY MCSymmetry
INVARIANTS
  TableSound
  TableFollowsKernel
  AnsweredOnce
  ExitSawStops
