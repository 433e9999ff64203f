SPECIFICATION FairSpec
CONSTANTS
  Pid = {p1, p2}
  Command = {c1}
  Raw <- MCRaw
  checkjobs = FALSE
  Commands <- MCLiveCommands
  MaxForks = 2
  MaxStops = 1
PROPERTIES
  ZombiesReaped
  CommandsReturn
