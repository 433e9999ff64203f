SPECIFICATION MCSpec
CONSTANTS
  Pid = {p1, p2, p3}
  Command = {c1}
  MaxAdds = 3
  Raw <- MCRaw
  Signal <- MCSignal
SYMMETRY MCSymmetry
INVARIANTS
  TableCoherent
  MarkersPreferLive
  JobRecordsAgree
PROPERTIES
  JobsKeepIdentity
