SPECIFICATION Spec
CONSTANTS
  Jobs = {j1}
  Commands = {p1}
  CaseIssues = {i1, i2}
  Diagnostics = {d1}
  Blocking = {i1, i2}
  Sources <- MCSources
  None = None
  NoWork = NoWork
  Absent = Absent
  MaxCommands = 5
  MaxOverlaps = 0
SYMMETRY Interchangeable
INVARIANTS
  EveryIssueClassified
CHECK_DEADLOCK FALSE
