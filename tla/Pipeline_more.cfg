SPECIFICATION Spec
CONSTANTS
  Jobs = {j1, j2}
  Commands = {p1, p2}
  CaseIssues = {i1}
  Diagnostics = {d1}
  Blocking = {i1}
  Sources <- MCSources
  None = None
  NoWork = NoWork
  Absent = Absent
  MaxCommands = 4
  MaxOverlaps = 1
SYMMETRY Interchangeable
INVARIANTS
  TypeOK
CHECK_DEADLOCK FALSE
