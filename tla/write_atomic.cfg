\* Two files of one base name, two operations, two accidents, one change by
\* another program: a crash, a recovery that crashes, and a stale entry.
CONSTANTS
  a = a  b = b  report = report
  Path = {a, b}
  Name = {report}
  Base <- BaseValue
  Content = {c1, c2}
  Absent = Absent
  Torn = Torn
  MaxOps = 2
  MaxTime = 1
  MaxFaults = 2
  MaxExternal = 1
SPECIFICATION Spec
INVARIANTS TypeOK RecoverCovers
PROPERTIES MoveAtomic DeleteAtomic RecoverInOrder LogRefinement
CHECK_DEADLOCK FALSE
