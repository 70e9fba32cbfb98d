\* One copy, one crash: is a completed copy a whole copy?
CONSTANTS
  a = a  b = b  report = report
  Path = {a, b}
  Name = {report}
  Base <- BaseValue
  Content = {c1, c2}
  Absent = Absent
  Torn = Torn
  MaxOps = 1
  MaxTime = 1
  MaxFaults = 1
  MaxExternal = 0
SPECIFICATION Spec
PROPERTIES CopyAtomic
CHECK_DEADLOCK FALSE
