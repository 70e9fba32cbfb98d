\* One command after the other, nothing fails: --full changes nothing.
CONSTANTS
  a = a  b = b  p1 = p1  p2 = p2  bge = bge  e5 = e5
  Process = {p1}
  File = {a, b}
  Model = {bge, e5}
  NoModel = NoModel
  NoFile = NoFile
  Length <- LengthValue
  Preference <- PreferenceValue
  Key <- KeyValue
  Value <- ValueValue
  Default <- DefaultValue
  Flags = {TRUE, FALSE}
  MaxVersion = 2
  MaxEdits = 0
  MaxStarts = 2
  MaxServes = 1
  MaxFaults = 0
SPECIFICATION Spec
PROPERTIES FullReindexes
CHECK_DEADLOCK FALSE
