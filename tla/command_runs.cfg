\* Two commands at a time, over two files, with two models of different lengths.
CONSTANTS
  a = a  b = b  p1 = p1  p2 = p2  bge = bge  e5 = e5
  Process = {p1, p2}
  File = {a, b}
  Model = {bge, e5}
  NoModel = NoModel
  NoFile = NoFile
  Length <- LengthValue
  Preference <- PreferenceValue
  Key <- KeyValue
  Value <- ValueValue
  Default <- DefaultValue
  Flags = {FALSE}
  MaxVersion = 2
  MaxEdits = 1
  MaxStarts = 2
  MaxServes = 1
  MaxFaults = 1
SPECIFICATION Spec
SYMMETRY Alike
INVARIANTS TypeOK VectorsHaveFileDims SearchNeverMismatched CopyMirrorsFile VectorsOfRows IndexedStays KeysHoldTheirLastSet
CHECK_DEADLOCK FALSE
