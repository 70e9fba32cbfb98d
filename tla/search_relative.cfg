\* Do fused results meet the relative threshold only?
CONSTANTS
  a = a  b = b  c = c
  IndexedPath = {a, b}
  Scores = {400000}
  TopK = 2
  MaxReplaced = 0
SPECIFICATION Spec
PROPERTIES FusedKeptRelative
