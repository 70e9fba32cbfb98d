\* Three files for two results, one of them replaced at any moment of a search.
CONSTANTS
  a = a  b = b  c = c
  IndexedPath = {a, b, c}
  Scores = {400000}
  TopK = 2
  MaxReplaced = 1
SPECIFICATION Spec
SYMMETRY Alike
INVARIANTS TypeOK NoFileTwice ResultsAreFound UnanimityKept
