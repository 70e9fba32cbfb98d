\* Namesakes, names that are queries, stale inodes, a remount.
CONSTANTS
  dx = dx  rx = rx  ry = ry  q = q  x = x  y = y
  SourcePath = {dx, rx, ry}
  Word = {q, x, y}
  Base <- BaseValue
  RootFile <- RootValue
  Finds <- FindsValue
  MaxDepth = 2
  MaxInode = 5
  MaxVersion = 1
  MaxChanges = 2
SPECIFICATION Spec
INVARIANTS TypeOK OneInodePerName InodeNamesItsFile
PROPERTIES TouchesOnlyWhatWasFound
CHECK_DEADLOCK FALSE
