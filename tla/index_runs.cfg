\* Runs over files that change, crashes and failures in between; five chunks
\* make three batches, one more than channel and worker hold, and the three of
\* one file are more than index_file sends without waiting for itself.
CONSTANTS
  a = a  b = b
  File = {a, b}
  Torn = Torn
  Runner = {p}
  ChunksOf <- ThreeAndTwo
  BatchSize = 2
  ChanCap = 1
  FileBatch = 2
  Embedders = {TRUE, FALSE}
  MaxVersion = 2
  MaxEdits = 1
  MaxRuns = 3
  MaxFaults = 2
SPECIFICATION FileSpec
INVARIANTS TypeOK FtsHasFile NoOrphanVectors
PROPERTIES RunEnds CleanRunIndexes
CHECK_DEADLOCK FALSE
