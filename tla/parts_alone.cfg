\* Files of up to seven lines or five nodes; queries of up to five atoms; four
\* keys for three places of either cache, parsed queries living two ticks.
CONSTANTS
  MaxLines = 7
  MaxNodes = 5
  MaxAtoms = 5
  Months = {1, 6, 12}
  Typed = {"space", "quote", "word", "file", "code", "made", "ext", "go", "year", "num",
           "recent", "past", "this", "month"}
  q1 = q1  q2 = q2  q3 = q3  q4 = q4  f1 = f1  f2 = f2  h1 = h1
  t1 = t1  t2 = t2  t3 = t3  t4 = t4
  Query = {q1, q2, q3, q4}
  Text = {t1, t2, t3, t4}
  FileId = {f1, f2}
  Hash = {h1}
  QueryCap = 3
  TextCap = 3
  Ttl = 2
  MaxTime = 3
SPECIFICATION PartsSpec
INVARIANTS PartsTypeOK ChunksAreParagraphs ChunksAreTheTree PlainWordsKept FiltersFound
INVARIANTS RecentKept NoChangedFile YoungAnswered
CONSTRAINT OneCache
SYMMETRY Alike
CHECK_DEADLOCK FALSE
