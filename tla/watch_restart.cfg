\* Watch, stop, watch again: two debounce threads may share the flag. The raw
\* channel holds two of three events.
CONSTANTS
  a = a  b = b  c = c
  WatchedPath = {a, b}
  NoPath = NoPath
  Debounce = 1
  MaxEvents = 3
  Ignored = {}
  RawCap = 2
  BatchCap = 2
  MaxWatch = 2
SPECIFICATION Spec
INVARIANTS TypeOK
PROPERTIES NewestWins Debounced
CHECK_DEADLOCK FALSE
