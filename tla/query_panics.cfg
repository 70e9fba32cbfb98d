\* Does parse_query take every query?
CONSTANTS
  MaxAtoms = 4
  Months = {1}
  Typed = {"space", "quote", "word", "year", "wide", "widenum", "recent", "num", "month"}
SPECIFICATION QuerySpec
INVARIANTS NeverPanics
CHECK_DEADLOCK FALSE
