\* Liveness of one watch.
CONSTANTS
  a = a  b = b  c = c
  WatchedPath = {a, b, c}
  NoPath = NoPath
  Debounce = 1
  MaxEvents = 3
  Ignored = {c}
  RawCap = 2
  BatchCap = 2
  MaxWatch = 1
SPECIFICATION FairSpec
PROPERTIES MailDelivered ChangesDelivered StopEndsThread
CHECK_DEADLOCK FALSE
