\* No watcher and no timeout: the access may wait for ever.
SPECIFICATION FairSpec
CONSTANTS
  Tasks = {t1}
  Watchers = {}
  Timeout = FALSE
  Signals = FALSE
  Stops = FALSE
  Faults = FALSE
  MaxId = 1
PROPERTY AsksEnd
CHECK_DEADLOCK FALSE
