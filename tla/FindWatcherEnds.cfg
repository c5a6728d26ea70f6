SPECIFICATION Spec
CONSTANTS
  Tasks = {t1}
  Watchers = {w1}
  Timeout = TRUE
  Signals = FALSE
  Stops = FALSE
  Faults = FALSE
  MaxId = 1
SYMMETRY Symmetry
INVARIANT WatchersServe
