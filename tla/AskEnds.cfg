\* With a prompt timeout: no watcher is needed, and every prompt is recorded.
SPECIFICATION FairSpec
CONSTANTS
  Tasks = {t1, t2}
  Watchers = {w1, w2}
  Timeout = TRUE
  Signals = FALSE
  Stops = TRUE
  Faults = FALSE
  MaxId = 3
INVARIANT EveryPromptIsLogged
PROPERTY AsksEnd
