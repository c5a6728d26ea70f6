\* Timeouts, interrupts, watchers that come and go, bad buffers.
SPECIFICATION Spec
CONSTANTS
  Tasks = {t1, t2}
  Watchers = {w1, w2}
  Timeout = TRUE
  Signals = TRUE
  Stops = TRUE
  Faults = TRUE
  MaxId = 3
SYMMETRY Symmetry
INVARIANT TypeOK
INVARIANT QueueIsLive
INVARIANT AllowIsAnswered
INVARIANT AnswerStands
PROPERTY GateSpec
