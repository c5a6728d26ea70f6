SPECIFICATION Spec
CONSTANTS
  Names <- ABC
  Depth = 2
  Nil = Nil
  Bases <- SomeBases
  MaxIno = 1
  MaxSteps = 4
  Env = {"home"}
INVARIANT ReplayIsView
CHECK_DEADLOCK FALSE
