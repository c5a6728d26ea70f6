SPECIFICATION Spec
CONSTANTS
  Names <- AB
  Depth = 2
  Nil = Nil
  Bases <- SomeBases
  MaxIno = 2
  MaxSteps = 3
  Env = {"revive"}
INVARIANT ReplayIsView
CHECK_DEADLOCK FALSE
