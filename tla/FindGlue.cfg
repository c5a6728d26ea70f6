SPECIFICATION Spec
CONSTANTS
  Names <- AB
  Depth = 2
  Nil = Nil
  Bases <- SomeBases
  MaxIno = 1
  MaxSteps = 2
  Env = {"glue"}
INVARIANT ReplayIsView
CHECK_DEADLOCK FALSE
