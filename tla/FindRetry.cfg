SPECIFICATION Spec
CONSTANTS
  Names <- AB
  Depth = 2
  Nil = Nil
  Bases <- SomeBases
  MaxIno = 1
  MaxSteps = 2
  Env = {"retry"}
INVARIANT NothingLost
CHECK_DEADLOCK FALSE
