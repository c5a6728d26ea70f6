\* With -continue TLC reports both invariants.
SPECIFICATION Spec
CONSTANTS
  Names <- AB
  Depth = 2
  Nil = Nil
  Bases <- SomeBases
  MaxIno = 1
  MaxSteps = 3
  Env = {"replace"}
INVARIANT AddedIsNew
INVARIANT ReviewComplete
CHECK_DEADLOCK FALSE
