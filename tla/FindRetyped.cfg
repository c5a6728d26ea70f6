SPECIFICATION Spec
CONSTANTS
  Names <- AB
  Depth = 2
  Nil = Nil
  Bases <- SomeBases
  MaxIno = 1
  MaxSteps = 5
  Env = {"retyped"}
INVARIANT PlanRuns
CHECK_DEADLOCK FALSE
