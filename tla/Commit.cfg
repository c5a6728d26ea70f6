\* Two names, two levels; four operations, snapshots between them.
SPECIFICATION Spec
CONSTANTS
  Names <- AB
  Depth = 2
  Nil = Nil
  Bases <- SomeBases
  MaxIno = 2
  MaxSteps = 4
  Env = {}
INVARIANT TypeOK
INVARIANT ReplayIsView
INVARIANT CommitExact
INVARIANT PlanRuns
INVARIANT NothingLost
INVARIANT ReviewComplete
CHECK_DEADLOCK FALSE
