\* A write while a commit clears the store: the command goes on over what is gone.
SPECIFICATION Spec
CONSTANTS
  Procs <- TwoProcs
  Agents <- Hook
  Supers <- TwoSupers
  Keys <- TwoKeys
  Target <- TargetOf
  OnHost <- AllPaths
  Paths <- AllPaths
  Template <- DirRule
  Given <- SomePerms
  Unset = "unset"
  Nil = Nil
  MaxRecords = 3
  MaxJobs = 4
  Env = {"overlap"}
INVARIANT RunsOnJournal
CHECK_DEADLOCK FALSE
