\* A mount without yolofs.toml.
SPECIFICATION Spec
CONSTANTS
  Procs <- TwoProcs
  Agents <- Hook
  Supers <- TwoSupers
  Keys <- TwoKeys
  Target <- TargetOf
  OnHost <- AllPaths
  Paths <- AllPaths
  Template <- DirRule
  Given <- SomePerms
  Unset = "unset"
  Nil = Nil
  MaxRecords = 3
  MaxJobs = 4
  Env = {"noconfig"}
INVARIANT RulesAgree
CHECK_DEADLOCK FALSE
