\* Two spellings of one path in yolofs.toml.
SPECIFICATION Spec
CONSTANTS
  Procs <- TwoProcs
  Agents <- Hook
  Supers <- TwoSupers
  Keys <- Aliases
  Target <- AliasOf
  OnHost <- AllPaths
  Paths <- AllPaths
  Template <- AliasRule
  Given <- SomePerms
  Unset = "unset"
  Nil = Nil
  MaxRecords = 3
  MaxJobs = 4
  Env = {}
INVARIANT RulesAgree
CHECK_DEADLOCK FALSE
