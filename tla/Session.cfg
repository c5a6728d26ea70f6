\* Two processes, one of them an agent's; four commands.
SPECIFICATION FairSpec
CONSTANTS
  Procs <- TwoProcs
  Agents <- Hook
  Supers <- TwoSupers
  Keys <- TwoKeys
  Target <- TargetOf
  OnHost <- AllPaths
  Paths <- AllPaths
  Template <- DirRule
  Given <- SomePerms
  Unset = "unset"
  Nil = Nil
  MaxRecords = 3
  MaxJobs = 4
  Env = {}
INVARIANT TypeOK
INVARIANT OneView
INVARIANT RunsOnJournal
INVARIANT CountersContinue
INVARIANT CleanupOutside
INVARIANT ClearsUnshown
INVARIANT RulesAgree
INVARIANT StoreBacksJournal
PROPERTY CommandsEnd
CHECK_DEADLOCK FALSE
