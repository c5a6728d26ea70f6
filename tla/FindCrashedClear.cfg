\* A commit killed between clearing the store and truncating the journal.
SPECIFICATION Spec
CONSTANTS
  Procs <- TwoProcs
  Agents <- Hook
  Supers <- TwoSupers
  Keys <- TwoKeys
  Target <- TargetOf
  OnHost <- AllPaths
  Paths <- AllPaths
  Template <- DirRule
  Given <- SomePerms
  Unset = "unset"
  Nil = Nil
  MaxRecords = 3
  MaxJobs = 4
  Env = {"crash"}
INVARIANT StoreBacksJournal
CHECK_DEADLOCK FALSE
