-------------------------- MODULE SessionSafety ---------------------------
(***************************************************************************)
(* The safety of a session, for any number of processes, superblocks,      *)
(* rules and jobs, with the hypothesis each property needs of Env.         *)
(***************************************************************************)
EXTENDS SessionProofs

-----------------------------------------------------------------------------
(* Where a step of a process leads, the other processes staying where they *)
(* are.  Only a commit or an abort has a replay or a removal to follow.    *)

Pending == {"replay", "clear"}

Step(p, labels) == /\ proc'[p].pc \in labels
                   /\ \A q \in Procs \ {p} : proc'[q] = proc[q]
                   /\ proc'[p].next \in Pending => proc'[p].next = proc[p].next \/ proc'[p].pc = "leave"

LEMMA GotoSteps ==
  ASSUME ProcShape, NEW p \in Procs, NEW l, Goto(p, l)
  PROVE  Step(p, {l})
BY GotoMoves DEF Moves, Step, Pending

LEMMA OtherSteps ==
  ASSUME ProcShape, NEW p \in Procs, NEW l, NEW n, NEW s, NEW r,
         \/ proc' = [proc EXCEPT ![p].pc = l, ![p].seen = s]
         \/ /\ proc' = [proc EXCEPT ![p].pc = l, ![p].next = n]
            /\ n \in Pending => l = "leave"
         \/ proc' = [proc EXCEPT ![p].pc = l, ![p].rules = r]
         \/ /\ proc' = [proc EXCEPT ![p].pc = l, ![p].seen = s, ![p].next = n]
            /\ n \in Pending => l = "leave"
         \/ proc' = [proc EXCEPT ![p].pc = l, ![p].seen = s, ![p].rules = r]
  PROVE  Step(p, {l})
<1>1. \A q \in Procs \ {p} : proc'[q] = proc[q]
  BY DEF ProcShape
<1>2. proc[p] = [pc |-> proc[p].pc, next |-> proc[p].next, seen |-> proc[p].seen,
                 rules |-> proc[p].rules]
  BY DEF ProcShape, IsProc
<1>3. /\ proc'[p].pc = l
      /\ proc'[p].next = proc[p].next \/ (proc'[p].next = n /\ (n \in Pending => l = "leave"))
  <2>1. CASE proc' = [proc EXCEPT ![p].pc = l, ![p].seen = s]
    BY <1>2, <2>1 DEF ProcShape
  <2>2. CASE proc' = [proc EXCEPT ![p].pc = l, ![p].next = n]
              /\ (n \in Pending => l = "leave")
    BY <1>2, <2>2 DEF ProcShape
  <2>3. CASE proc' = [proc EXCEPT ![p].pc = l, ![p].rules = r]
    BY <1>2, <2>3 DEF ProcShape
  <2>4. CASE proc' = [proc EXCEPT ![p].pc = l, ![p].seen = s, ![p].next = n]
              /\ (n \in Pending => l = "leave")
    BY <1>2, <2>4 DEF ProcShape
  <2>5. CASE proc' = [proc EXCEPT ![p].pc = l, ![p].seen = s, ![p].rules = r]
    BY <1>2, <2>5 DEF ProcShape
  <2> QED BY <2>1, <2>2, <2>3, <2>4, <2>5
<1> QED BY <1>1, <1>3 DEF Step

LEMMA RollBackSteps ==
  ASSUME ProcShape, NEW p \in Procs, RollBack(p)
  PROVE  Step(p, {"umount"})
<1>1. proc' = [proc EXCEPT ![p].pc = "umount", ![p].next = "failed"]
  BY DEF RollBack
<1>2. "failed" \notin Pending
  BY DEF Pending
<1> QED BY <1>1, <1>2, OtherSteps

LEMMA MountSteps ==
  ASSUME ProcShape, NEW p \in Procs
  PROVE  /\ MountCheck(p) => Step(p, {"setup", proc[p].next})
         /\ SetupYoloDir(p) => Step(p, {"load"})
         /\ LoadModule(p) => Step(p, {"domount", "idle"})
         /\ DoMount(p) => Step(p, {"rules", "read", "idle"})
         /\ ReadJournal(p) => Step(p, {"restore"})
         /\ Restore(p) => Step(p, {"rules", "umount"})
         /\ ReadRules(p) => Step(p, {"umount", "apply", proc[p].next})
         /\ ApplyRules(p) => Step(p, {proc[p].next})
<1>1. MountCheck(p) => Step(p, {"setup", proc[p].next})
  <2>1. ASSUME NEW s, proc' = [proc EXCEPT ![p].pc = "setup", ![p].seen = s]
        PROVE  Step(p, {"setup"})
    BY <2>1, OtherSteps
  <2> QED BY <2>1, GotoSteps DEF MountCheck, Step
<1>2. SetupYoloDir(p) => Step(p, {"load"})
  BY GotoSteps DEF SetupYoloDir
<1>3. LoadModule(p) => Step(p, {"domount", "idle"})
  BY GotoSteps DEF LoadModule, Step
<1>4. DoMount(p) => Step(p, {"rules", "read", "idle"})
  BY GotoSteps DEF DoMount, Step
<1>5. ReadJournal(p) => Step(p, {"restore"})
  BY OtherSteps DEF ReadJournal
<1>6. Restore(p) => Step(p, {"rules", "umount"})
  BY GotoSteps, RollBackSteps DEF Restore, Step
<1>7. ReadRules(p) => Step(p, {"umount", "apply", proc[p].next})
  <2>1. ASSUME NEW r, proc' = [proc EXCEPT ![p].pc = "apply", ![p].rules = r]
        PROVE  Step(p, {"apply"})
    BY <2>1, OtherSteps
  <2> QED BY <2>1, GotoSteps, RollBackSteps DEF ReadRules, Step
<1>8. ApplyRules(p) => Step(p, {proc[p].next})
  BY GotoSteps DEF ApplyRules
<1> QED BY <1>1, <1>2, <1>3, <1>4, <1>5, <1>6, <1>7, <1>8

LEMMA UnmountSteps ==
  ASSUME ProcShape, NEW p \in Procs
  PROVE  /\ Umount(p) => Step(p, {"rmdir", "idle"})
         /\ Rmdir(p) => Step(p, {"check", "idle"})
         /\ InsertModule(p) => Step(p, {"idle"})
         /\ Reload(p) => Step(p, {"each", "insert"})
         /\ UnmountEach(p) => Step(p, {"each", "idle", "sweep"})
         /\ Sweep(p) => Step(p, {"delete"})
         /\ DeleteModule(p) => Step(p, {"idle", proc[p].next})
<1>1. Umount(p) => Step(p, {"rmdir", "idle"})
  BY GotoSteps DEF Umount, Step
<1>2. Rmdir(p) => Step(p, {"check", "idle"})
  <2>1. ASSUME proc' = [proc EXCEPT ![p].pc = "check", ![p].next = "idle"]
        PROVE  Step(p, {"check"})
    <3>1. "idle" \notin Pending
      BY DEF Pending
    <3> QED BY <2>1, <3>1, OtherSteps
  <2> QED BY <2>1, GotoSteps DEF Rmdir, Step
<1>3. InsertModule(p) => Step(p, {"idle"})
  BY GotoSteps DEF InsertModule
<1>4. Reload(p) => Step(p, {"each", "insert"})
  BY GotoSteps DEF Reload, Step
<1>5. UnmountEach(p) => Step(p, {"each", "idle", "sweep"})
  BY GotoSteps DEF UnmountEach, Step
<1>6. Sweep(p) => Step(p, {"delete"})
  BY GotoSteps DEF Sweep
<1>7. DeleteModule(p) => Step(p, {"idle", proc[p].next})
  BY GotoSteps DEF DeleteModule, Step
<1> QED BY <1>1, <1>2, <1>3, <1>4, <1>5, <1>6, <1>7

LEMMA RunSteps ==
  ASSUME ProcShape, NEW p \in Procs
  PROVE  /\ EnterRun(p) => Step(p, {"spawn", "idle", "check"})
         /\ Spawn(p) => Step(p, {"running", "idle"})
         /\ Write(p) => Step(p, {"running"})
         /\ CommandEnds(p) => Step(p, {"autosnap"})
         /\ Snapshot(p) => Step(p, {"idle"})
         /\ Crash(p) => Step(p, {"idle"})
         /\ \A job \in Commands : Begin(p, job) => Step(p, {Entry[job]})
<1>1. EnterRun(p) => Step(p, {"spawn", "idle", "check"})
  <2>1. EnterRun(p) => \E l \in {"spawn", "idle", "check"} : Goto(p, l)
    BY DEF EnterRun
  <2> QED BY <2>1, GotoSteps DEF Step
<1>2. Spawn(p) => Step(p, {"running", "idle"})
  BY GotoSteps DEF Spawn, Step
<1>3. Write(p) => Step(p, {"running"})
  BY DEF Write, Step
<1>4. CommandEnds(p) => Step(p, {"autosnap"})
  BY GotoSteps DEF CommandEnds
<1>5. Snapshot(p) => Step(p, {"idle"})
  BY GotoSteps DEF Snapshot
<1>6. Crash(p) => Step(p, {"idle"})
  BY GotoSteps DEF Crash
<1>7. ASSUME NEW job \in Commands, Begin(p, job) PROVE Step(p, {Entry[job]})
  <2>1. Then(job) \in {"idle", "check", "spawn", "insert"}
    BY DEF Then
  <2>2. Then(job) \notin Pending
    BY <2>1 DEF Pending
  <2>3. proc' = [proc EXCEPT ![p].pc = Entry[job], ![p].next = Then(job)]
    BY <1>7 DEF Begin
  <2> QED BY <2>2, <2>3, OtherSteps
<1> QED BY <1>1, <1>2, <1>3, <1>4, <1>5, <1>6, <1>7

LEMMA ClearSteps ==
  ASSUME ProcShape, NEW p \in Procs
  PROVE  /\ ReadStaged(p) => Step(p, {"idle", "leave"})
         /\ LeaveView(p) => Step(p, {"idle", proc[p].next})
         /\ Replay(p) => Step(p, {"clear"})
         /\ ClearStore(p) => Step(p, {"truncate"})
         /\ Truncate(p) => Step(p, {"idle"})
         /\ EditRules(p) => Step(p, {"idle", "write"})
         /\ WriteRules(p) => Step(p, {"push"})
         /\ PushRule(p) => Step(p, {"idle"})
<1>1. ReadStaged(p) => Step(p, {"idle", "leave"})
  <2>1. ASSUME NEW s, NEW n, proc' = [proc EXCEPT ![p].pc = "leave", ![p].seen = s, ![p].next = n]
        PROVE  Step(p, {"leave"})
    BY <2>1, OtherSteps
  <2> QED BY <2>1, GotoSteps DEF ReadStaged, Step
<1>2. LeaveView(p) => Step(p, {"idle", proc[p].next})
  BY GotoSteps DEF LeaveView, Step
<1>3. Replay(p) => Step(p, {"clear"})
  BY GotoSteps DEF Replay
<1>4. ClearStore(p) => Step(p, {"truncate"})
  BY GotoSteps DEF ClearStore
<1>5. Truncate(p) => Step(p, {"idle"})
  BY GotoSteps DEF Truncate
<1>6. EditRules(p) => Step(p, {"idle", "write"})
  <2>1. ASSUME NEW s, NEW r, proc' = [proc EXCEPT ![p].pc = "write", ![p].seen = s, ![p].rules = r]
        PROVE  Step(p, {"write"})
    BY <2>1, OtherSteps
  <2>2. CASE config.state = "bad"
    BY <2>2, GotoSteps DEF EditRules, Step
  <2>3. ASSUME config.state # "bad", EditRules(p) PROVE Step(p, {"write"})
    <3>1. PICK k \in Range(Keys), perm \in Given \cup {Unset} :
            proc' = [proc EXCEPT ![p].pc = "write", ![p].seen = <<k, perm>>,
                                 ![p].rules = [config.rules EXCEPT ![k] = perm]]
      BY <2>3 DEF EditRules
    <3> QED BY <2>1, <3>1
  <2> QED BY <2>2, <2>3 DEF Step
<1>7. WriteRules(p) => Step(p, {"push"})
  BY GotoSteps DEF WriteRules
<1>8. PushRule(p) => Step(p, {"idle"})
  BY GotoSteps DEF PushRule
<1> QED BY <1>1, <1>2, <1>3, <1>4, <1>5, <1>6, <1>7, <1>8

\* One process moves at a time.
Actor(p) == CliStep(p) \/ Write(p) \/ Crash(p) \/ \E job \in Commands : Begin(p, job)

LEMMA OneMoves ==
  ASSUME ProcShape, NEW p \in Procs, Actor(p)
  PROVE  \A q \in Procs \ {p} : proc'[q] = proc[q]
<1>1. CASE MountStep(p)
  BY <1>1, MountSteps DEF MountStep, Step
<1>2. CASE UnmountStep(p) \/ ModuleStep(p)
  BY <1>2, UnmountSteps DEF UnmountStep, ModuleStep, Step
<1>3. CASE RunStep(p) \/ Write(p) \/ Crash(p) \/ \E job \in Commands : Begin(p, job)
  BY <1>3, RunSteps DEF RunStep, Step
<1>4. CASE ClearStep(p) \/ RuleStep(p)
  BY <1>4, ClearSteps DEF ClearStep, RuleStep, Step
<1> QED BY <1>1, <1>2, <1>3, <1>4 DEF Actor, CliStep

\* What Next does besides moving a process.
LEMMA NextSplit ==
  ASSUME [Next]_vars
  PROVE  \/ \E p \in Procs : Actor(p)
         \/ UNCHANGED <<artifact, sbs, stack, cmd, proc>>
BY DEF Next, Actor, Teardown, EditConfig, vars, kernel, artifact

-----------------------------------------------------------------------------
(* The journal and the store.  Only between the replay of a commit, or the *)
(* removal of the store, and the truncation may the journal name what is   *)
(* not there; who is that far gets to the truncation unless it is killed.  *)

Clearing(p) == proc[p].pc \in {"clear", "truncate"}

Backed == \/ \E p \in Procs : Clearing(p)
          \/ journal = Nil
          \/ Staged(journal) \subseteq store

LEMMA BackedFrame ==
  ASSUME Backed, NEW p \in Procs, ~Clearing(p), UNCHANGED artifact,
         \A q \in Procs \ {p} : proc'[q] = proc[q]
  PROVE  Backed'
BY DEF Backed, Clearing, artifact, Staged

LEMMA BackedStep ==
  ASSUME TypeInv, Backed, "crash" \notin Env, NEW p \in Procs, Actor(p)
  PROVE  Backed'
<1>1. ProcShape /\ \A q \in Procs \ {p} : proc'[q] = proc[q]
  BY OneMoves DEF TypeInv, ProcsOK
<1>2. CASE SetupYoloDir(p)
  <2>1. proc[p].pc = "setup" /\ store' = store /\ (journal' = << >> \/ journal' = journal)
    BY <1>2 DEF SetupYoloDir
  <2>2. CASE journal' = << >>
    BY <2>2, ReadableEmpty DEF Backed
  <2>3. CASE journal' = journal
    BY <1>1, <2>1, <2>3, BackedFrame DEF Clearing, artifact
  <2> QED BY <2>1, <2>2, <2>3
<1>3. CASE MountStep(p) /\ ~SetupYoloDir(p)
  <2>1. UNCHANGED artifact /\ ~Clearing(p)
    BY <1>3 DEF MountStep, MountCheck, LoadModule, DoMount, ReadJournal, Restore, ReadRules,
                ApplyRules, Clearing
  <2> QED BY <1>1, <2>1, BackedFrame
<1>4. CASE UnmountStep(p) \/ ModuleStep(p)
  <2>1. UNCHANGED artifact /\ ~Clearing(p)
    BY <1>4 DEF UnmountStep, ModuleStep, Umount, Rmdir, InsertModule, Reload, UnmountEach,
                Sweep, DeleteModule, Clearing
  <2> QED BY <1>1, <2>1, BackedFrame
<1>5. CASE RuleStep(p) \/ Crash(p) \/ \E job \in Commands : Begin(p, job)
  <2>1. UNCHANGED artifact /\ ~Clearing(p)
    BY <1>5 DEF RuleStep, EditRules, WriteRules, PushRule, Crash, HalfDone, Begin, Clearing
  <2> QED BY <1>1, <2>1, BackedFrame
<1>6. CASE EnterRun(p) \/ Spawn(p) \/ CommandEnds(p) \/ ReadStaged(p) \/ LeaveView(p)
  <2>1. UNCHANGED artifact /\ ~Clearing(p)
    BY <1>6 DEF EnterRun, Spawn, CommandEnds, ReadStaged, LeaveView, Clearing
  <2> QED BY <1>1, <2>1, BackedFrame
<1>7. CASE Snapshot(p)
  <2>1. proc[p].pc \in {"autosnap", "snap"}
        /\ (UNCHANGED artifact \/ (Mounted /\ journal' = Append(journal, 0) /\ store' = store))
    BY <1>7 DEF Snapshot
  <2>2. CASE UNCHANGED artifact
    BY <1>1, <2>1, <2>2, BackedFrame DEF Clearing
  <2>3. CASE Mounted /\ journal' = Append(journal, 0) /\ store' = store
    <3>1. journal \in Seq(Nat)
      BY <2>3 DEF TypeInv, MountOK, JournalOK, Readable, Mounted
    <3>2. journal # Nil /\ Staged(journal') = Staged(journal)
      BY <2>3, <3>1, StagedAppend DEF TypeInv, MountOK, Mounted, Staged
    <3>3. CASE \E q \in Procs : Clearing(q)
      BY <1>1, <2>1, <3>3 DEF Backed, Clearing
    <3>4. CASE Staged(journal) \subseteq store
      BY <2>3, <3>2, <3>4 DEF Backed
    <3> QED BY <3>2, <3>3, <3>4 DEF Backed
  <2> QED BY <2>1, <2>2, <2>3
<1>8. CASE Write(p)
  <2> DEFINE ino == sbs[cmd[p]].next + 1
  <2>1. /\ proc[p].pc = "running" /\ proc' = proc
        /\ UNCHANGED artifact \/ (journal' = Append(journal, ino) /\ store' = store \cup {ino})
    BY <1>8 DEF Write
  <2>2. cmd[p] \in Supers /\ journal \in Seq(Nat) /\ ino \in Nat /\ journal # Nil
    BY <2>1 DEF TypeInv, ProcsOK, Sound, CmdOK, JournalOK, Readable, SbsOK, Needy
  <2> HIDE DEF ino
  <2>3. CASE UNCHANGED artifact
    BY <1>1, <2>1, <2>3, BackedFrame DEF Clearing
  <2>4. CASE journal' = Append(journal, ino) /\ store' = store \cup {ino}
    <3>1. Staged(journal') \subseteq Staged(journal) \cup {ino}
      BY <2>2, <2>4, StagedAppend DEF Staged
    <3> QED BY <2>1, <2>2, <2>4, <3>1 DEF Backed, Clearing
  <2> QED BY <2>1, <2>3, <2>4
<1>9. CASE Replay(p) \/ ClearStore(p)
  <2>1. proc'[p].pc \in {"clear", "truncate"}
    BY <1>1, <1>9, ClearSteps DEF Step
  <2> QED BY <2>1 DEF Backed, Clearing
<1>10. CASE Truncate(p)
  BY <1>10, ReadableEmpty DEF Truncate, Backed
<1> QED BY <1>2, <1>3, <1>4, <1>5, <1>6, <1>7, <1>8, <1>9, <1>10
        DEF Actor, CliStep, RunStep, ClearStep

\* While no commit or abort is killed between the removal of the store and the
\* truncation, the journal names only inodes that are there, whatever commands
\* run at the same time, and whatever is written meanwhile.
THEOREM StoreBacks == "crash" \notin Env => (Spec => []StoreBacksJournal)
<1> SUFFICES ASSUME "crash" \notin Env PROVE Spec => []StoreBacksJournal
  OBVIOUS
<1>1. Init => TypeInv /\ Backed
  BY TypeInvInit DEF Init, Backed
<1>2. TypeInv /\ Backed /\ [Next]_vars => (TypeInv /\ Backed)'
  <2> SUFFICES ASSUME TypeInv, Backed, [Next]_vars PROVE Backed'
    BY TypeInvNext
  <2>1. CASE \E p \in Procs : Actor(p)
    BY <2>1, BackedStep
  <2>2. CASE UNCHANGED <<artifact, sbs, stack, cmd, proc>>
    BY <2>2 DEF Backed, Clearing, artifact, Staged
  <2> QED BY <2>1, <2>2, NextSplit
<1>3. TypeInv /\ Backed => StoreBacksJournal
  BY DEF Backed, Clearing, StoreBacksJournal, AtRest, Manages, Managing
<1> QED BY <1>1, <1>2, <1>3, PTL DEF Spec

-----------------------------------------------------------------------------
(* One manager at a time, and at most one view.                            *)

Outside == {"setup", "load", "domount", "rmdir"}

OneManager == \A p, q \in Procs : Manages(p) /\ Manages(q) => p = q

Standing == /\ Len(stack) <= 1
            /\ \A p \in Procs : cmd[p] # Nil => Mounted /\ cmd[p] = Top
            /\ \A p \in Procs : proc[p].pc \in Outside => ~Mounted

Solo == TypeInv /\ OneManager /\ Standing

LEMMA ManagerFrame ==
  ASSUME OneManager, NEW p \in Procs, \A q \in Procs \ {p} : proc'[q] = proc[q],
         \/ Manages(p)
         \/ proc'[p].pc \notin Managing
         \/ \A q \in Procs \ {p} : ~Manages(q)
  PROVE  OneManager'
BY DEF OneManager, Manages

LEMMA OneManagerStep ==
  ASSUME TypeInv, OneManager, "race" \notin Env, NEW p \in Procs, Actor(p)
  PROVE  OneManager'
<1>1. ProcShape /\ \A q \in Procs \ {p} : proc'[q] = proc[q]
  BY OneMoves DEF TypeInv, ProcsOK
<1>2. CASE Manages(p)
  BY <1>1, <1>2, ManagerFrame
<1>3. CASE ~Manages(p)
  <2>1. ~MountStep(p)
    BY <1>3 DEF MountStep, MountCheck, SetupYoloDir, LoadModule, DoMount, ReadJournal, Restore,
                ReadRules, ApplyRules, Manages, Managing
  <2>2. ~UnmountStep(p) /\ ~ModuleStep(p)
    BY <1>3 DEF UnmountStep, ModuleStep, Umount, Rmdir, InsertModule, Reload, UnmountEach, Sweep,
                DeleteModule, Manages, Managing
  <2>3. ~ClearStep(p) /\ ~RuleStep(p) /\ ~Crash(p)
    BY <1>3 DEF ClearStep, RuleStep, ReadStaged, LeaveView, Replay, ClearStore, Truncate,
                EditRules, WriteRules, PushRule, Crash, Manages, Managing
  <2>4. CASE EnterRun(p)
    BY <1>1, <2>4, ManagerFrame DEF EnterRun, Alone
  <2>5. CASE Spawn(p) \/ CommandEnds(p) \/ Snapshot(p) \/ Write(p)
    <3>1. proc'[p].pc \in {"running", "idle", "autosnap"}
      BY <1>1, <2>5, RunSteps DEF Step
    <3>2. proc'[p].pc \notin Managing
      BY <3>1 DEF Managing
    <3> QED BY <1>1, <3>2, ManagerFrame
  <2>6. ASSUME NEW job \in Commands, Begin(p, job) PROVE OneManager'
    <3>1. CASE job \in {"run", "snapshot"}
      <4>1. proc'[p].pc = Entry[job]
        BY <1>1, <2>6, RunSteps DEF Step
      <4>2. Entry[job] \in {"enter", "snap"}
        BY <3>1 DEF Entry
      <4>3. proc'[p].pc \notin Managing
        BY <4>1, <4>2 DEF Managing
      <4> QED BY <1>1, <4>3, ManagerFrame
    <3>2. CASE Alone(p)
      BY <1>1, <3>2, ManagerFrame DEF Alone
    <3> QED BY <2>6, <3>1, <3>2 DEF Begin
  <2> QED BY <2>1, <2>2, <2>3, <2>4, <2>5, <2>6 DEF Actor, CliStep, RunStep
<1> QED BY <1>2, <1>3

\* Mounts and running commands as they were, and the process that moved not at a
\* step that takes place outside a view, or without one.
LEMMA StandingFrame ==
  ASSUME Standing, NEW p \in Procs, \A q \in Procs \ {p} : proc'[q] = proc[q],
         stack' = stack, cmd' = cmd, proc'[p].pc \in Outside => ~Mounted
  PROVE  Standing'
BY DEF Standing, Mounted, Top, Outside

\* A mount is taken down only with no command over it, and it was the only one.
LEMMA StandingPop ==
  ASSUME TypeInv, OneManager, Standing, "pinned" \notin Env, NEW p \in Procs, Manages(p),
         \A q \in Procs \ {p} : proc'[q] = proc[q], Mounted, PopTop, cmd' = cmd
  PROVE  Standing' /\ ~Mounted'
<1>1. Range(cmd) = {Nil} /\ stack' = Front(stack)
  BY DEF PopTop
<1>2. stack' = << >>
  BY <1>1, PopStack DEF TypeInv, Standing, Mounted
<1>3. \A q \in Procs : cmd[q] = Nil
  BY <1>1 DEF Range, TypeInv, CmdOK
<1> QED BY <1>2, <1>3 DEF Standing, Mounted

LEMMA StandingStep ==
  ASSUME Solo, {"race", "pinned"} \cap Env = {}, NEW p \in Procs, Actor(p)
  PROVE  Standing'
<1>1. ProcShape /\ \A q \in Procs \ {p} : proc'[q] = proc[q]
  BY OneMoves DEF Solo, TypeInv, ProcsOK
<1>2. TypeInv /\ OneManager /\ Standing /\ proc[p].next \in NextLabels \ Outside
  BY DEF Solo, TypeInv, ProcsOK, Sound, NextLabels, Outside
<1>3. CASE MountCheck(p)
  <2>1. UNCHANGED <<stack, cmd>>
    BY <1>3 DEF MountCheck, kernel
  <2>2. CASE Mounted
    <3>1. Step(p, {proc[p].next})
      BY <1>1, <1>3, <2>2, GotoSteps DEF MountCheck
    <3> QED BY <1>1, <1>2, <2>1, <3>1, StandingFrame DEF Step
  <2>3. CASE ~Mounted
    BY <1>1, <1>2, <2>1, <2>3, StandingFrame
  <2> QED BY <2>2, <2>3
<1>4. CASE SetupYoloDir(p) \/ LoadModule(p)
  <2>1. UNCHANGED <<stack, cmd>> /\ proc[p].pc \in Outside
    BY <1>4 DEF SetupYoloDir, LoadModule, kernel, Outside
  <2>2. ~Mounted
    BY <1>2, <2>1 DEF Standing
  <2> QED BY <1>1, <1>2, <2>1, <2>2, StandingFrame
<1>5. CASE DoMount(p)
  <2>1. proc[p].pc = "domount" /\ cmd' = cmd /\ proc'[p].pc \in {"rules", "read", "idle"}
    BY <1>1, <1>5, MountSteps DEF DoMount, Step
  <2>2. stack = << >> /\ \A q \in Procs : cmd[q] = Nil
    BY <1>2, <2>1 DEF Standing, Outside, Mounted
  <2>3. \A q \in Procs \ {p} : proc[q].pc \notin Outside
    BY <1>2, <2>1 DEF OneManager, Manages, Managing, Outside
  <2>4. CASE UNCHANGED stack
    BY <1>1, <1>2, <2>1, <2>4, StandingFrame DEF Outside
  <2>5. ASSUME NEW s \in Free, stack' = Append(stack, s) PROVE Standing'
    <3>1. Len(stack') = 1
      BY <2>2, <2>5
    <3> QED BY <1>1, <2>1, <2>2, <2>3, <3>1 DEF Standing, Outside
  <2> QED BY <1>5, <2>4, <2>5 DEF DoMount
<1>6. CASE ReadJournal(p) \/ Restore(p) \/ ReadRules(p) \/ ApplyRules(p)
  <2>1. UNCHANGED <<stack, cmd>>
    BY <1>6 DEF ReadJournal, Restore, ReadRules, ApplyRules, kernel
  <2>2. proc'[p].pc \notin Outside
    <3>1. proc'[p].pc \in {"restore", "rules", "umount", "apply", proc[p].next}
      BY <1>1, <1>6, MountSteps DEF Step
    <3> QED BY <1>2, <3>1 DEF Outside
  <2> QED BY <1>1, <1>2, <2>1, <2>2, StandingFrame
<1>7. CASE Umount(p)
  <2>1. proc[p].pc = "umount" /\ cmd' = cmd /\ Manages(p)
    BY <1>7 DEF Umount, Manages, Managing
  <2>2. CASE Mounted /\ PopTop
    BY <1>1, <1>2, <2>1, <2>2, StandingPop
  <2>3. CASE ~Mounted /\ UNCHANGED <<stack, dying>>
    BY <1>1, <1>2, <2>1, <2>3, StandingFrame
  <2>4. CASE Goto(p, "idle") /\ UNCHANGED <<stack, dying>>
    <3>1. proc'[p].pc \notin Outside
      BY <1>1, <2>4, GotoSteps DEF Step, Outside
    <3> QED BY <1>1, <1>2, <2>1, <2>4, <3>1, StandingFrame
  <2> QED BY <1>7, <2>2, <2>3, <2>4 DEF Umount
<1>8. CASE UnmountEach(p)
  <2>1. proc[p].pc = "each" /\ cmd' = cmd /\ Manages(p)
    BY <1>8 DEF UnmountEach, Manages, Managing
  <2>2. CASE Mounted /\ PopTop
    BY <1>1, <1>2, <2>1, <2>2, StandingPop
  <2>3. CASE UNCHANGED <<stack, dying>>
    <3>1. proc'[p].pc \notin Outside
      BY <1>1, <1>8, UnmountSteps DEF Step, Outside
    <3> QED BY <1>1, <1>2, <2>1, <2>3, <3>1, StandingFrame
  <2> QED BY <1>8, <2>2, <2>3 DEF UnmountEach
<1>9. CASE Rmdir(p) \/ InsertModule(p) \/ Reload(p) \/ Sweep(p) \/ DeleteModule(p)
  <2>1. UNCHANGED <<stack, cmd>>
    BY <1>9 DEF Rmdir, InsertModule, Reload, Sweep, DeleteModule, kernel
  <2>2. proc'[p].pc \notin Outside
    <3>1. proc'[p].pc \in {"check", "idle", "each", "insert", "delete", proc[p].next}
      BY <1>1, <1>9, UnmountSteps DEF Step
    <3> QED BY <1>2, <3>1 DEF Outside
  <2> QED BY <1>1, <1>2, <2>1, <2>2, StandingFrame
<1>10. CASE Spawn(p)
  <2>1. proc'[p].pc \in {"running", "idle"} /\ stack' = stack
    BY <1>1, <1>10, RunSteps DEF Step, Spawn
  <2>2. CASE Mounted /\ cmd' = [cmd EXCEPT ![p] = Top]
    <3>1. \A q \in Procs : cmd'[q] # Nil => cmd'[q] = Top
      BY <1>2, <2>2 DEF Standing, TypeInv, CmdOK
    <3> QED BY <1>1, <1>2, <2>1, <2>2, <3>1 DEF Standing, Outside, Mounted, Top
  <2>3. CASE cmd' = cmd
    BY <1>1, <1>2, <2>1, <2>3, StandingFrame DEF Outside
  <2> QED BY <1>10, <2>2, <2>3 DEF Spawn
<1>11. CASE CommandEnds(p)
  <2>1. proc'[p].pc = "autosnap" /\ stack' = stack /\ cmd' = [cmd EXCEPT ![p] = Nil]
    BY <1>1, <1>11, RunSteps DEF Step, CommandEnds
  <2>2. \A q \in Procs : cmd'[q] # Nil => cmd'[q] = cmd[q] /\ cmd[q] # Nil
    BY <1>2, <2>1 DEF TypeInv, CmdOK
  <2> QED BY <1>1, <1>2, <2>1, <2>2 DEF Standing, Outside, Mounted, Top
<1>12. CASE EnterRun(p) \/ Snapshot(p) \/ Write(p) \/ Crash(p)
  <2>1. UNCHANGED <<stack, cmd>>
    BY <1>12 DEF EnterRun, Snapshot, Write, Crash, kernel
  <2>2. proc'[p].pc \in {"spawn", "idle", "check", "running"}
    BY <1>1, <1>12, RunSteps DEF Step
  <2> QED BY <1>1, <1>2, <2>1, <2>2, StandingFrame DEF Outside
<1>13. ASSUME NEW job \in Commands, Begin(p, job) PROVE Standing'
  <2>1. UNCHANGED <<stack, cmd>> /\ proc'[p].pc = Entry[job]
    BY <1>1, <1>13, RunSteps DEF Begin, kernel, Step
  <2>2. Entry[job] \notin Outside
    BY DEF Commands, Entry, Outside
  <2> QED BY <1>1, <1>2, <2>1, <2>2, StandingFrame
<1>14. CASE ClearStep(p) \/ RuleStep(p)
  <2>1. UNCHANGED <<stack, cmd>>
    BY <1>14 DEF ClearStep, RuleStep, ReadStaged, LeaveView, Replay, ClearStore, Truncate,
                 EditRules, WriteRules, PushRule, kernel
  <2>2. proc'[p].pc \in {"idle", "leave", "clear", "truncate", "write", "push", proc[p].next}
    BY <1>1, <1>14, ClearSteps DEF ClearStep, RuleStep, Step
  <2> QED BY <1>1, <1>2, <2>1, <2>2, StandingFrame DEF Outside
<1> QED BY <1>3, <1>4, <1>5, <1>6, <1>7, <1>8, <1>9, <1>10, <1>11, <1>12, <1>13, <1>14
        DEF Actor, CliStep, MountStep, UnmountStep, ModuleStep, RunStep

LEMMA SoloInit == Init => Solo
BY TypeInvInit DEF Init, Solo, OneManager, Standing, Manages, Managing, Resting, Mounted

LEMMA SoloNext ==
  ASSUME {"race", "pinned"} \cap Env = {}
  PROVE  Solo /\ [Next]_vars => Solo'
<1> SUFFICES ASSUME Solo, [Next]_vars PROVE Solo'
  OBVIOUS
<1>1. TypeInv'
  BY TypeInvNext DEF Solo
<1>2. CASE \E p \in Procs : Actor(p)
  BY <1>1, <1>2, OneManagerStep, StandingStep DEF Solo
<1>3. CASE UNCHANGED <<artifact, sbs, stack, cmd, proc>>
  BY <1>1, <1>3 DEF Solo, OneManager, Manages, Standing, Mounted, Top
<1> QED BY <1>2, <1>3, NextSplit

LEMMA UsedIsTop ==
  ASSUME Solo
  PROVE  InUse \subseteq (IF Mounted THEN {Top} ELSE {})
<1>1. stack \in Seq(Supers) /\ Len(stack) \in Nat /\ Len(stack) <= 1
  BY DEF Solo, TypeInv, StackOK, Standing
<1>2. \A i \in DOMAIN stack : Mounted /\ stack[i] = Top
  BY <1>1 DEF Mounted, Top, Last
<1>3. \A q \in Procs : cmd[q] # Nil => Mounted /\ cmd[q] = Top
  BY DEF Solo, Standing
<1>4. DOMAIN cmd = Procs
  BY DEF Solo, TypeInv, CmdOK
<1>5. \A s \in InUse : Mounted /\ s = Top
  BY <1>2, <1>3, <1>4 DEF InUse, Range
<1> QED BY <1>5

\* Unless two commands manage the session at the same time, or it is unmounted
\* under a running command, there is one view of the artifact at most.
THEOREM OneViewOnly == {"race", "pinned"} \cap Env = {} => (Spec => []OneView)
<1> SUFFICES ASSUME {"race", "pinned"} \cap Env = {} PROVE Spec => []OneView
  OBVIOUS
<1>1. Solo => OneView
  <2> SUFFICES ASSUME Solo PROVE Cardinality(InUse) <= 1
    BY DEF OneView
  <2>1. InUse \subseteq {Top}
    BY UsedIsTop
  <2>2. IsFiniteSet({Top}) /\ Cardinality({Top}) = 1
    BY FS_Singleton
  <2> QED BY <2>1, <2>2, FS_Subset
<1>2. Spec => []Solo
  BY SoloInit, SoloNext, PTL DEF Spec
<1> QED BY <1>1, <1>2, PTL

\* Under the same hypothesis the recursive removal of the mountpoint never runs
\* over a view.
THEOREM CleansOutside == {"race", "pinned"} \cap Env = {} => (Spec => []CleanupOutside)
<1> SUFFICES ASSUME {"race", "pinned"} \cap Env = {} PROVE Spec => []CleanupOutside
  OBVIOUS
<1>1. Solo => CleanupOutside
  BY DEF Solo, Standing, CleanupOutside, Outside
<1>2. Spec => []Solo
  BY SoloInit, SoloNext, PTL DEF Spec
<1> QED BY <1>1, <1>2, PTL

-----------------------------------------------------------------------------
(* A commit or an abort removes what no view shows.                        *)

Removing == {"replay", "clear", "truncate"}

Destined == \A p \in Procs :
              /\ proc[p].next \in Pending => proc[p].pc \in Removing \cup {"leave"}
              /\ proc[p].pc = "leave" => proc[p].next \in Pending

Unshown == \A p \in Procs :
             proc[p].pc \in Removing => ~Mounted \/ (sbs[Top].view = {} /\ sbs[Top].gen = 0)

\* Only the steps of a commit or an abort lead to one of its steps.
LEMMA Elsewhere ==
  ASSUME TypeInv, Destined, NEW p \in Procs, Actor(p),
         ~ReadStaged(p), ~LeaveView(p), ~Replay(p), ~ClearStore(p)
  PROVE  /\ proc'[p].pc \notin Removing \cup {"leave"}
         /\ proc[p].pc \in Removing \cup {"leave"} => Truncate(p) \/ Crash(p)
<1>1. ProcShape
  BY DEF TypeInv, ProcsOK
<1>2. proc[p].next \notin Pending => proc[p].next \notin Removing \cup {"leave"}
  BY DEF TypeInv, ProcsOK, Sound, NextLabels, Pending, Removing
<1>3. CASE MountStep(p)
  <2>1. proc[p].pc \notin Removing \cup {"leave"}
    BY <1>3 DEF MountStep, MountCheck, SetupYoloDir, LoadModule, DoMount, ReadJournal, Restore,
                ReadRules, ApplyRules, Removing
  <2>2. proc'[p].pc \in {"setup", "load", "domount", "idle", "rules", "read", "restore", "umount",
                         "apply", proc[p].next}
    BY <1>1, <1>3, MountSteps DEF MountStep, Step
  <2> QED BY <1>2, <2>1, <2>2 DEF Destined, Removing
<1>4. CASE UnmountStep(p) \/ ModuleStep(p)
  <2>1. proc[p].pc \notin Removing \cup {"leave"}
    BY <1>4 DEF UnmountStep, ModuleStep, Umount, Rmdir, InsertModule, Reload, UnmountEach, Sweep,
                DeleteModule, Removing
  <2>2. proc'[p].pc \in {"rmdir", "idle", "check", "each", "insert", "sweep", "delete", proc[p].next}
    BY <1>1, <1>4, UnmountSteps DEF UnmountStep, ModuleStep, Step
  <2> QED BY <1>2, <2>1, <2>2 DEF Destined, Removing
<1>5. CASE RunStep(p) \/ Write(p)
  <2>1. proc[p].pc \notin Removing \cup {"leave"}
    BY <1>5 DEF RunStep, EnterRun, Spawn, CommandEnds, Snapshot, Write, Removing
  <2>2. proc'[p].pc \in {"spawn", "idle", "check", "running", "autosnap"}
    BY <1>1, <1>5, RunSteps DEF RunStep, Step
  <2> QED BY <2>1, <2>2 DEF Removing
<1>6. CASE RuleStep(p)
  <2>1. proc[p].pc \notin Removing \cup {"leave"}
    BY <1>6 DEF RuleStep, EditRules, WriteRules, PushRule, Removing
  <2>2. proc'[p].pc \in {"idle", "write", "push"}
    BY <1>1, <1>6, ClearSteps DEF RuleStep, Step
  <2> QED BY <2>1, <2>2 DEF Removing
<1>7. CASE Truncate(p) \/ Crash(p)
  <2>1. proc'[p].pc = "idle"
    BY <1>1, <1>7, ClearSteps, RunSteps DEF Step
  <2> QED BY <1>7, <2>1 DEF Removing
<1>8. ASSUME NEW job \in Commands, Begin(p, job)
      PROVE  proc'[p].pc \notin Removing \cup {"leave"} /\ proc[p].pc \notin Removing \cup {"leave"}
  <2>1. proc[p].pc = "idle" /\ proc'[p].pc = Entry[job]
    BY <1>1, <1>8, RunSteps DEF Begin, Step
  <2> QED BY <2>1 DEF Removing, Entry, Commands
<1> QED BY <1>3, <1>4, <1>5, <1>6, <1>7, <1>8 DEF Actor, CliStep, ClearStep

LEMMA DestinedStep ==
  ASSUME TypeInv, Destined, NEW p \in Procs, Actor(p)
  PROVE  Destined'
<1>1. ProcShape /\ \A q \in Procs \ {p} : proc'[q] = proc[q]
  BY OneMoves DEF TypeInv, ProcsOK
<1>2. CASE ReadStaged(p)
  <2> DEFINE n == IF proc[p].pc = "commit" THEN "replay" ELSE "clear"
  <2>1. CASE Goto(p, "idle")
    <3>1. proc'[p].pc = "idle" /\ proc'[p].next = "idle"
      BY <1>1, <2>1, GotoMoves DEF Moves
    <3> QED BY <1>1, <3>1 DEF Destined, Pending
  <2>2. CASE proc' = [proc EXCEPT ![p].pc = "leave", ![p].seen = journal, ![p].next = n]
    <3>1. n \in Pending
      BY DEF Pending
    <3> HIDE DEF n
    <3>2. proc[p] = [pc |-> proc[p].pc, next |-> proc[p].next, seen |-> proc[p].seen,
                     rules |-> proc[p].rules]
      BY <1>1 DEF ProcShape, IsProc
    <3>3. proc'[p].pc = "leave" /\ proc'[p].next = n
      BY <1>1, <2>2, <3>2 DEF ProcShape
    <3> QED BY <1>1, <3>1, <3>3 DEF Destined
  <2> QED BY <1>2, <2>1, <2>2 DEF ReadStaged
<1>3. CASE LeaveView(p)
  <2>1. proc[p].pc = "leave" /\ proc[p].next \in Pending
    BY <1>3 DEF LeaveView, Destined
  <2>2. PICK l \in {"idle", proc[p].next} : Goto(p, l)
    BY <1>3 DEF LeaveView
  <2>3. proc'[p].pc = l /\ (l = "idle" => proc'[p].next = "idle")
    BY <1>1, <2>2, GotoMoves DEF Moves
  <2> QED BY <1>1, <2>1, <2>2, <2>3 DEF Destined, Pending, Removing
<1>4. CASE Replay(p) \/ ClearStore(p)
  <2>1. proc'[p].pc \in Removing
    BY <1>1, <1>4, ClearSteps DEF Step, Removing
  <2> QED BY <1>1, <2>1 DEF Destined, Removing
<1>5. CASE Truncate(p) \/ Crash(p)
  <2>1. Goto(p, "idle")
    BY <1>5 DEF Truncate, Crash
  <2>2. proc'[p].pc = "idle" /\ proc'[p].next = "idle"
    BY <1>1, <2>1, GotoMoves DEF Moves
  <2> QED BY <1>1, <2>2 DEF Destined, Pending
<1>6. CASE ~ReadStaged(p) /\ ~LeaveView(p) /\ ~Replay(p) /\ ~ClearStore(p) /\ ~Truncate(p) /\ ~Crash(p)
  <2>1. proc'[p].pc # "leave" /\ proc[p].next \notin Pending
    BY <1>6, Elsewhere DEF Destined
  <2>2. proc'[p].next \in Pending => proc'[p].next = proc[p].next \/ proc'[p].pc = "leave"
    BY <1>1, <1>6, MountSteps, UnmountSteps, RunSteps, ClearSteps
       DEF Actor, CliStep, MountStep, UnmountStep, ModuleStep, RunStep, ClearStep, RuleStep, Step
  <2> QED BY <1>1, <2>1, <2>2 DEF Destined
<1> QED BY <1>2, <1>3, <1>4, <1>5, <1>6

LEMMA UnshownStep ==
  ASSUME Solo, Destined, Unshown, "overlap" \notin Env, NEW p \in Procs, Actor(p)
  PROVE  Unshown'
<1>1. ProcShape /\ \A q \in Procs \ {p} : proc'[q] = proc[q]
  BY OneMoves DEF Solo, TypeInv, ProcsOK
<1>2. CASE Manages(p)
  <2>1. \A q \in Procs \ {p} : proc'[q].pc \notin Removing
    BY <1>1, <1>2 DEF Solo, OneManager, Manages, Managing, Removing
  <2>2. CASE LeaveView(p)
    <3>1. CASE Mounted /\ sbs' = Replaced(Top, Fresh)
      <4>1. Top \in Supers /\ stack' = stack
        BY <2>2, <3>1, TopIsSuper DEF LeaveView, Solo, TypeInv
      <4>2. sbs'[Top].view = {} /\ sbs'[Top].gen = 0
        <5>1. Fresh.next \in Nat /\ Fresh.view = {} /\ Fresh.gen = 0
          BY DEF Fresh
        <5> QED BY <3>1, <4>1, <5>1, ReplaceOne DEF Solo, TypeInv
      <4>3. Top' = Top
        BY <4>1 DEF Top
      <4>4. (sbs[Top].view = {} /\ sbs[Top].gen = 0)'
        BY <4>2, <4>3
      <4> QED BY <4>4 DEF Unshown
    <3>2. CASE ~Mounted
      BY <2>2, <3>2 DEF LeaveView, Unshown, Mounted
    <3>3. CASE Goto(p, "idle")
      BY <1>1, <2>1, <3>3, GotoSteps DEF Unshown, Step, Removing
    <3> QED BY <2>2, <3>1, <3>2, <3>3 DEF LeaveView
  <2>3. CASE Replay(p) \/ ClearStore(p)
    BY <2>1, <2>3 DEF Replay, ClearStore, kernel, Unshown, Removing, Mounted, Top
  <2>4. CASE ReadStaged(p)
    BY <1>1, <2>1, <2>4, ClearSteps DEF Unshown, Step, Removing
  <2>5. CASE ~ReadStaged(p) /\ ~LeaveView(p) /\ ~Replay(p) /\ ~ClearStore(p)
    BY <2>1, <2>5, Elsewhere DEF Solo, Unshown
  <2> QED BY <2>2, <2>3, <2>4, <2>5
<1>3. CASE ~Manages(p)
  <2>1. ~ReadStaged(p) /\ ~LeaveView(p) /\ ~Replay(p) /\ ~ClearStore(p)
    BY <1>3 DEF ReadStaged, LeaveView, Replay, ClearStore, Manages, Managing
  <2>2. proc'[p].pc \notin Removing
    BY <2>1, Elsewhere DEF Solo
  <2>3. CASE Calm
    BY <1>1, <2>2, <2>3 DEF Calm, Unsettled, Unshown, Removing
  <2>4. CASE UNCHANGED <<sbs, stack>>
    BY <1>1, <2>2, <2>4 DEF Unshown, Mounted, Top
  <2>5. Calm \/ UNCHANGED <<sbs, stack>>
    <3>1. CASE MountStep(p) \/ UnmountStep(p) \/ ModuleStep(p)
      BY <1>3, <3>1 DEF MountStep, MountCheck, SetupYoloDir, LoadModule, DoMount, ReadJournal,
         Restore, ReadRules, ApplyRules, UnmountStep, Umount, Rmdir, ModuleStep, InsertModule,
         Reload, UnmountEach, Sweep, DeleteModule, Manages, Managing
    <3>2. CASE ClearStep(p) \/ RuleStep(p) \/ Crash(p)
      BY <1>3, <3>2 DEF ClearStep, ReadStaged, LeaveView, Replay, ClearStore, Truncate, RuleStep,
         EditRules, WriteRules, PushRule, Crash, Manages, Managing
    <3>3. CASE RunStep(p) \/ Write(p) \/ \E job \in Commands : Begin(p, job)
      BY <3>3 DEF RunStep, EnterRun, Spawn, CommandEnds, Snapshot, Write, Begin, kernel
    <3> QED BY <3>1, <3>2, <3>3 DEF Actor, CliStep
  <2> QED BY <2>3, <2>4, <2>5
<1> QED BY <1>2, <1>3

Withdrawn == Solo /\ Destined /\ Unshown

LEMMA WithdrawnInit == Init => Withdrawn
BY SoloInit DEF Init, Withdrawn, Destined, Unshown, Pending, Removing, Resting

LEMMA WithdrawnNext ==
  ASSUME {"race", "pinned", "overlap"} \cap Env = {}
  PROVE  Withdrawn /\ [Next]_vars => Withdrawn'
<1> SUFFICES ASSUME Withdrawn, [Next]_vars PROVE Withdrawn'
  OBVIOUS
<1>1. Solo'
  BY SoloNext DEF Withdrawn
<1>2. CASE \E p \in Procs : Actor(p)
  BY <1>1, <1>2, DestinedStep, UnshownStep DEF Withdrawn, Solo
<1>3. CASE UNCHANGED <<artifact, sbs, stack, cmd, proc>>
  BY <1>1, <1>3 DEF Withdrawn, Destined, Unshown, Mounted, Top
<1> QED BY <1>2, <1>3, NextSplit

\* Unless writes go on while a commit or an abort is on, two commands manage the
\* session at the same time, or it is unmounted under a running command, commit and
\* abort change the base and the store only when no view shows what is staged.
THEOREM RemovesUnshown ==
  {"race", "pinned", "overlap"} \cap Env = {} => (Spec => []ClearsUnshown)
<1> SUFFICES ASSUME {"race", "pinned", "overlap"} \cap Env = {} PROVE Spec => []ClearsUnshown
  OBVIOUS
<1>1. Withdrawn => ClearsUnshown
  <2> SUFFICES ASSUME Withdrawn, NEW p \in Procs, proc[p].pc \in Removing, NEW s \in InUse
               PROVE  sbs[s].view = {}
    BY DEF ClearsUnshown, Removing
  <2>1. Mounted /\ s = Top
    BY UsedIsTop DEF Withdrawn
  <2> QED BY <2>1 DEF Withdrawn, Unshown
<1>2. Spec => []Withdrawn
  BY WithdrawnInit, WithdrawnNext, PTL DEF Spec
<1> QED BY <1>1, <1>2, PTL

-----------------------------------------------------------------------------
(* Between the steps of a restore, a commit or an abort the view and the   *)
(* journal differ; they agree again when the command is done.              *)

Midway(p) == \/ proc[p].pc \in {"read", "restore"} \cup Removing
             \/ proc[p].pc = "umount" /\ proc[p].next = "failed"

\* Superblock sb is what a replay of journal j would set up, or has counted past it.
Describes(sb, j) == /\ sb.view = Staged(j) /\ sb.gen = Markers(j)
                    /\ \A i \in Staged(j) : i <= sb.next

Shows == Mounted /\ (\A p \in Procs : ~Midway(p)) => Describes(sbs[Top], journal)

\* What a mount read of the journal still holds when it is used.
RecallsOf(q) == /\ proc[q].pc = "restore" => proc[q].seen = journal
                /\ proc[q].pc = "setup" /\ proc[q].seen = Nil => journal = Nil
                /\ proc[q].pc \in {"load", "domount"} /\ proc[q].seen = Nil => journal = << >>
Recalls == \A q \in Procs : RecallsOf(q)

Faithful == Withdrawn /\ Shows /\ Recalls

\* A running command is what writes, and it has a view; the other steps outside
\* the management commands leave the journal alone or wait until it is settled.
LEMMA JournalStays ==
  ASSUME Solo, "overlap" \notin Env, NEW p \in Procs, ~Manages(p), Actor(p)
  PROVE  UNCHANGED journal \/ (Calm /\ Mounted)
<1>1. CASE MountStep(p) \/ UnmountStep(p) \/ ModuleStep(p)
  BY <1>1 DEF MountStep, MountCheck, SetupYoloDir, LoadModule, DoMount, ReadJournal,
     Restore, ReadRules, ApplyRules, UnmountStep, Umount, Rmdir, ModuleStep, InsertModule,
     Reload, UnmountEach, Sweep, DeleteModule, Manages, Managing
<1>2. CASE ClearStep(p) \/ RuleStep(p) \/ Crash(p)
  BY <1>2 DEF ClearStep, ReadStaged, LeaveView, Replay, ClearStore, Truncate, RuleStep,
     EditRules, WriteRules, PushRule, Crash, Manages, Managing
<1>3. CASE EnterRun(p) \/ Spawn(p) \/ CommandEnds(p) \/ \E job \in Commands : Begin(p, job)
  BY <1>3 DEF EnterRun, Spawn, CommandEnds, Begin, artifact
<1>4. CASE Snapshot(p)
  BY <1>4 DEF Snapshot, artifact
<1>5. CASE Write(p)
  <2>1. Calm /\ cmd[p] # Nil
    BY <1>5 DEF Write, Solo, TypeInv, ProcsOK, Sound
  <2> QED BY <2>1 DEF Solo, Standing
<1> QED BY <1>1, <1>2, <1>3, <1>4, <1>5 DEF Actor, CliStep, RunStep

LEMMA RecallsOthers ==
  ASSUME Solo, Recalls, "overlap" \notin Env, NEW p \in Procs, Actor(p), NEW q \in Procs \ {p}
  PROVE  RecallsOf(q)'
<1>1. proc'[q] = proc[q] /\ RecallsOf(q)
  BY OneMoves DEF Solo, TypeInv, ProcsOK, Recalls
<1>2. CASE UNCHANGED journal
  BY <1>1, <1>2 DEF RecallsOf
<1>3. CASE Manages(p)
  <2>1. ~Manages(q)
    BY <1>3 DEF Solo, OneManager
  <2> QED BY <1>1, <2>1 DEF RecallsOf, Manages, Managing
<1>4. CASE Calm /\ Mounted
  <2>1. proc[q].pc # "restore" /\ proc[q].pc \notin Outside
    BY <1>4 DEF Calm, Unsettled, Solo, Standing
  <2> QED BY <1>1, <2>1 DEF RecallsOf, Outside
<1> QED BY <1>2, <1>3, <1>4, JournalStays

LEMMA RecallsMover ==
  ASSUME Solo, Recalls, NEW p \in Procs, Actor(p)
  PROVE  RecallsOf(p)'
<1>1. ProcShape /\ RecallsOf(p)
  BY DEF Solo, TypeInv, ProcsOK, Recalls
<1>2. proc[p] = [pc |-> proc[p].pc, next |-> proc[p].next, seen |-> proc[p].seen,
                 rules |-> proc[p].rules]
  BY <1>1 DEF ProcShape, IsProc
<1>3. proc[p].next \notin {"restore", "setup", "load", "domount"}
  BY DEF Solo, TypeInv, ProcsOK, Sound, NextLabels
<1>4. CASE MountCheck(p)
  <2>1. CASE Mounted
    <3>1. proc'[p].pc = proc[p].next
      BY <1>1, <1>4, <2>1, GotoSteps DEF MountCheck, Step
    <3> QED BY <1>3, <3>1 DEF RecallsOf
  <2>2. CASE ~Mounted
    <3>1. /\ journal' = journal
          /\ proc' = [proc EXCEPT ![p].pc = "setup",
                                  ![p].seen = IF journal = Nil THEN Nil ELSE << >>]
      BY <1>4, <2>2 DEF MountCheck, artifact
    <3>2. proc'[p].pc = "setup" /\ proc'[p].seen = (IF journal = Nil THEN Nil ELSE << >>)
      BY <1>1, <1>2, <3>1 DEF ProcShape
    <3>3. << >> \in Seq(Nat)
      OBVIOUS
    <3>4. << >> # Nil
      BY <3>3, SessionAssumption
    <3> QED BY <3>1, <3>2, <3>4 DEF RecallsOf
  <2> QED BY <2>1, <2>2
<1>5. CASE SetupYoloDir(p)
  <2>1. /\ proc[p].pc = "setup" /\ Goto(p, "load")
        /\ journal' = (IF journal = Nil THEN << >> ELSE journal)
    BY <1>5 DEF SetupYoloDir
  <2>2. proc'[p].pc = "load" /\ proc'[p].seen = proc[p].seen
    BY <1>1, <2>1, GotoMoves DEF Moves
  <2> QED BY <1>1, <2>1, <2>2 DEF RecallsOf
<1>6. CASE LoadModule(p)
  <2>1. proc[p].pc = "load" /\ journal' = journal
    BY <1>6 DEF LoadModule, artifact
  <2>2. CASE Goto(p, "domount")
    <3>1. proc'[p].pc = "domount" /\ proc'[p].seen = proc[p].seen
      BY <1>1, <2>2, GotoMoves DEF Moves
    <3> QED BY <1>1, <2>1, <3>1 DEF RecallsOf
  <2>3. CASE Goto(p, "idle")
    BY <1>1, <2>3, GotoSteps DEF RecallsOf, Step
  <2> QED BY <1>6, <2>2, <2>3 DEF LoadModule
<1>7. CASE ReadJournal(p)
  <2>1. proc' = [proc EXCEPT ![p].pc = "restore", ![p].seen = journal] /\ journal' = journal
    BY <1>7 DEF ReadJournal, artifact
  <2>2. proc'[p].pc = "restore" /\ proc'[p].seen = journal
    BY <1>1, <1>2, <2>1 DEF ProcShape
  <2> QED BY <2>1, <2>2 DEF RecallsOf
<1>8. CASE DoMount(p) \/ Restore(p) \/ ReadRules(p) \/ ApplyRules(p)
  <2>1. proc'[p].pc \in {"rules", "read", "idle", "umount", "apply", proc[p].next}
    BY <1>1, <1>8, MountSteps DEF Step
  <2> QED BY <1>3, <2>1 DEF RecallsOf
<1>9. CASE UnmountStep(p) \/ ModuleStep(p)
  <2>1. proc'[p].pc \in {"rmdir", "idle", "check", "each", "insert", "sweep", "delete", proc[p].next}
    BY <1>1, <1>9, UnmountSteps DEF UnmountStep, ModuleStep, Step
  <2> QED BY <1>3, <2>1 DEF RecallsOf
<1>10. CASE RunStep(p) \/ Write(p) \/ Crash(p)
  <2>1. proc'[p].pc \in {"spawn", "idle", "check", "running", "autosnap"}
    BY <1>1, <1>10, RunSteps DEF RunStep, Step
  <2> QED BY <2>1 DEF RecallsOf
<1>11. ASSUME NEW job \in Commands, Begin(p, job) PROVE RecallsOf(p)'
  <2>1. proc'[p].pc = Entry[job]
    BY <1>1, <1>11, RunSteps DEF Step
  <2>2. Entry[job] \notin {"restore", "setup", "load", "domount"}
    BY DEF Commands, Entry
  <2> QED BY <2>1, <2>2 DEF RecallsOf
<1>12. CASE ClearStep(p) \/ RuleStep(p)
  <2>1. proc'[p].pc \in {"idle", "leave", "clear", "truncate", "write", "push", proc[p].next}
    BY <1>1, <1>12, ClearSteps DEF ClearStep, RuleStep, Step
  <2> QED BY <1>3, <2>1 DEF RecallsOf
<1> QED BY <1>4, <1>5, <1>6, <1>7, <1>8, <1>9, <1>10, <1>11, <1>12 DEF Actor, CliStep, MountStep

LEMMA ShowsFrame ==
  ASSUME Shows, NEW p \in Procs, \A q \in Procs \ {p} : proc'[q] = proc[q],
         stack' = stack,
         Mounted /\ Describes(sbs[Top], journal) => Describes(sbs'[Top], journal'),
         ~Midway(p) \/ Midway(p)'
  PROVE  Shows'
<1>1. Mounted' = Mounted /\ Top' = Top
  BY DEF Mounted, Top
<1>2. (\A q \in Procs : ~Midway(q)') => \A q \in Procs : ~Midway(q)
  BY DEF Midway
<1>3. Describes(sbs'[Top'], journal') <=> Describes(sbs[Top], journal)'
  BY DEF Describes, Staged, Markers
<1> QED BY <1>1, <1>2, <1>3 DEF Shows

LEMMA NotShown ==
  ASSUME NEW p \in Procs, ~Mounted' \/ Midway(p)'
  PROVE  Shows'
BY DEF Shows

LEMMA QuietShows ==
  ASSUME Shows, NEW p \in Procs, \A q \in Procs \ {p} : proc'[q] = proc[q],
         UNCHANGED <<journal, sbs, stack>>, ~Midway(p) \/ Midway(p)'
  PROVE  Shows'
<1>1. Describes(sbs'[Top], journal') <=> Describes(sbs[Top], journal)
  OBVIOUS
<1> QED BY <1>1, ShowsFrame

\* The rules of a superblock are no part of it.
LEMMA TunedShows ==
  ASSUME Shows, TypeInv, NEW p \in Procs, \A q \in Procs \ {p} : proc'[q] = proc[q],
         UNCHANGED <<journal, stack>>, ~Midway(p), NEW x,
         sbs' = IF Mounted THEN [sbs EXCEPT ![Top].live = x] ELSE sbs
  PROVE  Shows'
<1>1. ASSUME Mounted, Describes(sbs[Top], journal) PROVE Describes(sbs'[Top], journal')
  <2>1. Top \in Supers /\ sbs' = [sbs EXCEPT ![Top].live = x]
    BY <1>1, TopIsSuper DEF TypeInv
  <2>2. /\ sbs'[Top].view = sbs[Top].view /\ sbs'[Top].next = sbs[Top].next
        /\ sbs'[Top].gen = sbs[Top].gen
    BY <2>1, TuneOne DEF TypeInv
  <2> QED BY <1>1, <2>2 DEF Describes
<1> QED BY <1>1, ShowsFrame

LEMMA ShowsMount ==
  ASSUME Faithful, "race" \notin Env, NEW p \in Procs, MountStep(p)
  PROVE  Shows'
<1>1. ProcShape /\ TypeInv /\ Standing /\ Shows /\ RecallsOf(p)
      /\ \A q \in Procs \ {p} : proc'[q] = proc[q]
  BY OneMoves DEF Faithful, Withdrawn, Solo, TypeInv, ProcsOK, Recalls, Actor, CliStep
<1>2. CASE MountCheck(p) \/ ReadRules(p)
  <2>1. ~Midway(p) /\ UNCHANGED <<journal, sbs, stack>>
    BY <1>2 DEF MountCheck, ReadRules, Midway, Removing, artifact, kernel
  <2> QED BY <1>1, <2>1, QuietShows
<1>3. CASE SetupYoloDir(p) \/ LoadModule(p)
  <2>1. ~Mounted
    BY <1>1, <1>3 DEF SetupYoloDir, LoadModule, Standing, Outside
  <2>2. ~Mounted'
    BY <1>3, <2>1 DEF SetupYoloDir, LoadModule, kernel, Mounted
  <2> QED BY <2>2, NotShown
<1>4. CASE DoMount(p)
  <2>1. proc[p].pc = "domount" /\ ~Mounted /\ journal' = journal
    BY <1>1, <1>4 DEF DoMount, Standing, Outside, artifact
  <2>2. CASE UNCHANGED <<stack, sbs>>
    BY <2>1, <2>2, NotShown DEF Mounted
  <2>3. ASSUME NEW s \in Free, stack' = Append(stack, s), sbs' = [sbs EXCEPT ![s] = Fresh],
               Goto(p, IF proc[p].seen = Nil THEN "rules" ELSE "read")
        PROVE  Shows'
    <3>1. CASE proc[p].seen = Nil
      <4>1. journal' = << >>
        BY <1>1, <2>1, <3>1 DEF RecallsOf
      <4>2. Staged(journal)' = {} /\ Markers(journal)' = 0
        BY <4>1, ReadableEmpty, MarkersEmpty DEF Staged, Markers
      <4>3. s \in Supers /\ stack = << >>
        BY <2>1 DEF Free, Mounted
      <4>4. Top' = s
        BY <2>3, <4>3 DEF Top, Last
      <4>5. sbs'[s] = Fresh
        BY <1>1, <2>3, <4>3 DEF TypeInv, SbsOK
      <4>6. (sbs[Top].view)' = {} /\ (sbs[Top].gen)' = 0
        BY <4>4, <4>5 DEF Fresh
      <4> QED BY <4>2, <4>6 DEF Shows, Describes
    <3>2. CASE proc[p].seen # Nil
      <4>1. proc'[p].pc = "read"
        BY <1>1, <2>3, <3>2, GotoSteps DEF Step
      <4> QED BY <4>1, NotShown DEF Midway
    <3> QED BY <3>1, <3>2
  <2> QED BY <1>4, <2>2, <2>3 DEF DoMount
<1>5. CASE ReadJournal(p)
  <2>1. proc'[p].pc = "restore"
    BY <1>1, <1>5, MountSteps DEF Step
  <2> QED BY <2>1, NotShown DEF Midway
<1>6. CASE Restore(p)
  <2>1. proc[p].pc = "restore" /\ UNCHANGED <<journal, stack>> /\ proc[p].seen = journal
    BY <1>1, <1>6 DEF Restore, artifact, RecallsOf
  <2>2. CASE Mounted /\ sbs' = Replaced(Top, RestoredFrom(proc[p].seen))
    <3>1. Readable(journal) /\ Top \in Supers
      BY <1>1, <2>1, <2>2, TopIsSuper DEF TypeInv, ProcsOK, Sound
    <3>2. RestoredFrom(journal).next \in Nat
      BY <3>1, LargestInode DEF RestoredFrom
    <3>3. Describes(RestoredFrom(journal), journal)
      BY <3>1, LargestInode DEF RestoredFrom, Describes
    <3>4. /\ sbs'[Top].view = RestoredFrom(journal).view
          /\ sbs'[Top].next = RestoredFrom(journal).next
          /\ sbs'[Top].gen = RestoredFrom(journal).gen
      BY <1>1, <2>1, <2>2, <3>1, <3>2, ReplaceOne DEF TypeInv
    <3>5. Describes(sbs'[Top], journal)
      BY <3>3, <3>4 DEF Describes
    <3>6. Top' = Top /\ journal' = journal
      BY <2>1 DEF Top
    <3>7. Describes(sbs[Top], journal)'
      BY <3>5, <3>6 DEF Describes, Staged, Markers
    <3> QED BY <3>7 DEF Shows
  <2>3. CASE RollBack(p)
    <3>1. proc' = [proc EXCEPT ![p].pc = "umount", ![p].next = "failed"]
      BY <2>3 DEF RollBack
    <3>2. proc[p] = [pc |-> proc[p].pc, next |-> proc[p].next, seen |-> proc[p].seen,
                     rules |-> proc[p].rules]
      BY <1>1 DEF ProcShape, IsProc
    <3>3. proc'[p].pc = "umount" /\ proc'[p].next = "failed"
      BY <1>1, <3>1, <3>2 DEF ProcShape
    <3> QED BY <3>3, NotShown DEF Midway
  <2> QED BY <1>6, <2>2, <2>3 DEF Restore
<1>7. CASE ApplyRules(p)
  <2>1. proc[p].pc = "apply" /\ UNCHANGED <<journal, stack>>
    BY <1>7 DEF ApplyRules, artifact
  <2>2. PICK x : sbs' = IF Mounted THEN [sbs EXCEPT ![Top].live = x] ELSE sbs
    BY <1>7 DEF ApplyRules
  <2>3. ~Midway(p)
    BY <2>1 DEF Midway, Removing
  <2> QED BY <1>1, <2>1, <2>2, <2>3, TunedShows
<1> QED BY <1>2, <1>3, <1>4, <1>5, <1>6, <1>7 DEF MountStep

LEMMA ShowsUnmount ==
  ASSUME Faithful, {"race", "pinned"} \cap Env = {}, NEW p \in Procs,
         UnmountStep(p) \/ ModuleStep(p)
  PROVE  Shows'
<1>1. ProcShape /\ TypeInv /\ OneManager /\ Standing /\ Shows
      /\ \A q \in Procs \ {p} : proc'[q] = proc[q]
  BY OneMoves DEF Faithful, Withdrawn, Solo, TypeInv, ProcsOK, Actor, CliStep
<1>2. Manages(p)
  BY DEF UnmountStep, ModuleStep, Umount, Rmdir, InsertModule, Reload, UnmountEach, Sweep,
         DeleteModule, Manages, Managing
<1>3. CASE Mounted /\ PopTop /\ cmd' = cmd
  BY <1>1, <1>2, <1>3, StandingPop, NotShown
<1>4. CASE ~Mounted /\ stack' = stack
  BY <1>4, NotShown DEF Mounted
<1>5. CASE Umount(p) /\ UNCHANGED stack /\ Mounted
  <2>1. proc[p].pc = "umount" /\ UNCHANGED <<journal, sbs>>
    BY <1>5 DEF Umount, artifact
  <2>2. (Mounted /\ PopTop /\ cmd' = cmd) \/ proc[p].next # "failed"
    BY <1>5 DEF Umount
  <2> QED BY <1>1, <1>3, <1>5, <2>1, <2>2, QuietShows DEF Midway, Removing
<1>6. CASE UnmountEach(p) /\ UNCHANGED stack
  <2>1. proc[p].pc = "each" /\ UNCHANGED <<journal, sbs>>
    BY <1>6 DEF UnmountEach, artifact
  <2> QED BY <1>1, <1>6, <2>1, QuietShows DEF Midway, Removing
<1>7. CASE InsertModule(p) \/ Reload(p) \/ Sweep(p) \/ DeleteModule(p)
  <2>1. ~Midway(p) /\ UNCHANGED <<journal, sbs, stack>>
    BY <1>7 DEF InsertModule, Reload, Sweep, DeleteModule, Midway, Removing, artifact, kernel
  <2> QED BY <1>1, <2>1, QuietShows
<1>8. CASE Rmdir(p)
  BY <1>4, <1>8 DEF Rmdir, kernel
<1>9. Umount(p) \/ UnmountEach(p) => (Mounted /\ PopTop /\ cmd' = cmd) \/ stack' = stack
  BY DEF Umount, UnmountEach
<1> QED BY <1>3, <1>4, <1>5, <1>6, <1>7, <1>8, <1>9 DEF UnmountStep, ModuleStep

LEMMA ShowsRun ==
  ASSUME Faithful, {"overlap", "crash"} \cap Env = {}, NEW p \in Procs,
         RunStep(p) \/ Write(p) \/ Crash(p) \/ \E job \in Commands : Begin(p, job)
  PROVE  Shows'
<1>1. ProcShape /\ TypeInv /\ Standing /\ Shows
      /\ \A q \in Procs \ {p} : proc'[q] = proc[q]
  BY OneMoves DEF Faithful, Withdrawn, Solo, TypeInv, ProcsOK, Actor, CliStep
<1>2. CASE EnterRun(p) \/ Spawn(p) \/ CommandEnds(p) \/ \E job \in Commands : Begin(p, job)
  <2>1. ~Midway(p) /\ UNCHANGED <<journal, sbs, stack>>
    BY <1>2 DEF EnterRun, Spawn, CommandEnds, Begin, Midway, Removing, artifact, kernel
  <2> QED BY <1>1, <2>1, QuietShows
<1>3. CASE Crash(p)
  <2>1. ~Midway(p) /\ UNCHANGED <<journal, sbs, stack>>
    BY <1>3 DEF Crash, HalfDone, Midway, Removing, artifact, kernel
  <2> QED BY <1>1, <2>1, QuietShows
<1>4. CASE Snapshot(p)
  <2>1. ~Midway(p) /\ stack' = stack
    BY <1>4 DEF Snapshot, Midway, Removing
  <2>2. CASE UNCHANGED <<artifact, sbs>>
    BY <1>1, <2>1, <2>2, QuietShows DEF artifact
  <2>3. CASE /\ Mounted /\ journal' = Append(journal, 0)
             /\ sbs' = [sbs EXCEPT ![Top].gen = @ + 1, ![Top].dirty = FALSE]
    <3>1. Readable(journal) /\ Top \in Supers
      BY <1>1, <2>3, TopIsSuper DEF TypeInv, JournalOK, MountOK, Mounted
    <3>2. journal \in Seq(Nat)
      BY <3>1 DEF Readable
    <3>3. Staged(journal') = Staged(journal) /\ Markers(journal') = Markers(journal) + 1
      BY <2>3, <3>2, StagedAppend, MarkersAppend DEF Staged
    <3>4. PICK x : x = sbs[Top].gen + 1
                   /\ sbs' = [sbs EXCEPT ![Top].gen = x, ![Top].dirty = FALSE]
      BY <2>3
    <3>5. /\ sbs'[Top].view = sbs[Top].view /\ sbs'[Top].next = sbs[Top].next
          /\ sbs'[Top].gen = x
      BY <1>1, <3>1, <3>4, TuneOne DEF TypeInv
    <3>6. Describes(sbs[Top], journal) => Describes(sbs'[Top], journal')
      BY <3>3, <3>4, <3>5 DEF Describes
    <3> QED BY <1>1, <2>1, <3>6, ShowsFrame
  <2> QED BY <1>4, <2>2, <2>3 DEF Snapshot
<1>5. CASE Write(p)
  <2> DEFINE ino == sbs[cmd[p]].next + 1
  <2>1. proc[p].pc = "running" /\ proc' = proc /\ stack' = stack
    BY <1>5 DEF Write
  <2>2. cmd[p] = Top /\ Mounted /\ Top \in Supers /\ Readable(journal) /\ ~Midway(p)
    <3>1. cmd[p] # Nil
      BY <1>1, <2>1 DEF TypeInv, ProcsOK, Sound
    <3>2. cmd[p] = Top /\ Mounted
      BY <1>1, <3>1 DEF Standing
    <3> QED BY <1>1, <2>1, <3>2, TopIsSuper DEF TypeInv, JournalOK, MountOK, Mounted, Midway, Removing
  <2>3. ino \in Nat \ {0}
    BY <1>1, <2>2 DEF TypeInv, SbsOK
  <2>4. \/ sbs' = [sbs EXCEPT ![cmd[p]].next = ino] /\ journal' = journal
        \/ /\ sbs' = [sbs EXCEPT ![cmd[p]].next = ino, ![cmd[p]].view = @ \cup {ino},
                                 ![cmd[p]].dirty = TRUE]
           /\ journal' = Append(journal, ino)
    BY <1>5 DEF Write, artifact
  <2>5. sbs[Top] = [view |-> sbs[Top].view, next |-> sbs[Top].next, gen |-> sbs[Top].gen,
                    dirty |-> sbs[Top].dirty, live |-> sbs[Top].live]
        /\ sbs = [s \in Supers |-> sbs[s]]
    BY <1>1, <2>2 DEF TypeInv, SbsOK, IsSb
  <2>8. journal \in Seq(Nat) /\ Staged(journal) \subseteq Nat /\ sbs[Top].next \in Nat
    BY <1>1, <2>2 DEF Readable, Staged, Range, TypeInv, SbsOK
  <2>9. ino = sbs[Top].next + 1
    BY <2>2
  <2> HIDE DEF ino
  <2>6. CASE sbs' = [sbs EXCEPT ![cmd[p]].next = ino] /\ journal' = journal
    <3>1. /\ sbs'[Top].view = sbs[Top].view /\ sbs'[Top].gen = sbs[Top].gen
          /\ sbs'[Top].next = ino
      BY <2>2, <2>5, <2>6
    <3>2. \A i \in Nat : i <= sbs[Top].next => i <= ino
      BY <2>8, <2>9
    <3>3. Describes(sbs[Top], journal) => Describes(sbs'[Top], journal')
      BY <2>6, <2>8, <3>1, <3>2 DEF Describes
    <3> QED BY <1>1, <2>1, <2>2, <3>3, ShowsFrame
  <2>7. CASE /\ sbs' = [sbs EXCEPT ![cmd[p]].next = ino, ![cmd[p]].view = @ \cup {ino},
                                   ![cmd[p]].dirty = TRUE]
             /\ journal' = Append(journal, ino)
    <3>1. /\ sbs'[Top].view = sbs[Top].view \cup {ino} /\ sbs'[Top].gen = sbs[Top].gen
          /\ sbs'[Top].next = ino
      BY <2>2, <2>5, <2>7
    <3>2. Staged(journal') = Staged(journal) \cup {ino} /\ Markers(journal') = Markers(journal)
      BY <2>3, <2>7, <2>8, StagedAppend, MarkersAppend
    <3>3. \A i \in Nat : i <= sbs[Top].next => i <= ino
      BY <2>8, <2>9
    <3>4. Describes(sbs[Top], journal) => Describes(sbs'[Top], journal')
      BY <2>3, <2>8, <3>1, <3>2, <3>3 DEF Describes
    <3> QED BY <1>1, <2>1, <2>2, <3>4, ShowsFrame
  <2> QED BY <2>4, <2>6, <2>7
<1> QED BY <1>2, <1>3, <1>4, <1>5 DEF RunStep

LEMMA ShowsClear ==
  ASSUME Faithful, NEW p \in Procs, ClearStep(p) \/ RuleStep(p)
  PROVE  Shows'
<1>1. ProcShape /\ TypeInv /\ Shows /\ Destined /\ Unshown
      /\ \A q \in Procs \ {p} : proc'[q] = proc[q]
  BY OneMoves DEF Faithful, Withdrawn, Solo, TypeInv, ProcsOK, Actor, CliStep
<1>2. CASE ReadStaged(p) \/ EditRules(p) \/ WriteRules(p)
  <2>1. ~Midway(p) /\ UNCHANGED <<journal, sbs, stack>>
    BY <1>2 DEF ReadStaged, EditRules, WriteRules, Midway, Removing, artifact, kernel
  <2> QED BY <1>1, <2>1, QuietShows
<1>3. CASE LeaveView(p)
  <2>1. proc[p].pc = "leave" /\ proc[p].next \in Pending /\ UNCHANGED <<journal, stack>>
    BY <1>1, <1>3 DEF LeaveView, Destined, artifact
  <2>2. CASE Goto(p, proc[p].next)
    <3>1. proc'[p].pc = proc[p].next
      BY <1>1, <2>2, GotoSteps DEF Step
    <3> QED BY <2>1, <3>1, NotShown DEF Midway, Pending, Removing
  <2>3. CASE sbs' = sbs
    BY <1>1, <2>1, <2>3, QuietShows DEF Midway, Removing
  <2> QED BY <1>3, <2>2, <2>3 DEF LeaveView
<1>4. CASE Replay(p) \/ ClearStore(p)
  <2>1. proc'[p].pc \in Removing
    BY <1>1, <1>4, ClearSteps DEF Step, Removing
  <2> QED BY <2>1, NotShown DEF Midway
<1>5. CASE Truncate(p)
  <2>1. proc[p].pc \in Removing /\ UNCHANGED <<sbs, stack>> /\ journal' = << >>
    BY <1>5 DEF Truncate, kernel, Removing
  <2>2. Staged(journal)' = {} /\ Markers(journal)' = 0
    BY <2>1, ReadableEmpty, MarkersEmpty DEF Staged, Markers
  <2>3. ~Mounted \/ (sbs[Top].view = {} /\ sbs[Top].gen = 0)
    BY <1>1, <2>1 DEF Unshown
  <2> QED BY <2>1, <2>2, <2>3 DEF Shows, Describes, Mounted, Top
<1>6. CASE PushRule(p)
  <2>1. proc[p].pc = "push" /\ UNCHANGED <<journal, stack>>
    BY <1>6 DEF PushRule, artifact
  <2>2. PICK x : sbs' = IF Mounted THEN [sbs EXCEPT ![Top].live = x] ELSE sbs
    BY <1>6 DEF PushRule
  <2>3. ~Midway(p)
    BY <2>1 DEF Midway, Removing
  <2> QED BY <1>1, <2>1, <2>2, <2>3, TunedShows
<1> QED BY <1>2, <1>3, <1>4, <1>5, <1>6 DEF ClearStep, RuleStep

LEMMA FaithfulInit == Init => Faithful
BY WithdrawnInit DEF Init, Faithful, Shows, Recalls, RecallsOf, Resting, Mounted

LEMMA FaithfulNext ==
  ASSUME {"race", "pinned", "overlap", "crash"} \cap Env = {}
  PROVE  Faithful /\ [Next]_vars => Faithful'
<1> SUFFICES ASSUME Faithful, [Next]_vars PROVE Faithful'
  OBVIOUS
<1>1. Withdrawn'
  BY WithdrawnNext DEF Faithful
<1>2. ASSUME NEW p \in Procs, Actor(p) PROVE Shows' /\ Recalls'
  <2>1. Shows'
    BY <1>2, ShowsMount, ShowsUnmount, ShowsRun, ShowsClear DEF Actor, CliStep
  <2>2. Recalls'
    BY <1>2, RecallsOthers, RecallsMover DEF Faithful, Withdrawn, Recalls
  <2> QED BY <2>1, <2>2
<1>3. CASE UNCHANGED <<artifact, sbs, stack, cmd, proc>>
  BY <1>1, <1>3 DEF Faithful, Shows, Describes, Recalls, RecallsOf, Midway, Mounted, Top, Staged,
                    Markers, artifact
<1> QED BY <1>1, <1>2, <1>3, NextSplit DEF Faithful

\* Unless writes go on while a commit, an abort or a restore is on, two commands
\* manage the session at the same time, it is unmounted under a running command, or a
\* command is killed half done, a command runs over the view the journal describes.
THEOREM RunsOnItsJournal ==
  {"race", "pinned", "overlap", "crash"} \cap Env = {} => (Spec => []RunsOnJournal)
<1> SUFFICES ASSUME {"race", "pinned", "overlap", "crash"} \cap Env = {}
             PROVE  Spec => []RunsOnJournal
  OBVIOUS
<1>1. Faithful => RunsOnJournal
  <2> SUFFICES ASSUME Faithful, AtRest, NEW p \in Procs, cmd[p] # Nil
               PROVE  sbs[cmd[p]].view = Staged(journal)
    BY DEF RunsOnJournal
  <2>1. Mounted /\ cmd[p] = Top
    BY DEF Faithful, Withdrawn, Solo, Standing
  <2>2. \A q \in Procs : ~Midway(q)
    BY DEF AtRest, Manages, Managing, Midway, Removing
  <2> QED BY <2>1, <2>2 DEF Faithful, Shows, Describes
<1>2. Spec => []Faithful
  BY FaithfulInit, FaithfulNext, PTL DEF Spec
<1> QED BY <1>1, <1>2, PTL

\* Under the same hypothesis the counters of what is mounted go on where the journal
\* stands, whatever was restored, run, snapshotted, committed or aborted before: the
\* generation is the number of its markers and no inode it names is ahead of them.
THEOREM CountersGoOn ==
  {"race", "pinned", "overlap", "crash"} \cap Env = {} => (Spec => []CountersContinue)
<1> SUFFICES ASSUME {"race", "pinned", "overlap", "crash"} \cap Env = {}
             PROVE  Spec => []CountersContinue
  OBVIOUS
<1>1. Faithful => CountersContinue
  <2> SUFFICES ASSUME Faithful, AtRest, NEW s \in Range(stack)
               PROVE  /\ \A i \in Staged(journal) : i <= sbs[s].next
                      /\ sbs[s].gen = Markers(journal)
    BY DEF CountersContinue
  <2>1. Mounted /\ s = Top
    BY UsedIsTop DEF Faithful, Withdrawn, InUse
  <2>2. \A q \in Procs : ~Midway(q)
    BY DEF AtRest, Manages, Managing, Midway, Removing
  <2> QED BY <2>1, <2>2 DEF Faithful, Shows, Describes
<1>2. Spec => []Faithful
  BY FaithfulInit, FaithfulNext, PTL DEF Spec
<1> QED BY <1>1, <1>2, PTL

-----------------------------------------------------------------------------
(* The rules of the file and those of the view.  That the kernel's answer, *)
(* the nearest ancestor with a rule, is the file's, the longest path of    *)
(* its rules that is a prefix, needs that no two rules mean one path and   *)
(* that what lies above a path of the host is on the host.                 *)

Plain ==
  /\ \A k, l \in Range(Keys) : Target[k] = Target[l] => k = l
  /\ \A d \in OnHost, k \in Range(Keys) : IsPrefix(Target[k], d) => Target[k] \in OnHost

Bare == [d \in OnHost |-> Unset]

IsRules(rules) == rules = [k \in Range(Keys) |-> rules[k]]

\* What a view carries that was told all the rules and nothing else.
Carries(live, rules) ==
  /\ live = [d \in OnHost |-> live[d]]
  /\ \A d \in OnHost, k \in Range(Keys) : Target[k] = d => live[d] = rules[k]
  /\ \A d \in OnHost : (\A k \in Range(Keys) : Target[k] # d) => live[d] = Unset

\* Every non-empty set of naturals has a least member.
LEMMA LeastOf ==
  ASSUME NEW T \in SUBSET Nat, T # {}
  PROVE  \E n \in T : \A m \in T : n <= m
<1> DEFINE Upto == {0 .. n : n \in T}
<1>1. \A n \in T : 0 .. n \in FiniteSubsetsOf(Nat)
  BY FS_Interval DEF FiniteSubsetsOf
<1>2. Upto \subseteq FiniteSubsetsOf(Nat) /\ Upto # {}
  BY <1>1
<1>3. IsWellFoundedOn(StrictSubsetOrdering(Nat), FiniteSubsetsOf(Nat))
  BY FS_StrictSubsetOrderingWellFounded
<1> HIDE DEF Upto
<1>4. PICK x \in Upto : \A y \in Upto : ~(<<y, x>> \in StrictSubsetOrdering(Nat))
  BY <1>2, <1>3, WFMin
<1>5. PICK n \in T : x = 0 .. n
  BY DEF Upto
<1>6. ASSUME NEW m \in T, m < n PROVE FALSE
  <2>1. 0 .. m \in Upto
    BY DEF Upto
  <2>2. <<0 .. m, 0 .. n>> \in StrictSubsetOrdering(Nat)
    BY <1>6 DEF StrictSubsetOrdering
  <2> QED BY <1>4, <1>5, <2>1, <2>2
<1> QED BY <1>6

\* A non-empty set of naturals with a bound has a greatest member.
LEMMA GreatestOf ==
  ASSUME NEW k \in Nat, NEW T \in SUBSET (0 .. k), T # {}
  PROVE  \E x \in T : \A y \in T : x >= y
<1> DEFINE Gaps == {k - x : x \in T}
<1>1. Gaps \in SUBSET Nat
  OBVIOUS
<1>2. Gaps # {}
  OBVIOUS
<1>3. PICK d \in Gaps : \A e \in Gaps : d <= e
  BY <1>1, <1>2, LeastOf
<1>4. PICK x \in T : d = k - x
  OBVIOUS
<1>5. ASSUME NEW y \in T PROVE x >= y
  <2>1. k - y \in Gaps
    OBVIOUS
  <2>2. k - x <= k - y
    BY <1>3, <1>4, <2>1
  <2> QED BY <2>2
<1> QED BY <1>5

LEMMA MaxIs ==
  ASSUME NEW k \in Nat, NEW T \in SUBSET (0 .. k), T # {}
  PROVE  Max(T) \in T
<1>1. \E x \in T : \A y \in T : x >= y
  BY GreatestOf
<1> QED BY <1>1, Zenon DEF Max

\* A view without rules that is told those of the file carries them.
LEMMA AppliedCarries ==
  ASSUME Plain, NEW rules
  PROVE  Carries(Applied(Bare, rules), rules)
<1> DEFINE given(d) == {n \in DOMAIN Keys : Target[Keys[n]] = d /\ rules[Keys[n]] # Unset}
           live == Applied(Bare, rules)
<1>1. Keys \in Seq(STRING) /\ Len(Keys) \in Nat /\ DOMAIN Keys = 1 .. Len(Keys)
  BY SessionAssumption
<1>2. \A d \in OnHost : live[d] = IF given(d) = {} THEN Unset ELSE rules[Keys[Max(given(d))]]
  BY DEF Applied, Bare
<1>3. live = [d \in OnHost |-> live[d]]
  BY DEF Applied
<1>4. ASSUME NEW d \in OnHost, NEW k \in Range(Keys), Target[k] = d PROVE live[d] = rules[k]
  <2>1. \A n \in given(d) : Keys[n] = k
    <3>1. \A n \in DOMAIN Keys : Keys[n] \in Range(Keys)
      BY DEF Range
    <3> QED BY <1>4, <3>1 DEF Plain
  <2>2. CASE given(d) = {}
    <3>1. PICK n \in DOMAIN Keys : Keys[n] = k
      BY DEF Range
    <3>2. rules[k] = Unset
      BY <1>4, <2>2, <3>1
    <3> QED BY <1>2, <2>2, <3>2
  <2>3. CASE given(d) # {}
    <3>1. given(d) \in SUBSET (0 .. Len(Keys))
      BY <1>1
    <3>2. Max(given(d)) \in given(d)
      BY <1>1, <2>3, <3>1, MaxIs
    <3> QED BY <1>2, <2>1, <2>3, <3>2
  <2> QED BY <2>2, <2>3
<1>5. ASSUME NEW d \in OnHost, \A k \in Range(Keys) : Target[k] # d PROVE live[d] = Unset
  <2>1. given(d) = {}
    BY <1>5 DEF Range
  <2> QED BY <1>2, <2>1
<1> QED BY <1>3, <1>4, <1>5 DEF Carries

\* A view that carries the rules and is told one more carries that too.
LEMMA RuleSetCarries ==
  ASSUME Plain, NEW rules, IsRules(rules), NEW live, Carries(live, rules),
         NEW k \in Range(Keys), NEW perm
  PROVE  Carries(RuleSet(live, Target[k], perm), [rules EXCEPT ![k] = perm])
<1>1. /\ [rules EXCEPT ![k] = perm][k] = perm
      /\ \A l \in Range(Keys) \ {k} : [rules EXCEPT ![k] = perm][l] = rules[l]
  BY DEF IsRules
<1>2. CASE Target[k] \in OnHost
  <2>1. RuleSet(live, Target[k], perm) = [live EXCEPT ![Target[k]] = perm]
    BY <1>2 DEF RuleSet
  <2>2. /\ [live EXCEPT ![Target[k]] = perm] = [d \in OnHost |-> [live EXCEPT ![Target[k]] = perm][d]]
        /\ [live EXCEPT ![Target[k]] = perm][Target[k]] = perm
        /\ \A d \in OnHost \ {Target[k]} : [live EXCEPT ![Target[k]] = perm][d] = live[d]
    BY <1>2 DEF Carries
  <2> QED BY <1>1, <2>1, <2>2 DEF Carries, Plain
<1>3. CASE Target[k] \notin OnHost
  <2>1. RuleSet(live, Target[k], perm) = live
    BY <1>3 DEF RuleSet
  <2> QED BY <1>1, <1>3, <2>1 DEF Carries
<1> QED BY <1>2, <1>3

\* Two prefixes of a path that are as long are one.
LEMMA PrefixesEqual ==
  ASSUME NEW s \in Seq(STRING), NEW t \in Seq(STRING), NEW u \in Seq(STRING),
         IsPrefix(s, u), IsPrefix(t, u), Len(s) = Len(t)
  PROVE  s = t
<1>1. SubSeq(s, 1, Len(s)) = s /\ SubSeq(t, 1, Len(t)) = t
  OBVIOUS
<1> QED BY <1>1 DEF IsPrefix

\* On what carries the rules of the file the kernel's walk finds the file's answer.
LEMMA MatchAgrees ==
  ASSUME Plain, NEW rules, IsRules(rules), NEW live, Carries(live, rules), NEW d \in OnHost
  PROVE  Enforced(live, d) = MatchRule(rules, d)
<1> DEFINE ruled == {e \in DOMAIN live : live[e] # Unset /\ IsPrefix(e, d)}
           applies == Applies(rules, d)
           best == {k \in applies : \A l \in applies : Len(Target[l]) <= Len(Target[k])}
<1>1. d \in Seq(STRING) /\ OnHost \subseteq Seq(STRING) /\ DOMAIN live = OnHost
      /\ \A k \in Range(Keys) : Target[k] \in Seq(STRING)
  BY SessionAssumption DEF Carries
<1>2. applies = {k \in Range(Keys) : rules[k] # Unset /\ IsPrefix(Target[k], d)}
  BY DEF Applies, IsRules
<1>3. \A k \in applies : Target[k] \in ruled /\ live[Target[k]] = rules[k]
  BY <1>1, <1>2 DEF Carries, Plain
<1>4. \A e \in ruled : \E k \in applies : Target[k] = e
  BY <1>1, <1>2 DEF Carries
<1>5. \A e \in ruled : e \in Seq(STRING) /\ Len(e) \in 0 .. Len(d)
  BY <1>1 DEF IsPrefix
<1>6. CASE ruled = {}
  BY <1>3, <1>6 DEF Enforced, MatchRule
<1>7. CASE ruled # {}
  <2> DEFINE lengths == {Len(e) : e \in ruled}
  <2>1. lengths \in SUBSET (0 .. Len(d)) /\ Len(d) \in Nat
    BY <1>1, <1>5
  <2>2. lengths # {}
    BY <1>7
  <2>3. PICK n \in lengths : \A m \in lengths : n >= m
    BY <2>1, <2>2, GreatestOf
  <2>4. PICK e \in ruled : Len(e) = n
    OBVIOUS
  <2>5. \A f \in ruled : Len(f) <= Len(e)
    BY <1>5, <2>3, <2>4
  <2>6. \A f \in ruled : (\A g \in ruled : Len(g) <= Len(f)) => f = e
    <3> SUFFICES ASSUME NEW f \in ruled, Len(e) <= Len(f) PROVE f = e
      OBVIOUS
    <3>1. Len(f) = Len(e)
      BY <1>5, <2>5
    <3> QED BY <1>1, <1>5, <3>1, PrefixesEqual
  <2>7. Enforced(live, d) = live[e]
    BY <1>7, <2>5, <2>6 DEF Enforced
  <2>8. PICK k \in applies : Target[k] = e
    BY <1>4
  <2>9. best = {k}
    <3>1. k \in best
      BY <1>3, <2>5, <2>8
    <3>2. ASSUME NEW l \in best PROVE l = k
      <4>1. Target[l] \in ruled /\ Len(Target[k]) <= Len(Target[l])
        BY <1>3
      <4>2. \A g \in ruled : Len(g) <= Len(Target[l])
        BY <1>5, <2>5, <2>8, <4>1
      <4>3. Target[l] = Target[k]
        BY <2>6, <2>8, <4>1, <4>2
      <4> QED BY <1>2, <4>3 DEF Plain
    <3> QED BY <3>1, <3>2
  <2>10. MatchRule(rules, d) = rules[k]
    <3> DEFINE places == {i \in DOMAIN Keys : Keys[i] = k}
    <3>1. Keys \in Seq(STRING) /\ DOMAIN Keys = 1 .. Len(Keys) /\ Len(Keys) \in Nat
      BY SessionAssumption
    <3>2. places \in SUBSET Nat
      BY <3>1
    <3>3. places # {}
      BY <1>2 DEF Range
    <3>4. PICK i \in places : \A j \in places : i <= j
      BY <3>2, <3>3, LeastOf
    <3>5. Keys[i] \in best /\ \A m \in 1 .. i - 1 : Keys[m] \notin best
      BY <2>9, <3>1, <3>4
    <3> DEFINE First(j) == Keys[j] \in best /\ \A m \in 1 .. j - 1 : Keys[m] \notin best
    <3>6. First(CHOOSE j \in DOMAIN Keys : First(j))
      BY <3>4, <3>5
    <3>7. Keys[CHOOSE j \in DOMAIN Keys : First(j)] = k
      BY <2>9, <3>6
    <3> HIDE DEF First
    <3>8. MatchRule(rules, d) = rules[Keys[CHOOSE j \in DOMAIN Keys : First(j)]]
      BY <2>9 DEF MatchRule, First
    <3> QED BY <3>7, <3>8
  <2> QED BY <1>3, <2>7, <2>8, <2>10
<1> QED BY <1>6, <1>7

\* What such a view carries is what is listed of the paths of the host.
LEMMA CarriedAgrees ==
  ASSUME NEW rules, IsRules(rules), NEW live, Carries(live, rules), LoadedRules = rules
  PROVE  Carried(live) = {r \in Listed : r[1] \in OnHost}
<1>1. DOMAIN rules = Range(Keys)
  BY DEF IsRules
<1>2. Listed = {<<Target[k], rules[k]>> : k \in {l \in Range(Keys) : rules[l] # Unset}}
  BY <1>1 DEF Listed
<1>3. ASSUME NEW d \in OnHost, live[d] # Unset PROVE \E k \in Range(Keys) : Target[k] = d /\ rules[k] = live[d]
  BY <1>3 DEF Carries
<1>4. ASSUME NEW k \in Range(Keys), Target[k] \in OnHost PROVE live[Target[k]] = rules[k]
  BY <1>4 DEF Carries
<1>5. Carried(live) \subseteq {r \in Listed : r[1] \in OnHost}
  BY <1>2, <1>3 DEF Carried
<1>6. {r \in Listed : r[1] \in OnHost} \subseteq Carried(live)
  BY <1>2, <1>4 DEF Carried
<1> QED BY <1>5, <1>6

\* The steps of a superblock other than those of the rules keep them.
LEMMA LiveKept ==
  ASSUME SbsOK, NEW s \in Supers, NEW t \in Supers, NEW v, NEW x, NEW y, NEW z,
         \/ sbs' = Replaced(s, v)
         \/ sbs' = [sbs EXCEPT ![s].gen = x, ![s].dirty = y]
         \/ sbs' = [sbs EXCEPT ![s].next = x]
         \/ sbs' = [sbs EXCEPT ![s].next = x, ![s].view = y, ![s].dirty = z]
  PROVE  sbs'[t].live = sbs[t].live
<1>1. sbs[s] = [view |-> sbs[s].view, next |-> sbs[s].next, gen |-> sbs[s].gen,
                dirty |-> sbs[s].dirty, live |-> sbs[s].live]
  BY DEF SbsOK, IsSb
<1>2. CASE t # s
  BY <1>2 DEF SbsOK, Replaced
<1>3. CASE t = s /\ sbs' = Replaced(s, v)
  BY <1>1, <1>3 DEF SbsOK, Replaced
<1>4. CASE t = s /\ sbs' = [sbs EXCEPT ![s].gen = x, ![s].dirty = y]
  BY <1>1, <1>4 DEF SbsOK
<1>5. CASE t = s /\ sbs' = [sbs EXCEPT ![s].next = x]
  BY <1>1, <1>5 DEF SbsOK
<1>6. CASE t = s /\ sbs' = [sbs EXCEPT ![s].next = x, ![s].view = y, ![s].dirty = z]
  BY <1>1, <1>6 DEF SbsOK
<1> QED BY <1>2, <1>3, <1>4, <1>5, <1>6

LEMMA LiveSet ==
  ASSUME SbsOK, NEW s \in Supers, NEW x, sbs' = [sbs EXCEPT ![s].live = x]
  PROVE  sbs'[s].live = x
<1>1. sbs[s] = [view |-> sbs[s].view, next |-> sbs[s].next, gen |-> sbs[s].gen,
                dirty |-> sbs[s].dirty, live |-> sbs[s].live]
  BY DEF SbsOK, IsSb
<1> QED BY <1>1 DEF SbsOK

LEMMA LiveStays ==
  ASSUME TypeInv, NEW p \in Procs, Actor(p), ~DoMount(p), ~ApplyRules(p), ~PushRule(p),
         NEW t \in Supers
  PROVE  sbs'[t].live = sbs[t].live
<1>1. SbsOK /\ (Mounted => Top \in Supers)
  BY TopIsSuper DEF TypeInv
<1>2. CASE Restore(p) \/ LeaveView(p)
  <2>1. sbs' = sbs \/ (Mounted /\ \E v : sbs' = Replaced(Top, v))
    BY <1>2 DEF Restore, LeaveView
  <2> QED BY <1>1, <2>1, LiveKept
<1>3. CASE Snapshot(p)
  <2>1. sbs' = sbs \/ (Mounted /\ \E x : sbs' = [sbs EXCEPT ![Top].gen = x, ![Top].dirty = FALSE])
    BY <1>3 DEF Snapshot
  <2>2. ASSUME Mounted, NEW x, sbs' = [sbs EXCEPT ![Top].gen = x, ![Top].dirty = FALSE]
        PROVE  sbs'[t].live = sbs[t].live
    BY <1>1, <2>2, LiveKept
  <2> QED BY <2>1, <2>2
<1>4. CASE Write(p)
  <2>1. cmd[p] \in Supers
    BY <1>4 DEF Write, TypeInv, ProcsOK, Sound, CmdOK
  <2>2. \/ \E x : sbs' = [sbs EXCEPT ![cmd[p]].next = x]
        \/ \E x, y : sbs' = [sbs EXCEPT ![cmd[p]].next = x, ![cmd[p]].view = y,
                                        ![cmd[p]].dirty = TRUE]
    BY <1>4 DEF Write
  <2>3. ASSUME NEW x, sbs' = [sbs EXCEPT ![cmd[p]].next = x] PROVE sbs'[t].live = sbs[t].live
    BY <1>1, <2>1, <2>3, LiveKept
  <2>4. ASSUME NEW x, NEW y, sbs' = [sbs EXCEPT ![cmd[p]].next = x, ![cmd[p]].view = y,
                                                ![cmd[p]].dirty = TRUE]
        PROVE  sbs'[t].live = sbs[t].live
    BY <1>1, <2>1, <2>4, LiveKept
  <2> QED BY <2>2, <2>3, <2>4
<1>5. CASE MountStep(p) /\ ~Restore(p)
  BY <1>5 DEF MountStep, MountCheck, SetupYoloDir, LoadModule, ReadJournal, ReadRules, kernel
<1>6. CASE UnmountStep(p) \/ ModuleStep(p)
  BY <1>6 DEF UnmountStep, ModuleStep, Umount, Rmdir, InsertModule, Reload, UnmountEach, Sweep,
              DeleteModule, kernel
<1>7. CASE EnterRun(p) \/ Spawn(p) \/ CommandEnds(p) \/ Crash(p) \/ \E job \in Commands : Begin(p, job)
  BY <1>7 DEF EnterRun, Spawn, CommandEnds, Crash, Begin, kernel
<1>8. CASE (ClearStep(p) \/ RuleStep(p)) /\ ~LeaveView(p)
  BY <1>8 DEF ClearStep, RuleStep, ReadStaged, Replay, ClearStore, Truncate, EditRules, WriteRules, kernel
<1> QED BY <1>2, <1>3, <1>4, <1>5, <1>6, <1>7, <1>8 DEF Actor, CliStep, RunStep

-----------------------------------------------------------------------------
(* While a mount applies the rules, or a rule just written is not yet told *)
(* to the view, the view is behind the file; nothing else comes between.   *)

Loading == {"read", "restore", "rules", "apply"}
Needing == {"check", "setup", "load", "domount", "commit", "abort", "leave", "replay", "clear",
            "truncate"} \cup Loading

Ruling(p) == \/ proc[p].pc \in Loading \cup {"push"}
             \/ proc[p].pc = "umount" /\ proc[p].next = "failed"

Carrying == Mounted /\ (\A p \in Procs : ~Ruling(p)) =>
              config.state = "ok" /\ Carries(sbs[Top].live, config.rules)

\* What each step of a mount or of `yolo rule` finds.
FoundBare(q)    == proc[q].pc \in Loading /\ Mounted => sbs[Top].live = Bare
FoundRules(q)   == proc[q].pc = "apply" => config.state = "ok" /\ proc[q].rules = config.rules
FoundEdit(q)    == proc[q].pc = "write" =>
                     \E k \in Range(Keys), perm \in Given \cup {Unset} :
                       /\ proc[q].seen = <<k, perm>> /\ config.state # "bad"
                       /\ proc[q].rules = [config.rules EXCEPT ![k] = perm]
FoundWritten(q) == proc[q].pc = "push" =>
                     \E k \in Range(Keys), perm \in Given \cup {Unset} :
                       /\ proc[q].seen = <<k, perm>>
                       /\ Mounted => /\ config.state = "ok"
                                     /\ Carries(RuleSet(sbs[Top].live, Target[k], perm), config.rules)
Found(q) == FoundBare(q) /\ FoundRules(q) /\ FoundEdit(q) /\ FoundWritten(q)

\* Without a file nothing is mounted and no command but `yolo rule` is on.
ConfigOK == /\ config = [state |-> config.state, rules |-> config.rules]
            /\ config.state \in {"absent", "bad", "ok"} /\ IsRules(config.rules)
Unconfigured == config.state = "absent" =>
                  /\ journal = Nil
                  /\ \A q \in Procs : proc[q].pc \notin Needing /\ proc[q].next \notin Needing

Ruled == Solo /\ ConfigOK /\ Unconfigured /\ Carrying /\ \A q \in Procs : Found(q)

LEMMA ConfigStays ==
  ASSUME NEW p \in Procs, Actor(p), ~WriteRules(p)
  PROVE  config' = config
<1>1. CASE MountStep(p)
  BY <1>1 DEF MountStep, MountCheck, SetupYoloDir, LoadModule, DoMount, ReadJournal, Restore,
              ReadRules, ApplyRules
<1>2. CASE UnmountStep(p) \/ ModuleStep(p)
  BY <1>2 DEF UnmountStep, Umount, Rmdir, ModuleStep, InsertModule, Reload, UnmountEach, Sweep,
              DeleteModule
<1>3. CASE RunStep(p) \/ Write(p) \/ Crash(p) \/ \E job \in Commands : Begin(p, job)
  BY <1>3 DEF RunStep, EnterRun, Spawn, CommandEnds, Snapshot, Write, Crash, Begin
<1>4. CASE ClearStep(p) \/ EditRules(p) \/ PushRule(p)
  BY <1>4 DEF ClearStep, ReadStaged, LeaveView, Replay, ClearStore, Truncate, EditRules, PushRule
<1> QED BY <1>1, <1>2, <1>3, <1>4 DEF Actor, CliStep, RuleStep

\* The file is written as it was read, but for the one rule.
LEMMA WrittenConfig ==
  ASSUME ConfigOK, NEW p \in Procs, FoundEdit(p), WriteRules(p)
  PROVE  \E k \in Range(Keys), perm \in Given \cup {Unset} :
           /\ proc[p].seen = <<k, perm>>
           /\ \/ config' = config /\ config.state = "absent"
              \/ /\ config' = [state |-> "ok", rules |-> proc[p].rules]
                 /\ proc[p].rules = [config.rules EXCEPT ![k] = perm]
                 /\ IsRules(proc[p].rules)
<1>1. PICK k \in Range(Keys), perm \in Given \cup {Unset} :
        /\ proc[p].seen = <<k, perm>>
        /\ proc[p].rules = [config.rules EXCEPT ![k] = perm]
  BY DEF WriteRules, FoundEdit
<1>2. IsRules(proc[p].rules)
  BY <1>1 DEF ConfigOK, IsRules
<1>3. \/ config' = config /\ config.state = "absent"
      \/ config' = [state |-> "ok", rules |-> proc[p].rules]
  BY DEF WriteRules
<1> QED BY <1>1, <1>2, <1>3

LEMMA ConfigStep ==
  ASSUME ConfigOK, NEW p \in Procs, FoundEdit(p), Actor(p)
  PROVE  ConfigOK' /\ (config'.state = "absent" => config.state = "absent")
<1>1. CASE ~WriteRules(p)
  BY <1>1, ConfigStays DEF ConfigOK
<1>2. CASE WriteRules(p)
  <2>1. CASE config' = config
    BY <2>1 DEF ConfigOK
  <2>2. CASE config' = [state |-> "ok", rules |-> proc[p].rules] /\ IsRules(proc[p].rules)
    <3>1. config'.state = "ok" /\ config'.rules = proc[p].rules
      BY <2>2
    <3>2. IsRules(config.rules)'
      BY <2>2, <3>1 DEF IsRules
    <3> QED BY <2>2, <3>1, <3>2 DEF ConfigOK
  <2> QED BY <1>2, <2>1, <2>2, WrittenConfig
<1> QED BY <1>1, <1>2

LEMMA UnconfiguredStep ==
  ASSUME TypeInv, Unconfigured, "noconfig" \notin Env, NEW p \in Procs, Actor(p),
         config'.state = "absent" => config.state = "absent"
  PROVE  Unconfigured'
<1> SUFFICES ASSUME config.state = "absent", config'.state = "absent"
             PROVE  /\ journal' = Nil
                    /\ \A q \in Procs : proc'[q].pc \notin Needing /\ proc'[q].next \notin Needing
  BY DEF Unconfigured
<1>1. /\ ProcShape /\ journal = Nil /\ ~Mounted
      /\ \A q \in Procs : proc[q].pc \notin Needing /\ proc[q].next \notin Needing
  BY DEF TypeInv, ProcsOK, MountOK, Mounted, Unconfigured
<1>2. \A q \in Procs \ {p} : proc'[q] = proc[q]
  BY <1>1, OneMoves
<1>3. ASSUME NEW l, Goto(p, l), l \notin Needing
      PROVE  proc'[p].pc \notin Needing /\ proc'[p].next \notin Needing
  <2>1. proc'[p].pc = l /\ proc'[p].next \in {"idle", proc[p].next}
    BY <1>1, <1>3, GotoMoves DEF Moves
  <2> QED BY <1>1, <1>3, <2>1 DEF Needing, Loading
<1>4. ~MountStep(p)
  BY <1>1 DEF MountStep, MountCheck, SetupYoloDir, LoadModule, DoMount, ReadJournal, Restore,
              ReadRules, ApplyRules, Needing, Loading
<1>5. ~ClearStep(p)
  BY <1>1 DEF ClearStep, ReadStaged, LeaveView, Replay, ClearStore, Truncate, Needing, Loading
<1>6. CASE UnmountStep(p) \/ ModuleStep(p)
  <2>1. journal' = journal
    BY <1>6 DEF UnmountStep, ModuleStep, Umount, Rmdir, InsertModule, Reload, UnmountEach, Sweep,
                DeleteModule, artifact
  <2>2. proc' = proc \/ \E l \in {"rmdir", "idle", "each", "insert", "sweep", "delete", proc[p].next} :
                          Goto(p, l)
    <3>1. proc[p].next # "check"
      BY <1>1 DEF Needing
    <3> QED BY <1>6, <3>1 DEF UnmountStep, ModuleStep, Umount, Rmdir, InsertModule, Reload,
                              UnmountEach, Sweep, DeleteModule
  <2>3. \A l \in {"rmdir", "idle", "each", "insert", "sweep", "delete", proc[p].next} : l \notin Needing
    BY <1>1 DEF Needing, Loading
  <2> QED BY <1>1, <1>2, <1>3, <2>1, <2>2, <2>3
<1>7. CASE RunStep(p) \/ Write(p) \/ Crash(p)
  <2>1. proc[p].pc # "running"
    BY <1>1 DEF TypeInv, ProcsOK, Sound, Needy
  <2>2. journal' = journal /\ \E l \in {"spawn", "idle"} : Goto(p, l)
    BY <1>1, <1>7, <2>1 DEF RunStep, Write, EnterRun, Spawn, CommandEnds, Snapshot, Crash, artifact
  <2> QED BY <1>1, <1>2, <1>3, <2>2 DEF Needing, Loading
<1>8. CASE RuleStep(p)
  <2>1. journal' = journal
    BY <1>8 DEF RuleStep, EditRules, WriteRules, PushRule, artifact
  <2>2. CASE \E l \in {"idle", "push"} : Goto(p, l)
    BY <1>1, <1>2, <1>3, <2>1, <2>2 DEF Needing, Loading
  <2>3. CASE \E s, r : proc' = [proc EXCEPT ![p].pc = "write", ![p].seen = s, ![p].rules = r]
    <3>1. PICK s, r : proc' = [proc EXCEPT ![p].pc = "write", ![p].seen = s, ![p].rules = r]
      BY <2>3
    <3>2. proc'[p].pc = "write" /\ proc'[p].next = proc[p].next
      BY <1>1, <3>1, OtherMoves DEF Moves
    <3>3. proc'[p].pc \notin Needing /\ proc'[p].next \notin Needing
      BY <1>1, <3>2 DEF Needing, Loading
    <3> QED BY <1>1, <1>2, <2>1, <3>3
  <2>4. \/ \E l \in {"idle", "push"} : Goto(p, l)
        \/ \E s, r : proc' = [proc EXCEPT ![p].pc = "write", ![p].seen = s, ![p].rules = r]
    <3>1. CASE EditRules(p)
      <4>1. CASE Goto(p, "idle")
        BY <4>1
      <4>2. CASE ~Goto(p, "idle")
        <5>1. \E k \in Range(Keys), perm \in Given \cup {Unset} :
                proc' = [proc EXCEPT ![p].pc = "write", ![p].seen = <<k, perm>>,
                                     ![p].rules = [config.rules EXCEPT ![k] = perm]]
          BY <3>1, <4>2 DEF EditRules
        <5> QED BY <5>1
      <4> QED BY <4>1, <4>2
    <3>2. CASE WriteRules(p) \/ PushRule(p)
      BY <3>2 DEF WriteRules, PushRule
    <3> QED BY <1>8, <3>1, <3>2 DEF RuleStep
  <2> QED BY <2>2, <2>3, <2>4
<1>9. ASSUME NEW job \in Commands, Begin(p, job)
      PROVE  /\ journal' = Nil
             /\ \A q \in Procs : proc'[q].pc \notin Needing /\ proc'[q].next \notin Needing
  <2>1. job \notin NeedsArtifact \cup {"mount"} /\ journal' = journal
    BY <1>1, <1>9 DEF Begin, artifact
  <2>2. Entry[job] \notin Needing /\ Then(job) \notin Needing
    BY <2>1 DEF NeedsArtifact, Commands, Entry, Then, Needing, Loading
  <2>3. proc'[p].pc = Entry[job] /\ proc'[p].next = Then(job)
    <3>1. PICK l, n : /\ l = Entry[job] /\ n = Then(job)
                      /\ proc' = [proc EXCEPT ![p].pc = l, ![p].next = n]
      BY <1>9 DEF Begin
    <3>2. proc[p] = [pc |-> proc[p].pc, next |-> proc[p].next, seen |-> proc[p].seen,
                     rules |-> proc[p].rules]
      BY <1>1 DEF ProcShape, IsProc
    <3> QED BY <1>1, <3>1, <3>2 DEF ProcShape
  <2> QED BY <1>1, <1>2, <2>1, <2>2, <2>3
<1> QED BY <1>4, <1>5, <1>6, <1>7, <1>8, <1>9 DEF Actor, CliStep

\* A step that is none of a management command leaves the mounts and the file alone.
LEMMA UnmanagedStays ==
  ASSUME NEW p \in Procs, Actor(p), ~Manages(p)
  PROVE  /\ stack' = stack /\ config' = config
         /\ ~DoMount(p) /\ ~ApplyRules(p) /\ ~PushRule(p)
<1>1. ~MountStep(p) /\ ~UnmountStep(p) /\ ~ModuleStep(p)
  BY DEF MountStep, MountCheck, SetupYoloDir, LoadModule, DoMount, ReadJournal, Restore, ReadRules,
         ApplyRules, UnmountStep, Umount, Rmdir, ModuleStep, InsertModule, Reload, UnmountEach,
         Sweep, DeleteModule, Manages, Managing
<1>2. ~ClearStep(p) /\ ~RuleStep(p) /\ ~Crash(p)
  BY DEF ClearStep, ReadStaged, LeaveView, Replay, ClearStore, Truncate, RuleStep, EditRules,
         WriteRules, PushRule, Crash, Manages, Managing
<1>3. stack' = stack
  BY <1>1, <1>2 DEF Actor, CliStep, RunStep, EnterRun, Spawn, CommandEnds, Snapshot, Write, Begin,
                    kernel
<1> QED BY <1>1, <1>2, <1>3, ConfigStays DEF MountStep, RuleStep

LEMMA FoundOthers ==
  ASSUME Solo, NEW p \in Procs, Actor(p), NEW q \in Procs \ {p}, Found(q)
  PROVE  Found(q)'
<1>1. TypeInv /\ proc'[q] = proc[q]
  BY OneMoves DEF Solo, TypeInv, ProcsOK
<1>2. CASE Manages(p)
  <2>1. proc'[q].pc \notin Loading \cup {"write", "push"}
    BY <1>1, <1>2 DEF Solo, OneManager, Manages, Managing, Loading
  <2> QED BY <2>1 DEF Found, FoundBare, FoundRules, FoundEdit, FoundWritten, Loading
<1>3. CASE ~Manages(p)
  <2>1. stack' = stack /\ config' = config
    BY <1>3, UnmanagedStays
  <2>2. Mounted' = Mounted /\ Top' = Top /\ (Mounted => sbs'[Top].live = sbs[Top].live)
    BY <1>1, <1>3, <2>1, UnmanagedStays, LiveStays, TopIsSuper DEF TypeInv, Mounted, Top
  <2>3. FoundBare(q)' /\ FoundRules(q)'
    BY <1>1, <2>1, <2>2 DEF Found, FoundBare, FoundRules
  <2>4. FoundEdit(q)'
    BY <1>1, <2>1 DEF Found, FoundEdit
  <2>5. FoundWritten(q)'
    BY <1>1, <2>1, <2>2 DEF Found, FoundWritten
  <2> QED BY <2>3, <2>4, <2>5 DEF Found
<1> QED BY <1>2, <1>3

\* Who is not at one of the steps that find something.
LEMMA FoundElsewhere ==
  ASSUME NEW p, proc'[p].pc \notin Loading \cup {"write", "push"}
  PROVE  Found(p)'
BY DEF Found, FoundBare, FoundRules, FoundEdit, FoundWritten, Loading

\* What carried the rules still does.
LEMMA CarryingFrame ==
  ASSUME TypeInv, Carrying, NEW p \in Procs, Actor(p), stack' = stack, ~Ruling(p),
         \/ sbs' = sbs /\ config' = config
         \/ ~DoMount(p) /\ ~ApplyRules(p) /\ ~PushRule(p) /\ ~WriteRules(p)
  PROVE  Carrying'
<1>1. config' = config /\ \A q \in Procs \ {p} : proc'[q] = proc[q]
  BY ConfigStays, OneMoves DEF TypeInv, ProcsOK
<1>2. Mounted' = Mounted /\ Top' = Top /\ (Mounted => sbs'[Top].live = sbs[Top].live)
  BY LiveStays, TopIsSuper DEF TypeInv, Mounted, Top
<1>3. (\A q \in Procs : ~Ruling(q)') => \A q \in Procs : ~Ruling(q)
  BY <1>1 DEF Ruling
<1> QED BY <1>1, <1>2, <1>3 DEF Carrying

LEMMA NothingCarried ==
  ASSUME (~Mounted)' \/ \E p \in Procs : Ruling(p)'
  PROVE  Carrying'
BY DEF Carrying

LEMMA RuledUnmount ==
  ASSUME Ruled, {"race", "pinned"} \cap Env = {}, NEW p \in Procs,
         UnmountStep(p) \/ ModuleStep(p)
  PROVE  Carrying' /\ Found(p)'
<1>1. /\ ProcShape /\ TypeInv /\ OneManager /\ Standing /\ Carrying /\ Manages(p)
      /\ \A q \in Procs \ {p} : proc'[q] = proc[q]
  BY OneMoves DEF Ruled, Solo, TypeInv, ProcsOK, Actor, CliStep, UnmountStep, ModuleStep, Umount,
     Rmdir, InsertModule, Reload, UnmountEach, Sweep, DeleteModule, Manages, Managing
<1>2. Found(p)'
  <2>1. proc'[p].pc \in {"rmdir", "idle", "check", "each", "insert", "sweep", "delete", proc[p].next}
    BY <1>1, UnmountSteps DEF UnmountStep, ModuleStep, Step
  <2>2. proc[p].next \notin Loading \cup {"write", "push"}
    BY <1>1 DEF TypeInv, ProcsOK, Sound, NextLabels, Loading
  <2> QED BY <2>1, <2>2, FoundElsewhere DEF Loading
<1>3. CASE Mounted /\ PopTop /\ cmd' = cmd
  BY <1>1, <1>2, <1>3, StandingPop, NothingCarried
<1>4. CASE ~Mounted /\ stack' = stack
  BY <1>2, <1>4, NothingCarried DEF Mounted
<1>5. CASE stack' = stack /\ ~Ruling(p)
  <2>1. /\ ~DoMount(p) /\ ~ApplyRules(p) /\ ~PushRule(p) /\ ~WriteRules(p)
    BY DEF DoMount, ApplyRules, PushRule, WriteRules, UnmountStep, ModuleStep, Umount, Rmdir,
           InsertModule, Reload, UnmountEach, Sweep, DeleteModule
  <2> QED BY <1>1, <1>2, <1>5, <2>1, CarryingFrame DEF Actor, CliStep
<1>6. \/ Mounted /\ PopTop /\ cmd' = cmd
      \/ ~Mounted /\ stack' = stack
      \/ stack' = stack /\ ~Ruling(p)
  <2>1. CASE Umount(p)
    BY <2>1 DEF Umount, Ruling, Loading
  <2>2. CASE UnmountEach(p)
    BY <2>2 DEF UnmountEach, Ruling, Loading
  <2>3. CASE Rmdir(p)
    BY <2>3 DEF Rmdir, kernel
  <2>4. CASE InsertModule(p) \/ Reload(p) \/ Sweep(p) \/ DeleteModule(p)
    BY <2>4 DEF InsertModule, Reload, Sweep, DeleteModule, Ruling, Loading, kernel
  <2> QED BY <2>1, <2>2, <2>3, <2>4 DEF UnmountStep, ModuleStep
<1> QED BY <1>2, <1>3, <1>4, <1>5, <1>6

LEMMA RuledRun ==
  ASSUME Ruled, "crash" \notin Env, NEW p \in Procs,
         \/ RunStep(p) \/ Write(p) \/ Crash(p) \/ ClearStep(p)
         \/ \E job \in Commands : Begin(p, job)
  PROVE  Carrying' /\ Found(p)'
<1>1. ProcShape /\ TypeInv /\ Carrying /\ Actor(p)
  BY DEF Ruled, Solo, TypeInv, ProcsOK, Actor, CliStep
<1>2. Found(p)'
  <2>1. proc'[p].pc \in {"spawn", "idle", "check", "running", "autosnap", "leave", "clear", "truncate",
                         proc[p].next} \cup {Entry[job] : job \in Commands}
    BY <1>1, RunSteps, ClearSteps DEF RunStep, ClearStep, Step
  <2>2. proc[p].next \notin Loading \cup {"write", "push"}
    BY <1>1 DEF TypeInv, ProcsOK, Sound, NextLabels, Loading
  <2>3. \A job \in Commands : Entry[job] \notin Loading \cup {"write", "push"}
    BY DEF Commands, Entry, Loading
  <2> QED BY <2>1, <2>2, <2>3, FoundElsewhere DEF Loading
<1>3. stack' = stack /\ ~Ruling(p)
  <2>1. CASE RunStep(p) \/ Write(p) \/ Crash(p)
    BY <2>1 DEF RunStep, EnterRun, Spawn, CommandEnds, Snapshot, Write, Crash, HalfDone, Ruling,
                Loading, kernel
  <2>2. CASE ClearStep(p)
    BY <2>2 DEF ClearStep, ReadStaged, LeaveView, Replay, ClearStore, Truncate, Ruling, Loading, kernel
  <2>3. CASE \E job \in Commands : Begin(p, job)
    BY <2>3 DEF Begin, Ruling, Loading, kernel
  <2> QED BY <2>1, <2>2, <2>3
<1>4. \/ sbs' = sbs /\ config' = config
      \/ ~DoMount(p) /\ ~ApplyRules(p) /\ ~PushRule(p) /\ ~WriteRules(p)
  <2>1. CASE Crash(p)
    BY <2>1 DEF Crash, kernel
  <2>2. CASE ~Crash(p)
    <3>1. proc[p].pc \notin {"domount", "apply", "push", "write"}
      BY <2>2 DEF RunStep, EnterRun, Spawn, CommandEnds, Snapshot, Write, ClearStep, ReadStaged,
                  LeaveView, Replay, ClearStore, Truncate, Begin
    <3> QED BY <3>1 DEF DoMount, ApplyRules, PushRule, WriteRules
  <2> QED BY <2>1, <2>2
<1> QED BY <1>1, <1>2, <1>3, <1>4, CarryingFrame

\* A mount takes the view it makes from no rules at all to those of the file.
LEMMA RuledMount ==
  ASSUME Plain, Ruled, "race" \notin Env, NEW p \in Procs, MountStep(p)
  PROVE  Carrying' /\ Found(p)'
<1>1. /\ ProcShape /\ TypeInv /\ Standing /\ Carrying /\ Actor(p)
      /\ FoundBare(p) /\ FoundRules(p) /\ proc[p].next \in NextLabels
  BY DEF Ruled, Solo, Found, TypeInv, ProcsOK, Sound, Actor, CliStep
<1>2. proc[p] = [pc |-> proc[p].pc, next |-> proc[p].next, seen |-> proc[p].seen,
                 rules |-> proc[p].rules]
  BY <1>1 DEF ProcShape, IsProc
<1>3. CASE MountCheck(p) \/ SetupYoloDir(p) \/ LoadModule(p)
  <2>1. proc'[p].pc \in {"setup", "load", "domount", "idle", proc[p].next}
    BY <1>1, <1>3, MountSteps DEF Step
  <2>2. Found(p)'
    BY <1>1, <2>1, FoundElsewhere DEF NextLabels, Loading
  <2>3. /\ stack' = stack /\ sbs' = sbs /\ config' = config /\ ~Ruling(p)
    BY <1>3 DEF MountCheck, SetupYoloDir, LoadModule, kernel, Ruling, Loading
  <2> QED BY <1>1, <2>2, <2>3, CarryingFrame
<1>4. CASE DoMount(p)
  <2>1. proc[p].pc = "domount" /\ ~Mounted
    BY <1>1, <1>4 DEF DoMount, Standing, Outside
  <2>2. CASE Goto(p, "idle") /\ UNCHANGED <<stack, sbs>>
    <3>1. proc'[p].pc = "idle"
      BY <1>1, <2>2, GotoSteps DEF Step
    <3> QED BY <2>1, <2>2, <3>1, FoundElsewhere, NothingCarried DEF Loading, Mounted
  <2>3. ASSUME NEW s \in Free, stack' = Append(stack, s), sbs' = [sbs EXCEPT ![s] = Fresh],
               Goto(p, IF proc[p].seen = Nil THEN "rules" ELSE "read")
        PROVE  Carrying' /\ Found(p)'
    <3>1. proc'[p].pc \in {"rules", "read"}
      BY <1>1, <2>3, GotoSteps DEF Step
    <3>2. s \in Supers /\ stack = << >>
      BY <2>1 DEF Free, Mounted
    <3>3. Top' = s
      BY <2>3, <3>2 DEF Top, Last
    <3>4. sbs'[s].live = Bare
      BY <1>1, <2>3, <3>2 DEF TypeInv, SbsOK, Fresh, Bare
    <3>5. FoundBare(p)'
      BY <3>3, <3>4 DEF FoundBare
    <3>6. Found(p)'
      BY <3>1, <3>5 DEF Found, FoundRules, FoundEdit, FoundWritten
    <3> QED BY <3>1, <3>6, NothingCarried DEF Ruling, Loading
  <2> QED BY <1>4, <2>2, <2>3 DEF DoMount
<1>5. CASE ReadJournal(p) \/ Restore(p) \/ ReadRules(p)
  <2>1. /\ stack' = stack /\ config' = config /\ proc[p].pc \in Loading
        /\ ~DoMount(p) /\ ~ApplyRules(p) /\ ~PushRule(p)
    BY <1>5 DEF ReadJournal, Restore, ReadRules, DoMount, ApplyRules, PushRule, kernel, Loading
  <2>2. Mounted' = Mounted /\ Top' = Top /\ (Mounted => sbs'[Top].live = Bare)
    BY <1>1, <2>1, LiveStays, TopIsSuper DEF TypeInv, Mounted, Top, FoundBare
  <2>3. FoundBare(p)'
    BY <2>2 DEF FoundBare
  <2>4. CASE proc'[p].pc \in {"restore", "rules"}
    <3>1. Found(p)'
      BY <2>3, <2>4 DEF Found, FoundRules, FoundEdit, FoundWritten
    <3> QED BY <2>4, <3>1, NothingCarried DEF Ruling, Loading
  <2>5. CASE RollBack(p)
    <3>1. proc' = [proc EXCEPT ![p].pc = "umount", ![p].next = "failed"]
      BY <2>5 DEF RollBack
    <3>2. proc'[p].pc = "umount" /\ proc'[p].next = "failed"
      BY <1>1, <1>2, <3>1 DEF ProcShape
    <3> QED BY <3>2, FoundElsewhere, NothingCarried DEF Ruling, Loading
  <2>6. CASE /\ config.state = "ok"
             /\ proc' = [proc EXCEPT ![p].pc = "apply", ![p].rules = config.rules]
    <3>1. proc'[p].pc = "apply" /\ proc'[p].rules = config.rules
      BY <1>1, <1>2, <2>6 DEF ProcShape
    <3>2. Found(p)'
      BY <2>1, <2>3, <2>6, <3>1 DEF Found, FoundRules, FoundEdit, FoundWritten
    <3> QED BY <3>1, <3>2, NothingCarried DEF Ruling, Loading
  <2>7. CASE ReadRules(p)
    <3>1. config.state # "absent"
      BY <2>7 DEF ReadRules, Ruled, Unconfigured, Needing, Loading
    <3>2. config.state \in {"bad", "ok"}
      BY <3>1 DEF Ruled, ConfigOK
    <3> QED BY <2>5, <2>6, <2>7, <3>2 DEF ReadRules
  <2>8. CASE ReadJournal(p) \/ Restore(p)
    <3>1. proc'[p].pc = "restore" \/ proc'[p].pc = "rules" \/ RollBack(p)
      BY <1>1, <2>8, MountSteps, GotoSteps DEF Restore, Step
    <3> QED BY <2>4, <2>5, <3>1
  <2> QED BY <1>5, <2>7, <2>8
<1>6. CASE ApplyRules(p)
  <2>1. /\ proc[p].pc = "apply" /\ stack' = stack /\ config' = config
        /\ proc'[p].pc = proc[p].next
    BY <1>1, <1>6, MountSteps DEF ApplyRules, Step
  <2>2. Found(p)'
    BY <1>1, <2>1, FoundElsewhere DEF NextLabels, Loading
  <2>3. CASE ~Mounted
    BY <2>1, <2>2, <2>3, NothingCarried DEF Mounted
  <2>4. CASE Mounted
    <3>1. /\ sbs' = [sbs EXCEPT ![Top].live = Applied(sbs[Top].live, proc[p].rules)]
          /\ sbs[Top].live = Bare /\ config.state = "ok" /\ proc[p].rules = config.rules
      BY <1>1, <1>6, <2>1, <2>4 DEF ApplyRules, FoundBare, FoundRules, Loading
    <3>2. PICK x : x = Applied(Bare, config.rules) /\ sbs' = [sbs EXCEPT ![Top].live = x]
      BY <3>1
    <3>3. Carries(x, config.rules)
      BY <3>2, AppliedCarries
    <3>4. sbs'[Top].live = x
      BY <1>1, <2>4, <3>2, TopIsSuper, LiveSet DEF TypeInv
    <3>5. Top' = Top
      BY <2>1 DEF Top
    <3> QED BY <2>1, <2>2, <3>1, <3>3, <3>4, <3>5 DEF Carrying
  <2> QED BY <2>3, <2>4
<1> QED BY <1>3, <1>4, <1>5, <1>6 DEF MountStep

\* A rule is put in the file and then told to the view.
LEMMA RuledRule ==
  ASSUME Plain, Ruled, NEW p \in Procs, RuleStep(p)
  PROVE  Carrying' /\ Found(p)'
<1>1. /\ ProcShape /\ TypeInv /\ OneManager /\ ConfigOK /\ Carrying /\ Actor(p)
      /\ FoundEdit(p) /\ FoundWritten(p) /\ UNCHANGED stack
  BY DEF Ruled, Solo, Found, TypeInv, ProcsOK, Actor, CliStep, RuleStep, EditRules, WriteRules,
         PushRule, kernel
<1>2. proc[p] = [pc |-> proc[p].pc, next |-> proc[p].next, seen |-> proc[p].seen,
                 rules |-> proc[p].rules]
  BY <1>1 DEF ProcShape, IsProc
<1>3. CASE EditRules(p)
  <2>1. sbs' = sbs /\ config' = config /\ ~Ruling(p)
    BY <1>3 DEF EditRules, kernel, Ruling, Loading
  <2>2. Carrying'
    BY <1>1, <2>1, CarryingFrame
  <2>3. CASE Goto(p, "idle")
    <3>1. proc'[p].pc = "idle"
      BY <1>1, <2>3, GotoSteps DEF Step
    <3> QED BY <2>2, <3>1, FoundElsewhere DEF Loading
  <2>4. CASE ~Goto(p, "idle")
    <3>1. config.state # "bad"
          /\ \E k \in Range(Keys), perm \in Given \cup {Unset} :
               proc' = [proc EXCEPT ![p].pc = "write", ![p].seen = <<k, perm>>,
                                    ![p].rules = [config.rules EXCEPT ![k] = perm]]
      BY <1>3, <2>4 DEF EditRules
    <3>2. PICK k \in Range(Keys), perm \in Given \cup {Unset} :
            \E s, r : /\ s = <<k, perm>> /\ r = [config.rules EXCEPT ![k] = perm]
                      /\ proc' = [proc EXCEPT ![p].pc = "write", ![p].seen = s, ![p].rules = r]
      BY <3>1
    <3>3. PICK s, r : /\ s = <<k, perm>> /\ r = [config.rules EXCEPT ![k] = perm]
                      /\ proc' = [proc EXCEPT ![p].pc = "write", ![p].seen = s, ![p].rules = r]
      BY <3>2
    <3>4. proc'[p].pc = "write" /\ proc'[p].seen = s /\ proc'[p].rules = r
      BY <1>1, <1>2, <3>3 DEF ProcShape
    <3>5. /\ proc'[p].seen = <<k, perm>> /\ config'.state # "bad"
          /\ proc'[p].rules = [config'.rules EXCEPT ![k] = perm]
      BY <2>1, <3>1, <3>3, <3>4
    <3>6. FoundEdit(p)'
      BY <3>5 DEF FoundEdit
    <3> QED BY <2>2, <3>4, <3>6 DEF Found, FoundBare, FoundRules, FoundWritten, Loading
  <2> QED BY <2>3, <2>4
<1>4. CASE WriteRules(p)
  <2>1. proc[p].pc = "write" /\ sbs' = sbs /\ proc'[p].pc = "push" /\ proc'[p].seen = proc[p].seen
    BY <1>1, <1>4, ClearSteps, GotoMoves DEF WriteRules, kernel, Step
  <2>2. Carrying'
    BY <2>1, NothingCarried DEF Ruling
  <2>3. Mounted' = Mounted /\ Top' = Top
    BY <1>1 DEF Mounted, Top
  <2>4. PICK k \in Range(Keys), perm \in Given \cup {Unset} :
          /\ proc[p].seen = <<k, perm>>
          /\ \/ config' = config /\ config.state = "absent"
             \/ /\ config' = [state |-> "ok", rules |-> proc[p].rules]
                /\ proc[p].rules = [config.rules EXCEPT ![k] = perm]
                /\ IsRules(proc[p].rules)
    BY <1>1, <1>4, WrittenConfig
  <2>5. ASSUME Mounted
        PROVE  /\ config'.state = "ok"
               /\ Carries(RuleSet(sbs[Top].live, Target[k], perm), config'.rules)
    <3>1. \A q \in Procs : ~Ruling(q)
      BY <1>1, <2>1 DEF OneManager, Manages, Managing, Ruling, Loading
    <3>2. Carries(sbs[Top].live, config.rules)
      BY <1>1, <2>5, <3>1 DEF Carrying
    <3>3. config.state # "absent"
      BY <1>1, <2>5 DEF Ruled, Unconfigured, TypeInv, MountOK, Mounted
    <3>4. config'.state = "ok" /\ config'.rules = [config.rules EXCEPT ![k] = perm]
      BY <2>4, <3>3
    <3> QED BY <1>1, <3>2, <3>4, RuleSetCarries DEF ConfigOK
  <2>6. FoundWritten(p)'
    BY <2>1, <2>3, <2>4, <2>5 DEF FoundWritten
  <2> QED BY <2>1, <2>2, <2>6 DEF Found, FoundBare, FoundRules, FoundEdit, Loading
<1>5. CASE PushRule(p)
  <2>1. proc[p].pc = "push" /\ config' = config /\ proc'[p].pc = "idle"
    BY <1>1, <1>5, ClearSteps DEF PushRule, Step
  <2>2. Found(p)'
    BY <2>1, FoundElsewhere DEF Loading
  <2>3. CASE ~Mounted
    BY <1>1, <2>2, <2>3, NothingCarried DEF Mounted
  <2>4. CASE Mounted
    <3>1. PICK k \in Range(Keys), perm \in Given \cup {Unset} :
            /\ proc[p].seen = <<k, perm>> /\ config.state = "ok"
            /\ Carries(RuleSet(sbs[Top].live, Target[k], perm), config.rules)
      BY <1>1, <2>1, <2>4 DEF FoundWritten
    <3>2. PICK x : /\ x = RuleSet(sbs[Top].live, Target[k], perm)
                   /\ sbs' = [sbs EXCEPT ![Top].live = x]
      <4>1. PICK l, q : /\ l = proc[p].seen[1] /\ q = proc[p].seen[2]
                        /\ sbs' = [sbs EXCEPT ![Top].live = RuleSet(sbs[Top].live, Target[l], q)]
        BY <1>5, <2>4 DEF PushRule
      <4>2. l = k /\ q = perm
        BY <3>1, <4>1
      <4> QED BY <4>1, <4>2
    <3>3. sbs'[Top].live = x
      BY <1>1, <2>4, <3>2, TopIsSuper, LiveSet DEF TypeInv
    <3>4. Top' = Top
      BY <1>1 DEF Top
    <3> QED BY <2>1, <2>2, <3>1, <3>2, <3>3, <3>4 DEF Carrying
  <2> QED BY <2>3, <2>4
<1> QED BY <1>3, <1>4, <1>5 DEF RuleStep

LEMMA RuledInit == Init => Ruled
<1> SUFFICES ASSUME Init PROVE Ruled
  OBVIOUS
<1>1. config.state \in {"absent", "ok"} /\ config.rules = Template
      /\ config = [state |-> config.state, rules |-> config.rules]
  BY DEF Init
<1>2. IsRules(config.rules)
  BY <1>1, SessionAssumption DEF IsRules
<1>3. \A q \in Procs : proc[q].pc = "idle" /\ proc[q].next = "idle"
  BY DEF Init, Resting
<1>4. Carrying /\ \A q \in Procs : Found(q)
  BY <1>3 DEF Init, Carrying, Mounted, Found, FoundBare, FoundRules, FoundEdit, FoundWritten, Loading
<1>5. Unconfigured
  BY <1>3 DEF Init, Unconfigured, Needing, Loading
<1> QED BY <1>1, <1>2, <1>4, <1>5, SoloInit DEF Ruled, ConfigOK

LEMMA RuledNext ==
  ASSUME Plain, {"race", "pinned", "crash", "noconfig"} \cap Env = {}
  PROVE  Ruled /\ [Next]_vars => Ruled'
<1> SUFFICES ASSUME Ruled, [Next]_vars PROVE Ruled'
  OBVIOUS
<1>1. Solo'
  BY SoloNext DEF Ruled
<1>2. ASSUME NEW p \in Procs, Actor(p) PROVE Ruled'
  <2>1. ConfigOK' /\ (config'.state = "absent" => config.state = "absent")
    BY <1>2, ConfigStep DEF Ruled, Found
  <2>2. Unconfigured'
    BY <1>2, <2>1, UnconfiguredStep DEF Ruled, Solo
  <2>3. Carrying' /\ Found(p)'
    BY <1>2, RuledMount, RuledUnmount, RuledRun, RuledRule DEF Actor, CliStep
  <2>4. \A q \in Procs \ {p} : Found(q)'
    BY <1>2, FoundOthers DEF Ruled
  <2> QED BY <1>1, <2>1, <2>2, <2>3, <2>4 DEF Ruled
<1>3. CASE EditConfig
  <2>1. /\ ~Mounted /\ UNCHANGED <<journal, stack, proc>>
        /\ \A q \in Procs : ~Manages(q)
        /\ config' = [config EXCEPT !.state = IF config.state = "ok" THEN "bad" ELSE "ok"]
    BY <1>3 DEF EditConfig, artifact, kernel
  <2>2. /\ config' = [state |-> config'.state, rules |-> config'.rules]
        /\ config'.state \in {"bad", "ok"} /\ config'.rules = config.rules
    BY <2>1 DEF Ruled, ConfigOK
  <2>3. ConfigOK' /\ Unconfigured'
    BY <2>2 DEF Ruled, ConfigOK, Unconfigured, IsRules
  <2>4. Carrying'
    BY <2>1, NothingCarried DEF Mounted
  <2>5. \A q \in Procs : Found(q)'
    BY <2>1, FoundElsewhere DEF Manages, Managing, Loading
  <2> QED BY <1>1, <2>3, <2>4, <2>5 DEF Ruled
<1>4. CASE UNCHANGED <<artifact, config, sbs, stack, proc>>
  <2>1. UNCHANGED <<journal, Mounted, Top>>
    BY <1>4 DEF artifact, Mounted, Top
  <2>2. \A q \in Procs : Found(q)'
    <3> TAKE q \in Procs
    <3>1. FoundBare(q)' /\ FoundRules(q)'
      BY <1>4, <2>1 DEF Ruled, Found, FoundBare, FoundRules
    <3>2. FoundEdit(q)'
      <4>1. FoundEdit(q) /\ proc' = proc /\ config' = config
        BY <1>4 DEF Ruled, Found
      <4> QED BY <4>1 DEF FoundEdit
    <3>3. FoundWritten(q)'
      BY <1>4, <2>1 DEF Ruled, Found, FoundWritten
    <3> QED BY <3>1, <3>2, <3>3 DEF Found
  <2>3. Carrying'
    BY <1>4, <2>1 DEF Ruled, Carrying, Ruling
  <2>4. ConfigOK' /\ Unconfigured'
    BY <1>4, <2>1 DEF Ruled, ConfigOK, Unconfigured, IsRules
  <2> QED BY <1>1, <2>2, <2>3, <2>4 DEF Ruled
<1> QED BY <1>2, <1>3, <1>4 DEF Next, Actor, Teardown, vars, kernel, artifact

\* While no two rules mean one path, what lies above a path of the host is there too,
\* every mount finds a yolofs.toml, management commands come one at a time and none is
\* killed half done, and nothing is unmounted under a running command, the kernel
\* enforces what the file says, whatever is mounted, restored, run and edited.
THEOREM RulesStayAgreed ==
  Plain /\ {"race", "pinned", "crash", "noconfig"} \cap Env = {} => (Spec => []RulesAgree)
<1> SUFFICES ASSUME Plain, {"race", "pinned", "crash", "noconfig"} \cap Env = {}
             PROVE  Spec => []RulesAgree
  OBVIOUS
<1>1. Ruled => RulesAgree
  <2> SUFFICES ASSUME Ruled, AtRest, Mounted
               PROVE  /\ config.state # "bad"
                      /\ Carried(sbs[Top].live) = {r \in Listed : r[1] \in OnHost}
                      /\ \A d \in Paths : Resolved(d) = MatchRule(LoadedRules, d)
    BY DEF RulesAgree
  <2>1. config.state = "ok" /\ Carries(sbs[Top].live, config.rules) /\ IsRules(config.rules)
    BY DEF Ruled, ConfigOK, Carrying, AtRest, Manages, Managing, Ruling, Loading
  <2>2. LoadedRules = config.rules
    BY <2>1 DEF LoadedRules
  <2>3. \A d \in OnHost : Enforced(sbs[Top].live, d) = MatchRule(config.rules, d)
    BY <2>1, MatchAgrees
  <2>4. Carried(sbs[Top].live) = {r \in Listed : r[1] \in OnHost}
    BY <2>1, <2>2, CarriedAgrees
  <2> QED BY <2>1, <2>2, <2>3, <2>4 DEF Resolved
<1>2. Spec => []Ruled
  BY RuledInit, RuledNext, PTL DEF Spec
<1> QED BY <1>1, <1>2, PTL
=============================================================================
