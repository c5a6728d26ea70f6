------------------------------ MODULE Session ------------------------------
(***************************************************************************)
(* The life of a session: the CLI processes that mount the view, restore   *)
(* it from the journal, apply the rules of yolofs.toml, run commands over  *)
(* it, snapshot, commit, abort, unmount and unload, step by step and in    *)
(* several processes.  Source: user/main.rs, user/cmd/mount.rs, run.rs,    *)
(* load.rs, commit.rs, abort.rs, snapshot.rs, init.rs and user/config.rs.  *)
(*                                                                         *)
(* Every mount makes a superblock of its own over the same artifact        *)
(* (kmod/super.c, get_tree_nodev), stacked on the mountpoint; a running    *)
(* command holds the one it was started over in a private mount namespace, *)
(* which an unmount on the host does not see.  What a view shows is the    *)
(* set of staged inodes; the other modules model its paths.                *)
(*                                                                         *)
(* Env admits what the empty Env leaves out because the code breaks on it: *)
(*   "race"     commands that manage the session at the same time          *)
(*   "pinned"   an unmount while a command runs                            *)
(*   "overlap"  writes and snapshots while a commit, abort or restore is on *)
(*   "crash"    a management command killed when half done                 *)
(*   "noconfig" a mount without yolofs.toml                                *)
(***************************************************************************)
EXTENDS Naturals, SequencesExt

CONSTANTS
  Procs,       \* CLI processes
  Agents,      \* those an agent's hook starts
  Supers,      \* superblocks that can exist at a time: 1 .. n
  Keys,        \* the rules of yolofs.toml as spelled, in byte order
  Target,      \* key -> the path it resolves to
  OnHost,      \* the paths that exist on the host
  Paths,       \* the paths whose permission is looked at
  Template,    \* the rules of the built-in configuration: key -> permission
  Given,       \* the permissions a user gives
  Unset, Nil,
  MaxRecords,  \* bound on the records of the journal
  MaxJobs,     \* bound on the commands started
  Env          \* behaviours admitted

ASSUME SessionAssumption ==
  /\ Agents \subseteq Procs /\ Unset \notin Given
  /\ Nil \notin Supers /\ Nil \notin Seq(Nat)
  /\ MaxRecords \in Nat /\ MaxJobs \in Nat
  /\ Keys \in Seq(STRING) /\ Target \in [Range(Keys) -> Seq(STRING)]
  /\ Template \in [Range(Keys) -> STRING] /\ OnHost \subseteq Seq(STRING)
  /\ Env \subseteq {"race", "pinned", "overlap", "crash", "noconfig"}

VARIABLES
  loaded,   \* the kernel module
  config,   \* yolofs.toml: absent, bad or ok, and its rules
  journal,  \* the records: a staged inode, or 0 for a marker; Nil if no file
  store,    \* the staged inodes on disk
  sbs,      \* superblock -> its view, inode and generation counters, rules
  stack,    \* the superblocks mounted on the mountpoint, the top last
  dying,    \* unmounted, their teardown deferred
  mntdir,   \* the mountpoint directory exists
  cmd,      \* process -> the superblock its command runs over, or Nil
  proc,     \* process -> where it is and what it read
  jobs      \* commands started

artifact == <<journal, store>>
kernel   == <<loaded, sbs, stack, dying, cmd>>
vars     == <<artifact, kernel, config, mntdir, proc, jobs>>

-----------------------------------------------------------------------------
MaxOf(s) == CHOOSE n \in s \cup {0} : \A m \in s : m <= n

Staged(j)  == Range(j) \ {0}
Markers(j) == Cardinality({i \in DOMAIN j : j[i] = 0})
Dirty(j)   == j # << >> /\ Last(j) # 0

Fresh == [view |-> {}, next |-> 0, gen |-> 0, dirty |-> FALSE, live |-> [d \in OnHost |-> Unset]]

\* Mutant of RestoredFrom: the allocator starts over.
RestoredFromZero(j) == [view |-> Staged(j), next |-> 0, gen |-> Markers(j), dirty |-> Dirty(j)]

\* The arguments of the restore ioctl, all computed from the journal.
RestoredFrom(j) == [view |-> Staged(j), next |-> MaxOf(Staged(j)), gen |-> Markers(j), dirty |-> Dirty(j)]

Replaced(s, v) == [sbs EXCEPT ![s].view = v.view, ![s].next = v.next,
                              ![s].gen = v.gen, ![s].dirty = v.dirty]

Mounted  == stack # << >>
Top      == Last(stack)
InUse    == Range(stack) \cup (Range(cmd) \ {Nil})
Resting  == [pc |-> "idle", next |-> "idle", seen |-> << >>, rules |-> << >>]

Init ==
  /\ loaded \in BOOLEAN
  /\ config \in {[state |-> "absent", rules |-> Template], [state |-> "ok", rules |-> Template]}
  /\ journal = Nil /\ store = {}
  /\ sbs = [s \in Supers |-> Fresh] /\ stack = << >> /\ dying = {} /\ mntdir = FALSE
  /\ cmd = [p \in Procs |-> Nil] /\ proc = [p \in Procs |-> Resting] /\ jobs = 0

-----------------------------------------------------------------------------
(* Rules: yolofs.toml against what the kernel enforces.                    *)

\* match_rule: the longest ancestor, the first in byte order among equals.
Applies(rules, p) == {k \in DOMAIN rules : rules[k] # Unset /\ IsPrefix(Target[k], p)}
MatchRule(rules, p) ==
  LET best == {k \in Applies(rules, p) :
                 \A l \in Applies(rules, p) : Len(Target[l]) <= Len(Target[k])}
  IN  IF best = {} THEN "ask"
      ELSE rules[Keys[CHOOSE n \in DOMAIN Keys : Keys[n] \in best /\ \A m \in 1 .. n - 1 : Keys[m] \notin best]]

\* yolo_perm_walk: the nearest ancestor with a rule.
Enforced(live, p) ==
  LET ruled == {d \in DOMAIN live : live[d] # Unset /\ IsPrefix(d, p)}
  IN  IF ruled = {} THEN "ask"
      ELSE live[CHOOSE d \in ruled : \A e \in ruled : Len(e) <= Len(d)]

\* RULE_SET: the target is opened through the mount, and a path that is not
\* there takes no rule.
RuleSet(live, d, perm) == IF d \in OnHost THEN [live EXCEPT ![d] = perm] ELSE live

\* apply_rules: in the order of the file, so that of two rules for one path the
\* last stays; what cannot be set is skipped.
Applied(live, rules) ==
  [d \in OnHost |->
     LET given == {n \in DOMAIN Keys : Target[Keys[n]] = d /\ rules[Keys[n]] # Unset}
     IN  IF given = {} THEN live[d] ELSE rules[Keys[Max(given)]]]

\* load_config: a file that is missing or does not parse reads as the template.
LoadedRules == IF config.state = "ok" THEN config.rules ELSE Template

\* `yolo rule list`: each rule of the file with the path it stands for.
Listed == {<<Target[k], LoadedRules[k]>> : k \in {l \in DOMAIN LoadedRules : LoadedRules[l] # Unset}}

\* `yolo rule resolve`: the kernel's answer when there is one, else the file's.
Resolved(d) == IF Mounted /\ d \in OnHost THEN Enforced(sbs[Top].live, d)
                                           ELSE MatchRule(LoadedRules, d)

-----------------------------------------------------------------------------
(* Starting a command.                                                     *)

Managing == {"check", "setup", "load", "domount", "read", "restore", "rules", "apply",
             "umount", "rmdir", "insert", "reload", "each", "sweep", "delete",
             "commit", "abort", "leave", "replay", "clear", "truncate",
             "rule", "write", "push"}
Unsettled == {"read", "restore", "leave", "replay", "clear", "truncate"}

Manages(p) == proc[p].pc \in Managing
Alone(p)   == "race" \in Env \/ \A q \in Procs \ {p} : ~Manages(q)
Calm       == "overlap" \in Env \/ \A q \in Procs : proc[q].pc \notin Unsettled

\* Where each command starts; the rest of the CLI changes nothing.
Entry == [run |-> "enter", mount |-> "check", unmount |-> "umount", remount |-> "umount",
          load |-> "insert", unload |-> "each", reload |-> "reload", commit |-> "commit",
          abort |-> "abort", snapshot |-> "snap", rule |-> "rule"]
Commands == DOMAIN Entry

\* What an agent's hook lets through that changes something here: a command it
\* wraps in `yolo run`, and of AGENT_ALLOWED the snapshot.
AgentAllowed == {"snapshot", "run"}

\* These look up .yolofs first.
NeedsArtifact == {"unmount", "remount", "commit", "abort", "snapshot"}

\* What follows: a remount mounts again, a run starts its command.
Then(job) == CASE job = "remount" -> "check" [] job = "run" -> "spawn"
               [] job = "reload" -> "insert" [] OTHER -> "idle"

\* A process that ends forgets what it read.
Goto(p, label) ==
  proc' = [proc EXCEPT ![p] = IF label = "idle" THEN Resting ELSE [@ EXCEPT !.pc = label]]

Begin(p, job) ==
  /\ proc[p].pc = "idle" /\ jobs < MaxJobs /\ jobs' = jobs + 1
  /\ p \in Agents => job \in AgentAllowed
  /\ job \in NeedsArtifact => journal # Nil
  /\ job \in {"run", "snapshot"} \/ Alone(p)
  /\ job = "mount" => config.state # "absent" \/ "noconfig" \in Env
  /\ proc' = [proc EXCEPT ![p].pc = Entry[job], ![p].next = Then(job)]
  /\ UNCHANGED <<artifact, kernel, config, mntdir>>

\* ensure_mounted: any mount will do; without one a project is needed.
EnterRun(p) ==
  /\ proc[p].pc = "enter" /\ Alone(p)
  /\ Goto(p, CASE Mounted -> "spawn"
               [] ~Mounted /\ config.state = "absent" -> "idle"
               [] OTHER -> "check")
  /\ UNCHANGED <<artifact, kernel, config, mntdir, jobs>>

-----------------------------------------------------------------------------
(* yolo mount.                                                             *)

\* Mutant of MountCheck: nobody looks whether a view is mounted.
MountCheckNot(p) ==
  /\ proc[p].pc = "check"
  /\ proc' = [proc EXCEPT ![p].pc = "setup", ![p].seen = IF journal = Nil THEN Nil ELSE << >>]
  /\ UNCHANGED <<artifact, kernel, config, mntdir, jobs>>

\* Already mounted is fine; otherwise an old journal is to be restored.
MountCheck(p) ==
  /\ proc[p].pc = "check"
  /\ IF Mounted THEN Goto(p, proc[p].next)
     ELSE proc' = [proc EXCEPT ![p].pc = "setup", ![p].seen = IF journal = Nil THEN Nil ELSE << >>]
  /\ UNCHANGED <<artifact, kernel, config, mntdir, jobs>>

SetupYoloDir(p) ==
  /\ proc[p].pc = "setup"
  /\ journal' = (IF journal = Nil THEN << >> ELSE journal) /\ mntdir' = TRUE
  /\ Goto(p, "load")
  /\ UNCHANGED <<store, kernel, config, jobs>>

\* The module may be missing; a mount that fails here leaves no mount.
LoadModule(p) ==
  /\ proc[p].pc = "load"
  /\ \/ loaded' = TRUE /\ Goto(p, "domount")
     \/ ~loaded /\ loaded' = loaded /\ Goto(p, "idle")
  /\ UNCHANGED <<artifact, sbs, stack, dying, cmd, config, mntdir, jobs>>

Free == Supers \ (InUse \cup dying)

\* A superblock of its own, on top of whatever is mounted there.  (It fails too
\* when the bound on superblocks is reached.)
DoMount(p) ==
  /\ proc[p].pc = "domount"
  /\ IF loaded /\ mntdir /\ Free # {}
     THEN \E s \in Free :
            /\ \A r \in Free : s <= r
            /\ stack' = Append(stack, s) /\ sbs' = [sbs EXCEPT ![s] = Fresh]
            /\ Goto(p, IF proc[p].seen = Nil THEN "rules" ELSE "read")
     ELSE Goto(p, "idle") /\ UNCHANGED <<stack, sbs>>
  /\ UNCHANGED <<artifact, loaded, dying, cmd, config, mntdir, jobs>>

\* Mutant of ReadJournal: nothing of the journal is looked at.
ReadJournalNone(p) ==
  /\ proc[p].pc = "read" /\ Goto(p, "rules")
  /\ UNCHANGED <<artifact, kernel, config, mntdir, jobs>>

\* restore_artifact, first half.
ReadJournal(p) ==
  /\ proc[p].pc = "read"
  /\ proc' = [proc EXCEPT ![p].pc = "restore", ![p].seen = journal]
  /\ UNCHANGED <<artifact, kernel, config, mntdir, jobs>>

\* A mount that cannot be finished is taken down again and the command ends.
RollBack(p) == proc' = [proc EXCEPT ![p].pc = "umount", ![p].next = "failed"]

\* Second half: the ioctl, on the mount that is on top; a base that drifted
\* makes it fail with the base view.
Restore(p) ==
  /\ proc[p].pc = "restore"
  /\ \/ /\ Mounted /\ sbs' = Replaced(Top, RestoredFrom(proc[p].seen))
        /\ Goto(p, "rules")
     \/ /\ sbs' = IF Mounted THEN Replaced(Top, Fresh) ELSE sbs
        /\ RollBack(p)
  /\ UNCHANGED <<artifact, loaded, stack, dying, cmd, config, mntdir, jobs>>

\* create_cwd_symlink and the first half of apply_rules.
ReadRules(p) ==
  /\ proc[p].pc = "rules"
  /\ CASE config.state = "bad" \/ ~Mounted -> RollBack(p)
       [] config.state = "absent" /\ Mounted -> Goto(p, proc[p].next)
       [] OTHER ->
            proc' = [proc EXCEPT ![p].pc = "apply", ![p].rules = config.rules]
  /\ UNCHANGED <<artifact, kernel, config, mntdir, jobs>>

ApplyRules(p) ==
  /\ proc[p].pc = "apply"
  /\ sbs' = IF Mounted THEN [sbs EXCEPT ![Top].live = Applied(@, proc[p].rules)] ELSE sbs
  /\ Goto(p, proc[p].next)
  /\ UNCHANGED <<artifact, loaded, stack, dying, cmd, config, mntdir, jobs>>

-----------------------------------------------------------------------------
(* unmount_at: unmount, remount and the roll back of a mount.              *)

\* umount(2) does not see a command that runs in a namespace of its own.
PopTop == /\ "pinned" \in Env \/ Range(cmd) = {Nil}
          /\ stack' = Front(stack) /\ dying' = dying \cup {Top}

\* Mutant of Umount: that the mount is busy goes unnoticed.
UmountAnyway(p) ==
  /\ proc[p].pc = "umount" /\ Goto(p, "rmdir")
  /\ \/ Mounted /\ PopTop
     \/ UNCHANGED <<stack, dying>>
  /\ UNCHANGED <<artifact, loaded, sbs, cmd, config, mntdir, jobs>>

\* umount(2); a mount that host processes use stays.
Umount(p) ==
  /\ proc[p].pc = "umount"
  /\ \/ Mounted /\ PopTop /\ Goto(p, "rmdir")
     \/ ~Mounted /\ Goto(p, "rmdir") /\ UNCHANGED <<stack, dying>>
     \/ /\ Mounted /\ (proc[p].next # "failed" \/ "race" \in Env)
        /\ Goto(p, "idle") /\ UNCHANGED <<stack, dying>>
  /\ UNCHANGED <<artifact, loaded, sbs, cmd, config, mntdir, jobs>>

\* remove_dir_all of the mountpoint.  Over a mount it deletes what the view
\* shows; the model stops there (CleanupOutside).
Rmdir(p) ==
  /\ proc[p].pc = "rmdir" /\ ~Mounted /\ mntdir' = FALSE
  /\ IF proc[p].next = "check"
     THEN proc' = [proc EXCEPT ![p].pc = "check", ![p].next = "idle"]
     ELSE Goto(p, "idle")
  /\ UNCHANGED <<artifact, kernel, config, jobs>>

\* The superblock goes when nobody uses it any more.
Teardown(s) ==
  /\ s \in dying \ InUse /\ dying' = dying \ {s}
  /\ UNCHANGED <<artifact, loaded, sbs, stack, cmd, config, mntdir, proc, jobs>>

-----------------------------------------------------------------------------
(* yolo load, unload and reload.                                           *)

InsertModule(p) ==
  /\ proc[p].pc = "insert" /\ Goto(p, "idle") /\ loaded' \in {loaded, TRUE}
  /\ UNCHANGED <<artifact, sbs, stack, dying, cmd, config, mntdir, jobs>>

\* reload unloads first what is loaded.
Reload(p) ==
  /\ proc[p].pc = "reload" /\ Goto(p, IF loaded THEN "each" ELSE "insert")
  /\ UNCHANGED <<artifact, kernel, config, mntdir, jobs>>

\* Each mount the kernel reports; one that is busy ends the command.
UnmountEach(p) ==
  /\ proc[p].pc = "each"
  /\ \/ Mounted /\ PopTop /\ proc' = proc
     \/ Mounted /\ Goto(p, "idle") /\ UNCHANGED <<stack, dying>>
     \/ ~Mounted /\ Goto(p, "sweep") /\ UNCHANGED <<stack, dying>>
  /\ UNCHANGED <<artifact, loaded, sbs, cmd, config, mntdir, jobs>>

\* rmdir of what is not mounted, also of a mountpoint just made.
Sweep(p) ==
  /\ proc[p].pc = "sweep" /\ Goto(p, "delete") /\ mntdir' = Mounted
  /\ UNCHANGED <<artifact, kernel, config, jobs>>

\* Mutant of DeleteModule: tried until it succeeds.
DeleteModuleForever(p) ==
  /\ proc[p].pc = "delete" /\ Goto(p, proc[p].next) /\ InUse \cup dying = {} /\ loaded' = FALSE
  /\ UNCHANGED <<artifact, sbs, stack, dying, cmd, config, mntdir, jobs>>

\* delete_module, tried again while superblocks remain, until the deadline.
DeleteModule(p) ==
  /\ proc[p].pc = "delete"
  /\ \/ InUse \cup dying = {} /\ loaded' = FALSE /\ Goto(p, proc[p].next)
     \/ InUse \cup dying # {} /\ loaded' = loaded /\ Goto(p, "idle")
  /\ UNCHANGED <<artifact, sbs, stack, dying, cmd, config, mntdir, jobs>>

-----------------------------------------------------------------------------
(* yolo run and yolo snapshot.                                             *)

\* isolate_pre_exec: the command's root becomes the view on top.
Spawn(p) ==
  /\ proc[p].pc = "spawn"
  /\ IF Mounted THEN Goto(p, "running") /\ cmd' = [cmd EXCEPT ![p] = Top]
                ELSE Goto(p, "idle") /\ cmd' = cmd
  /\ UNCHANGED <<artifact, loaded, sbs, stack, dying, config, mntdir, jobs>>

\* A running command stages a file.  A name taken in the store fails it.
Write(p) ==
  /\ proc[p].pc = "running" /\ Calm /\ Len(journal) < MaxRecords
  /\ LET s   == cmd[p]
         ino == sbs[s].next + 1
     IN  IF ino \in store
         THEN sbs' = [sbs EXCEPT ![s].next = ino] /\ UNCHANGED artifact
         ELSE /\ journal' = Append(journal, ino) /\ store' = store \cup {ino}
              /\ sbs' = [sbs EXCEPT ![s].next = ino, ![s].view = @ \cup {ino}, ![s].dirty = TRUE]
  /\ UNCHANGED <<loaded, stack, dying, cmd, config, mntdir, proc, jobs>>

\* Mutant of CommandEnds: the namespace of the command stays.
CommandEndsKeeps(p) ==
  /\ proc[p].pc = "running" /\ Goto(p, "autosnap")
  /\ UNCHANGED <<artifact, kernel, config, mntdir, jobs>>

CommandEnds(p) ==
  /\ proc[p].pc = "running" /\ cmd' = [cmd EXCEPT ![p] = Nil] /\ Goto(p, "autosnap")
  /\ UNCHANGED <<artifact, loaded, sbs, stack, dying, config, mntdir, jobs>>

\* The snapshot ioctl, to whatever is mounted now.  After a command it is
\* made only if something changed; a write descriptor makes it fail.
Snapshot(p) ==
  /\ proc[p].pc \in {"autosnap", "snap"} /\ Goto(p, "idle")
  /\ \/ UNCHANGED <<artifact, sbs>>
     \/ /\ Mounted /\ Calm /\ Len(journal) < MaxRecords
        /\ proc[p].pc = "autosnap" => sbs[Top].dirty
        /\ journal' = Append(journal, 0) /\ store' = store
        /\ sbs' = [sbs EXCEPT ![Top].gen = @ + 1, ![Top].dirty = FALSE]
  /\ UNCHANGED <<loaded, stack, dying, cmd, config, mntdir, jobs>>

-----------------------------------------------------------------------------
(* yolo commit and yolo abort (Commit models the replay).                  *)

\* Nothing staged, nothing to do.
ReadStaged(p) ==
  /\ proc[p].pc \in {"commit", "abort"}
  /\ IF Staged(journal) = {} THEN Goto(p, "idle")
     ELSE proc' = [proc EXCEPT ![p].pc = "leave", ![p].seen = journal,
                               ![p].next = IF proc[p].pc = "commit" THEN "replay" ELSE "clear"]
  /\ UNCHANGED <<artifact, kernel, config, mntdir, jobs>>

\* Mutant of LeaveView: the view is left as it is.
LeaveViewNot(p) ==
  /\ proc[p].pc = "leave" /\ Goto(p, proc[p].next)
  /\ UNCHANGED <<artifact, kernel, config, mntdir, jobs>>

\* restore_base_view; write descriptors end the command.
LeaveView(p) ==
  /\ proc[p].pc = "leave"
  /\ \/ /\ Mounted /\ Goto(p, proc[p].next)
        /\ sbs' = Replaced(Top, Fresh)
     \/ ~Mounted /\ Goto(p, proc[p].next) /\ sbs' = sbs
     \/ Mounted /\ Goto(p, "idle") /\ sbs' = sbs
  /\ UNCHANGED <<artifact, loaded, stack, dying, cmd, config, mntdir, jobs>>

\* apply_plan: what was read leaves the store for the base.
Replay(p) ==
  /\ proc[p].pc = "replay" /\ Goto(p, "clear")
  /\ store' = store \ Staged(proc[p].seen)
  /\ UNCHANGED <<journal, kernel, config, mntdir, jobs>>

ClearStore(p) ==
  /\ proc[p].pc = "clear" /\ Goto(p, "truncate") /\ store' = {}
  /\ UNCHANGED <<journal, kernel, config, mntdir, jobs>>

\* Mutant of Truncate: the journal stays.
TruncateNot(p) ==
  /\ proc[p].pc = "truncate" /\ Goto(p, "idle")
  /\ UNCHANGED <<artifact, kernel, config, mntdir, jobs>>

Truncate(p) ==
  /\ proc[p].pc = "truncate" /\ Goto(p, "idle") /\ journal' = << >>
  /\ UNCHANGED <<store, kernel, config, mntdir, jobs>>

-----------------------------------------------------------------------------
(* yolo rule, yolo init, and an editor on yolofs.toml.                     *)

\* The file is read (a missing one is the template) and the rule put in; a
\* file that does not parse ends the command.
EditRules(p) ==
  /\ proc[p].pc = "rule"
  /\ IF config.state = "bad" THEN Goto(p, "idle")
     ELSE \E k \in Range(Keys), perm \in Given \cup {Unset} :
            proc' = [proc EXCEPT ![p].pc = "write", ![p].seen = <<k, perm>>,
                                 ![p].rules = [config.rules EXCEPT ![k] = perm]]
  /\ UNCHANGED <<artifact, kernel, config, mntdir, jobs>>

\* (unset leaves a file that is not there alone.)
WriteRules(p) ==
  /\ proc[p].pc = "write" /\ Goto(p, "push")
  /\ config' = IF config.state = "absent" /\ proc[p].seen[2] = Unset THEN config
               ELSE [state |-> "ok", rules |-> proc[p].rules]
  /\ UNCHANGED <<artifact, kernel, mntdir, jobs>>

\* Mutant of PushRule: only the file changes.
PushRuleNot(p) ==
  /\ proc[p].pc = "push" /\ Goto(p, "idle")
  /\ UNCHANGED <<artifact, kernel, config, mntdir, jobs>>

\* A mounted session is told too, if the path exists on the host.
PushRule(p) ==
  /\ proc[p].pc = "push" /\ Goto(p, "idle")
  /\ sbs' = IF Mounted
            THEN [sbs EXCEPT ![Top].live = RuleSet(@, Target[proc[p].seen[1]], proc[p].seen[2])]
            ELSE sbs
  /\ UNCHANGED <<artifact, loaded, stack, dying, cmd, config, mntdir, jobs>>

\* yolo init, or an edit that breaks or mends the file, with nothing mounted.
EditConfig ==
  /\ ~Mounted /\ \A p \in Procs : ~Manages(p)
  /\ config' = [config EXCEPT !.state = IF @ = "ok" THEN "bad" ELSE "ok"]
  /\ UNCHANGED <<artifact, kernel, mntdir, proc, jobs>>

\* Half done: the view, the store or the rules are not yet what was asked for.
HalfDone(p) ==
  \/ proc[p].pc \in {"read", "restore", "rules", "apply", "replay", "clear", "truncate", "push"}
  \/ proc[p].pc = "umount" /\ proc[p].next = "failed"

\* A management command is killed between two steps.
Crash(p) ==
  /\ Manages(p) /\ Goto(p, "idle")
  /\ "crash" \in Env \/ ~HalfDone(p)
  /\ UNCHANGED <<artifact, kernel, config, mntdir, jobs>>

-----------------------------------------------------------------------------
MountStep(p)  == \/ MountCheck(p) \/ SetupYoloDir(p) \/ LoadModule(p) \/ DoMount(p)
                 \/ ReadJournal(p) \/ Restore(p) \/ ReadRules(p) \/ ApplyRules(p)
UnmountStep(p) == Umount(p) \/ Rmdir(p)
ModuleStep(p) == InsertModule(p) \/ Reload(p) \/ UnmountEach(p) \/ Sweep(p) \/ DeleteModule(p)
RunStep(p)    == EnterRun(p) \/ Spawn(p) \/ CommandEnds(p) \/ Snapshot(p)
ClearStep(p)  == ReadStaged(p) \/ LeaveView(p) \/ Replay(p) \/ ClearStore(p) \/ Truncate(p)
RuleStep(p)   == EditRules(p) \/ WriteRules(p) \/ PushRule(p)

CliStep(p) == MountStep(p) \/ UnmountStep(p) \/ ModuleStep(p) \/ RunStep(p) \/ ClearStep(p) \/ RuleStep(p)

Next == \/ \E p \in Procs : \/ CliStep(p) \/ Write(p) \/ Crash(p)
                            \/ \E job \in Commands : Begin(p, job)
        \/ \E s \in Supers : Teardown(s)
        \/ EditConfig

Spec == Init /\ [][Next]_vars

\* A CLI process keeps running, and the commands it runs end.  Nothing is
\* assumed of the kernel's deferred teardown.
FairSpec == Spec /\ \A p \in Procs : WF_vars(CliStep(p))

-----------------------------------------------------------------------------
AtRest == \A p \in Procs : ~Manages(p)

\* Two views over one artifact take the same inodes and miss each other's
\* records (kmod/super.c makes one per mount; mount.rs is_mountpoint).
OneView == Cardinality(InUse) <= 1

\* A command runs over the view the journal describes, not one that is not
\* restored yet or was restored from a journal since changed.
RunsOnJournal ==
  AtRest => \A p \in Procs : cmd[p] # Nil => sbs[cmd[p]].view = Staged(journal)

\* The counters a mount restores go on where the journal stands: no inode is
\* taken twice, and a generation is the position of its marker.
CountersContinue ==
  AtRest => \A s \in Range(stack) :
    /\ \A i \in Staged(journal) : i <= sbs[s].next
    /\ sbs[s].gen = Markers(journal)

\* "Remove the now-unmounted runtime mountpoint" (mount.rs:126): the recursive
\* removal never runs over a view.
CleanupOutside == \A p \in Procs : proc[p].pc = "rmdir" => ~Mounted

\* "If a live view exists, commit/abort restore it to base before changing base
\* or clearing the artifact" (docs/cli.md:80).
ClearsUnshown ==
  \A p \in Procs : proc[p].pc \in {"replay", "clear", "truncate"} =>
    \A s \in InUse : sbs[s].view = {}

\* The kernel enforces what yolofs.toml says: the rules `yolo rule list` shows are
\* those the view carries, resolve never has to warn "yolofs.toml says .., kernel
\* enforces .." (config.rs:380), and a file that does not parse leaves nothing mounted.
Carried(live) == {<<d, live[d]>> : d \in {e \in OnHost : live[e] # Unset}}
RulesAgree ==
  AtRest /\ Mounted =>
    /\ config.state # "bad"
    /\ Carried(sbs[Top].live) = {r \in Listed : r[1] \in OnHost}
    /\ \A d \in Paths : Resolved(d) = MatchRule(LoadedRules, d)

\* What the journal names is in the store, or is being committed.
StoreBacksJournal ==
  AtRest /\ journal # Nil => Staged(journal) \subseteq store

\* Every command of the CLI ends; unload gives up on a superblock that stays
\* (load.rs UNLOAD_DEADLINE).
CommandsEnd == \A p \in Procs : proc[p].pc # "idle" ~> proc[p].pc = "idle"

PcLabels == Managing \cup {"idle", "enter", "spawn", "running", "autosnap", "snap"}
TypeOK ==
  /\ \A p \in Procs : proc[p].pc \in PcLabels /\ cmd[p] \in Supers \cup {Nil}
  /\ \A p \in Procs : proc[p].pc = "running" <=> cmd[p] # Nil
  /\ stack \in Seq(Supers) /\ IsInjective(stack)
  /\ Mounted => loaded /\ mntdir /\ journal # Nil
=============================================================================
