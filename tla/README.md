# Formal model of YoloFS

YoloFS is a stackable Linux filesystem (`kmod/`, C) and a CLI (`user/`, Rust).
An agent works in a view of the whole machine mounted over `/`; its changes are
staged in a flat inode store, recorded in an append-only journal, can be
snapshotted, travelled between, reviewed and finally committed or aborted, and
accesses can be gated by prompts a user answers.

This directory models the parts of that system in which the order of events
decides the outcome, checks them with TLC and proves what holds for every
instance with TLAPS.

    tlc -workers 2 -config StagingStore.cfg MCStaging.tla    # model-check one run
    tlc -workers 2 -config Session.cfg MCSession.tla
    tlapm SessionSafety.tla                                  # check the proofs

## 1. The system

| Part | Code | State it keeps | Operations | What is hard about it |
|---|---|---|---|---|
| Copy-on-write open path | `kmod/file.c`, `kmod/staging.c` | `staging.sem`, `gen`, `fd_count`, `next_ino`; the inode store | open, read, write, mmap, release; `yolo_do_cow`, `yolo_inode_alloc` | a check-then-act around a counter and a generation; error paths; a lock order with the directory lock |
| Name operations | `kmod/inode.c` | dentries, tombstones | create, mkdir, symlink, unlink, rmdir, rename, setattr | they append to the journal and stamp inodes without `staging.sem` |
| Live view | `kmod/dentry.c`, `kmod/lookup.c` | `yolo_dentry_info` (backing, pinned, lower path), yolofs inodes (`staging_gen`, `staging_ino`) | lookup, interpose, pin, unpin, quiesce | pins keep staged dentries alive; the VFS keeps others; inodes are shared by lower inode |
| Snapshot, travel, restore | `kmod/ioctl.c` | `gen`, `dirty` | SNAPSHOT, TRAVEL, RESTORE | replace the view atomically; partial failures; stamping by a floor |
| Journal writer | `kmod/journal.c` | the journal file | records S, D, R, P, T, G, C | the pre-image of a record; appends that fail |
| Ask protocol | `kmod/perm.c`, `user/cmd/watch.rs` | `pending_reqs`, `next_req_id` | ask, ASK_PEEK, ASK_DECIDE, watch loop | an answer, a timeout and a signal race for one request; watchers come and go |
| Rules | `kmod/ioctl.c`, `kmod/perm.c` | policies on dentries, `pinned_rules` | RULE_SET, RULE_RESOLVE, the walk to the nearest rule | rules hang on dentries that travel replaces |
| Journal reader | `user/journal/marker.rs`, `core.rs` | segments, markers, alive mask, floors | alive scan, ranges | travels into dead branches, nested travels |
| Journal tree and plan | `user/journal/parse.rs`, `tree.rs`, `plan.rs` | tree of nodes with old and new backing | parse, apply, serialize, into_plan | renames of subtrees, cycles, self-redirects, torn records |
| Commit | `user/cmd/commit.rs`, `abort.rs` | the base half changed, scratch files | apply_plan, clear_artifact | operations that fail or are interrupted in the middle |
| Session | `user/main.rs`, `user/cmd/mount.rs`, `run.rs`, `load.rs`, `abort.rs`, `user/config.rs` | mounts, module, store, journal and `yolofs.toml` | mount and restore, run, unmount, commit, abort, load, unload, rule | several steps in several processes, each of which can be the last; namespaces an unmount does not see |
| Directory listing | `kmod/dir.c` | a cursor dentry per open directory | readdir | a merge that resumes while names change |
| Reports | `user/cmd/review.rs`, `audit.rs`, `timeline.rs`, `user/changeset.rs` | none of their own | review, audit, timeline | which segments and which notes each of them shows |

Processes call the mount; each file operation runs in its caller.  The CLI
talks to the kernel by ioctls on the mount root and to the journal by reading
the file the kernel appends to.  The kernel never reads the journal: after a
mount the CLI replays it and hands the tree back with RESTORE.  Watchers are
CLI processes blocked in ASK_PEEK.

What makes each part correct, in a sentence: an open for write never reaches
content a snapshot retains; the view is what a replay of the journal gives; no
snapshot ever changes; the counters and flags that guard the ioctls mean what
they say; a request is decided once and its verdict is what was recorded; the
segments a command works on are the living ones; a commit leaves the base as the
view was; one view at a time stands over an artifact, and nothing is removed
from under it.

## 2. The modules

### Staging (the core)

One directory of regular files.  The modules of the kernel that take part in a
write share state too closely to be specified apart: the generation, the counter
and the stamp are only meaningful together.  So they form one module, whose
actions are cut where another actor can get in between.

| Variable | Code |
|---|---|
| `sem` | the writer of `staging.sem`; readers hold it for one step only |
| `gen`, `dirty`, `fdCount`, `nextIno` | the fields of `struct yolo_staging` |
| `dentry`, `hash` | the dentry objects, and the one a lookup of a name finds |
| `stamp` | `staging_gen` and `staging_ino`, which live on the yolofs *inode* and are shared by whatever has the same lower inode |
| `dirLock` | the directory's `i_rwsem` where an operation holds it across steps |
| `data` | contents of the inode store |
| `tip`, `marks`, `recs`, `allocFloor`, `cowFloor` | the journal, as the CLI's replay of it: the live tree, the tree at each marker, whether the last segment has records, the two floors of `Journal::new` |
| `pc`, `dp`, `ino`, `mapped` | a process: where it is, the dentry and inode it opened, a mapping it has |
| `ctl`, `target` | the ioctl in progress |
| `borrowed` | history: inodes the last travel injected |

`marks[n].saw` is a history variable too: the contents every name showed when
the marker was written.  A content is an opaque value.  A backing is
`Base(name)`, `Staged(ino)` or `Gone`, as in `user/journal/types.rs`.

An open for write is `Walk`, `OpenFast` | `OpenStale` (the look under
`down_read`), `Recheck` (under `down_write`), `CowJournal` (allocate, copy, S
record), `CowPublish` (pin, stamp, swap, reopen), or `OpenLower` after the fast
path, with `OpenLowerFail`, `CowFail` and the second disjunct of `CowPublish`
for the error paths.  A create is `CreateJournal` and `CreatePublish` with
`dirLock` held between.  `Unlink` and `Rename` are one step each: they hold the
lock all through, and nothing they do is visible in the middle.  SNAPSHOT is
`SnapshotMark` and `SnapshotDone`, cut where the dirty flag is cleared; TRAVEL
is `TravelView` and `TravelDone`, cut where the T record is written; unmount,
mount and RESTORE together are `Remount`.

**Environments.**  The documentation promises some properties only because
agents and CLI commands are run in turns.  `Env` names what a configuration
admits beyond that:

| Member | What it admits |
|---|---|
| `travelwrite` | opening for write after TRAVEL with no new snapshot before |
| `nsrace` | unlink and rename of a name in the middle of its open |
| `ctlrace` | creates, unlinks and renames during SNAPSHOT and TRAVEL |
| `handles` | TRAVEL while a process holds a dentry |
| `mmap` | shared mappings, which outlive the descriptor |
| `journal`, `badinject`, `nomem` | failing P and T appends, failing injections, an interpose that fails after its S record |
| `inowrap` | the 32-bit inode counter wraps to 0 |
| `mode3` | open(2) with access mode 3 |

A property of section 3 holds in the environment its run names; the
configurations of section 5 show what happens in the others.

### SnapshotStore and AskGate (abstract specifications)

`SnapshotStore` is what staging promises its user: a map from names to contents
that can be changed, saved, and replaced by any earlier saved state, which never
changes.  `Staging` implements it (`StoreSpec`: contents through the tip, and
through each mark), and so does the journal reader of `Timeline` (one file, as
the live view has it and as the segments alive at each marker fold to).

`AskGate` is what the ask protocol promises the access that waits: it is
resolved at most once, to the verdict that its log entry has, or interrupted.
`AskProtocol` implements it (`GateSpec`).

### AskProtocol

Actions are what happens under one hold of `pending_lock` or between two.  The
requester is `Request`, `Enqueue`, then `Completed` | `Expired` | `Interrupted`
(the three returns of the wait), then `Settle` or `Abandon` (reclaiming what is
still queued) and `Gate` (the G record).  A watcher is `PeekWoken`, `PeekHead` |
`PeekEmpty`, `Decide`, with `PeekFault` for a bad buffer; `watch_loop` ends on
every error of a peek (`"ended"`).  `Timeout`, `Signals`, `Stops` and `Faults`
switch the environment on.

### Timeline

Marker `g` is the g-th P or T record, segment `i` what lies between markers `i`
and `i + 1`.  Of a segment's records the model keeps whether there are any
(`work`) and what those of one file come to (`net`: the pre-image of the first,
the result of the last, as `DirTree::touch` folds them); `now` is the file in the
live view, from which the kernel takes its pre-images.  The writer is `Stage`,
`Delete` (both `Touch` the file), `Other` (a record of something else),
`Snapshot` and `Travel`, after which the file is what the reader built of the
target (`Lies` of `AliveAt`).  The reader is `AliveRange`
(`alive_segments_range`, a recursive function from the right), `AliveAt`
(`into_live_segments_at`), `OwnRange` and `Between` (`segment_range`),
`LatestRange`, and `ParseRange` over every range a command line can name.
`Shown`, `AfterExec` and `Reachable` are the segments `review`, the review after
a command, and `timeline` and `audit` make of them.  `Change` is what the review
of a range says of the file: `Fold` takes the live segments of the range into one
tree, and what nets out to nothing is dropped (`Nothing`, `classify`).  `Stanzas`
folds each segment on its own and drops what nets out in it.  Renames, and trees
of more than one file, are in Commit.

### DirTree

What the CLI makes of S, D and R records, as operators: which lines parse
(`WellFormed`, over fields that are known by what they parse as), the fold into
a tree with two sides per node (`Touch`, `ApplyRename`, `Apply`), the view a
restore builds from the tree (`Restored`), the lines of a review (`Kind`,
`Vacated`, `Changes`), and the plan of a commit (`Collected`, `SavesFirst`,
`IntoPlan`).  `SavesFirst` takes deeper sources first where `plan.rs` sorts by the
length of the path in bytes: both put a source before the directories it is in,
and no two other saves depend on one another.  A path is a sequence of names and a tree a function from paths, so
that moving a subtree is a change of domain (`Without`, `Carried`, `Over`).
`Resolve` is one path of the view, from its node and what its parent resolves to;
`Restored` is `Resolve` down the tree.  No name is `.yolofs`, where a commit keeps
its scratch files (`DirTreeAssumption`).

### Commit

Staged work over a tree of directories and what becomes of it.

| Variable | Code |
|---|---|
| `disk`, `store` | the base filesystem and the inode store: what is a directory, and where a file's content came from |
| `view` | what the mount shows; the operations change it the way `kmod/inode.c` and `kmod/staging.c` do |
| `tree`, `seg`, `torn` | the journal: the fold of all of it, of its last segment, and a fragment at its end |
| `pc`, `todo`, `ensured` | the command: where it is, the operations of the plan still to do, the parents `ensure_parent` cached |
| `start`, `goal` | history: the view when the segment began, and when the commit left it |

`Create`, `Copy`, `DeleteEntry` and `Rename` append their record and change the
view, or tear the append and change nothing.  As in `kmod/inode.c`, nothing looks
whether a directory that is removed or replaced is empty: its entries go from the
view with it, and stay in the tree below the tombstone (`touch`) or go with the
replaced node (`apply_rename`).  `CommitRead`, `CommitRestore`,
`ApplyOp` (one operation of the plan, whole: `ApplyMove`, `ApplyStage`,
`ApplyDelete`), `CommitDone`, `ClearStore` and `Truncate` are `commit.rs` and
`abort.rs` in order; `Interrupt` ends a commit between any two of them.  The base
filesystems of `Bases` are trees of directories (`CommitAssumption`).  `Fits` keeps
a rename within `Depth`: it carries nothing out of the bound, and nothing that the
bound has hidden comes back into it.  What a record or a plan overlooks lies in a
place, and the directory of that place may have moved since: `WasAt` is where the
segment's start had a name of the directory a path is in now, `Placed` what the
base has at a path once a plan's renames are done (`InPlan` is what of the tree a
plan takes up: nothing below a tombstone); the exclusions below are told
by these, not by the names of the moment.

| `Env` | What it admits |
|---|---|
| `remade` | a directory made anew where the base has one whose entries the tree no longer hides |
| `home` | a rename back to its base path below a parent that is another directory now, or where the directory the name is in had something else when the segment began |
| `retyped` | something moved below a directory that replaces a base file |
| `revive` | a name made anew over a removed directory, entries of which the tree still has (`Wakes`) |
| `replace` | a rename, other than a way home, of what the segment touched onto a name that its directory had in use when the segment began |
| `glue` | operations after a torn append |
| `race` | operations while a commit has read the journal |
| `retry` | a commit after one that failed |

### Session

CLI processes that mount, restore, apply rules, run commands, snapshot, commit,
abort, unmount, load, unload and edit rules, step by step and beside each other.
Every mount makes a superblock of its own over the same artifact, with its own
view, counters and rules; mounts stack; a running command holds the superblock
it was started over in a private mount namespace.  What a view shows is the set
of its staged inodes — the other modules model its paths.

| Variable | Code |
|---|---|
| `loaded` | the kernel module |
| `config` | `yolofs.toml`: absent, bad or ok, and its rules |
| `journal`, `store` | the artifact: records (a staged inode, 0 for a marker), inodes |
| `sbs`, `stack`, `dying`, `cmd` | superblocks, the mounts on the mountpoint, those whose teardown is deferred, the one each command runs over |
| `mntdir` | the mountpoint directory |
| `proc`, `jobs` | where each process is and what it read; commands started |

A process has a label; `Begin` dispatches a command to its first one.
`MountStep`, `UnmountStep`, `ModuleStep`, `RunStep`, `ClearStep` and `RuleStep`
group the actions by the file they come from.  An agent's process can only run
and snapshot, as the hook of `main.rs` has it.  `Crash` kills a management
command between two steps.

| `Env` | What it admits |
|---|---|
| `race` | two commands that manage the session at the same time |
| `pinned` | an unmount while a command runs |
| `overlap` | writes and snapshots while a commit, abort or restore is on |
| `crash` | a kill that leaves a view, the store or the rules half done |
| `noconfig` | a mount without `yolofs.toml` |

### The proof modules and the MC modules

TypeProofs, StagingProofs and StagingSafety are about Staging, AskProofs about
AskProtocol, TimelineProofs about Timeline, CommitProofs about Commit and DirTree,
SessionProofs and SessionSafety about Session (section 4).  MCStaging,
MCAskProtocol, MCCommit and MCSession hold the definitions the configurations
need: base inodes, base filesystems, rules and symmetry sets.  Symmetry is over
processes and dentries, or tasks and watchers, which the specifications never
order; the runs with liveness properties do not use it.

## 3. What is checked

| Run | Question | Instance |
|---|---|---|
| StagingStore | is every snapshot kept, and the abstract store implemented; is the view the replay; do flag and generation mean what they say; is a remount invisible | 2 names, 1 process, 2 inodes, 2 markers, empty `Env` |
| StagingContend | do two openers copy once; does every write, truncation and failed open stay off the inodes the markers' trees name, with leaked counts and at the end of the inode space | 1 name, 2 processes, 2 inodes, 3 markers, `inowrap`, `mode3` |
| StagingAny | is the writer count exact, does the generation move only alone | 1 name, 2 processes, every environment except `mode3` and `inowrap` |
| StagingLive | does every open that has to copy end | 2 processes, empty `Env` |
| AskSafe | one decider, its verdict recorded, the queue holds only live requests, `AskGate` implemented | 2 tasks, 2 watchers, 3 requests, everything on |
| AskEnds | does every access end with a timeout, whatever the watchers do; does every prompt leave a record | 2 tasks, 2 watchers that may stop, no signals, no faults |
| Timeline | are the ranges right, do the scan and the fold implement the store, do the stanzas add up to the review | every journal of up to 4 markers over a file that is there or not, every range over it |
| Commit | is the view the replay; does a plan run, and leave the base as the view was; is anything lost when it stops; does a review account for every change | 2 names, 2 levels, two base filesystems, 4 operations, one fewer for each time the journal was emptied, 2 inodes, empty `Env` |
| Session | one view per artifact; do commands run over what the journal says; is nothing removed that is shown; do file and kernel agree on rules; does every command end | 2 processes (one an agent's), 2 superblocks, 4 commands, 3 records, empty `Env` |

What the properties say, beyond their names, where a sentence helps:

- `OnlyFreshWritten`: in the step that changes the content of a store inode, no
  marker's tree names that inode.  The inode counter of the run wraps and meets
  the inodes of the markers again; an allocator that took an object over
  (`AllocOver`) breaks the property as an uncounted open does.  Writes between a
  TRAVEL and the next snapshot are not in the run: they do reach the inodes of
  the marker travelled to, as FindTravelWrite shows.
- `EachAddsUp`: the stanzas of `--each` laid end to end, each starting where the
  one before ended, make the change the review of the range lists; a file made in
  one segment and deleted in a later one is in two stanzas and in no review.  And
  between undimmed ends that change goes from the file as it was at the one to the
  file as it was at the other, so the pre-images the kernel recorded are the states
  the reader folds, whatever branches lie between.
- `ReplayIsView`: the tree folded from the journal, rendered by `Restored`, is
  the live view, after any sequence of operations and torn appends.  The kernel
  changes the view and appends the record in one place, the CLI folds the
  records in another, and only directories moved over one another tell them
  apart.
- `CommitExact`, `PlanRuns`, `NothingLost`: the plan is made from the tree
  alone.  After its last operation names and contents on the base are those of
  the view; no operation of it fails for a reason the plan is responsible for;
  and wherever it is stopped, every file it was to bring exists somewhere.
- `ReviewComplete`: whatever differs between the start of the range and now is
  on a line of the review, or below one.
- `OneView`, `CleanupOutside`, `ClearsUnshown`: two superblocks over one
  artifact would take the same inode numbers; a removal of the mountpoint under
  a mount would remove what the view shows; clearing the store under a view
  takes away what its processes read.
- `RunsOnJournal`, `CountersContinue`, `StoreBacksJournal`: a view, the counters
  of its superblock, the journal and the store agree whenever no management
  command is under way, whatever was started, finished or killed before.
- `RulesAgree`: the rules the kernel carries are those of the file, so that
  `rule resolve` never has to print its warning.
- `CommandsEnd`: every command ends, `unload` too, with nothing assumed of the
  deferred teardown it waits for.

**Why the bounds are enough.**  The mistakes the properties of Staging are after
need one file copied, sealed, and reached again: two store inodes and two
markers give snapshot-then-write, write-then-travel-back and
travel-then-snapshot; in StagingContend the third marker gives a second copy
after a snapshot of the first, with the inode counter past its end.  Two names give a rename over an existing file, a rename away
and a new file at the old name, and a redirect that is then copied.  Two
processes give every pair of steps in a race for the semaphore, the counter or a
dentry.  Three dentries give a live one, its tombstone and one held from before.
`MaxIno` and `MaxGen` also play `U32_MAX` and `U16_MAX`: both ends are reached
in every run.  In AskProtocol the third request lets an answer arrive for an id
after a younger request took the head.  Four markers hold two nested travels
with snapshots before or between them; that a file is there or not is enough to
tell a stanza's two sides apart, and the theorems hold for any number of versions.
In Commit four operations hold a swap through a third name, a directory moved with
a change inside it and moved again, a directory removed or replaced with a staged
file in it and its place taken; snapshots, which cost no operation, cut them into
segments anywhere.  In Session four commands hold
mount, run, commit and run again, a remount under a run, and a rule set before,
during and after a mount; each of the counterexamples of section 5 needs three
commands or fewer.

**Fairness.**  A process inside a system call goes on, and so does an ioctl:
weak fairness on the steps that follow a taken lock.  `Recheck` waits for
`staging.sem` as a writer; a Linux rwsem queues its waiters and hands the lock
off to one that has been passed over, which is strong fairness.  Nothing obliges
a process to start, to write or to close.  In AskProtocol the kernel's steps and
the timer are weakly fair, and a watcher that runs goes on peeking and
answering, which is the loop of `watch.rs` with `--allow-all`; no property of the
runs depends on that, since in AskEnds watchers may stop.  In Session a CLI
process is weakly fair on its steps, the commands it runs included: what a user
starts either runs on or is killed.  `Teardown`, writes and the start of
commands have no fairness.  Deadlock is not checked where the bounds on
commands and operations let the system stop.

Every property has a mutant of the code it is about (PROJECT.json), written
beside the definition it mutates, and TLC finds each mutant out.

## 4. What is proved

For every set of names, processes and dentries, every bound and every
environment not excluded by name:

| Theorem | Statement |
|---|---|
| `TypeCorrect` (TypeProofs) | `Spec => []TypeOK` |
| `CountExact` (StagingProofs) | without `mode3`: `Spec => []FdCountExact` |
| `GenChangesAlone` | `Spec => NoGenChangeUnderWriters` |
| `DirtyIsKept` | without `ctlrace` and `journal`: `Spec => []DirtyCoversRecords` |
| `GenNeverSkips` | without `journal` and `badinject`: `Spec => []GenIsPosition` |
| `ViewIsTheReplay` (StagingSafety) | `Disciplined`: `Spec => []ViewIsReplay` |
| `OneCopyForWriters` | `Disciplined`: `Spec => []WritersAgree` |
| `SnapshotsUnwritten` | `Disciplined`, without `travelwrite`: `Spec => OnlyFreshWritten` |
| `RemountLosesNothing` | `Disciplined`: `Spec => RemountInvisible` |
| `SnapshotsStay` | `Disciplined`, without `travelwrite`: `Spec => []SnapshotStable` |
| `StoreImplemented` | `Disciplined`, without `travelwrite`: `Spec => StoreSpec`: Staging implements SnapshotStore |
| `AskTypes` (AskProofs) | `Spec => []TypeOK` |
| `QueueSafe` | `Spec => []QueueIsLive` |
| `NothingElseAllows` | `Spec => []AllowIsAnswered` |
| `AnswersAreFinal` | `Spec => [](AnswerStands /\ AnsweredOnce)` |
| `JournalIsTruth` | `Spec => []GateIsTruth` |
| `RecordsAreComplete` | without `Signals` and `Faults`: `Spec => []EveryPromptIsLogged` |
| `GateRefined` | `Spec => GateSpec`: AskProtocol implements AskGate |
| `JournalSound` (TimelineProofs) | `Spec => []JournalOK` |
| `OwnChangeAlways` | `Spec => []OwnChange` |
| `LatestCoversTailAlways` | `Spec => []LatestCoversTail` |
| `DimmedIsAbandonedAlways` | `Spec => []DimmedIsAbandoned` |
| `RangeIsDifferenceAlways` | `Spec => []RangeIsDifference` |
| `PreimagesAreStates` | `Spec => [](JournalOK /\ FileOK)` |
| `EachAddsUpAlways` | `Spec => []EachAddsUp` |
| `StoreImplemented` | `Spec => StoreSpec`: the scan and the fold implement SnapshotStore |
| `CommitTypes` (CommitProofs) | without `glue`: `Spec => []TypeOK` |
| `ReplayStays` | without `glue`, `home` and `revive`: `Spec => []ReplayIsView` |
| `ReviewAccounts` | without `glue`, `home`, `revive` and `replace`: `Spec => []ReviewComplete` |
| `AddedStays` | the same: `Spec => []AddedIsNew` |
| `PlansRun` | `Tame`: `Spec => []PlanRuns` |
| `CommitsExactly` | `Tame`: `Spec => []CommitExact` |
| `NothingIsLost` | `Tame`: `Spec => []NothingLost` |
| `TypeCorrect` (SessionProofs) | `Spec => []TypeOK` |
| `StoreBacks` (SessionSafety) | without `crash`: `Spec => []StoreBacksJournal` |
| `OneViewOnly` | without `race` and `pinned`: `Spec => []OneView` |
| `CleansOutside` | without `race` and `pinned`: `Spec => []CleanupOutside` |
| `RemovesUnshown` | without `race`, `pinned` and `overlap`: `Spec => []ClearsUnshown` |
| `RunsOnItsJournal` | without `race`, `pinned`, `overlap` and `crash`: `Spec => []RunsOnJournal` |
| `CountersGoOn` | the same: `Spec => []CountersContinue` |
| `RulesStayAgreed` | `Plain`, without `race`, `pinned`, `crash` and `noconfig`: `Spec => []RulesAgree` |

`Disciplined` is the discipline the documentation asks for: of `Env` at most
`travelwrite` and `mode3`, and no two base names with one inode.  Section 5 has a
counterexample for what it leaves out (FindHardLinks, FindNameRace,
FindCreateRace, FindHeldDentry, FindMmap, FindGenSkip), and FindTravelWrite one for
`SnapshotStable` with `travelwrite`.  `Plain` says of a configuration that no two
of its rules mean one path and that a rule for a directory above a path of the
host is for one that is on the host; FindAlias is a counterexample without it.
`Tame` leaves out all of Commit's `Env` but `replace`, which concerns reviews only.
Each of the seven has a counterexample in section 5: a commit goes wrong after work
behind a torn append (FindGlue), a rename home (FindHome), a directory remade
(FindResurrect), a file retyped (FindRetyped), a name made anew over entries the
tree still has (FindRevive), work while it reads (FindCommitRace) and after one
that failed (FindRetry).

The only assumptions are `TimelineAssumption` of Timeline (the bound is a number,
`Absent` is no content, the base file is a content or absent), `ConstAssumption` of Staging (the constants are what
their comments say; base inodes and store inodes differ), `AskAssumption` of
AskProtocol (the switches are Booleans, the bound a number), `DirTreeAssumption`
(names are strings other than `.yolofs`, the depth is a number, `Nil` is no
backing) and `CommitAssumption` (each base filesystem is a tree of directories
within the depth, the bounds are numbers) of Commit, and
`SessionAssumption` of Session (agents are processes, `Nil` is neither a
superblock nor a journal, the bounds are numbers, rules are names and paths
sequences of names), which TLC evaluates in every run of the module.

*TypeCorrect.*  `TypeOK` is not inductive: a copy reads the stamp and the lower
path of the dentry its process refers to, a travel injects the tree of a marker.
`TypeInv` adds that a dentry in use is well formed (`GoodSlots`: a tombstone has
no inode, anything else has one), that processes refer to dentries and inodes in
use (`GoodRefs`), that trees only redirect to base files that exist
(`JournalOK`), and that the generation is not behind the markers
(`MarksBehind`, for the stamp of a remount).  TLC checked `TypeInv` before it
was proved.

*CountExact, GenChangesAlone.*  `FdInv`: the count is at least the number of
processes in `Counted`, and equal to it when access mode 3 is not used.
`CountMoves` says what moving one process does to that number; each action is
then one move.  The generation only changes after `fdCount > 0` was refused
under the semaphore, so nobody is in `Counted` — a leaked count only makes it
refuse more.

*DirtyIsKept.*  `LockInv` ties `sem` to who copies and who seals, so no copy
appends between the marker and the clearing of the flag; `DirtyInv` says the
segment is empty while the flag is about to be cleared.

*GenNeverSkips.*  `PositionInv`: between its two steps a travel has the
generation one ahead of the markers.

*StagingSafety.*  None of its properties is inductive, and none can be proved
without the others: that a write reaches no snapshot depends on the stamp of the
file's inode; that the stamp is the file's own, on no two dentries sharing an
inode; that, on the journal's tree naming each inode once and on a lookup that
misses finding the base; and that, on the view being the replay.  `SafeInv` is
their conjunction:

| Part | What it says | Needed because |
|---|---|---|
| `Quiet` | who may be doing what while an ioctl runs or a create holds its directory | travel replaces dentries others would hold |
| `Reached` | a hashed dentry has the name it is found under; an open works on a hashed one | a copy publishes into its dentry, its record names the file |
| `Shaped` | a staged dentry is pinned and its stamp has its store inode; what may be evicted is a plain base entry | an eviction must lose nothing a lookup cannot find |
| `Replayed` | the view is the tree, but for names between their S record and their publication | the induction of `ViewIsReplay` |
| `TreesKept` | trees name a file once; store inodes exist, at most `allocFloor`, those of markers at most `cowFloor` | a travel brings an old tree back; a remount restores floors |
| `Apart` | no two hashed files share an inode, nor will one with a base file looked up or a create published next | a stamp must speak of one file |
| `Stamped` | no stamp is of a generation to come; what reads current is seen by no snapshot | the open in place |
| `Writing` | who copies works on a stale file, who writes on a current one no snapshot sees | the look and the write are steps apart |

The proof takes `SafeInv` through every action: `ProcessMoves` for the steps of
one process that publish nothing, then the lookup, create, copy, unlink, rename,
eviction, snapshot, travel and remount.  The last three replace generation, view
or stamps for everybody and are proved part by part.  For the three theorems
without `travelwrite`, `Unborrowed` adds that nobody has a write descriptor while
the last travel's inodes count as current; with it, what `SafeInv` says of a write,
that its inode is above the copy floor or borrowed by the travel, becomes that no
marker's tree has it.  TLC checked `SafeInv` on the instances
of StagingStore and StagingContend, and `Unborrowed` on the first, before they
were proved.

*AskProofs.*  `AskInv`: a request has one owner, the task whose `cur` it is
(`CurInv`); what is queued is undecided and its owner has not returned
(`QueueInv`, `OwnerInv`); only an answer allows, and an accepted answer is the
decision of its request (`DecisionInv`); what was returned is that decision or
EINTR (`ReturnInv`); a G record is about a request that is gone (`JournalInv`).
None of the properties is inductive without the rest: that a late timeout cannot
turn an answer over needs to know that whatever is still queued is not done.
`Unlink` and `Link` say what taking an id out of the queue and putting one in
does.  For the refinement, `GateMove` reduces a step of AskGate to the phase of
one task, and each action is one such move or a stutter.  `RecordInv` adds, for
the runs of the kernel without signals, that nobody is on the way out of an
interrupted wait.  TLC checked `AskInv` before it was proved.

*TimelineProofs.*  `alive_segments_range` is a scan from the right, a recursive
function of the journal.  The library's induction theorems cannot be used, but an
induction in the form of sets can: the set of markers where a claim holds has no
least gap (`Downwards`, `Upwards`).  `ScanEq` is the scan's equation at a marker;
`Lockstep`: two scans that meet at a marker stay together; from them `AliveAt` has
an equation without a scan (`AliveAtNext`, `AliveAtTravel`): a travel takes over
what was alive at its target, any other marker adds the segment it closes.
`AlivePrefix`, what was alive at a live marker is what is alive before it, is the
lemma the properties of the ranges rest on; their only invariant is `JournalOK`:
a travel goes back to a marker that is there.

*PreimagesAreStates, EachAddsUpAlways.*  What a stanza starts from is a pre-image
the kernel wrote when the segment began, in a branch that may have been left
since, and what it should start from is a fold over segments that came before it.
`FileOK` ties them: the old side of a segment is what the segments alive at its
marker fold to, and the live view has the file as the live segments fold to.  A
record of the file (`FileTouch`) changes only the last segment, which is alive and
greatest; a marker changes which segments are alive, but not which were alive at
a marker before it (`AliveAtNext`, `TravelAlive`).  From `FileOK` and
`AlivePrefix` each stanza's old side is the new side of the touched live segment
before it (`ChainsHold`), and a range between live ends folds to the states at
them (`SameEnds`, `RangeIs`).  The same two equations carry the refinement.

*CommitTypes.*  `TypeOK` says of the disk that every path on it has a directory
above it, at every step of a commit: after a move, a merge, a removal, parents
made on the way, an operation that failed.  `TypeInv` adds that the plan's
operations go between names and scratch files only (`Planned`: no move goes below
itself, and removing the destination never removes the source), that a fragment
is no record (`Torn`), and that the last segment has no node the whole has not
(`SegIn`).  Which operations a plan holds needs the walk of the tree it is made
from: `DfsPaths` is taken from depth to depth as a set (`DeeperIs`, `WalkEq`),
and every source has a scratch file among the saves (`TempIs`).

*ReplayStays.*  `Restored` recurses over the paths, so the invariant says what it
computes without recursion: `Follows`, each path resolves through what its parent
shows; `FollowsRestored` and `RestoredFollows` say that this is the same.  No
operation keeps `Follows` alone.  A node with a backing may lie below a name that
is not visible, but only with a tombstone above it, where no plan takes it up
(`Dormant`): that is how a directory removed with its entries leaves them, and a
create of the name, which would bring them back, is what `revive` excludes; a rename would carry entries the view does not show,
unless what is visible has visible directories above it (`Tidy`) that are where
the backing says (`Backed`).  `Shows` is the conjunction.  Then each kind of
record is one lemma about any tree and view that `Shows` holds of: `TouchedShows`
for a create, a copy or a delete, which set one node, and `ShiftedShows` for a
rename, where `FollowsBelow`, `FollowsAt` and `FollowsElse` take the paths that
moved, the new name, and all others.  The drop of a self-redirect is sound because,
without `home`, the parent is the base directory the node came from.  TLC checked
`IInv` on the instance of the Commit run, with three operations.

*ReviewAccounts, AddedStays.*  A review shows the fold of the last segment, and the
segment is a difference between two views.  `Since` says of what: every path of the
view shows the new side of its node, or, without one, what the start of the segment
had in that place (`Told`); a node's old side is what that place had; nothing is
shown twice (`Once`), at the start or now, so that the place is one; and the start
has a directory above all it has (`Grounded`).  The place is `WasAt` and not the
name: a directory renamed takes its nodes with it, and what the start had below it
is to be looked for where it was.  Touching a node keeps `Told` at every other
path (`TouchedSince`); a rename is three cases, what moved, the new name, what
stayed (`RetoldIs`, `CarriedSince`), and the second is where `home` and `replace`
are needed.  From `Since`, a path that differs has at its name, or at the nearest
directory above with a node, a line of the review, unless all it differs by is
that its directory was moved away, and then it is the source of a rename
(`Accounted`).  With the exclusions stated by name, as they once were, the proof
fails, and the counterexamples need three levels or a second rename: they are in
section 5 (FindAdded).  TLC checked `Since` on the Commit instance and on one of
three levels.

*PlansRun, CommitsExactly, NothingIsLost.*  The three rest on one invariant,
`CommitInv`, that says what the disk is after each prefix of a plan.  The order of
the plan comes first: the walk lists a directory before what is below it
(`DfsOrdered`), the saves take deeper sources first, and `PlanAt` names the
operation at each place of the plan.  Then two functions describe the disk without
the operations: `Placed`, what lies at a path once the renames are done, and the
view itself, what is to be there in the end.  `LiesAt` and `LiesBelow` say where
each entry of a saved directory lands, `BareAt` that at a path with no write of its
own, and above it only directories of the store, the two agree, and `Ready` is what
all of it takes of the staged work: the view is the replay (`Shows`), shows nothing twice (`Once`), and
the tree is neither `Remade` nor `Retyped`.  The plan goes through three phases:

| Phase | After so many operations |
|---|---|
| `Saving` | the saved sources are gone from the base, and each scratch file holds its source but for what was saved before it |
| `Placing` | the base is `Placed` wherever nothing is still to be put at or above a path (`Settled`), but for parents made early where the store has a directory; the other scratch files hold what they held |
| `Writing` | wherever no write is due at a path, and no due write clears a directory above it (`Final`), the base is the view |

Each phase has its step (`SaveStep`, `PlaceStep`, `WriteStep`: the operation does
not fail, and the phase holds of the next prefix), the last state of one is the
first of the next (`PlacingStart`, `WritingStart`), the first is the disk before
the commit (`WorkStarts`) and after the last the base is what the view showed
(`PhaseEnd`).  In each, a file that is not where it was or is to be is in a scratch
file or in the store (`SavingKept`, `PlacingKept`, `PhaseKept`).  `Working` says
that a commit under way is in such a phase for some prefix, of a view and a disk
it no longer has; `Workable` keeps, between commits, what `Ready` needs of the work;
`Steady` that the scratch directory outlives every operation.  `Finished` carries
the result through an interruption, as long as nothing is tried again.  Before the
proof TLC checked the three properties, beyond the Commit run, on three levels,
exhaustively for four operations as far as five minutes go and in random runs of
nine.

*TypeCorrect of Session.*  `TypeInv` adds to `TypeOK` what a later step relies on
(`Sound`): where a process may go next, that a journal exists once a mount is
under way, that the journal a mount has read, and the one there is, has a largest
inode for `RestoredFrom` to compute (`Readable`), and that no superblock is twice
on the stack, which a mount keeps because it takes a free one.

*StoreBacks.*  `Backed`: the journal names what the store has, or there is none,
or some process is between its replay and its truncation, and then goes on to
the truncation.  It needs no exclusion of races: whoever truncates empties the
journal for all.

*OneViewOnly, CleansOutside.*  `Solo` is `TypeInv` with `OneManager` (one
management command at a time) and `Standing`: at most one mount, every running
command over it, and none while a process is between the check and its mount or
about to remove the mountpoint.

*RemovesUnshown.*  `Withdrawn` adds `Unshown` (what is mounted while a process
replays, clears or truncates shows nothing) and `Destined` (only a commit or an
abort leads to those steps).

*RunsOnItsJournal, CountersGoOn.*  `Faithful` adds `Shows` (with no process half
way through a restore, a commit, an abort or a roll back, the superblock
`Describes` the journal: the view is what it stages, the generation the number of
its markers, the inode counter not behind its inodes) and `Recalls` (the journal a
mount has read is the journal there is).  `Unshown` has to say of the superblock
under a commit that its generation is 0, or the truncation would not meet it.

*RulesStayAgreed.*  Two halves.  Of the operators: a view without rules that is
told those of the file `Carries` them (`AppliedCarries`), one that carries them
and is told one more carries that too (`RuleSetCarries`), and on a view that
carries them the kernel's walk to the nearest ancestor finds what the file's
search for the longest prefix finds (`MatchAgrees`: two prefixes of a path that
are as long are one).  Of the steps: `Ruled` adds to `Solo` that the mounted view
carries the rules of the file unless a mount is still to apply them, one just
written is still to be told, or a mount is being rolled back (`Carrying`); what
each of those steps finds (`Found`: a bare view, the file as it was read, the
rule that makes up the difference); and that without a file nothing is mounted
and no mount or commit under way (`Unconfigured`).  Writes during a commit do not
matter here, so `overlap` stays in.  TLC checked `Ruled`, with `overlap`, before
it was proved.

**Only model-checked:** the liveness properties (`OpenEnds`,
`AsksEnd` and `CommandsEnd`) stay with TLC, fairness and ENABLED being out of the
prover's reach.

## 5. What the code does differently from what it says

TLC ends each of these configurations with a counterexample.  The first three
are runs and findings of PROJECT.json; the others are kept beside them and say
where the properties of section 3 stop holding, which is why `Env` and the
switches of AskProtocol exist (they run in the MC module of the module named;
those of Timeline in Timeline itself; with `-continue`, where a configuration
names several invariants).

| Configuration | What happens |
|---|---|
| FindResurrect (Commit) | `mkdir b/b; rm a/a; mv b/b a; commit`: the rename replaces the node of `a` with everything below it, the plan stages a directory where one is, and `a/a` is back.  A comment of `plan.rs` says the tree guarantees that deletes and stages do not depend on each other. |
| FindLiveView (Session) | `yolo unmount` succeeds under a running command; a commit then finds nothing mounted, skips the restore and its descriptor gate, and clears the artifact the command's view uses. |
| FindRevive (Commit) | `touch a/x; rmdir a; mkdir a`: the removed directory's entries stay in the tree, and the new directory, empty in the view, has `a/x` after a remount, a travel or a commit.  With a file made in place of the directory the plan stages `a/x` below a file and stops. |
| FindDeadRange (Timeline) | a range with an end on a branch a travel has left is accepted and shows too little; `docs/cli.md` says ids only address live markers. |
| FindHome (Commit) | a rename back to its base path is dropped as a self-redirect although the parent there is another directory by now, or the segment began with something else in that place. |
| FindRetyped (Commit) | a base file is replaced by a directory that something is moved into: the places come before the deletes, `ensure_parent` fails and the commit stops half way, every time it is tried. |
| FindRetry (Commit) | a commit after one that failed removes the scratch file the first left, the only copy of a moved file, before it looks for the source. |
| FindAdded (Commit) | a rename over a name in use carries the old side of the moved node: a file the base had is listed as added, and a replaced file may not be listed at all.  It need not be in use any more, or under the same name: `mv A B; touch t; mv t B/x; rm B/x; mv B A` deletes `A/x` and lists nothing. |
| FindGlue (Commit) | after a torn append the next record is read as part of the fragment and lost. |
| FindCommitRace (Commit), FindOverlap (Session) | what is staged between the read of the journal and its truncation is lost. |
| FindCrashedClear (Session) | a kill between the removal of the store and the truncation leaves a journal that names missing inodes. |
| FindCrashedMount (Session) | a kill between the mount and the restore: `ensure_mounted` accepts the view, and commands run over the bare base. |
| FindRaces (Session) | three races, one invariant each: two first mounts at once stack two superblocks over one artifact; an unmount beside a mount, and `remove_dir_all` runs while a view is mounted there; two rule commands at once leave the file with one rule and the kernel with another. |
| FindAlias (Session) | two spellings of a path in `yolofs.toml`: the kernel keeps the last, the CLI reports the first. |
| FindNoConfig (Session) | a mount without `yolofs.toml` enforces no rule, while `rule list` and `rule resolve` show those of the template. |
| FindLatest (Timeline) | after an empty snapshot, or travelling back, the default review says nothing is staged though something is. |
| FindHardLinks (Staging) | two base hard links share a yolofs inode and with it the stamp: copying one makes the other read current. |
| FindMode3 (Staging) | opens are counted by `f_flags`, closes by `f_mode`; access mode 3 is counted up and never down, and every later snapshot is EBUSY. |
| FindCreateRace (Staging) | a create reads the generation after its S record: a snapshot in between leaves sealed content writable in place. |
| FindMmap (Staging) | `yolo_mmap` gives the mapping the lower file, so `close` counts down while the mapping still writes. |
| FindTravelWrite (Staging) | TRAVEL stamps the whole injected tree current (floor 0, `kmod/ioctl.c:641`), so a write after it changes the snapshot travelled to.  A test pins this behaviour; `docs/staging.md` says snapshots keep all historical states. |
| FindNameRace (Staging) | a copy appends its S record without the directory lock: after a racing unlink the journal has the file and the view does not. |
| FindDirtyLost (Staging) | SNAPSHOT clears `dirty` over a record that was appended after its marker. |
| FindHeldDentry (Staging) | a dentry somebody holds across a travel keeps showing the old view. |
| FindGenSkip (Staging) | a travel whose injection fails leaves the generation ahead of the journal. |
| FindLostGate (AskProtocol) | a signal after the answer was accepted returns EINTR without the G record. |
| FindWatcherEnds (AskProtocol) | a request reclaimed between a watcher's wake-up and its lock ends `yolo watch`. |
| FindUnwatchedAsk (AskProtocol) | with neither timeout nor watcher an ask waits for ever; a comment in `mount.rs` says it resolves at once. |

Smaller differences met on the way, with no configuration: `docs/staging.md`
says a commit copies inodes to the base and restores the view after applying the
plan, the code renames them and restores first; the comment of `mount` says it
re-applies the rules when a view is mounted already, it returns; the review after
a command shows only the part behind a snapshot another process made meanwhile.

## 6. Not modelled

- **Directory listing** (`kmod/dir.c`): a merge of dentry children and base
  entries that resumes under a cursor.  Nothing else reads its state, and its
  behaviour under change is that of the dcache's child list.
- **The shard directories of the store**, their cache and its epoch: an inode is
  a name here.
- **Notes**: which G and C records a review or an audit lists (a C record
  outlives the branch it was made on) is a filter on single records, and left out.
- **Symlinks, file modes, setattr and fallocate**: no property tells them apart
  from files and writes.
- **Permission checks inside name operations**, and the composition of
  AskProtocol with the locks its callers hold: `OpenEnds` assumes that whoever
  holds a directory lock goes on.
- **The dentries rules hang on**: Session keeps the rules of a view by path, so
  what TRAVEL does to a pinned rule is outside it; so is TRAVEL itself, whose
  effect on journal and view is in Staging and Timeline.
- **More than one project directory**, nested mounts of different projects and
  mount options.
- **Terminals**: prompts are nondeterministic answers; the list of holders of a
  busy mount, diffs, colours, `kmsg` and argument parsing are left out.
- **Symbolic bounds**: the depth of a tree, the number of records and the number
  of commands are bounded for TLC; the theorems of section 4 do not bound them
  except by the constants.
