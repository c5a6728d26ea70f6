------------------------------ MODULE Staging ------------------------------
(***************************************************************************)
(* The staging half of the YoloFS kernel module for the regular files of   *)
(* one directory: copy-on-write at open time, the generation counter that  *)
(* makes the first open after a snapshot copy again, the count of write    *)
(* descriptors that keeps snapshots away from writers, the pinned dentries *)
(* that are the live view, the journal the CLI replays, and the SNAPSHOT,  *)
(* TRAVEL and RESTORE ioctls.  Source: kmod/file.c, kmod/staging.c,        *)
(* kmod/inode.c, kmod/dentry.c, kmod/ioctl.c, kmod/journal.c; the fold of  *)
(* the journal is user/journal/core.rs and user/journal/tree.rs.           *)
(*                                                                         *)
(* A process is cut into steps where another actor can see or change what  *)
(* it relies on: at staging.sem, at the directory's i_rwsem, and between   *)
(* the journal append and the publication of a dentry.  The journal itself *)
(* is kept as what the CLI computes from it (tip, marks, the two floors);  *)
(* how marks are found among dead segments is the module Timeline.         *)
(*                                                                         *)
(* Env names the environment behaviours a configuration admits.  The empty *)
(* Env is the discipline the documentation describes: one CLI command at a *)
(* time, no name operation in the middle of another process's open of the  *)
(* same name, no mmap that outlives its descriptor, no journal error.      *)
(***************************************************************************)
EXTENDS Integers, Sequences, FiniteSets

CONSTANTS
  Files,      \* names in the directory
  BaseFiles,  \* the names that exist in the base filesystem
  BaseInode,  \* base name -> base inode (hard links share one)
  Procs,      \* processes using the mount
  Dentries,   \* dentry objects (a bound on the dcache)
  Data,       \* what a process may write
  Empty,      \* the content of a truncated file
  Nil,        \* "none": no dentry, no lock holder, no content
  Ctl,        \* the CLI process that issues the ioctls
  MaxIno,     \* bound on store inodes
  MaxGen,     \* U16_MAX of the code
  Env         \* environment behaviours admitted

BaseInodes == {BaseInode[f] : f \in BaseFiles}
Inos       == 1 .. MaxIno
Vnodes     == BaseInodes \cup Inos
Contents   == Data \cup {Empty} \cup BaseInodes

EnvKinds == { "nsrace",      \* unlink/rename during an open of the same file
              "ctlrace",     \* name operations during SNAPSHOT and TRAVEL
              "handles",     \* TRAVEL while a process holds a dentry
              "mmap",        \* shared writable mappings
              "travelwrite", \* writing after TRAVEL without a new snapshot
              "journal",     \* a failing append of a P or T record
              "badinject",   \* a failing view injection
              "nomem",       \* an interpose that fails after the S record
              "inowrap",     \* the 32-bit store inode counter wraps
              "mode3" }      \* open(2) with access mode 3: neither read nor write

ASSUME ConstAssumption ==
  /\ BaseFiles \subseteq Files
  /\ BaseInode \in [BaseFiles -> BaseInodes]
  /\ IsFiniteSet(Procs)
  /\ MaxIno \in Nat /\ MaxGen \in Nat
  /\ Env \subseteq EnvKinds
  /\ Nil \notin Files \cup Procs \cup Dentries \cup Contents \cup Vnodes
  /\ Ctl \notin Procs \cup {Nil}
  /\ BaseInodes \cap Int = {}

VARIABLES
  \* struct yolo_staging
  sem,        \* the writer of staging.sem: a process, Ctl or Nil
  gen, dirty, fdCount, nextIno,
  \* dcache and icache
  dentry,     \* dentry object -> name, backing, pinned, lower, vnode
  hash,       \* name -> the dentry a lookup finds, or Nil
  stamp,      \* yolofs inode -> staging_gen, staging_ino
  dirLock,    \* holder of the directory's i_rwsem across steps, or Nil
  \* the durable artifact
  data,       \* store inode -> content, Nil if it does not exist
  tip,        \* replay of the live journal: name -> backing
  marks,      \* P/T markers, the phantom first: tree and what it showed
  recs,       \* S/D/R records after the last marker
  allocFloor, \* highest ino of an S record
  cowFloor,   \* the same as of the last marker
  \* processes
  pc, dp, ino, mapped,
  \* the control command in progress, and the target tree of a travel
  ctl, target,
  borrowed    \* history: store inodes injected by the last travel

sbVars   == <<sem, gen, dirty, fdCount, nextIno>>
dcVars   == <<dentry, hash, stamp, dirLock>>
jVars    == <<tip, marks, recs, allocFloor, cowFloor>>
procVars == <<pc, dp, ino, mapped>>
ctlVars  == <<ctl, target, borrowed>>
vars == <<sbVars, dcVars, data, jVars, procVars, ctlVars>>

-----------------------------------------------------------------------------
(* Backings: what a name resolves to, in a dentry and in the journal tree. *)

Base(f)   == [kind |-> "base", name |-> f, ino |-> 0]
Staged(i) == [kind |-> "staged", name |-> Nil, ino |-> i]
Gone      == [kind |-> "none", name |-> Nil, ino |-> 0]
Backings  == {Base(f) : f \in Files} \cup {Staged(i) : i \in Inos} \cup {Gone}

\* The tree of an empty journal.
BaseTree == [f \in Files |-> Base(f)]

\* A name that no base file answers to is absent.
Resolve(b) == IF b.kind = "base" /\ b.name \notin BaseFiles THEN Gone ELSE b

ContentOf(b) == CASE b.kind = "base"   -> BaseInode[b.name]
                  [] b.kind = "staged" -> data[b.ino]
                  [] OTHER             -> Nil

Shows(tree) == [f \in Files |-> ContentOf(Resolve(tree[f]))]

\* A dentry slot that is not in use.
NoDentry == [name |-> Nil, backing |-> "base", pinned |-> FALSE,
             lower |-> Gone, vnode |-> Nil]

FreeDentries == {d \in Dentries : dentry[d].name = Nil}

Positive(d) == dentry[d].lower # Gone

\* What a lookup of f finds: the hashed dentry, or the base.
View(f) == IF hash[f] = Nil THEN Resolve(Base(f)) ELSE dentry[hash[f]].lower

\* A dentry nobody hashes, pins or references is freed.
Reap(dent, h, held) ==
  [d \in Dentries |->
     IF dent[d].pinned \/ d \in held \/ \E f \in Files : h[f] = d
     THEN dent[d] ELSE NoDentry]

Held(procs) == {dp[p] : p \in procs} \ {Nil}

\* yolo_dentry_unpin: back to the ground state, the lower path stays.
Unpinned(r) == [r EXCEPT !.backing = "base", !.pinned = FALSE]

\* yolo_dentry_create of a tombstone.
Tombstone(f) == [name |-> f, backing |-> "none", pinned |-> TRUE,
                 lower |-> Gone, vnode |-> Nil]

\* yolo_dentry_is_current: writable in place.
IsCurrent(d) ==
  /\ dentry[d].backing = "staged"
  /\ stamp[dentry[d].vnode].gen >= gen

\* Mutant of PreimageBacking: a redirected file reports the name it has now.
PreimageBackingByName(d) == IF dentry[d].backing = "staged"
                     THEN Staged(stamp[dentry[d].vnode].ino)
                     ELSE Base(dentry[d].name)

\* yolo_preimage_backing of a positive dentry.
PreimageBacking(d) ==
  IF dentry[d].backing # "staged" THEN dentry[d].lower
  ELSE IF stamp[dentry[d].vnode].ino = 0 THEN Gone
  ELSE Staged(stamp[dentry[d].vnode].ino)

\* Processes whose write descriptor, or open of one, is counted.
Counted == {p \in Procs : pc[p] \in {"cow", "publish", "lower", "writing", "neither"}}

\* Processes between looking a file up and having it open.
Opening == {p \in Procs : pc[p] \in {"found", "slow", "cow", "publish", "lower"}}

-----------------------------------------------------------------------------
Init ==
  /\ sem = Nil /\ gen = 0 /\ dirty = FALSE /\ fdCount = 0 /\ nextIno = 0
  /\ dentry = [d \in Dentries |-> NoDentry]
  /\ hash = [f \in Files |-> Nil]
  /\ stamp = [v \in Vnodes |-> [gen |-> 0, ino |-> 0]]
  /\ dirLock = Nil
  /\ data = [i \in Inos |-> Nil]
  /\ tip = BaseTree
  /\ marks = << [tree |-> tip, saw |-> Shows(tip)] >>
  /\ recs = FALSE /\ allocFloor = 0 /\ cowFloor = 0
  /\ pc = [p \in Procs |-> "idle"] /\ dp = [p \in Procs |-> Nil]
  /\ ino = [p \in Procs |-> 0] /\ mapped = [p \in Procs |-> 0]
  /\ ctl = "idle" /\ target = BaseTree /\ borrowed = {}

-----------------------------------------------------------------------------
(* The dcache. *)

\* yolo_lookup: an unhashed name falls through to the base.
Lookup(f) ==
  /\ hash[f] = Nil /\ f \in BaseFiles /\ dirLock = Nil
  /\ \E d \in FreeDentries :
       /\ dentry' = [dentry EXCEPT ![d] =
            [name |-> f, backing |-> "base", pinned |-> FALSE,
             lower |-> Base(f), vnode |-> BaseInode[f]]]
       /\ hash' = [hash EXCEPT ![f] = d]
  /\ UNCHANGED <<sbVars, stamp, dirLock, data, jVars, procVars, ctlVars>>

\* Memory pressure drops an unpinned dentry nobody holds.
Evict(f) ==
  /\ hash[f] # Nil /\ ~dentry[hash[f]].pinned /\ hash[f] \notin Held(Procs)
  /\ dentry' = [dentry EXCEPT ![hash[f]] = NoDentry]
  /\ hash' = [hash EXCEPT ![f] = Nil]
  /\ UNCHANGED <<sbVars, stamp, dirLock, data, jVars, procVars, ctlVars>>

\* The path walk of an open takes a reference on the hashed dentry.
Walk(p, f) ==
  /\ pc[p] = "idle" /\ hash[f] # Nil /\ Positive(hash[f])
  /\ pc' = [pc EXCEPT ![p] = "found"]
  /\ dp' = [dp EXCEPT ![p] = hash[f]]
  /\ UNCHANGED <<sbVars, dcVars, data, jVars, ino, mapped, ctlVars>>

-----------------------------------------------------------------------------
(* Opening a staged file (yolo_open_staged), writing it and closing it.    *)

\* Process p lets go of its dentry and becomes idle.
Done(p) ==
  /\ pc' = [pc EXCEPT ![p] = "idle"]
  /\ dp' = [dp EXCEPT ![p] = Nil]
  /\ ino' = [ino EXCEPT ![p] = 0]
  /\ dentry' = Reap(dentry, hash, Held(Procs \ {p}))
  /\ UNCHANGED <<hash, stamp, dirLock, mapped>>

Goto(p, label) == pc' = [pc EXCEPT ![p] = label]

\* O_RDONLY opens the current lower file and is not counted.
OpenRead(p) ==
  /\ pc[p] = "found" /\ Goto(p, "reading")
  /\ UNCHANGED <<sbVars, dcVars, data, jVars, dp, ino, mapped, ctlVars>>

MayOpenForWrite == "travelwrite" \in Env \/ borrowed = {}

\* Mutant of OpenFast: the count is not taken under the lock.
OpenFastUncounted(p) ==
  /\ pc[p] = "found" /\ MayOpenForWrite
  /\ sem = Nil
  /\ IsCurrent(dp[p])
  /\ Goto(p, "lower")
  /\ UNCHANGED <<sbVars, dcVars, data, jVars, dp, ino, mapped, ctlVars>>

\* Fast path, under down_read(staging.sem).
OpenFast(p) ==
  /\ pc[p] = "found" /\ MayOpenForWrite
  /\ sem = Nil
  /\ IsCurrent(dp[p])
  /\ fdCount' = fdCount + 1
  /\ Goto(p, "lower")
  /\ UNCHANGED <<sem, gen, dirty, nextIno, dcVars, data, jVars, dp, ino,
                 mapped, ctlVars>>

OpenStale(p) ==
  /\ pc[p] = "found" /\ MayOpenForWrite
  /\ sem = Nil
  /\ ~IsCurrent(dp[p])
  /\ Goto(p, "slow")
  /\ UNCHANGED <<sbVars, dcVars, data, jVars, dp, ino, mapped, ctlVars>>

\* Mutant of Recheck: no second look at the stamp under the lock.
RecheckBlind(p) ==
  /\ pc[p] = "slow" /\ sem = Nil
  /\ fdCount' = fdCount + 1
  /\ Goto(p, "cow") /\ sem' = p
  /\ UNCHANGED <<gen, dirty, nextIno, dcVars, data, jVars, dp, ino, mapped,
                 ctlVars>>

\* Mutant of Recheck: an open that copies is not counted.
RecheckUncounted(p) ==
  /\ pc[p] = "slow" /\ sem = Nil
  /\ IF IsCurrent(dp[p])
     THEN Goto(p, "lower") /\ UNCHANGED sem /\ fdCount' = fdCount + 1
     ELSE Goto(p, "cow") /\ sem' = p /\ UNCHANGED fdCount
  /\ UNCHANGED <<gen, dirty, nextIno, dcVars, data, jVars, dp, ino, mapped,
                 ctlVars>>

\* Slow path: down_write(staging.sem), then the re-check.
Recheck(p) ==
  /\ pc[p] = "slow" /\ sem = Nil
  /\ fdCount' = fdCount + 1
  /\ IF IsCurrent(dp[p]) THEN Goto(p, "lower") /\ UNCHANGED sem
                         ELSE Goto(p, "cow") /\ sem' = p
  /\ UNCHANGED <<gen, dirty, nextIno, dcVars, data, jVars, dp, ino, mapped,
                 ctlVars>>

\* yolo_open_staged_lower: truncate in place if asked, then open.
MayTruncate(p) == data' \in {data, [data EXCEPT ![dentry[dp[p]].lower.ino] = Empty]}

\* The open succeeded.  f_flags decides that it is counted; access mode 3 has
\* both bits set there, and neither FMODE_READ nor FMODE_WRITE in f_mode.
\* (The bound on fdCount is the model's.)
Opened(p) ==
  \/ Goto(p, "writing")
  \/ "mode3" \in Env /\ fdCount <= Cardinality(Procs) /\ Goto(p, "neither")

OpenLower(p) ==
  /\ pc[p] = "lower"
  /\ MayTruncate(p)
  /\ ino' = [ino EXCEPT ![p] = dentry[dp[p]].lower.ino]
  /\ Opened(p)
  /\ UNCHANGED <<sbVars, dcVars, jVars, dp, mapped, ctlVars>>

\* Mutant of OpenLowerFail: the error path keeps the count.
OpenLowerFailLeak(p) ==
  /\ pc[p] = "lower"
  /\ MayTruncate(p)
  /\ Done(p)
  /\ UNCHANGED <<sbVars, jVars, ctlVars>>

\* The truncation or the open failed: the count is given back.
OpenLowerFail(p) ==
  /\ pc[p] = "lower"
  /\ MayTruncate(p)
  /\ fdCount' = fdCount - 1
  /\ Done(p)
  /\ UNCHANGED <<sem, gen, dirty, nextIno, jVars, ctlVars>>

\* journal_write of an S record for name f and store inode i.
JournalStage(f, i) ==
  /\ tip' = [tip EXCEPT ![f] = Staged(i)]
  /\ recs' = TRUE /\ dirty' = TRUE
  /\ allocFloor' = IF i > allocFloor THEN i ELSE allocFloor
  /\ UNCHANGED <<marks, cowFloor>>

\* Mutant of Alloc: an object that exists is taken over.
AllocOver(i, c) ==
  /\ nextIno < MaxIno /\ i = nextIno + 1 /\ nextIno' = i
  /\ data' = [data EXCEPT ![i] = c]

\* yolo_inode_alloc: the next store inode, filled with c.  An object of that
\* name, left by a failed operation of an earlier mount or met again after a
\* wrap, makes it fail.
Alloc(i, c) ==
  /\ nextIno < MaxIno /\ i = nextIno + 1 /\ nextIno' = i
  /\ data[i] = Nil
  /\ data' = [data EXCEPT ![i] = c]

\* Mutant of AllocFail: the end of the ino space is not noticed.
AllocFailUnbounded == nextIno' = nextIno + 1 /\ UNCHANGED data

\* ENOSPC when the counter wraps to 0 (or, without "inowrap", at the bound of
\* the model); otherwise the number is consumed, and an object may be left
\* behind that no journal record names.
AllocFail ==
  \/ nextIno = MaxIno /\ UNCHANGED data
       /\ nextIno' = IF "inowrap" \in Env THEN 0 ELSE nextIno
  \/ /\ nextIno < MaxIno /\ nextIno' = nextIno + 1
     /\ \/ UNCHANGED data
        \/ data[nextIno'] = Nil /\ data' = [data EXCEPT ![nextIno'] = Empty]

\* yolo_do_cow up to the journal record: allocate, copy unless truncating,
\* append S.
CowJournal(p) ==
  /\ pc[p] = "cow"
  /\ \E c \in {Empty, ContentOf(dentry[dp[p]].lower)} : Alloc(nextIno + 1, c)
  /\ JournalStage(dentry[dp[p]].name, nextIno + 1)
  /\ ino' = [ino EXCEPT ![p] = nextIno + 1]
  /\ Goto(p, "publish")
  /\ UNCHANGED <<sem, gen, fdCount, dcVars, dp, mapped, ctlVars>>

\* Mutant of CowFail: the error path returns with the semaphore held.
CowFailLocked(p) ==
  /\ pc[p] = "cow"
  /\ AllocFail
  /\ fdCount' = fdCount - 1
  /\ Done(p)
  /\ UNCHANGED <<sem, gen, dirty, jVars, ctlVars>>

\* Allocation, copy or journal append failed: the old mapping stays.
CowFail(p) ==
  /\ pc[p] = "cow"
  /\ AllocFail
  /\ sem' = Nil /\ fdCount' = fdCount - 1
  /\ Done(p)
  /\ UNCHANGED <<gen, dirty, jVars, ctlVars>>

\* The new backing of p's dentry, of inode v, once its S record is written.
Published(p, v) ==
  [dentry EXCEPT ![dp[p]] = [name |-> dentry[dp[p]].name, backing |-> "staged",
                             pinned |-> TRUE, lower |-> Staged(ino[p]), vnode |-> v]]

\* Pin and stamp under i_rwsem, swap the lower path, reopen, up_write.
CowPublish(p) ==
  /\ pc[p] = "publish" /\ dirLock = Nil
  /\ dentry' = Published(p, dentry[dp[p]].vnode)
  /\ stamp' = [stamp EXCEPT ![dentry[dp[p]].vnode] = [gen |-> gen, ino |-> ino[p]]]
  /\ sem' = Nil
  /\ \/ /\ Opened(p) /\ UNCHANGED <<fdCount, dp, ino>>
     \/ /\ Goto(p, "idle") /\ fdCount' = fdCount - 1
        /\ dp' = [dp EXCEPT ![p] = Nil] /\ ino' = [ino EXCEPT ![p] = 0]
  /\ UNCHANGED <<gen, dirty, nextIno, hash, dirLock, data, jVars, mapped,
                 ctlVars>>

\* write(2) goes straight to the lower file.
Write(p, c) ==
  /\ pc[p] = "writing"
  /\ data' = [data EXCEPT ![ino[p]] = c]
  /\ UNCHANGED <<sbVars, dcVars, jVars, procVars, ctlVars>>

\* mmap(MAP_SHARED) points the vma at the lower file: it survives close(2).
Map(p) ==
  /\ "mmap" \in Env /\ pc[p] = "writing"
  /\ mapped' = [mapped EXCEPT ![p] = ino[p]]
  /\ UNCHANGED <<sbVars, dcVars, data, jVars, pc, dp, ino, ctlVars>>

WriteMapped(p, c) ==
  /\ mapped[p] # 0
  /\ data' = [data EXCEPT ![mapped[p]] = c]
  /\ UNCHANGED <<sbVars, dcVars, jVars, procVars, ctlVars>>

\* yolo_release: what f_mode says was opened for writing is counted down.
Close(p) ==
  /\ pc[p] \in {"reading", "writing", "neither"}
  /\ fdCount' = IF pc[p] = "writing" THEN fdCount - 1 ELSE fdCount
  /\ Done(p)
  /\ UNCHANGED <<sem, gen, dirty, nextIno, data, jVars, ctlVars>>

-----------------------------------------------------------------------------
(* Name operations.  They hold the directory's i_rwsem, never staging.sem. *)

NoCtlRace == "ctlrace" \in Env \/ ctl = "idle"

\* No process is in the middle of opening one of these dentries.
NoOpenOf(ds) == "nsrace" \in Env \/ \A p \in Opening : dp[p] \notin ds

\* yolo_stage_inode up to the S record; the dentry is still negative.
CreateJournal(p, f) ==
  /\ pc[p] = "idle" /\ NoCtlRace
  /\ dirLock = Nil /\ View(f) = Gone
  /\ Alloc(nextIno + 1, Empty)
  /\ JournalStage(f, nextIno + 1)
  /\ dirLock' = p
  /\ \E d \in (IF hash[f] = Nil THEN FreeDentries ELSE {hash[f]}) :
       /\ dentry' = [dentry EXCEPT ![d].name = f]
       /\ hash' = [hash EXCEPT ![f] = d]
       /\ dp' = [dp EXCEPT ![p] = d]
  /\ ino' = [ino EXCEPT ![p] = nextIno + 1]
  /\ Goto(p, "create")
  /\ UNCHANGED <<sem, gen, fdCount, stamp, mapped, ctlVars>>

\* Allocation or journal append failed: nothing becomes visible.
CreateFail(p) ==
  /\ pc[p] = "idle" /\ dirLock = Nil
  /\ \E f \in Files : View(f) = Gone
  /\ AllocFail
  /\ UNCHANGED <<sem, gen, dirty, fdCount, dcVars, jVars, procVars, ctlVars>>

\* Interpose, pin, stamp with the generation of now; open(O_CREAT) goes on.
CreatePublish(p) ==
  /\ pc[p] = "create"
  /\ dentry' = Published(p, ino[p])
  /\ stamp' = [stamp EXCEPT ![ino[p]] = [gen |-> gen, ino |-> ino[p]]]
  /\ dirLock' = Nil
  /\ Goto(p, "found")
  /\ ino' = [ino EXCEPT ![p] = 0]
  /\ UNCHANGED <<sbVars, hash, data, jVars, dp, mapped, ctlVars>>

\* The interpose failed: the S record stays in the journal.
CreateUnpublished(p) ==
  /\ "nomem" \in Env /\ pc[p] = "create"
  /\ pc' = [pc EXCEPT ![p] = "idle"] /\ dp' = [dp EXCEPT ![p] = Nil]
  /\ ino' = [ino EXCEPT ![p] = 0]
  /\ dirLock' = Nil
  /\ LET h == [f \in Files |-> IF hash[f] = dp[p] /\ ~dentry[dp[p]].pinned
                               THEN Nil ELSE hash[f]]
     IN  hash' = h /\ dentry' = Reap(dentry, h, Held(Procs \ {p}))
  /\ UNCHANGED <<sbVars, stamp, data, jVars, mapped, ctlVars>>

\* Mutant of JournalNames: D and R records do not set the flag.
JournalNamesClean(newTip) ==
  /\ tip' = newTip
  /\ recs' = TRUE
  /\ UNCHANGED <<dirty, marks, allocFloor, cowFloor>>

\* journal_write of a D or an R record.
JournalNames(newTip) ==
  /\ tip' = newTip
  /\ recs' = TRUE /\ dirty' = TRUE
  /\ UNCHANGED <<marks, allocFloor, cowFloor>>

\* yolo_delete_entry: tombstone, D record, unpin and unhash the original.
Unlink(f) ==
  /\ NoCtlRace /\ dirLock = Nil
  /\ hash[f] # Nil /\ Positive(hash[f]) /\ NoOpenOf({hash[f]})
  /\ \E t \in FreeDentries :
       LET h == [hash EXCEPT ![f] = t]
       IN  /\ hash' = h
           /\ dentry' = Reap([dentry EXCEPT ![t] = Tombstone(f),
                                            ![hash[f]] = Unpinned(@)],
                             h, Held(Procs))
  /\ JournalNames([tip EXCEPT ![f] = Gone])
  /\ UNCHANGED <<sem, gen, fdCount, nextIno, stamp, dirLock, data, procVars,
                 ctlVars>>

\* yolo_rename: tombstone at the old name, R record, the displaced dentry
\* unpinned, the moved one pinned with its own backing.  rename(2) of two
\* names of one inode does nothing.
Rename(f, g) ==
  /\ NoCtlRace /\ dirLock = Nil /\ f # g
  /\ hash[f] # Nil /\ Positive(hash[f]) /\ NoOpenOf({hash[f], hash[g]})
  /\ hash[g] # Nil => dentry[hash[g]].vnode # dentry[hash[f]].vnode
  /\ \E t \in FreeDentries :
       LET h == [hash EXCEPT ![f] = t, ![g] = hash[f]]
           moved == [d \in Dentries |->
                      IF d = t THEN Tombstone(f)
                      ELSE IF d = hash[f] THEN [dentry[d] EXCEPT !.name = g, !.pinned = TRUE]
                      ELSE IF d = hash[g] THEN Unpinned(dentry[d])
                      ELSE dentry[d]]
       IN  hash' = h /\ dentry' = Reap(moved, h, Held(Procs))
  /\ JournalNames([tip EXCEPT ![f] = Gone, ![g] = PreimageBacking(hash[f])])
  /\ UNCHANGED <<sem, gen, fdCount, nextIno, stamp, dirLock, data, procVars,
                 ctlVars>>

-----------------------------------------------------------------------------
(* The ioctls of the CLI, all under down_write(staging.sem). *)

\* Mutant of Mark: a travel marker kills no segment.
MarkKeepsTip(tree) ==
  /\ marks' = Append(marks, [tree |-> tree, saw |-> Shows(tree)])
  /\ recs' = FALSE
  /\ cowFloor' = allocFloor
  /\ UNCHANGED <<tip, allocFloor>>

\* A marker is appended: a segment is sealed.
Mark(tree) ==
  /\ marks' = Append(marks, [tree |-> tree, saw |-> Shows(tree)])
  /\ tip' = tree
  /\ recs' = FALSE
  /\ cowFloor' = allocFloor
  /\ UNCHANGED allocFloor

\* Mutant of MaySeal: EBUSY is forgotten.
MaySealBusy == gen < MaxGen

\* EBUSY while a write descriptor is open, EOVERFLOW at U16_MAX.
MaySeal == ~(fdCount > 0) /\ gen < MaxGen

NoCreateRace == "ctlrace" \in Env \/ dirLock = Nil

\* yolo_snapshot_ioctl up to the P record, whose result is not looked at.
SnapshotMark ==
  /\ ctl = "idle" /\ sem = Nil /\ NoCreateRace
  /\ MaySeal
  /\ gen' = gen + 1
  /\ \/ Mark(tip) /\ borrowed' = {}
     \/ "journal" \in Env /\ UNCHANGED <<jVars, borrowed>>
  /\ sem' = Ctl /\ ctl' = "snapshot"
  /\ UNCHANGED <<dirty, fdCount, nextIno, dcVars, data, procVars, target>>

SnapshotDone ==
  /\ ctl = "snapshot"
  /\ dirty' = FALSE
  /\ sem' = Nil /\ ctl' = "idle"
  /\ UNCHANGED <<gen, fdCount, nextIno, dcVars, data, jVars, procVars, target,
                 borrowed>>

\* yolo_staging_quiesce: every dentry is unpinned; a tombstone is dropped, any
\* other dentry stays cached as long as somebody holds it.
Quiesced ==
  LET h == [f \in Files |->
              IF /\ hash[f] \in Held(Procs)
                 /\ Positive(hash[f]) \/ ~dentry[hash[f]].pinned
              THEN hash[f] ELSE Nil]
  IN  [hash |-> h,
       dentry |-> Reap([d \in Dentries |-> Unpinned(dentry[d])], h, Held(Procs))]

\* yolo_view_inject over a quiesced dcache q: a pinned dentry per node of the
\* tree, a staged one with the generation stampGen has for its inode.
Inject(q, tree, stampGen) ==
  LET nodes == {f \in Files : tree[f] # Base(f)}
      free  == {d \in Dentries : q.dentry[d].name = Nil}
  IN  \E at \in [nodes -> free] :
        /\ \A f, g \in nodes : at[f] = at[g] => f = g
        /\ hash' = [f \in Files |-> IF f \in nodes THEN at[f] ELSE q.hash[f]]
        /\ dentry' = Reap(
             [d \in Dentries |->
                IF \E f \in nodes : at[f] = d
                THEN LET f == CHOOSE f \in nodes : at[f] = d
                         b == tree[f]
                     IN  [name |-> f, backing |-> b.kind, pinned |-> TRUE,
                          lower |-> b,
                          vnode |-> CASE b.kind = "base"   -> BaseInode[b.name]
                                      [] b.kind = "staged" -> b.ino
                                      [] OTHER             -> Nil]
                ELSE q.dentry[d]],
             hash', Held(Procs))
        /\ stamp' = [v \in Vnodes |->
             IF \E f \in nodes : tree[f] = Staged(v)
             THEN [gen |-> stampGen[v], ino |-> v] ELSE stamp[v]]

\* yolo_travel_ioctl up to the new view: floor 0 stamps all of it current.
TravelView(g) ==
  /\ ctl = "idle" /\ sem = Nil /\ NoCreateRace
  /\ "handles" \in Env \/ \A p \in Procs : pc[p] = "idle"
  /\ MaySeal
  /\ gen' = gen + 1
  /\ target' = marks[g + 1].tree
  /\ Inject(Quiesced, marks[g + 1].tree, [i \in Inos |-> gen + 1])
  /\ sem' = Ctl /\ ctl' = "travel"
  /\ UNCHANGED <<dirty, fdCount, nextIno, dirLock, data, jVars, procVars,
                 borrowed>>

\* The T record, and the flag only if it was written.
TravelDone ==
  /\ ctl = "travel"
  /\ \/ /\ Mark(target) /\ dirty' = FALSE
        /\ borrowed' = {target[f].ino : f \in Files} \ {0}
     \/ /\ "journal" \in Env /\ UNCHANGED <<jVars, dirty, borrowed>>
  /\ sem' = Nil /\ ctl' = "idle" /\ target' = BaseTree
  /\ UNCHANGED <<gen, fdCount, nextIno, dcVars, data, procVars>>

\* The injection failed: quiesced to the base, the generation stays bumped.
TravelFail ==
  /\ "badinject" \in Env
  /\ ctl = "idle" /\ sem = Nil /\ NoCreateRace
  /\ MaySeal
  /\ gen' = gen + 1
  /\ hash' = Quiesced.hash /\ dentry' = Quiesced.dentry
  /\ UNCHANGED <<sem, dirty, fdCount, nextIno, stamp, dirLock, data, jVars,
                 procVars, ctlVars>>

\* Mutant of LatestGen: the number of markers, not the index of the last.
LatestGenCount == Len(marks)

\* Journal::new: a marker's generation is its index, the phantom's is 0.
LatestGen == Len(marks) - 1

\* Mutant of RestoredStamp: the newest inode of the snapshot reads current.
RestoredStampAtFloor(i, g) == IF i >= cowFloor THEN g
                              ELSE IF g > 0 THEN g - 1 ELSE 0

\* travel_inject_entry: only what no snapshot retains is stamped current.
RestoredStamp(i, g) == IF i > cowFloor THEN g
                       ELSE IF g > 0 THEN g - 1 ELSE 0

\* Unmount and mount: a fresh superblock, then restore_artifact.  RESTORE
\* refuses a floor without a generation.
Remount ==
  /\ ctl = "idle" /\ sem = Nil /\ \A p \in Procs : pc[p] = "idle"
  /\ cowFloor > 0 => LatestGen > 0
  /\ gen' = LatestGen
  /\ dirty' = recs /\ fdCount' = 0 /\ nextIno' = allocFloor
  /\ Inject([hash |-> [f \in Files |-> Nil],
             dentry |-> [d \in Dentries |-> NoDentry]], tip,
            [i \in Inos |-> RestoredStamp(i, LatestGen)])
  /\ borrowed' = {}
  /\ UNCHANGED <<sem, dirLock, data, jVars, procVars, ctl, target>>

-----------------------------------------------------------------------------
ProcStep(p) ==
  \/ \E f \in Files : Walk(p, f) \/ CreateJournal(p, f)
  \/ OpenRead(p) \/ OpenFast(p) \/ OpenStale(p) \/ Recheck(p)
  \/ OpenLower(p) \/ OpenLowerFail(p)
  \/ CowJournal(p) \/ CowFail(p) \/ CowPublish(p)
  \/ CreateFail(p) \/ CreatePublish(p) \/ CreateUnpublished(p)
  \/ Map(p) \/ Close(p)
  \/ \E c \in Data : Write(p, c) \/ WriteMapped(p, c)

NameStep ==
  \/ \E f \in Files : Lookup(f) \/ Evict(f) \/ Unlink(f)
  \/ \E f, g \in Files : Rename(f, g)

CtlStep ==
  \/ SnapshotMark \/ SnapshotDone
  \/ \E g \in 0 .. Len(marks) - 1 : TravelView(g)
  \/ TravelDone \/ TravelFail \/ Remount

Next == (\E p \in Procs : ProcStep(p)) \/ NameStep \/ CtlStep

Spec == Init /\ [][Next]_vars

\* A process inside a system call goes on, and so does an ioctl; an rwsem
\* hands the lock to a waiter it has passed over.
Fairness ==
  /\ WF_vars(SnapshotDone) /\ WF_vars(TravelDone)
  /\ \A p \in Procs :
       /\ WF_vars(OpenLower(p) \/ OpenLowerFail(p))
       /\ WF_vars(CowJournal(p) \/ CowFail(p))
       /\ WF_vars(CowPublish(p))
       /\ WF_vars(CreatePublish(p))
       /\ SF_vars(Recheck(p))

LiveSpec == Spec /\ Fairness

-----------------------------------------------------------------------------
(* Types. *)

PcLabels == {"idle", "found", "reading", "slow", "cow", "publish", "lower",
             "writing", "neither", "create"}

DentryRecs == [name : Files \cup {Nil}, backing : {"base", "staged", "none"},
               pinned : BOOLEAN, lower : Backings, vnode : Vnodes \cup {Nil}]

Trees == [Files -> Backings]

\* The variables hold values of the kernel structures and journal facts they
\* stand for (struct yolo_staging, struct yolo_dentry_info).
TypeOK ==
  /\ sem \in Procs \cup {Nil, Ctl}
  /\ gen \in 0 .. MaxGen /\ dirty \in BOOLEAN
  /\ fdCount \in Int /\ nextIno \in 0 .. MaxIno
  /\ dentry \in [Dentries -> DentryRecs]
  /\ hash \in [Files -> Dentries \cup {Nil}]
  /\ stamp \in [Vnodes -> [gen : 0 .. MaxGen, ino : 0 .. MaxIno]]
  /\ dirLock \in Procs \cup {Nil}
  /\ data \in [Inos -> Contents \cup {Nil}]
  /\ tip \in Trees
  /\ marks \in Seq([tree : Trees, saw : [Files -> Contents \cup {Nil}]])
  /\ recs \in BOOLEAN /\ allocFloor \in 0 .. MaxIno /\ cowFloor \in 0 .. MaxIno
  /\ pc \in [Procs -> PcLabels] /\ dp \in [Procs -> Dentries \cup {Nil}]
  /\ ino \in [Procs -> 0 .. MaxIno] /\ mapped \in [Procs -> 0 .. MaxIno]
  /\ ctl \in {"idle", "snapshot", "travel"}
  /\ target \in Trees /\ borrowed \subseteq Inos

-----------------------------------------------------------------------------
(* Safety. *)

\* The counter that keeps snapshots away from writers counts exactly the
\* write opens in progress and the open write descriptors: an error path that
\* forgot its decrement would make every later snapshot EBUSY, one that
\* decremented twice would let a snapshot past a writer.
FdCountExact == fdCount = Cardinality(Counted)

\* What a snapshot showed when it was taken is what replaying the journal up
\* to it shows for ever after ("the flat inode store already preserves all
\* historical file states").
SnapshotStable == \A n \in DOMAIN marks : Shows(marks[n].tree) = marks[n].saw

\* With nothing in flight the live view is the replay of the live journal, so
\* that review, commit and the next mount see what the agent saw.
ViewIsReplay ==
  ctl = "idle" /\ (\A p \in Procs : pc[p] \notin {"create", "publish"})
    => \A f \in Files : View(f) = Resolve(tip[f])

\* Two write descriptors of one dentry write one store inode: two opens that
\* both found the file stale do not both copy it.
WritersAgree == \A p, q \in Procs :
  pc[p] = "writing" /\ pc[q] = "writing" /\ dp[p] = dp[q] => ino[p] = ino[q]

\* The runtime generation is the index of the last journal marker.
GenIsPosition == ctl = "idle" => gen = Len(marks) - 1

\* A data record after the last marker leaves the dirty flag set, so a
\* snapshot that asks IF_CHANGED is never skipped over one.
DirtyCoversRecords == ctl = "idle" /\ recs => dirty

\* A snapshot or a travel never begins while a write descriptor is open, and
\* the generation moves only under staging.sem.
NoGenChangeUnderWriters ==
  [][gen' # gen => \A p \in Procs : pc[p] \notin {"cow", "publish", "lower", "writing"}]_vars

\* A write, a truncation and a failed open reach no store inode that the tree of a
\* marker names, whatever was opened before it or is being opened beside it.
OnlyFreshWritten ==
  [][\A i \in Inos : data[i] # Nil /\ data'[i] # data[i] =>
       \A n \in DOMAIN marks : \A f \in Files : marks[n].tree[f] # Staged(i)]_vars

\* Unmounting and mounting again loses nothing: same view, same generation,
\* and no staged file of a snapshot becomes writable in place.
RemountInvisible ==
  [][Remount =>
       /\ \A f \in Files : View(f)' = View(f)
       /\ gen' = gen
       /\ recs => dirty'
       /\ \A d \in Dentries : dentry'[d].backing = "staged" /\ IsCurrent(d)'
                                => dentry'[d].lower.ino > cowFloor]_vars

\* An open for write that found its file stale comes to an end, whoever else
\* opens, creates, snapshots or travels: staging.sem is always given back, and
\* its holder never waits for a directory lock whose holder waits for it.
OpenEnds ==
  \A p \in Procs : pc[p] \in {"slow", "cow", "publish", "lower"}
                     ~> pc[p] \in {"writing", "neither", "idle"}

-----------------------------------------------------------------------------
\* What the untouched base shows.
BaseState == [f \in Files |-> IF f \in BaseFiles THEN BaseInode[f] ELSE Nil]

(* The journal view of the state implements a store whose snapshots never   *)
(* change.                                                                  *)
Store == INSTANCE SnapshotStore WITH
           cur <- Shows(tip), saved <- [n \in DOMAIN marks |-> Shows(marks[n].tree)],
           Names <- Files, Values <- Contents, Absent <- Nil, Orig <- BaseState

StoreSpec == Store!Spec
=============================================================================
