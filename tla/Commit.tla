------------------------------ MODULE Commit -------------------------------
(***************************************************************************)
(* Staged work in a tree of directories, and what becomes of it: creates,  *)
(* copies, deletes and renames through the live view, the records they     *)
(* leave, the commit that replays them on the base filesystem step by      *)
(* step, and the abort that forgets them.  Source: user/cmd/commit.rs,     *)
(* user/cmd/abort.rs, user/journal/core.rs; the operations of the live     *)
(* view are kmod/inode.c and kmod/staging.c with kmod/journal.c.           *)
(*                                                                         *)
(* The journal is kept as the two trees the CLI folds it into: the whole   *)
(* of it, and the segment since the last snapshot that a review shows.     *)
(* A crash or a system error may end a commit between any two of its       *)
(* operations; an append may be torn in the middle of a record.            *)
(*                                                                         *)
(* Env admits what the empty Env leaves out because the code breaks on it: *)
(*   "remade"   a directory made anew where the base has one whose entries *)
(*              the tree no longer hides                                   *)
(*   "home"     a rename back to its base path below a parent that is no   *)
(*              longer the base directory, or that was not there before    *)
(*   "retyped"  something moved below a directory that replaces a file     *)
(*   "revive"   a name made anew over a removed directory, entries of which *)
(*              the tree still has                                         *)
(*   "replace"  a rename of what the segment touched to a place in use     *)
(*   "glue"     operations after a torn append                             *)
(*   "race"     operations while a commit has read the journal             *)
(*   "retry"    a commit after one that failed                             *)
(***************************************************************************)
EXTENDS DirTree

CONSTANTS
  Bases,     \* the base filesystems to start from: path -> is a directory
  MaxIno,    \* bound on store inodes
  MaxSteps,  \* bound on the operations through the live view, an emptied journal counted as one
  Env        \* behaviours admitted

\* A directory tree: every parent is a directory of it.
ASSUME CommitAssumption ==
  /\ \A base \in Bases :
       /\ DOMAIN base \subseteq Paths /\ \A p \in DOMAIN base : base[p] \in BOOLEAN
       /\ \A p \in DOMAIN base : Len(p) = 1 \/ (Front(p) \in DOMAIN base /\ base[Front(p)])
  /\ MaxIno \in Nat /\ MaxSteps \in Nat
  /\ Env \subseteq {"remade", "home", "retyped", "replace", "glue", "race", "retry", "revive"}

VARIABLES
  disk,     \* the base filesystem: path -> is it a directory, whose content
  store,    \* the inode store: inode -> is it a directory
  view,     \* the live view: path -> backing, the visible names only
  tree,     \* the fold of the whole journal
  seg,      \* the fold of its last segment
  torn,     \* an unfinished record at the end of the journal
  nextIno, cowFloor, steps,
  pc,       \* the CLI: live (none running), read or reread (after a failure),
            \* apply, clear, truncate, failed (interrupted), stuck (an operation
            \* of the plan failed)
  todo,     \* the operations of the plan still to do
  ensured,  \* parents already created
  start,    \* history: the view at the start of the last segment
  goal      \* history: what the view showed when the commit left it, or Nil

journal == <<tree, seg, torn>>
cli     == <<pc, todo, ensured, goal>>
vars    == <<disk, store, view, journal, nextIno, cowFloor, steps, cli, start>>

-----------------------------------------------------------------------------
Empty == << >>

\* What is on a disk: a directory, or a file with the content of an origin.
Entry(dir, origin) == [dir |-> dir, origin |-> origin]

Scratch == << ".yolofs" >>

DiskOf(base) == Put([p \in DOMAIN base |-> Entry(base[p], Base(p))], Scratch, Entry(TRUE, Gone))

EntryOf(b) == IF b.kind = "base" THEN disk[b.path] ELSE Entry(store[b.ino], b)
Shown(v)   == [p \in DOMAIN v |-> EntryOf(v[p])]

IsDir(p) == p = << >> \/ (p \in DOMAIN view /\ EntryOf(view[p]).dir)

ViewAt(v, p) == IF p \in DOMAIN v THEN v[p] ELSE Gone

\* The journal as the CLI reads it: a last line without its newline counts.
ReadTree == Apply(tree, torn)

Init ==
  /\ \E base \in Bases : disk = DiskOf(base)
  /\ store = Empty /\ view = Restored(Empty, disk)
  /\ tree = Empty /\ seg = Empty /\ torn = << >>
  /\ nextIno = 0 /\ cowFloor = 0 /\ steps = 0
  /\ pc = "live" /\ todo = << >> /\ ensured = {}
  /\ start = view /\ goal = Nil

-----------------------------------------------------------------------------
(* What the code breaks on, told from the tree.                            *)

\* What a disk has at a path once the renames are in place, before anything
\* is written: a directory brings its entries, but for those moved out of it.
Placed(t, d) ==
  LET moved == {t[p].new.path : p \in {q \in InPlan(t) : t[q].new.kind = "base"}}
      lies[p \in Paths \cup {<< >>}] ==
        IF p = << >> THEN Base(p)
        ELSE LET own   == At(t, p).new
                 up    == lies[Front(p)]
                 lower == Append(up.path, Last(p))
             IN  IF p \in InPlan(t) /\ own.kind = "base" THEN own
                 ELSE IF up # Gone /\ lower \in DOMAIN d /\ lower \notin moved
                      THEN Base(lower) ELSE Gone
  IN  lies

\* A store directory over a base directory, an entry of which shows again.
Remade(t, d, st) ==
  \E p \in InPlan(t) :
    /\ t[p].new.kind = "staged" /\ st[t[p].new.ino]
    /\ \E q \in Paths : Front(q) = p /\ At(t, q).new = Nil /\ Placed(t, d)[q] # Gone

\* A base file that has to be gone before something is moved below its name.
Retyped(t, d) ==
  \E p \in InPlan(t) :
    /\ t[p].new.kind = "base"
    /\ \E q \in Ancestors(p) : LET under == Placed(t, d)[q].path
                                IN  under \in DOMAIN d /\ ~d[under].dir

-----------------------------------------------------------------------------
(* The live view.                                                          *)

MayWork == /\ pc = "live" \/ ("race" \in Env /\ pc = "read")
           /\ steps < MaxSteps
           /\ torn = << >> \/ "glue" \in Env

\* Where an append is torn; without operations behind it one place is enough.
Tears(line) == IF "glue" \in Env THEN 1 .. Len(line) - 1 ELSE {2}

\* journal_write, then the change of the view; a torn append fails the
\* operation and leaves a fragment that lacks a field.
Logged(line, v, st) ==
  /\ steps' = steps + 1
  /\ LET t == Apply(tree, Glue(torn, line))
     IN  \/ /\ tree' = t /\ seg' = Apply(seg, Glue(torn, line)) /\ torn' = << >>
            /\ view' = v
            /\ "remade" \in Env \/ ~Remade(t, disk, st)
            /\ "retyped" \in Env \/ ~Retyped(t, disk)
         \/ /\ \E k \in Tears(line) : torn' = Glue(torn, SubSeq(line, 1, k))
            /\ UNCHANGED <<tree, seg, view>>
  /\ UNCHANGED <<disk, cowFloor, cli, start>>

\* What the tree still has below a removed directory would show again.
Wakes(p) ==
  \E q \in BelowIn(tree, p) :
    Present(tree[q].new) /\ \A a \in Ancestors(q) : IsStrictPrefix(p, a) => At(tree, a).new # Gone

\* Mutant of Create: the inode allocated is the next one.
CreateEarly(p, dir) ==
  /\ p \notin DOMAIN view /\ IsDir(Front(p)) /\ nextIno < MaxIno
  /\ "revive" \in Env \/ ~Wakes(p)
  /\ nextIno' = nextIno + 1 /\ store' = Put(store, nextIno, dir)
  /\ Logged(StageLine(p, nextIno, Gone), Put(view, p, Staged(nextIno)), store')

\* create, mkdir (yolo_stage_inode).
Create(p, dir) ==
  /\ p \notin DOMAIN view /\ IsDir(Front(p)) /\ nextIno < MaxIno
  /\ "revive" \in Env \/ ~Wakes(p)
  /\ nextIno' = nextIno + 1 /\ store' = Put(store, nextIno', dir)
  /\ Logged(StageLine(p, nextIno', Gone), Put(view, p, Staged(nextIno')), store')

\* The first write after a snapshot copies (yolo_do_cow).
Copy(p) ==
  /\ p \in DOMAIN view /\ ~IsDir(p) /\ nextIno < MaxIno
  /\ view[p].kind = "base" \/ view[p].ino <= cowFloor
  /\ nextIno' = nextIno + 1 /\ store' = Put(store, nextIno', FALSE)
  /\ Logged(StageLine(p, nextIno', view[p]), Put(view, p, Staged(nextIno')), store')

\* unlink, rmdir (yolo_delete_entry): nothing looks whether a directory is empty.
DeleteEntry(p) ==
  /\ p \in DOMAIN view
  /\ Logged(DeleteLine(p, view[p]), Without(view, p), store)
  /\ UNCHANGED <<store, nextIno>>

\* What the rename would have to carry fits in the bounds, and nothing out of
\* bounds comes into them.
Fits(src, dst) ==
  /\ \A q \in BelowIn(view, src) \cup BelowIn(tree, src) : Len(Rebase(q, src, dst)) <= Depth
  /\ \A q \in {src} \cup BelowIn(view, src) :
       Len(q) = Depth /\ view[q].kind = "base" => BelowIn(disk, view[q].path) = {}

\* Where the segment's start had p's name, in the directory p is in now.
WasAt(p) ==
  IF Len(p) = 1 THEN {p}
  ELSE {Append(o, Last(p)) : o \in {q \in DOMAIN start : start[q] = ViewAt(view, Front(p))}}

\* A way home the drop of a self-redirect gets wrong: the parent is another
\* directory now, or what comes home was not in that place when the segment began.
Home(src, dst) ==
  /\ view[src] = Base(dst)
  /\ \/ Len(dst) > 1 /\ view[Front(dst)] # Base(Front(dst))
     \/ \A h \in WasAt(dst) : ViewAt(start, h) # Base(dst)

\* The old side the moved node carries hides what was at dst's place.
Replaces(src, dst) ==
  view[src] # Base(dst) /\ At(seg, src).old # Nil /\ WasAt(dst) \cap DOMAIN start # {}

\* rename(2) of a file onto a file, of a directory onto a directory, whose
\* entries go with it: nothing looks whether there are any.
Rename(src, dst) ==
  /\ src \in DOMAIN view /\ IsDir(Front(dst)) /\ ~IsPrefix(src, dst) /\ ~IsPrefix(dst, src)
  /\ dst \in DOMAIN view => IsDir(src) = IsDir(dst)
  /\ Fits(src, dst)
  /\ "home" \in Env \/ ~Home(src, dst)
  /\ "replace" \in Env \/ ~Replaces(src, dst)
  /\ LET dstPre == IF dst \in DOMAIN view THEN view[dst] ELSE Gone
         rest   == Put(Without(Without(view, dst), src), dst, view[src])
     IN  Logged(RenameLine(dst, src, view[src], dstPre), Over(Carried(view, src, dst), rest), store)
  /\ UNCHANGED <<store, nextIno>>

\* A snapshot starts a new segment.
Snapshot ==
  /\ MayWork /\ pc = "live" /\ torn = << >> /\ seg # Empty
  /\ seg' = Empty /\ start' = view /\ cowFloor' = nextIno
  /\ UNCHANGED <<disk, store, view, tree, torn, nextIno, steps, cli>>

-----------------------------------------------------------------------------
(* yolo commit.                                                            *)

\* The journal is read and the plan is made.
CommitRead ==
  /\ pc = "live" \/ ("retry" \in Env /\ pc \in {"failed", "stuck"})
  /\ IntoPlan(ReadTree) # << >>
  /\ pc' = (IF pc = "live" THEN "read" ELSE "reread")
  /\ todo' = IntoPlan(ReadTree) /\ ensured' = {}
  /\ UNCHANGED <<disk, store, view, journal, nextIno, cowFloor, steps, start, goal>>

\* The view is the base again; until the journal is emptied nobody asks for the
\* last segment, and it is forgotten here.
LeaveView == view' = Restored(Empty, disk) /\ start' = view' /\ seg' = Empty /\ cowFloor' = 0

\* restore_base_view: a write descriptor makes it fail with nothing changed.
CommitRestore ==
  /\ pc \in {"read", "reread"}
  /\ \/ /\ pc' = "apply" /\ LeaveView /\ todo' = todo
        /\ goal' = IF pc = "read" THEN Shown(view) ELSE goal
     \/ /\ pc' = (IF pc = "read" THEN "live" ELSE "failed")
        /\ todo' = << >> /\ UNCHANGED <<view, seg, start, cowFloor, goal>>
  /\ UNCHANGED <<disk, store, tree, torn, nextIno, steps, ensured>>

Blocked(p) == \E q \in Ancestors(p) \cap DOMAIN disk : ~disk[q].dir

\* ensure_parent, with its cache.
WithParents(p) ==
  IF Front(p) \in ensured THEN disk
  ELSE Over(disk, [q \in Ancestors(p) |-> Entry(TRUE, Gone)])

\* rename(2) after remove_existing.
Moved(d, dst, src) ==
  Over(Carried(d, src, dst), Put(Without(Without(d, dst), src), dst, d[src]))

\* One operation of the plan done: the disk and the store it leaves.
Done(d, st) ==
  /\ disk' = d /\ store' = st
  /\ todo' = Tail(todo) /\ ensured' = ensured \cup {Front(Head(todo).dst)}
  /\ UNCHANGED <<pc, goal>>

\* An operation that fails ends the commit.
Fails(d) ==
  /\ disk' = d /\ pc' = "stuck" /\ todo' = << >> /\ ensured' = {}
  /\ UNCHANGED <<store, goal>>

HasParent(d, p) == Len(p) = 1 \/ (Front(p) \in DOMAIN d /\ d[Front(p)].dir)

\* apply_rename: the destination is removed before the source is looked at.
ApplyMove(dst, src) ==
  IF Front(dst) \notin ensured /\ Blocked(dst) THEN Fails(disk)
  ELSE LET d == Without(WithParents(dst), dst)
       IN  IF src \in DOMAIN d /\ HasParent(d, dst) THEN Done(Moved(d, dst, src), store)
                                                    ELSE Fails(d)

\* apply_stage: a directory is merged into one that is there; anything else
\* at the destination is removed, and the file leaves the store.
ApplyStage(p, i) ==
  IF i \notin DOMAIN store \/ (Front(p) \notin ensured /\ Blocked(p)) THEN Fails(disk)
  ELSE LET d == WithParents(p)
       IN  IF ~HasParent(d, p) THEN Fails(d)
           ELSE IF ~store[i] THEN Done(Put(Without(d, p), p, Entry(FALSE, Staged(i))),
                                       Restrict(store, DOMAIN store \ {i}))
           ELSE IF p \in DOMAIN d /\ d[p].dir THEN Done(d, store)
           ELSE Done(Put(Without(d, p), p, Entry(TRUE, Gone)), store)

\* apply_delete: what is already gone is fine.
ApplyDelete(p) ==
  /\ disk' = Without(disk, p) /\ todo' = Tail(todo)
  /\ UNCHANGED <<store, ensured, pc, goal>>

ApplyOp ==
  /\ pc = "apply" /\ todo # << >>
  /\ LET op == Head(todo)
     IN  CASE op.op = "move"  -> ApplyMove(op.dst, op.src)
           [] op.op = "stage" -> ApplyStage(op.dst, op.ino)
           [] OTHER           -> ApplyDelete(op.dst)
  /\ UNCHANGED <<view, journal, nextIno, cowFloor, steps, start>>

\* A system error, a signal or a crash between two steps of the CLI.
Interrupt ==
  /\ pc \in {"apply", "clear", "truncate"}
  /\ pc' = "failed" /\ todo' = << >> /\ ensured' = {}
  /\ UNCHANGED <<disk, store, view, journal, nextIno, cowFloor, steps, start, goal>>

CommitDone ==
  /\ pc = "apply" /\ todo = << >> /\ pc' = "clear" /\ ensured' = {}
  /\ UNCHANGED <<disk, store, view, journal, nextIno, cowFloor, steps, todo, start, goal>>

-----------------------------------------------------------------------------
(* clear_artifact, the end of commit and of abort.                         *)

ClearStore ==
  /\ pc = "clear" /\ pc' = "truncate" /\ store' = Empty
  /\ UNCHANGED <<disk, view, journal, nextIno, cowFloor, steps, todo, ensured, start, goal>>

\* (Inode numbers are not taken again here, so that they name contents.)
Truncate ==
  /\ pc = "truncate" /\ pc' = "live"
  /\ tree' = Empty /\ torn' = << >> /\ LeaveView /\ goal' = Nil
  /\ steps' = IF steps < MaxSteps THEN steps + 1 ELSE steps
  /\ UNCHANGED <<disk, store, nextIno, todo, ensured>>

\* yolo abort: the base view first, then the artifact.
Abort ==
  /\ pc \in {"live", "failed", "stuck"} /\ ReadTree # Empty
  /\ pc' = "clear" /\ LeaveView /\ goal' = Nil
  /\ UNCHANGED <<disk, store, tree, torn, nextIno, steps, todo, ensured>>

-----------------------------------------------------------------------------
Work == /\ MayWork
        /\ \/ \E p \in Paths : Create(p, TRUE) \/ Create(p, FALSE) \/ Copy(p) \/ DeleteEntry(p)
           \/ \E src, dst \in Paths : Rename(src, dst)

Next == \/ Work \/ Snapshot
        \/ CommitRead \/ CommitRestore \/ ApplyOp \/ CommitDone \/ Interrupt
        \/ ClearStore \/ Truncate \/ Abort

Spec == Init /\ [][Next]_vars

-----------------------------------------------------------------------------
Unstaged == {Nil, Gone} \cup {Base(p) : p \in Paths}
Sides    == Unstaged \cup {Staged(i) : i \in 1 .. nextIno}
IsTree(t) == DOMAIN t \subseteq Paths /\ \A p \in DOMAIN t : t[p].old \in Sides /\ t[p].new \in Sides

\* Paths of any length.
Anywhere == Seq(Range(Names))

\* A path of the base, the scratch directory, or a path in a scratch file.
OnDisk(p) == \/ p \in Anywhere \ {<< >>} \/ p = Scratch
             \/ LET inside == SubSeq(p, 3, Len(p))
                IN  /\ Len(p) > 1 /\ p[2] \in Nat /\ inside \in Anywhere
                    /\ p = Temp(p[2]) \o inside

\* Types; the view and the journal name no inode the store never had, and the
\* disk stays a tree of directories through every operation of a commit.
TypeOK ==
  /\ nextIno \in 0 .. MaxIno /\ cowFloor \in 0 .. nextIno
  /\ DOMAIN store \subseteq 1 .. nextIno /\ \A i \in DOMAIN store : store[i] \in BOOLEAN
  /\ DOMAIN view \subseteq Paths /\ \A p \in DOMAIN view : view[p] \in Sides \ {Nil, Gone}
  /\ IsTree(tree) /\ IsTree(seg)
  /\ pc \in {"live", "read", "reread", "apply", "clear", "truncate", "failed", "stuck"}
  /\ \A p \in DOMAIN disk : OnDisk(p) /\ HasParent(disk, p)

\* What a travel, a remount or a commit rebuilds from the journal is what the
\* mount shows (inode.c changes the view and the journal together; tree.rs).
ReplayIsView == pc = "live" => Restored(ReadTree, disk) = view

\* Names and contents on disk after the last operation of a plan are those the
\* view showed ("applies all operations to the base filesystem", staging.md).
Same(e, f) == e.dir = f.dir /\ (~e.dir => e.origin = f.origin)
CommitExact ==
  pc = "clear" /\ goal # Nil =>
    /\ DOMAIN disk \cap Paths = DOMAIN goal
    /\ \A p \in DOMAIN goal : Same(disk[p], goal[p])

\* No operation of a plan fails by itself: its parents can be made, its
\* source is there (plan.rs: saves, places, then the writers).
PlanRuns == pc # "stuck"

\* Wherever a commit stops, every file it was to bring is on the disk, in a
\* scratch file or in the store.
NothingLost ==
  pc \in {"apply", "failed", "stuck", "clear"} /\ goal # Nil =>
    \A p \in DOMAIN goal : goal[p].dir
       \/ goal[p].origin \in {disk[q].origin : q \in DOMAIN disk} \cup {Staged(i) : i \in DOMAIN store}

\* Whatever differs between the start of the range and now is on a line of the
\* review: at its name, at a directory above it, or as the source of a rename.
Accounts(c, p) == \/ IsPrefix(c, p)
                  \/ /\ seg[c].new.kind = "base"
                     /\ \E q \in Prefixes(p) : ViewAt(start, q) = seg[c].new
ReviewComplete ==
  pc = "live" /\ torn = << >> =>
    \A p \in Paths : ViewAt(start, p) # ViewAt(view, p) =>
      \E c \in Changes(seg) : Accounts(c, p)

\* "multi.txt existed in base, so it must classify as modified, not added"
\* (tests/cli/test_status.rs:49, review.rs classify).
AddedIsNew ==
  pc = "live" /\ torn = << >> =>
    \A p \in Changes(seg) : Kind(seg[p]) = "added" => WasAt(p) \cap DOMAIN start = {}
=============================================================================
