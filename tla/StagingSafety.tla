--------------------------- MODULE StagingSafety ---------------------------
(***************************************************************************)
(* Why snapshots stay what they were and the live view is the replay of    *)
(* the journal: theorems about Staging for every instance whose base names *)
(* have inodes of their own and whose environment keeps to the discipline  *)
(* a theorem names.                                                        *)
(*                                                                         *)
(* None of the properties is inductive: that a write cannot reach a        *)
(* snapshot depends on the stamp of the file's inode, the stamp on no two  *)
(* dentries sharing an inode, this on the journal tree naming each file    *)
(* once and on a lookup that misses finding the base, and this on the view *)
(* being the replay.  SafeInv is their conjunction, with what is true      *)
(* while a create or a copy is between its S record and its publication    *)
(* and while a travel is between its view and its T record.                *)
(***************************************************************************)
EXTENDS StagingProofs

\* The tree the dcache shows: the target of a travel before its T record.
ViewTree == IF ctl = "travel" THEN target ELSE tip

\* Processes between an S record and the publication of its dentry.
InFlight == {p \in Procs : pc[p] \in {"create", "publish"}}

\* The dentry a lookup of f finds.
At(f) == dentry[hash[f]]

Hashed == {f \in Files : hash[f] # Nil}

Awaited(f)  == \E p \in Procs : pc[p] = "create" /\ dp[p] = hash[f]
Unsettled(f) == \E p \in InFlight : dp[p] = hash[f]

\* Who may be doing what: nothing outlives a descriptor, a create holds its
\* directory, and an ioctl has the counted opens to itself.
Quiet ==
  /\ \A p \in Procs : mapped[p] = 0
  /\ \A p \in Procs : pc[p] = "idle" => dp[p] = Nil
  /\ \A p \in Procs : pc[p] = "create" => dirLock = p
  /\ ctl # "idle" => \A p \in Procs : pc[p] \in {"idle", "found", "slow", "reading"}
  /\ ctl = "travel" => \A p \in Procs : pc[p] # "slow"

\* A hashed dentry has the name it is hashed under, and an open or a create
\* works on a hashed one.
Reached ==
  /\ \A f \in Hashed : At(f).name = f
  /\ \A p \in Procs : p \in Opening \/ pc[p] = "create" => \E f \in Files : hash[f] = dp[p]
  /\ \A p \in Procs : pc[p] = "create" => ~Positive(dp[p])

\* A staged dentry is pinned and its inode's stamp has its store inode; a
\* dentry that may be evicted is a plain entry of the base.
Shaped == \A f \in Hashed :
  /\ At(f).backing = "staged" =>
       At(f).pinned /\ At(f).lower = Staged(stamp[At(f).vnode].ino)
  /\ ~At(f).pinned /\ ~Awaited(f) => At(f).lower = Base(f)

\* The view is the replay, but for the names between record and publication.
Replayed ==
  /\ \A f \in Files \ Hashed : ViewTree[f] = Base(f)
  /\ \A f \in Hashed : ~Unsettled(f) => ViewTree[f] = At(f).lower
  /\ \A p \in InFlight : tip[dentry[dp[p]].name] = Staged(ino[p])

\* A tree names a file once.
Injective(tree) == \A f, g \in Files : tree[f] = tree[g] /\ tree[f] # Gone => f = g

\* A tree's store inodes exist and are at most top.
Below(tree, top) == \A f \in Files :
  tree[f].kind = "staged" => tree[f].ino <= top /\ data[tree[f].ino] # Nil

TreesKept ==
  /\ Injective(tip) /\ Below(tip, allocFloor)
  /\ \A n \in 1 .. Len(marks) : Injective(marks[n].tree) /\ Below(marks[n].tree, cowFloor)
  /\ ctl = "travel" => \E n \in 1 .. Len(marks) : target = marks[n].tree
  /\ cowFloor <= allocFloor /\ allocFloor <= nextIno
  /\ \A p \in InFlight : ino[p] > cowFloor /\ ino[p] <= allocFloor

\* No two hashed files share an inode, and none will with a base file looked
\* up or a create published next.
Apart ==
  /\ \A f, g \in Hashed : At(f).lower # Gone /\ At(g).lower # Gone /\ At(f).vnode = At(g).vnode
                            => f = g
  /\ \A f \in Hashed, g \in Files, x \in BaseFiles :
       At(f).lower # Gone /\ At(f).vnode = BaseInode[x] /\ ViewTree[g] = Base(x) => g = f
  /\ \A f \in Hashed : At(f).lower # Gone /\ At(f).vnode \in Inos => At(f).vnode <= allocFloor
  /\ \A f \in Hashed, p \in InFlight : At(f).lower # Gone => At(f).vnode # ino[p]

\* A store inode written in place: one no marker's tree has, or one of the tree
\* travelled to last, for as long as no snapshot has been taken of it again.
Fresh(i) == i > cowFloor \/ i \in borrowed

\* A stamp is never of a generation to come, and a file that reads current
\* has a store inode written in place.
Stamped ==
  /\ \A v \in Vnodes : stamp[v].gen <= gen
  /\ ctl # "travel" => \A f \in Hashed : IsCurrent(hash[f]) => Fresh(At(f).lower.ino)

\* A copy in progress is of a file that is not current; an open in place and a
\* write descriptor are of one that is.
Writing ==
  /\ \A p \in Procs : pc[p] \in {"cow", "publish"} => ~IsCurrent(dp[p])
  /\ \A p \in Procs : pc[p] = "lower" => IsCurrent(dp[p])
  /\ \A p \in Procs : pc[p] = "writing" =>
       /\ Fresh(ino[p]) /\ dentry[dp[p]].lower = Staged(ino[p])
       /\ \A f \in Hashed : hash[f] = dp[p] => IsCurrent(dp[p])

SafeInv == Quiet /\ Reached /\ Shaped /\ Replayed /\ TreesKept /\ Apart /\ Stamped /\ Writing

\* Without writes after a travel: nothing borrowed is ever opened for writing.
Unborrowed ==
  \A p \in Procs : pc[p] \in {"slow", "cow", "publish", "lower", "writing", "neither"}
                     => borrowed = {}

-----------------------------------------------------------------------------
\* The discipline: no error of a journal append or an injection, no name
\* operation inside an open or an ioctl, no mapping, no hard links.
Disciplined ==
  /\ Env \subseteq {"travelwrite", "mode3"}
  /\ \A f, g \in BaseFiles : BaseInode[f] = BaseInode[g] => f = g

Inv == TypeInv /\ LockInv /\ FdInv /\ PositionInv /\ SafeInv

\* What the discipline excludes.
LEMMA Excluded ==
  ASSUME Disciplined
  PROVE  /\ "nsrace" \notin Env /\ "ctlrace" \notin Env /\ "handles" \notin Env
         /\ "mmap" \notin Env /\ "journal" \notin Env /\ "badinject" \notin Env
         /\ "nomem" \notin Env /\ "inowrap" \notin Env
BY DEF Disciplined

\* The types the steps below need.
LEMMA Types ==
  ASSUME ConstAssumption, TypeInv
  PROVE  /\ pc \in [Procs -> PcLabels] /\ dp \in [Procs -> Dentries \cup {Nil}]
         /\ ino \in [Procs -> 0 .. MaxIno] /\ mapped \in [Procs -> 0 .. MaxIno]
         /\ hash \in [Files -> Dentries \cup {Nil}]
         /\ \A f \in Hashed : hash[f] \in Dentries /\ At(f) \in DentryRecs
         /\ \A f \in Hashed : At(f).backing = "staged" \/ At(f).lower # Gone => At(f).vnode \in Vnodes
         /\ \A p \in Procs : pc[p] # "idle" => dp[p] \in Dentries /\ dentry[dp[p]].name # Nil
         /\ \A p \in Procs : p \in Opening => Positive(dp[p])
         /\ \A p \in InFlight : ino[p] \in Inos
         /\ Nil \notin Procs /\ Nil \notin Dentries /\ Nil \notin Files /\ Ctl \notin Procs
         /\ gen \in Nat /\ cowFloor \in Nat /\ allocFloor \in Nat /\ nextIno \in Nat /\ MaxIno \in Nat
         /\ stamp \in [Vnodes -> [gen : 0 .. MaxGen, ino : 0 .. MaxIno]]
<1>1. \A f \in Hashed : hash[f] \in Dentries /\ At(f) \in DentryRecs
          /\ (At(f).backing = "staged" \/ At(f).lower # Gone => At(f).vnode \in Vnodes)
  BY DEF TypeInv, DcOK, GoodSlots, GoodDentry, Hashed, At
<1>2. \A p \in Procs : pc[p] # "idle" => dp[p] \in Dentries /\ dentry[dp[p]].name # Nil
  BY DEF TypeInv, GoodRefs, GoodRef
<1>3. \A p \in Procs : p \in Opening => Positive(dp[p])
  BY DEF TypeInv, GoodRefs, GoodRef, Opening
<1>4. \A p \in InFlight : ino[p] \in Inos
  BY DEF TypeInv, GoodRefs, GoodRef, InFlight
<1>5. gen \in Nat /\ cowFloor \in Nat /\ allocFloor \in Nat /\ nextIno \in Nat
  BY DEF TypeInv, SbOK, JournalOK, ConstAssumption
<1> QED BY <1>1, <1>2, <1>3, <1>4, <1>5 DEF TypeInv, ProcOK, DcOK, ConstAssumption

\* What Writing says of one process.
Writer(p) ==
  /\ pc[p] \in {"cow", "publish"} => ~IsCurrent(dp[p])
  /\ pc[p] = "lower" => IsCurrent(dp[p])
  /\ pc[p] = "writing" =>
       /\ Fresh(ino[p]) /\ dentry[dp[p]].lower = Staged(ino[p])
       /\ \A f \in Hashed : hash[f] = dp[p] => IsCurrent(dp[p])

\* A process that does not move stays a good writer while its dentry, the
\* stamps, the generation and the floor stay.
LEMMA WriterKept ==
  ASSUME NEW q \in Procs, Writer(q),
         pc'[q] = pc[q] /\ dp'[q] = dp[q] /\ ino'[q] = ino[q],
         UNCHANGED <<hash, stamp, gen, cowFloor, borrowed>>,
         pc[q] # "idle" => dentry'[dp[q]] = dentry[dp[q]]
  PROVE  Writer(q)'
BY DEF Writer, IsCurrent, Fresh, Hashed

\* A step of one process that is neither between its record and its
\* publication nor about to be: the dcache keeps what is hashed or held, the
\* journal and the generation stay, and no store object disappears.
LEMMA ProcessMoves ==
  ASSUME ConstAssumption, TypeInv, SafeInv, NEW p \in Procs,
         pc[p] \notin {"create", "publish"}, pc'[p] \notin {"create", "publish"},
         pc' \in [Procs -> PcLabels], 
         \A q \in Procs : q # p => pc'[q] = pc[q] /\ dp'[q] = dp[q] /\ ino'[q] = ino[q],
         UNCHANGED <<mapped, dirLock, hash, stamp, gen, jVars, ctlVars>>,
         \A f \in Hashed : dentry'[hash[f]] = dentry[hash[f]],
         \A q \in Procs : q # p /\ pc[q] # "idle" => dentry'[dp[q]] = dentry[dp[q]],
         nextIno' \in Nat, nextIno' >= nextIno,
         \A i \in Inos : data[i] # Nil => data'[i] # Nil,
         pc'[p] = "idle" => dp'[p] = Nil,
         ctl # "idle" => pc'[p] \in {"idle", "found", "slow", "reading"},
         ctl = "travel" => pc'[p] # "slow",
         pc'[p] \in {"found", "slow", "cow", "lower"} => \E f \in Files : hash[f] = dp'[p],
         Writer(p)'
  PROVE  SafeInv'
<1>0. UNCHANGED <<tip, marks, allocFloor, cowFloor, ctl, target, borrowed>>
  BY DEF jVars, ctlVars
<1>1. /\ InFlight' = InFlight /\ p \notin InFlight /\ Hashed' = Hashed
      /\ UNCHANGED ViewTree /\ (\A f \in Hashed : At(f)' = At(f))
  BY <1>0 DEF InFlight, Hashed, ViewTree, At
<1>2. \A q \in InFlight : q \in Procs /\ q # p /\ dp'[q] = dp[q] /\ ino'[q] = ino[q] 
                            /\ dentry'[dp[q]] = dentry[dp[q]]
  BY <1>1 DEF InFlight
<1>3. \A f \in Files : (Awaited(f)' <=> Awaited(f)) /\ (Unsettled(f)' <=> Unsettled(f))
  BY <1>1, <1>2 DEF Awaited, Unsettled
<1>4. Quiet'
  BY <1>0, Types DEF SafeInv, Quiet
<1>5. Reached'
  <2>1. \A f \in Hashed' : At(f).name' = f
    BY <1>1 DEF SafeInv, Reached
  <2>2. \A q \in Procs : q \in Opening' \/ pc'[q] = "create" => \E f \in Files : hash'[f] = dp'[q]
    BY DEF SafeInv, Reached, Opening
  <2>3. \A q \in Procs : pc'[q] = "create" => ~Positive(dp[q])'
    BY DEF SafeInv, Reached, Positive
  <2> QED BY <2>1, <2>2, <2>3 DEF Reached
<1>6. Shaped'
  BY <1>1, <1>3 DEF SafeInv, Shaped, Hashed
<1>7. Replayed'
  BY <1>0, <1>1, <1>2, <1>3 DEF SafeInv, Replayed, Hashed
<1>8. TreesKept'
  <2>1. \A tree \in Trees, top \in Nat : Below(tree, top) => Below(tree, top)'
    BY BackingKinds DEF Below, Trees
  <2>2. tip \in Trees /\ \A n \in 1 .. Len(marks) : marks[n].tree \in Trees
    BY DEF TypeInv, JournalOK, GoodTree
  <2> QED BY <1>0, <1>1, <1>2, <2>1, <2>2, Types DEF SafeInv, TreesKept, Injective
<1>9. Apart'
  BY <1>0, <1>1, <1>2 DEF SafeInv, Apart
<1>10. Stamped'
  <2>1. \A f \in Hashed : IsCurrent(hash[f])' <=> IsCurrent(hash[f])
    BY <1>1 DEF IsCurrent
  <2>2. \A i : Fresh(i)' <=> Fresh(i)
    BY <1>0 DEF Fresh
  <2> QED BY <1>0, <1>1, <2>1, <2>2 DEF SafeInv, Stamped
<1>11. \A q \in Procs : q # p => Writer(q)'
  BY <1>0, WriterKept DEF SafeInv, Writing, Writer
<1>12. Writing'
  BY <1>11 DEF Writing, Writer
<1> QED BY <1>4, <1>5, <1>6, <1>7, <1>8, <1>9, <1>10, <1>12 DEF SafeInv

\* A process that lets go of its dentry leaves what is hashed or held.
LEMMA DoneKeeps ==
  ASSUME ConstAssumption, TypeInv, NEW p \in Procs, Done(p)
  PROVE  /\ \A f \in Hashed : dentry'[hash[f]] = dentry[hash[f]]
         /\ \A q \in Procs : q # p /\ pc[q] # "idle" => dentry'[dp[q]] = dentry[dp[q]]
         /\ pc' \in [Procs -> PcLabels] /\ pc'[p] = "idle" /\ dp'[p] = Nil
         /\ \A q \in Procs : q # p => pc'[q] = pc[q] /\ dp'[q] = dp[q] /\ ino'[q] = ino[q]
         /\ UNCHANGED <<hash, stamp, dirLock, mapped>>
<1>1. \A f \in Hashed : dentry'[hash[f]] = dentry[hash[f]]
  BY Types DEF Done, Reap, Hashed
<1>2. \A q \in Procs : q # p /\ pc[q] # "idle" => dp[q] \in Dentries /\ dp[q] \in Held(Procs \ {p})
  BY Types DEF Held
<1>3. \A q \in Procs : q # p /\ pc[q] # "idle" => dentry'[dp[q]] = dentry[dp[q]]
  BY <1>2 DEF Done, Reap
<1> QED BY <1>1, <1>3, Types DEF Done, PcLabels

\* The truncation of an open in place.
LEMMA TruncateKeeps ==
  ASSUME ConstAssumption, TypeInv, NEW p \in Procs, MayTruncate(p)
  PROVE  \A i \in Inos : data[i] # Nil => data'[i] # Nil
BY DEF MayTruncate, TypeInv, DataOK, ConstAssumption, Contents

\* A store inode that could not be used takes nothing from the others.
LEMMA AllocFailKeeps ==
  ASSUME ConstAssumption, Disciplined, TypeInv, AllocFail
  PROVE  /\ nextIno' \in Nat /\ nextIno' >= nextIno
         /\ \A i \in Inos : data[i] # Nil => data'[i] = data[i]
<1>1. nextIno' \in Nat /\ nextIno' >= nextIno
  BY Excluded DEF AllocFail, TypeInv, SbOK, ConstAssumption
<1>2. \A i \in Inos : data[i] # Nil => data'[i] = data[i]
  BY DEF AllocFail, TypeInv, DataOK
<1> QED BY <1>1, <1>2

\* Looking a file up and the choice between the two open paths.
LEMMA OpenKeeps ==
  ASSUME ConstAssumption, Disciplined, TypeInv, LockInv, SafeInv, NEW p \in Procs,
         \/ \E f \in Files : Walk(p, f)
         \/ OpenRead(p) \/ OpenFast(p) \/ OpenStale(p) \/ Recheck(p)
  PROVE  SafeInv'
<1>0. UNCHANGED <<mapped, dirLock, hash, stamp, gen, jVars, ctlVars, dentry, nextIno, data, ino>>
  BY DEF Walk, OpenRead, OpenFast, OpenStale, Recheck, sbVars, dcVars, procVars
<1>1. ASSUME NEW label \in {"found", "reading", "slow", "cow", "lower"},
             pc[p] \in {"idle", "found", "slow"}, pc' = [pc EXCEPT ![p] = label],
             \A q \in Procs : q # p => dp'[q] = dp[q],
             label # "reading" => \E f \in Files : hash[f] = dp'[p],
             ctl # "idle" => label \in {"found", "reading"},
             label = "cow" => ~IsCurrent(dp'[p]), label = "lower" => IsCurrent(dp'[p])
      PROVE  SafeInv'
  <2>1. Writer(p)'
    BY <1>0, <1>1, Types DEF Writer, IsCurrent
  <2>2. pc' \in [Procs -> PcLabels] /\ pc'[p] = label /\ \A q \in Procs : q # p => pc'[q] = pc[q]
    BY <1>1, Types DEF PcLabels
  <2> QED BY <1>0, <1>1, <2>1, <2>2, ProcessMoves, Types
<1>2. pc[p] \in {"found", "slow"} => \E f \in Files : hash[f] = dp[p]
  BY DEF SafeInv, Reached, Opening
<1>3. sem = Nil => ctl = "idle"
  BY DEF LockInv, ConstAssumption
<1>4. ASSUME NEW f \in Files, Walk(p, f) PROVE SafeInv'
  BY <1>1, <1>4, Types DEF Walk
<1>5. CASE OpenRead(p)
  BY <1>1, <1>5 DEF OpenRead, Goto
<1>6. CASE OpenFast(p)
  BY <1>1, <1>2, <1>3, <1>6 DEF OpenFast, Goto
<1>7. CASE OpenStale(p)
  BY <1>1, <1>2, <1>3, <1>7 DEF OpenStale, Goto
<1>8. CASE Recheck(p)
  BY <1>1, <1>2, <1>3, <1>8 DEF Recheck, Goto
<1> QED BY <1>4, <1>5, <1>6, <1>7, <1>8

\* Opening the lower file of a current dentry, and its failure.
LEMMA LowerKeeps ==
  ASSUME ConstAssumption, Disciplined, TypeInv, SafeInv, NEW p \in Procs,
         OpenLower(p) \/ OpenLowerFail(p)
  PROVE  SafeInv'
<1>0. pc[p] = "lower" /\ UNCHANGED <<hash, stamp, dirLock, gen, nextIno, mapped, jVars, ctlVars>>
  BY DEF OpenLower, OpenLowerFail, Done, sbVars, dcVars
<1>1. ctl = "idle" /\ IsCurrent(dp[p])
  BY <1>0, Types DEF SafeInv, Quiet, Writing, TypeInv, CtlOK
<1>2. \A i \in Inos : data[i] # Nil => data'[i] # Nil
  BY TruncateKeeps DEF OpenLower, OpenLowerFail
<1>3. CASE OpenLower(p)
  <2>0. PICK label \in {"writing", "neither"} : pc' = [pc EXCEPT ![p] = label]
    BY <1>3 DEF OpenLower, Opened, Goto
  <2>1. /\ pc' \in [Procs -> PcLabels] /\ pc'[p] = label
        /\ \A q \in Procs : q # p => pc'[q] = pc[q] /\ dp'[q] = dp[q] /\ ino'[q] = ino[q]
        /\ dp'[p] = dp[p] /\ ino'[p] = dentry[dp[p]].lower.ino /\ UNCHANGED dentry
    BY <1>3, <2>0, Types DEF OpenLower, PcLabels, dcVars
  <2>2. PICK f \in Files : hash[f] = dp[p]
    BY <1>0 DEF SafeInv, Reached, Opening
  <2>3. f \in Hashed /\ dentry[dp[p]] = At(f)
    BY <1>0, <2>2, Types DEF Hashed, At
  <2>4. dentry[dp[p]].lower = Staged(dentry[dp[p]].lower.ino)
    <3>1. dentry[dp[p]].lower = Staged(stamp[At(f).vnode].ino)
      BY <1>1, <2>3 DEF SafeInv, Shaped, IsCurrent
    <3>2. \A i : Staged(i).ino = i
      BY DEF Staged
    <3> QED BY <3>1, <3>2
  <2>5. Fresh(dentry[dp[p]].lower.ino)
    BY <1>1, <2>2, <2>3 DEF SafeInv, Stamped
  <2>6. Fresh(dentry[dp[p]].lower.ino)' /\ IsCurrent(dp[p])'
    BY <1>0, <1>1, <2>1, <2>5 DEF Fresh, IsCurrent, jVars, ctlVars
  <2>7. Writer(p)'
    BY <2>0, <2>1, <2>4, <2>6 DEF Writer
  <2> QED BY <1>0, <1>1, <1>2, <2>0, <2>1, <2>7, ProcessMoves, Types
<1>4. CASE OpenLowerFail(p)
  <2>1. Done(p)
    BY <1>4 DEF OpenLowerFail
  <2>2. Writer(p)'
    BY <2>1, DoneKeeps DEF Writer
  <2> QED BY <1>0, <1>1, <1>2, <2>1, <2>2, DoneKeeps, ProcessMoves, Types
<1> QED BY <1>3, <1>4

\* A copy that fails, a close, and a create that leaves nothing.
LEMMA ExitKeeps ==
  ASSUME ConstAssumption, Disciplined, TypeInv, SafeInv, NEW p \in Procs,
         CowFail(p) \/ Close(p) \/ CreateFail(p)
  PROVE  SafeInv'
<1>1. CASE CowFail(p) \/ Close(p)
  <2>1. Done(p) /\ pc[p] \notin {"create", "publish"} /\ UNCHANGED <<gen, jVars, ctlVars>>
    BY <1>1 DEF CowFail, Close
  <2>2. /\ nextIno' \in Nat /\ nextIno' >= nextIno
        /\ \A i \in Inos : data[i] # Nil => data'[i] # Nil
    BY <1>1, AllocFailKeeps, Types DEF CowFail, Close
  <2>3. Writer(p)'
    BY <2>1, DoneKeeps DEF Writer
  <2> QED BY <2>1, <2>2, <2>3, DoneKeeps, ProcessMoves
<1>2. CASE CreateFail(p)
  <2>1. /\ nextIno' \in Nat /\ nextIno' >= nextIno
        /\ \A i \in Inos : data[i] # Nil => data'[i] # Nil
    BY <1>2, AllocFailKeeps DEF CreateFail
  <2>2. pc[p] = "idle" /\ UNCHANGED <<dcVars, procVars, gen, jVars, ctlVars>>
    BY <1>2 DEF CreateFail
  <2>3. UNCHANGED <<dentry, hash, stamp, dirLock, pc, dp, ino, mapped>> /\ dp[p] = Nil
    BY <2>2 DEF dcVars, procVars, SafeInv, Quiet
  <2>4. Writer(p)'
    BY <2>2, <2>3 DEF Writer
  <2> QED BY <2>1, <2>2, <2>3, <2>4, ProcessMoves, Types
<1> QED BY <1>1, <1>2

\* A write through a descriptor; there are no mappings.
LEMMA FileKeeps ==
  ASSUME ConstAssumption, Disciplined, TypeInv, SafeInv, NEW p \in Procs,
         Map(p) \/ \E c \in Data : Write(p, c) \/ WriteMapped(p, c)
  PROVE  SafeInv'
<1>1. PICK c \in Data : Write(p, c)
  BY Excluded DEF Map, WriteMapped, SafeInv, Quiet
<1>2. pc[p] = "writing" /\ UNCHANGED <<sbVars, dcVars, jVars, procVars, ctlVars>>
  BY <1>1 DEF Write
<1>3. UNCHANGED <<dentry, hash, stamp, dirLock, pc, dp, ino, mapped, gen, nextIno, jVars, ctlVars>>
  BY <1>2 DEF sbVars, dcVars, procVars
<1>4. \A i \in Inos : data[i] # Nil => data'[i] # Nil
  BY <1>1 DEF Write, TypeInv, DataOK, ConstAssumption, Contents
<1>5. Writer(p)
  BY DEF SafeInv, Writing, Writer
<1>6. Writer(p)'
  BY <1>3, <1>5, WriterKept DEF jVars, ctlVars
<1>7. ctl = "idle"
  BY <1>2 DEF SafeInv, Quiet
<1> QED BY <1>2, <1>3, <1>4, <1>6, <1>7, ProcessMoves, Types

\* An open or a create has one name, the one its dentry is hashed under, and
\* while it is in flight no ioctl is in progress.
LEMMA NameOf ==
  ASSUME ConstAssumption, TypeInv, LockInv, SafeInv, NEW p \in Procs,
         p \in Opening \/ pc[p] = "create"
  PROVE  /\ dentry[dp[p]].name \in Hashed /\ hash[dentry[dp[p]].name] = dp[p]
         /\ \A g \in Files : hash[g] = dp[p] => g = dentry[dp[p]].name
         /\ pc[p] \in {"cow", "publish", "create"} => ctl = "idle"
<1>1. pc[p] # "idle" /\ dp[p] \in Dentries /\ dp[p] # Nil
  BY Types DEF Opening
<1>2. \A g \in Files : hash[g] = dp[p] => g \in Hashed /\ g = dentry[dp[p]].name
  BY <1>1 DEF SafeInv, Reached, Hashed, At
<1>3. \E g \in Files : hash[g] = dp[p]
  BY DEF SafeInv, Reached
<1> QED BY <1>2, <1>3 DEF SafeInv, Quiet

\* Two processes in flight have different names and store inodes.
LEMMA FlightsApart ==
  ASSUME ConstAssumption, TypeInv, LockInv, SafeInv, NEW p \in InFlight, NEW q \in InFlight, p # q
  PROVE  dp[p] # dp[q] /\ dentry[dp[p]].name # dentry[dp[q]].name /\ ino[p] # ino[q]
         /\ pc[p] # pc[q]
<1>0. p \in Procs /\ q \in Procs /\ (p \in Opening \/ pc[p] = "create")
         /\ (q \in Opening \/ pc[q] = "create") /\ ino[p] \in Inos
  BY Types DEF InFlight, Opening
<1>1. pc[p] # pc[q]
  BY DEF InFlight, LockInv, SafeInv, Quiet
<1>2. dp[p] # dp[q]
  BY <1>0, <1>1, Types DEF InFlight, SafeInv, Reached, Opening
<1>3. dentry[dp[p]].name # dentry[dp[q]].name
  BY <1>0, <1>2, NameOf
<1>4. /\ tip[dentry[dp[p]].name] = Staged(ino[p]) /\ tip[dentry[dp[q]].name] = Staged(ino[q])
      /\ dentry[dp[p]].name \in Files /\ dentry[dp[q]].name \in Files
  BY <1>0, NameOf DEF SafeInv, Replayed, Hashed
<1>5. Staged(ino[p]) # Gone
  BY DEF Staged, Gone
<1> QED BY <1>1, <1>2, <1>3, <1>4, <1>5 DEF SafeInv, TreesKept, Injective

\* An S record of a new store inode for name f by process p: the tree of the
\* journal still names every file once.
LEMMA RecordKeepsTrees ==
  ASSUME ConstAssumption, TypeInv, SafeInv, ctl = "idle", NEW p \in Procs, NEW f \in Files,
         NEW c, c # Nil, Alloc(nextIno + 1, c), JournalStage(f, nextIno + 1),
         ino' = [ino EXCEPT ![p] = nextIno + 1], pc'[p] \in {"create", "publish"},
         \A q \in Procs : q # p => pc'[q] = pc[q], UNCHANGED ctlVars
  PROVE  /\ TreesKept'
         /\ nextIno + 1 \in Inos /\ nextIno + 1 > allocFloor /\ allocFloor' = nextIno + 1
         /\ \A i \in Inos : data[i] # Nil => data'[i] = data[i]
         /\ tip'[f] = Staged(nextIno + 1) /\ \A g \in Files : g # f => tip'[g] = tip[g]
<1> DEFINE i == nextIno + 1
<1>1. i \in Inos /\ i > allocFloor /\ allocFloor' = i /\ nextIno' = i /\ i > cowFloor
  BY Types DEF Alloc, JournalStage, Inos, SafeInv, TreesKept
<1>2. \A k \in Inos : data[k] # Nil => data'[k] = data[k]
  BY DEF Alloc, TypeInv, DataOK
<1>3. data'[i] # Nil
  BY <1>1 DEF Alloc, TypeInv, DataOK
<1>4. tip'[f] = Staged(i) /\ \A g \in Files : g # f => tip'[g] = tip[g]
  BY DEF JournalStage, TypeInv, JournalOK, GoodTree, Trees
<1>5. \A g \in Files : tip[g] \in Backings /\ (tip[g].kind = "staged" => tip[g].ino \in Inos)
  BY BackingKinds DEF TypeInv, JournalOK, GoodTree, Trees
<1>6. \A g \in Files : tip[g] # Staged(i)
  BY <1>1, <1>5, Types DEF SafeInv, TreesKept, Below, Staged
<1>7. Staged(i).kind = "staged" /\ Staged(i).ino = i
  BY DEF Staged
<1>8. UNCHANGED <<marks, cowFloor, ctl, target>>
  BY DEF JournalStage, ctlVars
<1> HIDE DEF i
<1>9. Injective(tip)'
  BY <1>4, <1>6 DEF SafeInv, TreesKept, Injective
<1>10. Below(tip, allocFloor)'
  <2> SUFFICES ASSUME NEW g \in Files, tip'[g].kind = "staged"
               PROVE  tip'[g].ino <= i /\ data'[tip'[g].ino] # Nil
    BY <1>1 DEF Below
  <2>1. CASE g = f
    BY <1>1, <1>3, <1>4, <1>7, <2>1 DEF Inos
  <2>2. CASE g # f
    <3>1. tip[g].kind = "staged" /\ tip'[g] = tip[g]
      BY <1>4, <2>2
    <3>2. tip[g].ino \in Inos /\ tip[g].ino <= allocFloor /\ data[tip[g].ino] # Nil
      BY <1>5, <3>1 DEF SafeInv, TreesKept, Below
    <3> QED BY <1>1, <1>2, <3>1, <3>2, Types DEF Inos
  <2> QED BY <2>1, <2>2
<1>11. ASSUME NEW n \in 1 .. Len(marks)
       PROVE  (Injective(marks[n].tree) /\ Below(marks[n].tree, cowFloor))'
  <2>1. \A g \in Files : marks[n].tree[g].kind = "staged" => marks[n].tree[g].ino \in Inos
    BY BackingKinds DEF TypeInv, JournalOK, GoodTree, Trees
  <2> QED BY <1>2, <1>8, <2>1 DEF SafeInv, TreesKept, Injective, Below
<1>12. \A q \in InFlight' : ino'[q] > cowFloor /\ ino'[q] <= i
  <2> SUFFICES ASSUME NEW q \in InFlight' PROVE ino'[q] > cowFloor /\ ino'[q] <= i
    OBVIOUS
  <2>1. CASE q = p
    BY <1>1, <2>1, Types DEF i, Inos
  <2>2. CASE q # p
    <3>1. q \in InFlight /\ ino'[q] = ino[q] /\ ino[q] \in Inos
      BY <2>2, Types DEF InFlight
    <3> QED BY <1>1, <3>1, Types DEF SafeInv, TreesKept, Inos
  <2> QED BY <2>1, <2>2
<1>13. TreesKept'
  BY <1>1, <1>8, <1>9, <1>10, <1>11, <1>12, Types DEF SafeInv, TreesKept, Inos
<1> QED BY <1>1, <1>2, <1>4, <1>13 DEF i

\* What the journal tree says of a settled name is what its dentry has: a
\* file with content.
LEMMA SettledContent ==
  ASSUME ConstAssumption, TypeInv, SafeInv, ctl = "idle", NEW f \in Hashed,
         ~Unsettled(f), At(f).lower # Gone
  PROVE  /\ tip[f] = At(f).lower
         /\ ContentOf(At(f).lower) \in Contents /\ ContentOf(At(f).lower) # Nil
         /\ Resolve(At(f).lower) = At(f).lower
<1>1. tip[f] = At(f).lower /\ f \in Files
  BY DEF SafeInv, Replayed, ViewTree, Hashed
<1>2. tip[f] \in Backings /\ (tip[f].kind = "base" => tip[f].name \in BaseFiles)
  <2>1. GoodDentry(At(f))
    BY Types DEF TypeInv, DcOK, GoodSlots, At
  <2> QED BY <1>1, <2>1 DEF GoodDentry, TypeInv, JournalOK, GoodTree, Trees
<1>3. CASE tip[f].kind = "base"
  <2>1. ContentOf(tip[f]) \in BaseInodes
    BY <1>2, <1>3 DEF ContentOf, BaseInodes
  <2> QED BY <1>1, <1>2, <2>1 DEF Contents, ConstAssumption, Resolve
<1>4. CASE tip[f].kind = "staged"
  <2>1. data[tip[f].ino] # Nil /\ data[tip[f].ino] \in Contents \cup {Nil}
    BY <1>1, <1>2, <1>4, BackingKinds DEF SafeInv, TreesKept, Below, TypeInv, DataOK
  <2> QED BY <1>1, <1>4, <2>1 DEF ContentOf, Resolve
<1> QED BY <1>1, <1>2, <1>3, <1>4, BackingKinds

\* The file a copy is made of is settled.
LEMMA CopySettled ==
  ASSUME ConstAssumption, TypeInv, LockInv, SafeInv, NEW p \in Procs, pc[p] = "cow"
  PROVE  LET f == dentry[dp[p]].name
         IN  f \in Hashed /\ hash[f] = dp[p] /\ ~Unsettled(f) /\ At(f).lower # Gone /\ ctl = "idle"
<1> DEFINE f == dentry[dp[p]].name
<1>1. p \in Opening
  BY DEF Opening
<1>2. f \in Hashed /\ hash[f] = dp[p] /\ ctl = "idle"
  BY <1>1, NameOf
<1>3. Positive(dp[p]) /\ At(f).lower # Gone
  BY <1>1, <1>2, Types DEF Positive, At
<1> HIDE DEF f
<1>4. ~Unsettled(f)
  BY <1>2, <1>3 DEF Unsettled, InFlight, LockInv, SafeInv, Reached
<1> QED BY <1>2, <1>3, <1>4 DEF f

\* The record of a copy.
LEMMA CowRecordKeeps ==
  ASSUME ConstAssumption, Disciplined, TypeInv, LockInv, SafeInv, NEW p \in Procs, CowJournal(p)
  PROVE  SafeInv'
<1>0. PICK f, i : f = dentry[dp[p]].name /\ i = nextIno + 1
  OBVIOUS
<1>1. f \in Hashed /\ hash[f] = dp[p] /\ ~Unsettled(f) /\ At(f).lower # Gone /\ ctl = "idle"
  BY <1>0, CopySettled DEF CowJournal
<1>2. PICK c : c \in {Empty, ContentOf(At(f).lower)} /\ Alloc(i, c)
  BY <1>0, <1>1 DEF CowJournal, At
<1>3. c # Nil /\ f \in Files
  BY <1>1, <1>2, SettledContent DEF ConstAssumption, Contents, Hashed
<1>4. /\ JournalStage(f, i) /\ ino' = [ino EXCEPT ![p] = i] /\ pc' = [pc EXCEPT ![p] = "publish"]
      /\ UNCHANGED <<gen, hash, dentry, stamp, dirLock, dp, mapped, ctlVars, cowFloor, borrowed, ctl, target>>
      /\ pc[p] = "cow"
  BY <1>0 DEF CowJournal, Goto, JournalStage, dcVars, ctlVars
<1>5. pc'[p] = "publish" /\ pc' \in [Procs -> PcLabels] /\ \A q \in Procs : q # p => pc'[q] = pc[q] /\ ino'[q] = ino[q]
  BY <1>4, Types DEF PcLabels
<1>6. /\ TreesKept' /\ i \in Inos /\ i > allocFloor /\ allocFloor' = i /\ ino'[p] = i
      /\ tip'[f] = Staged(i) /\ \A g \in Files : g # f => tip'[g] = tip[g]
  BY <1>1, <1>2, <1>3, <1>4, <1>5, <1>0, RecordKeepsTrees, Types
<1>7. /\ Hashed' = Hashed /\ Hashed \subseteq Files /\ \A g \in Hashed : At(g)' = At(g)
      /\ InFlight' = InFlight \cup {p}
      /\ \A g \in Files : (Awaited(g)' <=> Awaited(g)) /\ (Unsettled(g) => Unsettled(g)')
  BY <1>4, <1>5 DEF Hashed, At, InFlight, Awaited, Unsettled
<1>8. Unsettled(f)' /\ ViewTree = tip /\ ViewTree' = tip'
  BY <1>1, <1>4, <1>7 DEF Unsettled, ViewTree
<1>9. Quiet' /\ Reached'
  BY <1>1, <1>4, <1>5, <1>7 DEF SafeInv, Quiet, Reached, Positive, Opening
<1>10. Shaped'
  BY <1>4, <1>7 DEF SafeInv, Shaped
<1>11. Replayed'
  <2>1. \A q \in InFlight' : tip'[dentry'[dp'[q]].name] = Staged(ino'[q])
    <3> SUFFICES ASSUME NEW q \in InFlight, q # p PROVE tip'[dentry[dp[q]].name] = Staged(ino[q])
      BY <1>0, <1>4, <1>5, <1>6, <1>7 DEF InFlight
    <3>1. dp[q] # dp[p] /\ (q \in Opening \/ pc[q] = "create") /\ q \in Procs
      BY <1>1 DEF Unsettled, InFlight, Opening
    <3>2. dentry[dp[q]].name # f /\ dentry[dp[q]].name \in Files
      BY <1>1, <3>1, NameOf DEF Hashed
    <3> QED BY <1>6, <3>2 DEF SafeInv, Replayed
  <2> QED BY <1>1, <1>3, <1>6, <1>7, <1>8, <2>1 DEF SafeInv, Replayed, Hashed
<1>12. Apart'
  <2>1. \A x \in BaseFiles : Staged(i) # Base(x)
    BY DEF Staged, Base
  <2>2. \A g \in Hashed : At(g).lower # Gone /\ At(g).vnode \in Inos => At(g).vnode <= i /\ At(g).vnode # i
    BY <1>6, Types DEF SafeInv, Apart, Inos
  <2>3. \A g \in Hashed : At(g).lower # Gone => At(g).vnode # i
    BY <1>6, <2>2
  <2>4. \A q \in InFlight' : ino'[q] = i \/ (q \in InFlight /\ ino'[q] = ino[q])
    BY <1>5, <1>6, <1>7 DEF InFlight
  <2> QED BY <1>6, <1>7, <1>8, <2>1, <2>2, <2>3, <2>4 DEF SafeInv, Apart
<1>13. Stamped'
  BY <1>4, <1>7 DEF SafeInv, Stamped, IsCurrent, Fresh
<1>14. \A q \in Procs : q # p => Writer(q)'
  BY <1>4, <1>5, WriterKept DEF SafeInv, Writing, Writer
<1>15. Writer(p)'
  BY <1>4, <1>5 DEF SafeInv, Writing, Writer, IsCurrent
<1> QED BY <1>6, <1>9, <1>10, <1>11, <1>12, <1>13, <1>14, <1>15 DEF SafeInv, Writing, Writer

\* The publication of a new backing for name f, by the create or the copy
\* that recorded it; v is the inode the dentry has from now on.
LEMMA PublishKeeps ==
  ASSUME ConstAssumption, Disciplined, TypeInv, LockInv, SafeInv,
         NEW p \in InFlight, NEW f \in Hashed, hash[f] = dp[p], ctl = "idle",
         NEW v, \/ pc[p] = "publish" /\ v = At(f).vnode /\ dirLock = Nil
                \/ pc[p] = "create" /\ v = ino[p],
         dentry' = Published(p, v),
         stamp' = [stamp EXCEPT ![v] = [gen |-> gen, ino |-> ino[p]]],
         pc' \in [Procs -> PcLabels], pc'[p] \in {"found", "writing", "neither", "idle"},
         pc'[p] = "idle" => dp'[p] = Nil,
         pc'[p] \in {"found", "writing"} => dp'[p] = dp[p],
         pc'[p] = "writing" => ino'[p] = ino[p],
         \A q \in Procs : q # p => pc'[q] = pc[q] /\ dp'[q] = dp[q] /\ ino'[q] = ino[q],
         dirLock' = dirLock \/ pc[p] = "create",
         UNCHANGED <<mapped, hash, gen, nextIno, data, jVars, ctlVars>>
  PROVE  SafeInv'
<1>0. PICK i \in Inos : i = ino[p]
  BY Types
<1>1. /\ p \in Procs /\ (p \in Opening \/ pc[p] = "create")
      /\ dp[p] \in Dentries /\ f \in Files /\ f = dentry[dp[p]].name
      /\ UNCHANGED <<tip, marks, allocFloor, cowFloor, ctl, target, borrowed>>
  BY Types DEF InFlight, Opening, Hashed, jVars, ctlVars, SafeInv, Reached, At
<1>2. v \in Vnodes /\ (pc[p] = "publish" => At(f).lower # Gone)
  <2>1. pc[p] = "publish" => At(f).lower # Gone
    BY <1>1, Types DEF Opening, Positive, At
  <2> QED BY <1>0, <2>1, Types DEF Vnodes
<1>3. /\ dentry'[dp[p]] = [name |-> f, backing |-> "staged", pinned |-> TRUE,
                          lower |-> Staged(i), vnode |-> v]
      /\ \A d \in Dentries : d # dp[p] => dentry'[d] = dentry[d]
  BY <1>0, <1>1 DEF Published, TypeInv, DcOK, GoodSlots
<1>4. /\ stamp'[v] = [gen |-> gen, ino |-> i]
      /\ \A w \in Vnodes : w # v => stamp'[w] = stamp[w]
  BY <1>0, <1>2, Types
<1>5. /\ Hashed' = Hashed /\ Hashed \subseteq Files
      /\ At(f)' = [name |-> f, backing |-> "staged", pinned |-> TRUE, lower |-> Staged(i), vnode |-> v]
      /\ \A g \in Hashed : g # f => hash[g] # dp[p] /\ At(g)' = At(g)
  <2>1. \A g \in Hashed : g # f => hash[g] # dp[p] /\ hash[g] \in Dentries
    BY <1>1, Types DEF SafeInv, Reached, At
  <2> QED BY <1>3, <2>1 DEF Hashed, At
<1>6. \A g \in Hashed : g # f /\ At(g).lower # Gone => At(g).vnode # v
  BY <1>0, <1>2 DEF SafeInv, Apart
<1>7. \A g \in Hashed : g # f /\ At(g).backing = "staged" =>
        /\ At(g).vnode \in Vnodes /\ At(g).vnode # v /\ stamp'[At(g).vnode] = stamp[At(g).vnode]
  <2>1. \A w : Staged(w) # Gone
    BY DEF Staged, Gone
  <2>2. \A g \in Hashed : g # f /\ At(g).backing = "staged" => At(g).lower # Gone
    BY <2>1 DEF SafeInv, Shaped
  <2> QED BY <1>4, <1>6, <2>2, Types
<1>8. \A g \in Hashed : g # f => (IsCurrent(hash[g])' <=> IsCurrent(hash[g]))
  BY <1>5, <1>7 DEF IsCurrent, At
<1>9. IsCurrent(hash[f])'
  BY <1>3, <1>4, Types DEF IsCurrent
<1>10. InFlight' = InFlight \ {p} /\ \A q \in InFlight' : q \in Procs /\ dp'[q] = dp[q] /\ ino'[q] = ino[q]
                /\ dp[q] # dp[p] /\ dp[q] \in Dentries /\ dentry'[dp[q]] = dentry[dp[q]]
  <2>1. \A q \in InFlight : q # p => dp[q] # dp[p] /\ dp[q] \in Dentries
    BY FlightsApart, Types DEF InFlight
  <2> QED BY <1>3, <2>1 DEF InFlight
<1>11. \A g \in Hashed : g # f => (Awaited(g)' <=> Awaited(g)) /\ (Unsettled(g)' <=> Unsettled(g))
  BY <1>5, <1>10 DEF Awaited, Unsettled, InFlight
<1>12. Quiet'
  BY <1>1, Types DEF SafeInv, Quiet
<1>13. Reached'
  <2>1. \A g \in Hashed' : At(g).name' = g
    BY <1>5 DEF SafeInv, Reached
  <2>2. \A q \in Procs : q \in Opening' \/ pc'[q] = "create" => \E g \in Files : hash'[g] = dp'[q]
    BY <1>1 DEF SafeInv, Reached, Opening
  <2>3. \A q \in Procs : pc'[q] = "create" => ~Positive(dp[q])'
    <3> SUFFICES ASSUME NEW q \in Procs, pc'[q] = "create" PROVE ~Positive(dp[q])'
      OBVIOUS
    <3>1. q # p /\ q \in InFlight' /\ pc[q] = "create"
      BY DEF InFlight
    <3> QED BY <1>10, <3>1 DEF SafeInv, Reached, Positive
  <2> QED BY <2>1, <2>2, <2>3 DEF Reached
<1>14. Shaped'
  <2>1. \A g \in Hashed : g # f => (At(g).backing = "staged" => At(g).pinned /\ At(g).lower = Staged(stamp'[At(g).vnode].ino))
    BY <1>7 DEF SafeInv, Shaped
  <2>2. \A g \in Hashed : g # f => (~At(g).pinned /\ ~Awaited(g)' => At(g).lower = Base(g))
    BY <1>11 DEF SafeInv, Shaped
  <2>3. stamp'[v].ino = i
    BY <1>4
  <2> QED BY <1>5, <2>1, <2>2, <2>3 DEF Shaped
<1>15. Replayed'
  <2>1. ViewTree' = tip /\ ViewTree = tip
    BY <1>1 DEF ViewTree
  <2>2. tip[f] = Staged(i)
    BY <1>0, <1>1 DEF SafeInv, Replayed
  <2>3. \A q \in InFlight' : tip'[dentry'[dp'[q]].name] = Staged(ino'[q])
    BY <1>1, <1>10 DEF SafeInv, Replayed
  <2> QED BY <1>5, <1>11, <2>1, <2>2, <2>3 DEF SafeInv, Replayed
<1>16. TreesKept'
  BY <1>1, <1>10 DEF SafeInv, TreesKept, Injective, Below
<1>17. Apart'
  <2>1. ViewTree' = ViewTree
    BY <1>1 DEF ViewTree
  <2>2. \A g, h \in Hashed : At(g).lower' # Gone /\ At(h).lower' # Gone /\ At(g).vnode' = At(h).vnode' => g = h
    BY <1>5, <1>6 DEF SafeInv, Apart
  <2>3. \A g \in Hashed, h \in Files, x \in BaseFiles :
          At(g).lower' # Gone /\ At(g).vnode' = BaseInode[x] /\ ViewTree[h] = Base(x) => h = g
    <3>1. \A x \in BaseFiles : pc[p] = "create" => v # BaseInode[x]
      BY <1>0 DEF ConstAssumption, BaseInodes, Inos
    <3>2. \A h \in Files, x \in BaseFiles : v = BaseInode[x] /\ ViewTree[h] = Base(x) => h = f
      BY <1>2, <3>1 DEF SafeInv, Apart, InFlight
    <3> QED BY <1>5, <3>2 DEF SafeInv, Apart
  <2>4. \A g \in Hashed : At(g).lower' # Gone /\ At(g).vnode' \in Inos => At(g).vnode' <= allocFloor
    BY <1>0, <1>2, <1>5 DEF SafeInv, Apart, TreesKept
  <2>5. \A g \in Hashed, q \in InFlight' : At(g).lower' # Gone => At(g).vnode' # ino[q]
    <3>1. \A q \in InFlight' : v # ino[q]
      BY <1>0, <1>2, <1>10, FlightsApart DEF SafeInv, Apart
    <3> QED BY <1>5, <1>10, <3>1 DEF SafeInv, Apart
  <2> QED BY <1>1, <1>5, <1>10, <2>1, <2>2, <2>3, <2>4, <2>5 DEF Apart
<1>18. Stamped'
  <2>1. \A w \in Vnodes : stamp'[w].gen <= gen
    BY <1>2, <1>4, Types DEF SafeInv, Stamped
  <2>2. Fresh(i) /\ \A k : Fresh(k)' <=> Fresh(k)
    BY <1>0, <1>1 DEF SafeInv, TreesKept, Fresh
  <2>3. At(f).lower'.ino = i
    BY <1>5 DEF Staged
  <2>4. \A g \in Hashed : IsCurrent(hash[g])' => Fresh(At(g).lower'.ino)
    BY <1>1, <1>5, <1>8, <2>2, <2>3 DEF SafeInv, Stamped
  <2> QED BY <1>1, <1>5, <2>1, <2>2, <2>4 DEF Stamped
<1>19. ASSUME NEW q \in Procs, q # p PROVE Writer(q)'
  <2>1. pc'[q] = pc[q] /\ dp'[q] = dp[q] /\ ino'[q] = ino[q]
    BY <1>19
  <2>2. CASE pc[q] \in {"cow", "publish", "lower"}
    <3>1. q \in Opening /\ dp[q] # dp[p]
      BY <1>1, <1>19, <2>2, Types DEF Opening, LockInv, SafeInv, Writing, Writer, Reached, InFlight
    <3>2. dentry[dp[q]].name \in Hashed /\ hash[dentry[dp[q]].name] = dp[q] /\ dentry[dp[q]].name # f
      BY <1>1, <3>1, NameOf
    <3>3. IsCurrent(dp[q])' <=> IsCurrent(dp[q])
      BY <1>8, <2>1, <3>2
    <3> QED BY <2>1, <2>2, <3>3 DEF SafeInv, Writing, Writer
  <2>3. CASE pc[q] = "writing"
    <3>1. dp[q] # dp[p] /\ dp[q] \in Dentries
      <4>1. dp[q] \in Dentries /\ dentry[dp[q]].lower = Staged(ino[q]) /\ Staged(ino[q]) # Gone
        BY <2>3, Types DEF SafeInv, Writing, Staged, Gone
      <4>2. CASE pc[p] = "create"
        BY <1>1, <4>1, <4>2 DEF SafeInv, Reached, Positive
      <4>3. CASE pc[p] = "publish"
        BY <1>1, <2>3, <4>1, <4>3 DEF SafeInv, Writing
      <4> QED BY <4>1, <4>2, <4>3 DEF InFlight
    <3>2. \A g \in Hashed : hash[g] = dp[q] => g # f
      BY <3>1
    <3>3. dentry'[dp[q]] = dentry[dp[q]]
      BY <1>3, <3>1
    <3>4. \A k : Fresh(k)' <=> Fresh(k)
      BY <1>1 DEF Fresh
    <3>5. \A g \in Hashed : hash[g] = dp[q] => IsCurrent(dp[q])'
      BY <1>8, <2>1, <2>3, <3>2 DEF SafeInv, Writing
    <3> QED BY <1>5, <2>1, <2>3, <3>3, <3>4, <3>5 DEF SafeInv, Writing, Writer
  <2> QED BY <2>1, <2>2, <2>3 DEF Writer
<1>20. Writer(p)'
  <2>1. pc'[p] = "writing" => Fresh(ino[p])' /\ IsCurrent(dp[p])' /\ dentry'[dp[p]].lower = Staged(ino'[p])
    BY <1>0, <1>1, <1>3, <1>9 DEF SafeInv, TreesKept, Fresh
  <2> QED BY <2>1 DEF Writer
<1> QED BY <1>12, <1>13, <1>14, <1>15, <1>16, <1>17, <1>18, <1>19, <1>20 DEF SafeInv, Writing, Writer

\* The publication of a copy, and that of a create.
LEMMA CowPublishKeeps ==
  ASSUME ConstAssumption, Disciplined, TypeInv, LockInv, SafeInv, NEW p \in Procs, CowPublish(p)
  PROVE  SafeInv'
<1>1. PICK f, v : f = dentry[dp[p]].name /\ v = dentry[dp[p]].vnode
  OBVIOUS
<1>2. p \in Opening /\ p \in InFlight /\ pc[p] = "publish" /\ dirLock = Nil
  BY DEF CowPublish, Opening, InFlight
<1>3. f \in Hashed /\ hash[f] = dp[p] /\ ctl = "idle" /\ v = At(f).vnode
  BY <1>1, <1>2, NameOf DEF At
<1>4. /\ dentry' = Published(p, v) /\ stamp' = [stamp EXCEPT ![v] = [gen |-> gen, ino |-> ino[p]]]
      /\ UNCHANGED <<mapped, hash, dirLock, gen, nextIno, data, jVars, ctlVars>>
  BY <1>1 DEF CowPublish
<1>5. \/ \E label \in {"writing", "neither"} : pc' = [pc EXCEPT ![p] = label] /\ UNCHANGED <<dp, ino>>
      \/ /\ pc' = [pc EXCEPT ![p] = "idle"] /\ dp' = [dp EXCEPT ![p] = Nil]
         /\ ino' = [ino EXCEPT ![p] = 0]
  BY DEF CowPublish, Opened, Goto
<1>6. /\ pc' \in [Procs -> PcLabels] /\ pc'[p] \in {"writing", "neither", "idle"}
      /\ pc'[p] = "idle" => dp'[p] = Nil
      /\ pc'[p] = "writing" => dp'[p] = dp[p] /\ ino'[p] = ino[p]
      /\ \A q \in Procs : q # p => pc'[q] = pc[q] /\ dp'[q] = dp[q] /\ ino'[q] = ino[q]
  BY <1>5, Types DEF PcLabels
<1> QED BY <1>2, <1>3, <1>4, <1>6, PublishKeeps

LEMMA CreatePublishKeeps ==
  ASSUME ConstAssumption, Disciplined, TypeInv, LockInv, SafeInv, NEW p \in Procs, CreatePublish(p)
  PROVE  SafeInv'
<1>1. PICK f, v : f = dentry[dp[p]].name /\ v = ino[p]
  OBVIOUS
<1>2. p \in InFlight /\ pc[p] = "create"
  BY DEF CreatePublish, InFlight
<1>3. f \in Hashed /\ hash[f] = dp[p] /\ ctl = "idle"
  BY <1>1, <1>2, NameOf
<1>4. /\ dentry' = Published(p, v) /\ stamp' = [stamp EXCEPT ![v] = [gen |-> gen, ino |-> ino[p]]]
      /\ UNCHANGED <<mapped, hash, dp, gen, nextIno, data, jVars, ctlVars>>
  BY <1>1 DEF CreatePublish, sbVars
<1>5. /\ pc' \in [Procs -> PcLabels] /\ pc'[p] = "found"
      /\ \A q \in Procs : q # p => pc'[q] = pc[q] /\ ino'[q] = ino[q]
  BY Types DEF CreatePublish, Goto, PcLabels
<1> QED BY <1>1, <1>2, <1>3, <1>4, <1>5, PublishKeeps

\* The record of a create: a negative dentry, found or made, is hashed under
\* the name and held until the publication.
LEMMA CreateRecordKeeps ==
  ASSUME ConstAssumption, Disciplined, TypeInv, LockInv, SafeInv,
         NEW p \in Procs, NEW f \in Files, CreateJournal(p, f)
  PROVE  SafeInv'
<1>0. PICK i : i = nextIno + 1
  OBVIOUS
<1>1. /\ pc[p] = "idle" /\ dirLock = Nil /\ View(f) = Gone
      /\ Alloc(i, Empty) /\ JournalStage(f, i) /\ dirLock' = p
      /\ ino' = [ino EXCEPT ![p] = i] /\ pc' = [pc EXCEPT ![p] = "create"]
      /\ UNCHANGED <<gen, stamp, mapped, ctlVars, cowFloor, borrowed, ctl, target>>
  BY <1>0 DEF CreateJournal, Goto, JournalStage, ctlVars
<1>2. ctl = "idle"
  BY Excluded DEF CreateJournal, NoCtlRace
<1>3. PICK d \in (IF hash[f] = Nil THEN FreeDentries ELSE {hash[f]}) :
        /\ dentry' = [dentry EXCEPT ![d].name = f]
        /\ hash' = [hash EXCEPT ![f] = d]
        /\ dp' = [dp EXCEPT ![p] = d]
  BY DEF CreateJournal
<1>4. d \in Dentries /\ d # Nil
  BY <1>3, Types DEF FreeDentries, Hashed
<1>5. /\ pc'[p] = "create" /\ dp'[p] = d /\ pc' \in [Procs -> PcLabels]
      /\ \A q \in Procs : q # p => pc'[q] = pc[q] /\ dp'[q] = dp[q] /\ ino'[q] = ino[q]
  BY <1>1, <1>3, <1>4, Types DEF PcLabels
<1>6. /\ TreesKept' /\ i \in Inos /\ i > allocFloor /\ allocFloor' = i /\ ino'[p] = i
      /\ tip'[f] = Staged(i) /\ \A g \in Files : g # f => tip'[g] = tip[g]
  <2>1. Empty # Nil
    BY DEF ConstAssumption, Contents
  <2> QED BY <1>0, <1>1, <1>2, <1>5, <2>1, RecordKeepsTrees, Types
<1>7. \A q \in Procs : pc[q] # "create"
  BY <1>1, Types DEF SafeInv, Quiet
\* The dentry of f, before and after.
<1>8. f \in Hashed => d = hash[f] /\ At(f).lower = Gone /\ At(f).backing # "staged" /\ At(f).name = f
  <2>1. f \in Hashed => d = hash[f] /\ At(f).lower = Gone /\ At(f).name = f
    BY <1>1, <1>3 DEF Hashed, View, At, SafeInv, Reached
  <2>2. \A k : Staged(k) # Gone
    BY DEF Staged, Gone
  <2> QED BY <2>1, <2>2 DEF SafeInv, Shaped
<1>9. f \notin Hashed => dentry[d] = NoDentry
  BY <1>3 DEF Hashed, FreeDentries, TypeInv, DcOK, GoodSlots, GoodDentry
<1>10. /\ dentry'[d].name = f /\ dentry'[d].lower = Gone /\ dentry'[d].backing # "staged"
       /\ \A e \in Dentries : e # d => dentry'[e] = dentry[e]
       /\ dentry[d].name \in {f, Nil} /\ dentry[d].lower = Gone
  <2>1. dentry[d].name \in {f, Nil} /\ dentry[d].lower = Gone /\ dentry[d].backing # "staged"
    BY <1>8, <1>9 DEF NoDentry, At
  <2>2. /\ dentry'[d] = [dentry[d] EXCEPT !.name = f] /\ dentry[d] \in DentryRecs
        /\ \A e \in Dentries : e # d => dentry'[e] = dentry[e]
    BY <1>3, <1>4 DEF TypeInv, DcOK, GoodSlots
  <2> QED BY <2>1, <2>2 DEF DentryRecs
<1>11. /\ Hashed' = Hashed \cup {f} /\ Hashed \subseteq Files /\ hash'[f] = d
       /\ \A g \in Files : g # f => hash'[g] = hash[g]
       /\ \A g \in Hashed : g # f => At(g)' = At(g) /\ hash[g] # d
       /\ At(f)' = dentry'[d]
  <2>1. hash'[f] = d /\ \A g \in Files : g # f => hash'[g] = hash[g]
    BY <1>3, Types
  <2>2. \A g \in Hashed : g # f => hash[g] # d /\ hash[g] \in Dentries
    BY <1>10, Types DEF SafeInv, Reached, Hashed, At
  <2> QED BY <1>4, <1>10, <2>1, <2>2 DEF Hashed, At
\* What other processes hold.
<1>12. ASSUME NEW q \in Procs, q # p, pc[q] # "idle"
       PROVE  /\ dp[q] \in Dentries /\ dentry'[dp[q]].lower = dentry[dp[q]].lower
              /\ dp[q] # d => dentry'[dp[q]] = dentry[dp[q]]
              /\ dp[q] = d => f \in Hashed
  BY <1>9, <1>10, <1>12, Types DEF NoDentry
<1>13. \A q \in InFlight : q \in Procs /\ q # p /\ pc[q] = "publish" /\ dp[q] # d /\ dp[q] \in Dentries
                           /\ q \in Opening /\ dentry[dp[q]].name # f /\ dentry[dp[q]].name \in Files
                           /\ dentry'[dp[q]] = dentry[dp[q]] /\ dp'[q] = dp[q] /\ ino'[q] = ino[q]
  <2> SUFFICES ASSUME NEW q \in InFlight
               PROVE  q \in Procs /\ q # p /\ pc[q] = "publish" /\ dp[q] # d /\ dp[q] \in Dentries
                      /\ q \in Opening /\ dentry[dp[q]].name # f /\ dentry[dp[q]].name \in Files
                      /\ dentry'[dp[q]] = dentry[dp[q]] /\ dp'[q] = dp[q] /\ ino'[q] = ino[q]
    OBVIOUS
  <2>1. q \in Procs /\ q # p /\ pc[q] = "publish" /\ q \in Opening
    BY <1>1, <1>7 DEF InFlight, Opening
  <2>2. dp[q] \in Dentries /\ dentry[dp[q]].lower # Gone
    BY <2>1, Types DEF Positive
  <2>3. dp[q] # d
    BY <1>10, <2>2
  <2>4. dentry[dp[q]].name \in Hashed /\ hash[dentry[dp[q]].name] = dp[q]
    BY <2>1, NameOf
  <2> QED BY <1>5, <1>8, <1>10, <2>1, <2>2, <2>3, <2>4 DEF Hashed
<1>14. InFlight' = InFlight \cup {p}
  BY <1>5 DEF InFlight
<1>15. /\ \A g \in Files : ~Awaited(g)
       /\ Unsettled(f)' /\ Awaited(f)'
       /\ \A g \in Files : g # f /\ Unsettled(g) => Unsettled(g)'
  <2>1. Awaited(f)' /\ Unsettled(f)'
    BY <1>5, <1>11, <1>14 DEF Awaited, Unsettled
  <2>2. \A g \in Files : g # f /\ Unsettled(g) => Unsettled(g)'
    BY <1>11, <1>13, <1>14 DEF Unsettled
  <2> QED BY <1>7, <2>1, <2>2 DEF Awaited
<1>16. Quiet'
  BY <1>1, <1>2, <1>5, <1>7, Types DEF SafeInv, Quiet
<1>17. Reached'
  <2>1. \A g \in Hashed' : At(g).name' = g
    BY <1>10, <1>11 DEF SafeInv, Reached
  <2>2. ASSUME NEW q \in Procs, q \in Opening' \/ pc'[q] = "create"
        PROVE  \E g \in Files : hash'[g] = dp'[q]
    <3>1. CASE q = p
      BY <1>5, <1>11, <3>1
    <3>2. CASE q # p
      <4>1. q \in Opening /\ dp'[q] = dp[q] /\ pc[q] # "idle"
        BY <1>5, <1>7, <2>2, <3>2 DEF Opening
      <4>2. PICK g \in Files : hash[g] = dp[q]
        BY <4>1 DEF SafeInv, Reached
      <4>3. g = f => d = dp[q]
        BY <1>4, <1>8, <1>12, <3>2, <4>1, <4>2, Types DEF Hashed
      <4> QED BY <1>11, <4>1, <4>2, <4>3
    <3> QED BY <3>1, <3>2
  <2>3. \A q \in Procs : pc'[q] = "create" => ~Positive(dp[q])'
    BY <1>5, <1>7, <1>10 DEF Positive
  <2> QED BY <2>1, <2>2, <2>3 DEF Reached
<1>18. Shaped'
  BY <1>1, <1>10, <1>11, <1>15 DEF SafeInv, Shaped
<1>19. Replayed'
  <2>1. ViewTree' = tip' /\ ViewTree = tip
    BY <1>1, <1>2 DEF ViewTree
  <2>2. \A q \in InFlight' : tip'[dentry'[dp'[q]].name] = Staged(ino'[q])
    BY <1>5, <1>6, <1>10, <1>13, <1>14 DEF SafeInv, Replayed
  <2>3. \A g \in Files \ Hashed' : tip'[g] = Base(g)
    BY <1>6, <1>11, <2>1 DEF SafeInv, Replayed
  <2>4. \A g \in Hashed' : ~Unsettled(g)' => tip'[g] = At(g).lower'
    BY <1>6, <1>11, <1>15, <2>1 DEF SafeInv, Replayed
  <2> QED BY <2>1, <2>2, <2>3, <2>4 DEF Replayed
<1>20. Apart'
  <2>1. ViewTree' = tip' /\ ViewTree = tip
    BY <1>1, <1>2 DEF ViewTree
  <2>2. \A x \in BaseFiles : Staged(i) # Base(x)
    BY DEF Staged, Base
  <2>3. At(f).lower' = Gone /\ \A g \in Hashed' : g # f => g \in Hashed /\ At(g)' = At(g)
    BY <1>10, <1>11
  <2>4. \A g \in Hashed : At(g).lower # Gone => At(g).vnode # i
    BY <1>6, Types DEF SafeInv, Apart, Inos
  <2>5. \A g \in Hashed : At(g).lower # Gone /\ At(g).vnode \in Inos => At(g).vnode <= i
    BY <1>6, Types DEF SafeInv, Apart, Inos
  <2>6. \A q \in InFlight' : ino'[q] = i \/ (q \in InFlight /\ ino'[q] = ino[q])
    BY <1>6, <1>13, <1>14
  <2> QED BY <1>6, <2>1, <2>2, <2>3, <2>4, <2>5, <2>6 DEF SafeInv, Apart
<1>21. Stamped'
  <2>1. ~IsCurrent(hash[f])' 
    BY <1>10, <1>11 DEF IsCurrent
  <2>2. \A g \in Hashed : g # f => (IsCurrent(hash[g])' <=> IsCurrent(hash[g]))
    BY <1>1, <1>11 DEF IsCurrent, At
  <2>3. \A k : Fresh(k)' <=> Fresh(k)
    BY <1>1 DEF Fresh
  <2> QED BY <1>1, <1>2, <1>11, <2>1, <2>2, <2>3 DEF SafeInv, Stamped
<1>22. ASSUME NEW q \in Procs PROVE Writer(q)'
  <2>1. CASE q = p
    BY <1>5, <2>1 DEF Writer
  <2>2. CASE q # p /\ dp[q] # d
    <3>1. pc'[q] = pc[q] /\ dp'[q] = dp[q] /\ ino'[q] = ino[q]
      BY <1>5, <2>2
    <3>2. pc[q] # "idle" => dentry'[dp[q]] = dentry[dp[q]]
      BY <1>12, <2>2
    <3>3. \A g \in Hashed' : hash'[g] = dp[q] => g \in Hashed /\ hash[g] = dp[q]
      BY <1>11, <2>2
    <3> QED BY <1>1, <2>2, <3>1, <3>2, <3>3 DEF SafeInv, Writing, Writer, IsCurrent, Fresh
  <2>3. CASE q # p /\ dp[q] = d
    <3>1. pc[q] \notin {"cow", "publish", "lower"}
      BY <1>10, <2>3, Types DEF Opening, Positive
    <3>2. \A k : Staged(k) # Gone
      BY DEF Staged, Gone
    <3>3. pc[q] # "writing"
      BY <1>10, <2>3, <3>2 DEF SafeInv, Writing
    <3> QED BY <1>5, <2>3, <3>1, <3>3 DEF Writer
  <2> QED BY <2>1, <2>2, <2>3
<1> QED BY <1>6, <1>16, <1>17, <1>18, <1>19, <1>20, <1>21, <1>22 DEF SafeInv, Writing, Writer

\* A name operation leaves the processes what they hold, if it finds no open
\* of the names it moves.
LEMMA HoldersKept ==
  ASSUME ConstAssumption, TypeInv, SafeInv,
         UNCHANGED <<procVars, stamp, gen, dirLock, cowFloor, ctlVars>>,
         \A g \in Hashed' : At(g).name' = g,
         \A q \in Procs : pc[q] # "idle" => dentry'[dp[q]].lower = dentry[dp[q]].lower,
         \A q \in Procs : q \in Opening \/ pc[q] = "create" =>
           /\ \E g \in Files : hash'[g] = dp[q]
           /\ dentry'[dp[q]].backing = dentry[dp[q]].backing
           /\ dentry'[dp[q]].vnode = dentry[dp[q]].vnode,
         \A q \in Procs : pc[q] = "writing" => \A g \in Hashed' : hash'[g] = dp[q] =>
           /\ \E h \in Hashed : hash[h] = dp[q]
           /\ dentry'[dp[q]].backing = dentry[dp[q]].backing
           /\ dentry'[dp[q]].vnode = dentry[dp[q]].vnode
  PROVE  Quiet' /\ Reached' /\ Writing'
<1>0. UNCHANGED <<pc, dp, ino, mapped, ctl, borrowed, target>> /\ Opening' = Opening
  BY DEF procVars, ctlVars, Opening
<1>1. Quiet'
  BY <1>0 DEF SafeInv, Quiet
<1>2. Reached'
  <2>1. \A q \in Procs : pc[q] = "create" => ~Positive(dp[q])'
    BY <1>0 DEF SafeInv, Reached, Positive
  <2> QED BY <1>0, <2>1 DEF Reached
<1>3. \A q \in Procs : pc[q] \in {"cow", "publish", "lower"} => (IsCurrent(dp[q])' <=> IsCurrent(dp[q]))
  BY <1>0 DEF IsCurrent, Opening
<1>4. \A q \in Procs : pc[q] = "writing" => \A g \in Hashed' : hash'[g] = dp[q] => IsCurrent(dp[q])'
  BY <1>0 DEF SafeInv, Writing, IsCurrent
<1>5. \A k : Fresh(k)' <=> Fresh(k)
  BY <1>0 DEF Fresh
<1>6. Writing'
  BY <1>0, <1>3, <1>4, <1>5 DEF SafeInv, Writing
<1> QED BY <1>1, <1>2, <1>6

\* The tree the dcache shows names every file once.
LEMMA ViewInjective ==
  ASSUME ConstAssumption, TypeInv, SafeInv
  PROVE  Injective(ViewTree)
BY DEF SafeInv, TreesKept, ViewTree

\* A lookup that misses finds the base.
LEMMA LookupKeeps ==
  ASSUME ConstAssumption, Disciplined, TypeInv, SafeInv, NEW f \in Files, Lookup(f)
  PROVE  SafeInv'
<1>1. /\ hash[f] = Nil /\ f \in BaseFiles /\ dirLock = Nil /\ f \notin Hashed
      /\ UNCHANGED <<sbVars, stamp, dirLock, data, jVars, procVars, ctlVars>>
      /\ UNCHANGED <<gen, nextIno, tip, marks, allocFloor, cowFloor, pc, dp, ino, ctl, target, borrowed>>
  BY DEF Lookup, Hashed, sbVars, jVars, procVars, ctlVars
<1>2. PICK d \in FreeDentries :
        /\ dentry' = [dentry EXCEPT ![d] = [name |-> f, backing |-> "base", pinned |-> FALSE,
                                            lower |-> Base(f), vnode |-> BaseInode[f]]]
        /\ hash' = [hash EXCEPT ![f] = d]
  BY DEF Lookup
<1>3. d \in Dentries /\ d # Nil /\ dentry[d].name = Nil
  BY <1>2, Types DEF FreeDentries
<1>4. /\ dentry'[d] = [name |-> f, backing |-> "base", pinned |-> FALSE,
                       lower |-> Base(f), vnode |-> BaseInode[f]]
      /\ \A e \in Dentries : e # d => dentry'[e] = dentry[e]
  BY <1>2, <1>3 DEF TypeInv, DcOK, GoodSlots
<1>5. /\ Hashed' = Hashed \cup {f} /\ Hashed \subseteq Files /\ hash'[f] = d
      /\ \A g \in Hashed : hash'[g] = hash[g] /\ At(g)' = At(g) /\ hash[g] # d
      /\ At(f)' = [name |-> f, backing |-> "base", pinned |-> FALSE,
                   lower |-> Base(f), vnode |-> BaseInode[f]]
  <2>1. hash'[f] = d /\ \A g \in Files : g # f => hash'[g] = hash[g]
    BY <1>2, Types
  <2>2. \A g \in Hashed : g # Nil /\ At(g).name = g /\ hash[g] \in Dentries
    BY Types DEF SafeInv, Reached, Hashed
  <2>3. \A g \in Hashed : hash[g] # d
    BY <1>3, <2>2 DEF At
  <2> QED BY <1>1, <1>3, <1>4, <2>1, <2>2, <2>3 DEF Hashed, At
<1>6. \A q \in Procs : pc[q] # "idle" => dp[q] # d /\ dentry'[dp[q]] = dentry[dp[q]]
  BY <1>3, <1>4, Types
<1>7. /\ Base(f) # Gone /\ ViewTree[f] = Base(f) /\ ViewTree' = ViewTree /\ InFlight' = InFlight
      /\ \A q \in InFlight : q \in Procs /\ pc[q] # "idle"
  BY <1>1 DEF Base, Gone, SafeInv, Replayed, ViewTree, InFlight
<1>8. \A g \in Hashed : (Awaited(g)' <=> Awaited(g)) /\ (Unsettled(g)' <=> Unsettled(g))
  BY <1>1, <1>5, <1>7 DEF Awaited, Unsettled
<1>9. Quiet' /\ Reached' /\ Writing'
  <2>1. \A g \in Hashed' : At(g).name' = g
    BY <1>5 DEF SafeInv, Reached
  <2>2. \A q \in Procs : q \in Opening \/ pc[q] = "create" => \E g \in Files : hash'[g] = dp[q]
    <3>1. \A q \in Procs : q \in Opening \/ pc[q] = "create" => pc[q] # "idle"
      BY DEF Opening
    <3>2. \A q \in Procs : q \in Opening \/ pc[q] = "create" => \E g \in Hashed : hash[g] = dp[q]
      BY <3>1, Types DEF SafeInv, Reached, Hashed
    <3> QED BY <1>5, <3>2
  <2>3. \A q \in Procs : pc[q] = "writing" => \A g \in Hashed' : hash'[g] = dp[q] =>
          \E h \in Hashed : hash[h] = dp[q]
    BY <1>5, <1>6
  <2>4. \A q \in Procs : q \in Opening \/ pc[q] = "create" => pc[q] # "idle"
    BY DEF Opening
  <2> QED BY <1>1, <1>6, <2>1, <2>2, <2>3, <2>4, HoldersKept
<1>10. Shaped'
  BY <1>1, <1>5, <1>8 DEF SafeInv, Shaped
<1>11. Replayed'
  BY <1>1, <1>5, <1>6, <1>7, <1>8 DEF SafeInv, Replayed
<1>12. TreesKept'
  BY <1>1, <1>7 DEF SafeInv, TreesKept, Injective, Below
<1>13. Apart'
  <2>1. \A g \in Hashed : At(g).lower # Gone => At(g).vnode # BaseInode[f]
    BY <1>1, <1>7 DEF SafeInv, Apart
  <2>2. \A x \in BaseFiles, g \in Files : BaseInode[f] = BaseInode[x] /\ ViewTree[g] = Base(x) => g = f
    <3>1. \A g \in Files : ViewTree[g] = Base(f) => g = f
      BY <1>7, ViewInjective DEF Injective
    <3> QED BY <1>1, <3>1 DEF Disciplined
  <2>3. BaseInode[f] \notin Inos /\ \A q \in InFlight : ino[q] \in Inos
    BY <1>1, Types DEF ConstAssumption, BaseInodes, Inos
  <2> QED BY <1>1, <1>5, <1>7, <2>1, <2>2, <2>3 DEF SafeInv, Apart
<1>14. Stamped'
  <2>1. ~IsCurrent(hash[f])'
    BY <1>4, <1>5 DEF IsCurrent
  <2>2. \A g \in Hashed : IsCurrent(hash[g])' <=> IsCurrent(hash[g])
    BY <1>1, <1>5 DEF IsCurrent, At
  <2> QED BY <1>1, <1>5, <2>1, <2>2 DEF SafeInv, Stamped, Fresh
<1> QED BY <1>9, <1>10, <1>11, <1>12, <1>13, <1>14 DEF SafeInv

\* Dropping an unused plain entry: the base still answers for its name.
LEMMA EvictKeeps ==
  ASSUME ConstAssumption, Disciplined, TypeInv, SafeInv, NEW f \in Files, Evict(f)
  PROVE  SafeInv'
<1>1. /\ f \in Hashed /\ ~At(f).pinned /\ hash[f] \notin Held(Procs)
      /\ dentry' = [dentry EXCEPT ![hash[f]] = NoDentry] /\ hash' = [hash EXCEPT ![f] = Nil]
      /\ UNCHANGED <<sbVars, stamp, dirLock, data, jVars, procVars, ctlVars>>
      /\ UNCHANGED <<gen, nextIno, tip, marks, allocFloor, cowFloor, pc, dp, ino, ctl, target, borrowed>>
  BY DEF Evict, Hashed, At, sbVars, jVars, procVars, ctlVars
<1>2. \A q \in Procs : dp[q] # hash[f]
  BY <1>1 DEF Held, Hashed
<1>3. /\ Hashed' = Hashed \ {f} /\ Hashed \subseteq Files
      /\ \A g \in Hashed' : hash'[g] = hash[g] /\ At(g)' = At(g)
  <2>1. hash'[f] = Nil /\ \A g \in Files : g # f => hash'[g] = hash[g]
    BY <1>1, Types
  <2>2. \A g \in Hashed : g # f => hash[g] # hash[f] /\ hash[g] \in Dentries
    BY <1>1, Types DEF SafeInv, Reached, At
  <2>3. \A e \in Dentries : e # hash[f] => dentry'[e] = dentry[e]
    BY <1>1 DEF TypeInv, DcOK, GoodSlots
  <2> QED BY <2>1, <2>2, <2>3 DEF Hashed, At
<1>4. \A q \in Procs : pc[q] # "idle" => dentry'[dp[q]] = dentry[dp[q]]
  BY <1>1, <1>2, Types
<1>5. /\ ViewTree' = ViewTree /\ InFlight' = InFlight
      /\ \A q \in InFlight : q \in Procs /\ pc[q] # "idle"
  BY <1>1 DEF ViewTree, InFlight
<1>6. ViewTree[f] = Base(f)
  <2>1. ~Awaited(f) /\ ~Unsettled(f)
    BY <1>2 DEF Awaited, Unsettled, InFlight
  <2> QED BY <1>1, <2>1 DEF SafeInv, Shaped, Replayed
<1>7. \A g \in Hashed' : (Awaited(g)' <=> Awaited(g)) /\ (Unsettled(g)' <=> Unsettled(g))
  BY <1>1, <1>3, <1>5 DEF Awaited, Unsettled
<1>8. Quiet' /\ Reached' /\ Writing'
  <2>1. \A g \in Hashed' : At(g).name' = g
    BY <1>3 DEF SafeInv, Reached
  <2>2. \A q \in Procs : q \in Opening \/ pc[q] = "create" => pc[q] # "idle"
    BY DEF Opening
  <2>3. \A q \in Procs : q \in Opening \/ pc[q] = "create" => \E g \in Files : hash'[g] = dp[q]
    <3>1. \A q \in Procs : q \in Opening \/ pc[q] = "create" => \E g \in Hashed : hash[g] = dp[q]
      BY <2>2, Types DEF SafeInv, Reached, Hashed
    <3> QED BY <1>2, <1>3, <3>1
  <2>4. \A q \in Procs : pc[q] = "writing" => \A g \in Hashed' : hash'[g] = dp[q] =>
          \E h \in Hashed : hash[h] = dp[q]
    BY <1>3
  <2> QED BY <1>1, <1>4, <2>1, <2>2, <2>3, <2>4, HoldersKept
<1>9. Shaped'
  BY <1>1, <1>3, <1>7 DEF SafeInv, Shaped
<1>10. Replayed'
  BY <1>1, <1>3, <1>4, <1>5, <1>6, <1>7 DEF SafeInv, Replayed
<1>11. TreesKept'
  BY <1>1, <1>5 DEF SafeInv, TreesKept, Injective, Below
<1>12. Apart'
  BY <1>1, <1>3, <1>5 DEF SafeInv, Apart
<1>13. Stamped'
  <2>1. \A g \in Hashed' : IsCurrent(hash[g])' <=> IsCurrent(hash[g])
    BY <1>1, <1>3 DEF IsCurrent, At
  <2> QED BY <1>1, <1>3, <2>1 DEF SafeInv, Stamped, Fresh
<1> QED BY <1>8, <1>9, <1>10, <1>11, <1>12, <1>13 DEF SafeInv

\* A new tree of the same store inodes at most: what Unlink and Rename write.
LEMMA NamesKeepTrees ==
  ASSUME ConstAssumption, TypeInv, SafeInv, Injective(tip'),
         \A g \in Files : tip'[g] = Gone \/ \E h \in Files : tip'[g] = tip[h],
         UNCHANGED <<marks, allocFloor, cowFloor, nextIno, data, ino, pc, ctl, target>>
  PROVE  TreesKept'
<1>1. InFlight' = InFlight
  BY DEF InFlight
<1>2. Gone.kind # "staged"
  BY DEF Gone
<1>3. Below(tip, allocFloor)'
  BY <1>2 DEF SafeInv, TreesKept, Below
<1>4. Injective(tip)'
  BY DEF Injective
<1>5. \A n \in 1 .. Len(marks) : (Injective(marks[n].tree) /\ Below(marks[n].tree, cowFloor))'
  BY DEF SafeInv, TreesKept, Injective, Below
<1> QED BY <1>1, <1>3, <1>4, <1>5 DEF SafeInv, TreesKept

\* What holds when a name is removed or moved: no ioctl and no create, and
\* nobody is opening the files concerned.
LEMMA NamesFree ==
  ASSUME ConstAssumption, Disciplined, TypeInv, LockInv, SafeInv, NoCtlRace, dirLock = Nil,
         NEW ds, NoOpenOf(ds)
  PROVE  /\ ctl = "idle" /\ ViewTree = tip
         /\ \A q \in Procs : pc[q] # "create"
         /\ \A q \in Procs : q \in Opening => dp[q] \notin ds
         /\ \A q \in InFlight : q \in Opening /\ q \in Procs /\ pc[q] # "idle"
         /\ \A g \in Files : ~Awaited(g) /\ (hash[g] \in ds => ~Unsettled(g))
<1>1. ctl = "idle" /\ ViewTree = tip /\ \A q \in Procs : q \in Opening => dp[q] \notin ds
  BY Excluded DEF NoCtlRace, NoOpenOf, ViewTree
<1>2. \A q \in Procs : pc[q] # "create"
  BY Types DEF SafeInv, Quiet
<1>3. \A q \in InFlight : q \in Opening /\ q \in Procs /\ pc[q] # "idle"
  BY <1>2 DEF InFlight, Opening
<1> QED BY <1>1, <1>2, <1>3 DEF Awaited, Unsettled

LEMMA UnlinkKeeps ==
  ASSUME ConstAssumption, Disciplined, TypeInv, LockInv, SafeInv, NEW f \in Files, Unlink(f)
  PROVE  SafeInv'
<1>0. PICK d : d = hash[f]
  OBVIOUS
<1>1. /\ NoCtlRace /\ dirLock = Nil /\ NoOpenOf({d}) /\ f \in Hashed
      /\ UNCHANGED <<gen, nextIno, stamp, dirLock, data, procVars, ctlVars>>
      /\ UNCHANGED <<marks, allocFloor, cowFloor, pc, dp, ino, ctl, target, borrowed>>
      /\ tip' = [tip EXCEPT ![f] = Gone]
  BY <1>0 DEF Unlink, Hashed, JournalNames, procVars, ctlVars
<1>2. /\ ctl = "idle" /\ ViewTree = tip /\ ViewTree' = tip'
      /\ \A q \in Procs : pc[q] # "create"
      /\ \A q \in Procs : q \in Opening => dp[q] # d
      /\ \A q \in InFlight : q \in Opening /\ q \in Procs /\ pc[q] # "idle"
      /\ \A g \in Files : ~Awaited(g)
  <2>1. PICK ds : ds = {d}
    OBVIOUS
  <2>2. \A q \in Procs : q \in Opening => dp[q] \notin ds
    BY <1>1, <2>1, NamesFree
  <2> QED BY <1>1, <2>1, <2>2, NamesFree DEF ViewTree
<1>3. PICK t \in FreeDentries :
        /\ hash' = [hash EXCEPT ![f] = t]
        /\ dentry' = Reap([dentry EXCEPT ![t] = Tombstone(f), ![d] = Unpinned(@)],
                          hash', Held(Procs))
  BY <1>0 DEF Unlink
<1>4. d \in Dentries /\ t \in Dentries /\ dentry[t].name = Nil /\ t # d /\ t # Nil /\ f # Nil
  <2>1. d \in Dentries /\ dentry[d].name = f
    BY <1>0, <1>1, Types DEF SafeInv, Reached, At
  <2> QED BY <1>3, <2>1, Types DEF FreeDentries
<1> DEFINE u == [dentry EXCEPT ![t] = Tombstone(f), ![d] = Unpinned(@)]
<1>5. /\ u[t] = Tombstone(f) /\ u[d] = Unpinned(dentry[d])
      /\ \A e \in Dentries : e # t /\ e # d => u[e] = dentry[e]
  BY <1>4 DEF TypeInv, DcOK, GoodSlots
<1>6. \A e \in Dentries : u[e].pinned \/ e \in Held(Procs) \/ (\E g \in Files : hash'[g] = e)
         => dentry'[e] = u[e]
  BY <1>3 DEF Reap
<1> HIDE DEF u
<1>7. Hashed' = Hashed /\ Hashed \subseteq Files /\ hash'[f] = t /\ \A g \in Files : g # f => hash'[g] = hash[g]
  BY <1>1, <1>3, <1>4, Types DEF Hashed
<1>8. /\ At(f)' = Tombstone(f)
      /\ \A g \in Hashed : g # f => hash[g] # d /\ hash[g] # t /\ At(g)' = At(g)
  <2>1. At(f)' = Tombstone(f)
    BY <1>4, <1>5, <1>6, <1>7 DEF At
  <2>2. \A g \in Hashed : g # f => hash[g] # d /\ hash[g] # t /\ hash[g] \in Dentries
    BY <1>0, <1>1, <1>4, <1>7, Types DEF SafeInv, Reached, At
  <2> QED BY <1>5, <1>6, <1>7, <2>1, <2>2 DEF At
<1>9. \A q \in Procs : pc[q] # "idle" =>
        /\ dp[q] # t /\ dentry'[dp[q]].lower = dentry[dp[q]].lower
        /\ dp[q] # d => dentry'[dp[q]] = dentry[dp[q]]
  <2>1. \A q \in Procs : pc[q] # "idle" => dp[q] \in Dentries /\ dp[q] # t /\ dp[q] \in Held(Procs)
    BY <1>4, Types DEF Held
  <2>2. u[d].lower = dentry[d].lower
    BY <1>4, <1>5, UnpinGood DEF TypeInv, DcOK, GoodSlots
  <2> QED BY <1>5, <1>6, <2>1, <2>2
<1>10. /\ Tombstone(f).name = f /\ Tombstone(f).backing = "none" /\ Tombstone(f).pinned
       /\ Tombstone(f).lower = Gone
  BY DEF Tombstone
<1>11. /\ tip'[f] = Gone /\ \A g \in Files : g # f => tip'[g] = tip[g]
  BY <1>1 DEF TypeInv, JournalOK, GoodTree, Trees
<1>12. \A q \in InFlight : dentry'[dp[q]] = dentry[dp[q]] /\ dentry[dp[q]].name \in Files /\ dentry[dp[q]].name # f
  <2>1. \A q \in InFlight : dentry[dp[q]].name \in Hashed /\ hash[dentry[dp[q]].name] = dp[q]
    BY <1>2, NameOf
  <2> QED BY <1>0, <1>2, <1>7, <1>9, <2>1
<1>13. InFlight' = InFlight /\ \A g \in Files : ~Awaited(g)' /\ (g # f => (Unsettled(g)' <=> Unsettled(g)))
  BY <1>1, <1>2, <1>7 DEF InFlight, Awaited, Unsettled
<1>14. Quiet' /\ Reached' /\ Writing'
  <2>1. \A g \in Hashed' : At(g).name' = g
    BY <1>7, <1>8, <1>10 DEF SafeInv, Reached
  <2>2. \A q \in Procs : q \in Opening \/ pc[q] = "create" => pc[q] # "idle" /\ dp[q] # d
    BY <1>2 DEF Opening
  <2>3. \A q \in Procs : q \in Opening \/ pc[q] = "create" => \E g \in Files : hash'[g] = dp[q]
    <3>1. \A q \in Procs : q \in Opening \/ pc[q] = "create" => \E g \in Files : hash[g] = dp[q]
      BY DEF SafeInv, Reached
    <3> QED BY <1>0, <1>7, <2>2, <3>1
  <2>4. \A q \in Procs : pc[q] = "writing" => \A g \in Hashed' : hash'[g] = dp[q] =>
          dp[q] # d /\ \E h \in Hashed : hash[h] = dp[q]
    BY <1>7, <1>8, <1>9
  <2> QED BY <1>1, <1>9, <2>1, <2>2, <2>3, <2>4, HoldersKept
<1>15. Shaped'
  BY <1>1, <1>2, <1>7, <1>8, <1>10, <1>13 DEF SafeInv, Shaped
<1>16. Replayed'
  BY <1>1, <1>2, <1>7, <1>8, <1>10, <1>11, <1>12, <1>13 DEF SafeInv, Replayed
<1>17. TreesKept'
  <2>1. Injective(tip')
    BY <1>11 DEF SafeInv, TreesKept, Injective
  <2> QED BY <1>1, <1>11, <2>1, NamesKeepTrees
<1>18. Apart'
  <2>1. \A x \in BaseFiles : Gone # Base(x)
    BY DEF Gone, Base
  <2> QED BY <1>1, <1>2, <1>7, <1>8, <1>10, <1>11, <1>13, <2>1 DEF SafeInv, Apart
<1>19. Stamped'
  <2>1. ~IsCurrent(hash[f])'
    BY <1>8, <1>10 DEF IsCurrent, At
  <2>2. \A g \in Hashed : g # f => (IsCurrent(hash[g])' <=> IsCurrent(hash[g]))
    BY <1>1, <1>8 DEF IsCurrent, At
  <2> QED BY <1>1, <1>7, <1>8, <2>1, <2>2 DEF SafeInv, Stamped, Fresh
<1> QED BY <1>14, <1>15, <1>16, <1>17, <1>18, <1>19 DEF SafeInv

LEMMA RenameKeeps ==
  ASSUME ConstAssumption, Disciplined, TypeInv, LockInv, SafeInv,
         NEW f \in Files, NEW g \in Files, Rename(f, g)
  PROVE  SafeInv'
<1>0. PICK d, e : d = hash[f] /\ e = hash[g]
  OBVIOUS
<1>1. /\ NoCtlRace /\ dirLock = Nil /\ NoOpenOf({d, e}) /\ f \in Hashed /\ f # g
      /\ At(f).lower # Gone
      /\ UNCHANGED <<gen, nextIno, stamp, dirLock, data, procVars, ctlVars>>
      /\ UNCHANGED <<marks, allocFloor, cowFloor, pc, dp, ino, ctl, target, borrowed>>
      /\ tip' = [tip EXCEPT ![f] = Gone, ![g] = PreimageBacking(d)]
  BY <1>0 DEF Rename, Hashed, At, Positive, JournalNames, procVars, ctlVars
<1>2. /\ ctl = "idle" /\ ViewTree = tip /\ ViewTree' = tip'
      /\ \A q \in Procs : pc[q] # "create"
      /\ \A q \in Procs : q \in Opening => dp[q] # d /\ dp[q] # e
      /\ \A q \in InFlight : q \in Opening /\ q \in Procs /\ pc[q] # "idle"
      /\ \A k \in Files : ~Awaited(k)
      /\ ~Unsettled(f)
  <2>1. PICK ds : ds = {d, e}
    OBVIOUS
  <2>2. \A q \in Procs : q \in Opening => dp[q] \notin ds
    BY <1>1, <2>1, NamesFree
  <2>3. ~Unsettled(f)
    BY <1>0, <1>1, <2>1, NamesFree
  <2> QED BY <1>1, <2>1, <2>2, <2>3, NamesFree DEF ViewTree
<1> DEFINE moved(t) == [x \in Dentries |->
                         IF x = t THEN Tombstone(f)
                         ELSE IF x = hash[f] THEN [dentry[x] EXCEPT !.name = g, !.pinned = TRUE]
                         ELSE IF x = hash[g] THEN Unpinned(dentry[x])
                         ELSE dentry[x]]
<1>3. PICK t \in FreeDentries :
        /\ hash' = [hash EXCEPT ![f] = t, ![g] = d]
        /\ dentry' = Reap(moved(t), hash', Held(Procs))
  BY <1>0 DEF Rename
<1>4. d \in Dentries /\ t \in Dentries /\ dentry[t].name = Nil /\ t # d /\ d # e /\ t # Nil /\ d # Nil
      /\ Hashed \subseteq Files /\ dentry[d].name = f /\ (e # Nil => dentry[e].name = g)
      /\ \A k \in Hashed : hash[k] # Nil /\ hash[k] \in Dentries /\ dentry[hash[k]].name = k /\ k # Nil
  <2>1. d \in Dentries /\ dentry[d].name = f
    BY <1>0, <1>1, Types DEF SafeInv, Reached, At
  <2>2. e # Nil => dentry[e].name = g
    BY <1>0 DEF SafeInv, Reached, Hashed, At
  <2>3. \A k \in Hashed : hash[k] # Nil /\ hash[k] \in Dentries /\ dentry[hash[k]].name = k /\ k # Nil
    BY Types DEF SafeInv, Reached, Hashed, At
  <2> QED BY <1>1, <1>3, <2>1, <2>2, <2>3, Types DEF FreeDentries, Hashed
<1>5. /\ moved(t)[t] = Tombstone(f)
      /\ moved(t)[d].name = g /\ moved(t)[d].pinned /\ moved(t)[d].backing = dentry[d].backing
      /\ moved(t)[d].lower = dentry[d].lower /\ moved(t)[d].vnode = dentry[d].vnode
      /\ \A x \in Dentries : x # t /\ x # d /\ x # e => moved(t)[x] = dentry[x]
      /\ e \in Dentries => moved(t)[e].lower = dentry[e].lower
  <2>1. dentry[d] \in DentryRecs /\ moved(t)[d] = [dentry[d] EXCEPT !.name = g, !.pinned = TRUE]
    BY <1>0, <1>4 DEF TypeInv, DcOK, GoodSlots
  <2>2. ASSUME e \in Dentries PROVE moved(t)[e].lower = dentry[e].lower
    <3>1. e # t /\ moved(t)[e] = Unpinned(dentry[e])
      BY <1>0, <1>4, <2>2, Types DEF SafeInv, Reached, Hashed, At
    <3> HIDE DEF moved
    <3> QED BY <2>2, <3>1, UnpinGood DEF TypeInv, DcOK, GoodSlots
  <2>3. moved(t)[t] = Tombstone(f) /\ \A x \in Dentries : x # t /\ x # d /\ x # e => moved(t)[x] = dentry[x]
    BY <1>0, <1>4
  <2> HIDE DEF moved
  <2>4. /\ moved(t)[d].name = g /\ moved(t)[d].pinned /\ moved(t)[d].backing = dentry[d].backing
        /\ moved(t)[d].lower = dentry[d].lower /\ moved(t)[d].vnode = dentry[d].vnode
    BY <2>1 DEF DentryRecs
  <2> QED BY <2>2, <2>3, <2>4
<1> DEFINE u == moved(t)
<1> HIDE DEF moved
<1>6. \A x \in Dentries : u[x].pinned \/ x \in Held(Procs) \/ (\E k \in Files : hash'[k] = x)
         => dentry'[x] = u[x]
  BY <1>3 DEF Reap
<1>7. /\ hash'[f] = t /\ hash'[g] = d /\ Hashed' = Hashed \cup {g}
      /\ \A k \in Files : k # f /\ k # g => hash'[k] = hash[k]
  <2>1. hash'[f] = t /\ hash'[g] = d /\ \A k \in Files : k # f /\ k # g => hash'[k] = hash[k]
    BY <1>1, <1>3, Types
  <2> QED BY <1>1, <1>4, <2>1 DEF Hashed
<1>8. /\ At(f)' = Tombstone(f)
      /\ At(g).name' = g /\ At(g).pinned' /\ At(g).backing' = At(f).backing
      /\ At(g).lower' = At(f).lower /\ At(g).vnode' = At(f).vnode
      /\ \A k \in Hashed : k # f /\ k # g => hash[k] # d /\ hash[k] # e /\ hash[k] # t /\ At(k)' = At(k)
  <2>1. At(f)' = u[t] /\ At(g)' = u[d]
    BY <1>4, <1>6, <1>7 DEF At
  <2>2. \A k \in Hashed : k # f /\ k # g => hash[k] # d /\ hash[k] # e /\ hash[k] # t /\ hash[k] \in Dentries
    BY <1>4
  <2>3. \A k \in Hashed : k # f /\ k # g => At(k)' = At(k)
    BY <1>4, <1>5, <1>6, <1>7, <2>2 DEF At
  <2>4. At(f) = dentry[d]
    BY <1>0 DEF At
  <2> QED BY <1>5, <2>1, <2>2, <2>3, <2>4
<1>9. \A q \in Procs : pc[q] # "idle" =>
        /\ dp[q] # t /\ dentry'[dp[q]].lower = dentry[dp[q]].lower
        /\ dp[q] # d /\ dp[q] # e => dentry'[dp[q]] = dentry[dp[q]]
        /\ dp[q] = d => /\ dentry'[dp[q]].backing = dentry[dp[q]].backing
                        /\ dentry'[dp[q]].vnode = dentry[dp[q]].vnode
  <2>1. \A q \in Procs : pc[q] # "idle" => dp[q] \in Dentries /\ dp[q] # t /\ dp[q] \in Held(Procs)
    BY <1>4, Types DEF Held
  <2> QED BY <1>5, <1>6, <2>1
<1>10. /\ Tombstone(f).name = f /\ Tombstone(f).backing = "none" /\ Tombstone(f).pinned
       /\ Tombstone(f).lower = Gone
  BY DEF Tombstone
<1>11. tip'[f] = Gone /\ tip'[g] = tip[f] /\ \A k \in Files : k # f /\ k # g => tip'[k] = tip[k]
  <2>1. tip[f] = At(f).lower
    BY <1>1, <1>2 DEF SafeInv, Replayed
  <2>2. PreimageBacking(d) = At(f).lower
    <3>1. CASE At(f).backing # "staged"
      BY <1>0, <3>1 DEF PreimageBacking, At
    <3>2. CASE At(f).backing = "staged"
      <4>1. At(f).lower = Staged(stamp[At(f).vnode].ino)
        BY <1>1, <3>2 DEF SafeInv, Shaped
      <4>2. At(f).lower \in Backings
        BY <1>1, Types DEF DentryRecs
      <4>3. stamp[At(f).vnode].ino # 0
        BY <4>1, <4>2, BackingKinds DEF Staged, Inos
      <4> QED BY <1>0, <3>2, <4>1, <4>3 DEF PreimageBacking, At
    <3> QED BY <3>1, <3>2
  <2> QED BY <1>1, <2>1, <2>2 DEF TypeInv, JournalOK, GoodTree, Trees
<1>12. \A q \in InFlight : /\ dentry'[dp[q]] = dentry[dp[q]] /\ dentry[dp[q]].name \in Files
                           /\ dentry[dp[q]].name # f /\ dentry[dp[q]].name # g
  <2>1. \A q \in InFlight : dentry[dp[q]].name \in Hashed /\ hash[dentry[dp[q]].name] = dp[q]
    BY <1>2, NameOf
  <2> QED BY <1>0, <1>2, <1>4, <1>9, <2>1
<1>13. InFlight' = InFlight /\ \A k \in Files : ~Awaited(k)' /\ (k # f /\ k # g => (Unsettled(k)' <=> Unsettled(k)))
  BY <1>1, <1>2, <1>7 DEF InFlight, Awaited, Unsettled
<1>14. Quiet' /\ Reached' /\ Writing'
  <2>1. \A k \in Hashed' : At(k).name' = k
    BY <1>7, <1>8, <1>10 DEF SafeInv, Reached
  <2>2. \A q \in Procs : q \in Opening \/ pc[q] = "create" => pc[q] # "idle" /\ dp[q] # d /\ dp[q] # e
    BY <1>2 DEF Opening
  <2>3. \A q \in Procs : q \in Opening \/ pc[q] = "create" => \E k \in Files : hash'[k] = dp[q]
    <3>1. \A q \in Procs : q \in Opening \/ pc[q] = "create" => \E k \in Files : hash[k] = dp[q]
      BY DEF SafeInv, Reached
    <3> QED BY <1>0, <1>7, <2>2, <3>1
  <2>4. \A q \in Procs : pc[q] = "writing" => \A k \in Hashed' : hash'[k] = dp[q] =>
          dp[q] # e /\ \E h \in Hashed : hash[h] = dp[q]
    <3> SUFFICES ASSUME NEW q \in Procs, pc[q] = "writing", NEW k \in Hashed', hash'[k] = dp[q]
                 PROVE  dp[q] # e /\ \E h \in Hashed : hash[h] = dp[q]
      OBVIOUS
    <3>1. CASE k = f
      BY <1>7, <1>9, <3>1
    <3>2. CASE k = g
      BY <1>0, <1>1, <1>4, <1>7, <3>2
    <3>3. CASE k # f /\ k # g
      BY <1>4, <1>7, <1>8, <3>3
    <3> QED BY <3>1, <3>2, <3>3
  <2> QED BY <1>1, <1>9, <2>1, <2>2, <2>3, <2>4, HoldersKept
<1>15. Shaped'
  BY <1>1, <1>2, <1>4, <1>7, <1>8, <1>10, <1>13 DEF SafeInv, Shaped
<1>16. Replayed'
  <2>1. tip[f] = At(f).lower
    BY <1>1, <1>2 DEF SafeInv, Replayed
  <2>2. \A k \in Files \ Hashed' : tip'[k] = Base(k)
    BY <1>1, <1>2, <1>7, <1>11 DEF SafeInv, Replayed
  <2>3. \A k \in Hashed' : ~Unsettled(k)' => tip'[k] = At(k).lower'
    BY <1>2, <1>4, <1>7, <1>8, <1>10, <1>11, <1>13, <2>1 DEF SafeInv, Replayed
  <2>4. \A q \in InFlight' : tip'[dentry'[dp'[q]].name] = Staged(ino'[q])
    <3> SUFFICES ASSUME NEW q \in InFlight PROVE tip'[dentry'[dp[q]].name] = Staged(ino[q])
      BY <1>1, <1>13
    <3> QED BY <1>11, <1>12 DEF SafeInv, Replayed
  <2> QED BY <1>2, <2>2, <2>3, <2>4 DEF Replayed
<1>17. TreesKept'
  <2>1. Injective(tip')
    BY <1>11 DEF SafeInv, TreesKept, Injective
  <2> QED BY <1>1, <1>11, <2>1, NamesKeepTrees
<1>18. Apart'
  <2>1. \A x \in BaseFiles : Gone # Base(x)
    BY DEF Gone, Base
  <2>2. \A k \in Hashed' : k # f /\ k # g => k \in Hashed
    BY <1>7
  <2>3. At(f).lower' = Gone
    BY <1>8, <1>10
  <2>4. \A k, h \in Hashed' : At(k).lower' # Gone /\ At(h).lower' # Gone /\ At(k).vnode' = At(h).vnode' => k = h
    BY <1>1, <1>8, <2>2, <2>3 DEF SafeInv, Apart
  <2>5. \A k \in Hashed', h \in Files, x \in BaseFiles :
          At(k).lower' # Gone /\ At(k).vnode' = BaseInode[x] /\ tip'[h] = Base(x) => h = k
    BY <1>1, <1>2, <1>8, <1>11, <2>1, <2>2, <2>3 DEF SafeInv, Apart
  <2>6. \A k \in Hashed' : At(k).lower' # Gone /\ At(k).vnode' \in Inos => At(k).vnode' <= allocFloor
    BY <1>1, <1>8, <2>2, <2>3 DEF SafeInv, Apart
  <2>7. \A k \in Hashed', q \in InFlight : At(k).lower' # Gone => At(k).vnode' # ino[q]
    BY <1>1, <1>8, <2>2, <2>3 DEF SafeInv, Apart
  <2> QED BY <1>1, <1>2, <1>13, <2>4, <2>5, <2>6, <2>7 DEF Apart
<1>19. Stamped'
  <2>1. ~IsCurrent(hash[f])'
    BY <1>8, <1>10 DEF IsCurrent, At
  <2>2. \A k \in Hashed : k # f /\ k # g => (IsCurrent(hash[k])' <=> IsCurrent(hash[k]))
    BY <1>1, <1>8 DEF IsCurrent, At
  <2>3. IsCurrent(hash[g])' <=> IsCurrent(hash[f])
    BY <1>1, <1>8 DEF IsCurrent, At
  <2>4. \A k \in Hashed' : IsCurrent(hash[k])' => Fresh(At(k).lower'.ino)
    BY <1>1, <1>2, <1>7, <1>8, <2>1, <2>2, <2>3 DEF SafeInv, Stamped
  <2>5. \A k : Fresh(k)' <=> Fresh(k)
    BY <1>1 DEF Fresh
  <2> QED BY <1>1, <2>4, <2>5 DEF SafeInv, Stamped
<1> QED BY <1>14, <1>15, <1>16, <1>17, <1>18, <1>19 DEF SafeInv

-----------------------------------------------------------------------------
\* The slot an injection fills for name f.
NodeOf(tree, f) ==
  [name |-> f, backing |-> tree[f].kind, pinned |-> TRUE, lower |-> tree[f],
   vnode |-> CASE tree[f].kind = "base"   -> BaseInode[tree[f].name]
               [] tree[f].kind = "staged" -> tree[f].ino
               [] OTHER                   -> Nil]

\* Injecting a tree into an empty dcache hashes what differs from the base,
\* and nothing else.
LEMMA InjectBlank ==
  ASSUME ConstAssumption, TypeInv, \A p \in Procs : dp[p] = Nil,
         NEW q, \A f \in Files : q.hash[f] = Nil, \A d \in Dentries : q.dentry[d] = NoDentry,
         NEW tree, GoodTree(tree), NEW stampGen, Inject(q, tree, stampGen)
  PROVE  /\ Hashed' = {f \in Files : tree[f] # Base(f)}
         /\ \A f \in Hashed' : At(f)' = NodeOf(tree, f)
         /\ \A f \in Files, v \in Vnodes : tree[f] = Staged(v) =>
              stamp'[v].gen = stampGen[v] /\ stamp'[v].ino = v
         /\ \A v \in Vnodes : (\A f \in Files : tree[f] # Staged(v)) => stamp'[v] = stamp[v]
         /\ \A d \in Dentries : dentry'[d].backing = "staged" => \E f \in Hashed' : hash'[f] = d
<1> DEFINE nodes == {f \in Files : tree[f] # Base(f)}
           free  == {d \in Dentries : q.dentry[d].name = Nil}
<1>0. \A x \in Dentries \cup {Nil} : x # Nil => x \in Dentries
  OBVIOUS
<1>1. PICK at \in [nodes -> free] :
        /\ \A f, g \in nodes : at[f] = at[g] => f = g
        /\ hash' = [f \in Files |-> IF f \in nodes THEN at[f] ELSE q.hash[f]]
        /\ dentry' = Reap([d \in Dentries |->
                            IF \E f \in nodes : at[f] = d
                            THEN NodeOf(tree, CHOOSE f \in nodes : at[f] = d)
                            ELSE q.dentry[d]], hash', Held(Procs))
        /\ stamp' = [v \in Vnodes |->
             IF \E f \in nodes : tree[f] = Staged(v)
             THEN [gen |-> stampGen[v], ino |-> v] ELSE stamp[v]]
  BY DEF Inject, NodeOf
<1> DEFINE u == [d \in Dentries |-> IF \E f \in nodes : at[f] = d
                                    THEN NodeOf(tree, CHOOSE f \in nodes : at[f] = d)
                                    ELSE q.dentry[d]]
<1>2. \A f \in nodes : at[f] \in Dentries /\ at[f] # Nil
  BY Types
<1>3. \A f \in nodes : u[at[f]] = NodeOf(tree, f)
  <2> SUFFICES ASSUME NEW f \in nodes PROVE u[at[f]] = NodeOf(tree, f)
    OBVIOUS
  <2>1. (CHOOSE g \in nodes : at[g] = at[f]) = f
    BY <1>1
  <2> HIDE DEF nodes
  <2> QED BY <1>2, <2>1
<1>4. \A d \in Dentries : (\A f \in nodes : at[f] # d) => u[d] = NoDentry
  OBVIOUS
<1>5. dentry' = Reap(u, hash', Held(Procs))
  BY <1>1
<1> HIDE DEF u
<1>6. Hashed' = nodes /\ \A f \in nodes : hash'[f] = at[f]
  BY <1>1, <1>2 DEF Hashed
<1>7. \A f \in nodes : dentry'[at[f]] = NodeOf(tree, f)
  BY <1>2, <1>3, <1>5, <1>6 DEF Reap
<1>8. \A d \in Dentries : (\A f \in nodes : at[f] # d) => dentry'[d] = NoDentry
  BY <1>4, <1>5 DEF Reap
<1>9. NoDentry.backing # "staged"
  BY DEF NoDentry
<1>10. /\ \A f \in Files, v \in Vnodes : tree[f] = Staged(v) =>
            f \in nodes /\ stamp'[v].gen = stampGen[v] /\ stamp'[v].ino = v
       /\ \A v \in Vnodes : (\A f \in Files : tree[f] # Staged(v)) => stamp'[v] = stamp[v]
  <2>1. \A f, v : Staged(v) # Base(f)
    BY DEF Staged, Base
  <2>2. \A f \in Files, v \in Vnodes : tree[f] = Staged(v) =>
          f \in nodes /\ stamp'[v] = [gen |-> stampGen[v], ino |-> v]
    BY <1>1, <2>1
  <2>3. \A v \in Vnodes : (\A f \in Files : tree[f] # Staged(v)) => stamp'[v] = stamp[v]
    BY <1>1
  <2>4. \A f \in Files, v \in Vnodes : tree[f] = Staged(v) =>
          f \in nodes /\ stamp'[v].gen = stampGen[v] /\ stamp'[v].ino = v
    <3> SUFFICES ASSUME NEW f \in Files, NEW v \in Vnodes, tree[f] = Staged(v)
                 PROVE  f \in nodes /\ stamp'[v].gen = stampGen[v] /\ stamp'[v].ino = v
      OBVIOUS
    <3>1. f \in nodes /\ stamp'[v] = [gen |-> stampGen[v], ino |-> v]
      BY <2>2
    <3> HIDE DEF nodes
    <3> QED BY <3>1
  <2> QED BY <2>3, <2>4
<1>11. \A d \in Dentries : dentry'[d].backing = "staged" => \E f \in nodes : hash'[f] = d
  BY <1>6, <1>8, <1>9
<1> QED BY <1>6, <1>7, <1>10, <1>11 DEF At

\* A quiesced dcache that nobody holds is empty.
LEMMA QuiescedBlank ==
  ASSUME ConstAssumption, TypeInv, \A p \in Procs : dp[p] = Nil
  PROVE  /\ \A f \in Files : Quiesced.hash[f] = Nil
         /\ \A d \in Dentries : Quiesced.dentry[d] = NoDentry
<1> DEFINE h == Quiesced.hash
           u == [d \in Dentries |-> Unpinned(dentry[d])]
<1>1. Quiesced.dentry = Reap(u, h, Held(Procs))
  BY DEF Quiesced
<1>2. \A x \in Dentries : x \notin Held(Procs)
  BY Types DEF Held
<1>3. \A f \in Files : h[f] = Nil
  BY <1>2, Types DEF Quiesced, Held
<1>4. \A d \in Dentries : ~u[d].pinned
  <2>1. \A r \in DentryRecs : ~Unpinned(r).pinned
    BY DEF DentryRecs, Unpinned
  <2> QED BY <2>1 DEF TypeInv, DcOK, GoodSlots
<1> HIDE DEF u, h
<1>5. \A d \in Dentries : d # Nil
  BY Types
<1>6. \A d \in Dentries : Reap(u, h, Held(Procs))[d] = NoDentry
  BY <1>2, <1>3, <1>4, <1>5 DEF Reap
<1> QED BY <1>1, <1>3, <1>6 DEF h

\* After the injection of a tree that names every file once the dcache is as
\* SafeInv says; what the stamps mean is left to the caller.
LEMMA InjectSafe ==
  ASSUME ConstAssumption, Disciplined, TypeInv, SafeInv, \A p \in Procs : pc[p] = "idle",
         NEW q, \A f \in Files : q.hash[f] = Nil, \A d \in Dentries : q.dentry[d] = NoDentry,
         NEW tree, GoodTree(tree), Injective(tree), Below(tree, allocFloor),
         NEW stampGen, Inject(q, tree, stampGen), ViewTree' = tree,
         UNCHANGED <<procVars, allocFloor>>
  PROVE  /\ Quiet' /\ Reached' /\ Shaped' /\ Replayed' /\ Apart' /\ Writing'
         /\ \A f \in Hashed' : IsCurrent(hash[f])' =>
              /\ At(f).lower' = tree[f] /\ tree[f] = Staged(tree[f].ino) /\ tree[f].ino \in Inos
              /\ stampGen[tree[f].ino] >= gen'
         /\ \A d \in Dentries : dentry'[d].backing = "staged" => \E f \in Hashed' : hash'[f] = d
<1>0. UNCHANGED <<pc, dp, ino, mapped>> /\ \A p \in Procs : dp[p] = Nil
  BY DEF procVars, SafeInv, Quiet
<1>1. /\ Hashed' = {f \in Files : tree[f] # Base(f)}
      /\ \A f \in Hashed' : At(f)' = NodeOf(tree, f)
      /\ \A f \in Files, v \in Vnodes : tree[f] = Staged(v) =>
           stamp'[v].gen = stampGen[v] /\ stamp'[v].ino = v
      /\ \A d \in Dentries : dentry'[d].backing = "staged" => \E f \in Hashed' : hash'[f] = d
  BY <1>0, InjectBlank
<1>2. \A f \in Hashed' : /\ At(f).name' = f /\ At(f).pinned' /\ At(f).lower' = tree[f]
                         /\ At(f).backing' = tree[f].kind
                         /\ tree[f].kind = "base" => At(f).vnode' = BaseInode[tree[f].name]
                         /\ tree[f].kind = "staged" => At(f).vnode' = tree[f].ino
  BY <1>1 DEF NodeOf
<1>3. \A f \in Files : /\ tree[f] \in Backings
                       /\ tree[f].kind \in {"base", "staged", "none"}
                       /\ tree[f].kind = "staged" => tree[f].ino \in Inos /\ tree[f] = Staged(tree[f].ino)
                       /\ tree[f].kind = "base" => tree[f] = Base(tree[f].name)
                       /\ tree[f].kind = "base" /\ tree[f] # Base(f) => tree[f].name \in BaseFiles
                       /\ tree[f].kind = "none" <=> tree[f] = Gone
  BY BackingKinds DEF GoodTree, Trees
<1>4. InFlight' = {} /\ InFlight = {} /\ \A p \in Procs : pc'[p] = "idle"
  BY <1>0 DEF InFlight
<1>5. Quiet'
  BY <1>0, <1>4 DEF SafeInv, Quiet
<1>6. Reached'
  BY <1>2, <1>4 DEF Reached, Opening
<1>7. \A f \in Hashed' : tree[f].kind = "staged" =>
        stamp'[tree[f].ino].gen = stampGen[tree[f].ino] /\ stamp'[tree[f].ino].ino = tree[f].ino
  <2> SUFFICES ASSUME NEW f \in Hashed', tree[f].kind = "staged"
               PROVE  stamp'[tree[f].ino].gen = stampGen[tree[f].ino] /\ stamp'[tree[f].ino].ino = tree[f].ino
    OBVIOUS
  <2>1. PICK v \in Inos : v = tree[f].ino /\ tree[f] = Staged(v) /\ f \in Files
    BY <1>1, <1>3
  <2>2. v \in Vnodes
    BY DEF Vnodes
  <2>3. \A g \in Files, w \in Vnodes : tree[g] = Staged(w) =>
          stamp'[w].gen = stampGen[w] /\ stamp'[w].ino = w
    BY <1>0, InjectBlank
  <2> QED BY <2>1, <2>2, <2>3
<1>8. Shaped'
  <2>1. \A f \in Hashed' : f \in Files
    BY <1>1
  <2>2. \A f \in Hashed' : At(f).backing' = "staged" =>
          At(f).lower' = Staged(stamp'[At(f).vnode'].ino)
    <3> SUFFICES ASSUME NEW f \in Hashed', tree[f].kind = "staged"
                 PROVE  tree[f] = Staged(stamp'[tree[f].ino].ino)
      BY <1>2
    <3> QED BY <1>3, <1>7, <2>1
  <2> QED BY <1>2, <2>2 DEF Shaped
<1>9. Replayed'
  BY <1>1, <1>2, <1>4 DEF Replayed
<1>10. Apart'
  <2>0. Hashed' \subseteq Files /\ \A f \in Hashed' : tree[f] # Base(f)
    BY <1>1
  <2>1. \A f \in Hashed' : At(f).lower' # Gone =>
          \/ tree[f].kind = "base" /\ tree[f].name \in BaseFiles /\ At(f).vnode' = BaseInode[tree[f].name]
             /\ tree[f] = Base(tree[f].name) /\ At(f).vnode' \notin Inos
          \/ tree[f].kind = "staged" /\ At(f).vnode' = tree[f].ino /\ tree[f] = Staged(tree[f].ino)
             /\ At(f).vnode' \in Inos
    <3>1. \A x \in BaseFiles : BaseInode[x] \notin Inos
      BY DEF ConstAssumption, BaseInodes, Inos
    <3> QED BY <1>2, <1>3, <2>0, <3>1
  <2>2. \A f, g \in Hashed' : At(f).lower' # Gone /\ At(g).lower' # Gone /\ At(f).vnode' = At(g).vnode' => tree[f] = tree[g]
    BY <2>1 DEF Disciplined
  <2>3. \A f, g \in Hashed' : At(f).lower' # Gone /\ At(g).lower' # Gone /\ At(f).vnode' = At(g).vnode' => f = g
    BY <1>2, <2>0, <2>2 DEF Injective
  <2>4. \A f \in Hashed', g \in Files, x \in BaseFiles :
          At(f).lower' # Gone /\ At(f).vnode' = BaseInode[x] /\ tree[g] = Base(x) => g = f
    <3> SUFFICES ASSUME NEW f \in Hashed', NEW g \in Files, NEW x \in BaseFiles,
                        At(f).lower' # Gone, At(f).vnode' = BaseInode[x], tree[g] = Base(x)
                 PROVE  g = f
      OBVIOUS
    <3>1. BaseInode[x] \notin Inos
      BY DEF ConstAssumption, BaseInodes, Inos
    <3>2. tree[f] = Base(x)
      BY <2>1, <3>1 DEF Disciplined
    <3>3. Base(x) # Gone
      BY DEF Base, Gone
    <3> QED BY <2>0, <3>2, <3>3 DEF Injective
  <2>5. \A f \in Hashed' : At(f).lower' # Gone /\ At(f).vnode' \in Inos => At(f).vnode' <= allocFloor
    BY <2>0, <2>1 DEF Below
  <2> QED BY <1>4, <2>3, <2>4, <2>5 DEF Apart
<1>11. Writing'
  BY <1>4 DEF Writing
<1>12. ASSUME NEW f \in Hashed', IsCurrent(hash[f])'
       PROVE  /\ At(f).lower' = tree[f] /\ tree[f] = Staged(tree[f].ino) /\ tree[f].ino \in Inos
              /\ stampGen[tree[f].ino] >= gen'
  <2>1. f \in Files /\ tree[f].kind = "staged" /\ stamp'[At(f).vnode'].gen >= gen'
    BY <1>1, <1>2, <1>12 DEF IsCurrent, At
  <2>2. stamp'[tree[f].ino].gen = stampGen[tree[f].ino] /\ At(f).vnode' = tree[f].ino
    BY <1>2, <1>7, <2>1
  <2> QED BY <1>2, <1>3, <2>1, <2>2
<1> QED BY <1>1, <1>5, <1>6, <1>8, <1>9, <1>10, <1>11, <1>12

\* Nobody writes, copies or creates when a generation is about to be taken.
LEMMA NobodyWrites ==
  ASSUME ConstAssumption, Disciplined, TypeInv, FdInv, SafeInv, MaySeal, NoCreateRace
  PROVE  \A p \in Procs : pc[p] \in {"idle", "found", "slow", "reading"}
<1>1. Counted = {}
  <2>1. Cardinality(Counted) = 0
    BY CountIsNat DEF FdInv, MaySeal
  <2> QED BY <2>1, CountIsNat
<1>2. \A p \in Procs : pc[p] # "create"
  BY Excluded, Types DEF NoCreateRace, SafeInv, Quiet
<1>3. \A p \in Procs : pc[p] \notin {"cow", "publish", "lower", "writing", "neither"}
  BY <1>1 DEF Counted
<1> QED BY <1>2, <1>3, Types DEF PcLabels

\* A marker of a tree that the store has.
LEMMA MarkKeepsTrees ==
  ASSUME ConstAssumption, TypeInv, SafeInv, NEW tree, GoodTree(tree), Mark(tree),
         Injective(tree), Below(tree, allocFloor), InFlight = {},
         ctl' # "travel", UNCHANGED <<data, nextIno, pc>>
  PROVE  TreesKept'
<1> DEFINE m == [tree |-> tree, saw |-> Shows(tree)]
<1>1. /\ tip' = tree /\ cowFloor' = allocFloor /\ allocFloor' = allocFloor
      /\ Len(marks) \in Nat /\ Len(marks') = Len(marks) + 1
      /\ marks'[Len(marks) + 1].tree = tree
      /\ \A n \in 1 .. Len(marks) : marks'[n] = marks[n]
  <2> HIDE DEF m
  <2>1. marks' = Append(marks, m)
    BY DEF Mark, m
  <2>2. m.tree = tree
    BY DEF m
  <2> QED BY <2>1, <2>2 DEF Mark, TypeInv, JournalOK
<1>2. InFlight' = {}
  BY DEF InFlight
<1>3. \A n \in 1 .. Len(marks) : Injective(marks[n].tree) /\ Below(marks[n].tree, allocFloor)
  <2>1. \A n \in 1 .. Len(marks) : \A f \in Files :
          marks[n].tree[f].kind = "staged" => marks[n].tree[f].ino \in Inos
    BY BackingKinds DEF TypeInv, JournalOK, GoodTree, Trees
  <2> QED BY <2>1, Types DEF SafeInv, TreesKept, Below, Inos
<1>4. \A n \in 1 .. Len(marks') : Injective(marks'[n].tree) /\ Below(marks'[n].tree, allocFloor)
  <2> SUFFICES ASSUME NEW n \in 1 .. Len(marks')
               PROVE  Injective(marks'[n].tree) /\ Below(marks'[n].tree, allocFloor)
    OBVIOUS
  <2>1. n \in 1 .. Len(marks) \/ n = Len(marks) + 1
    BY <1>1
  <2> QED BY <1>1, <1>3, <2>1
<1>5. \A n \in 1 .. Len(marks') : (Injective(marks[n].tree) /\ Below(marks[n].tree, cowFloor))'
  BY <1>1, <1>4 DEF Injective, Below
<1>6. Injective(tip)' /\ Below(tip, allocFloor)'
  BY <1>1 DEF Injective, Below
<1> QED BY <1>1, <1>2, <1>5, <1>6, Types DEF SafeInv, TreesKept

\* What a change of the journal and the ioctl alone leaves of the dcache.
LEMMA ViewKept ==
  ASSUME ConstAssumption, TypeInv, SafeInv, UNCHANGED <<dcVars, procVars, allocFloor>>,
         ViewTree' = ViewTree, InFlight = {},
         ctl' # "idle" => \A p \in Procs : pc[p] \in {"idle", "found", "slow", "reading"},
         ctl' # "travel"
  PROVE  Quiet' /\ Reached' /\ Shaped' /\ Replayed' /\ Apart'
<1>0. UNCHANGED <<dentry, hash, stamp, dirLock, pc, dp, ino, mapped>>
  BY DEF dcVars, procVars
<1>1. /\ InFlight' = InFlight /\ Hashed' = Hashed /\ Opening' = Opening
      /\ \A f \in Hashed : At(f)' = At(f) /\ (Awaited(f)' <=> Awaited(f)) /\ (Unsettled(f)' <=> Unsettled(f))
  BY <1>0 DEF InFlight, Hashed, Opening, At, Awaited, Unsettled
<1>2. Quiet'
  BY <1>0 DEF SafeInv, Quiet
<1>3. Reached'
  BY <1>0, <1>1 DEF SafeInv, Reached, Positive
<1>4. Shaped'
  BY <1>0, <1>1 DEF SafeInv, Shaped
<1>5. Replayed'
  BY <1>1 DEF SafeInv, Replayed
<1>6. Apart'
  BY <1>1 DEF SafeInv, Apart
<1> QED BY <1>2, <1>3, <1>4, <1>5, <1>6

LEMMA SnapshotKeeps ==
  ASSUME ConstAssumption, Disciplined, TypeInv, FdInv, SafeInv, SnapshotMark \/ SnapshotDone
  PROVE  SafeInv'
<1>1. CASE SnapshotMark
  <2>1. /\ ctl = "idle" /\ MaySeal /\ NoCreateRace /\ gen' = gen + 1 /\ Mark(tip) /\ borrowed' = {}
        /\ ctl' = "snapshot" /\ UNCHANGED <<nextIno, dcVars, data, procVars, target>>
    BY <1>1, Excluded DEF SnapshotMark
  <2>2. \A p \in Procs : pc[p] \in {"idle", "found", "slow", "reading"}
    BY <2>1, NobodyWrites
  <2>3. InFlight = {} /\ UNCHANGED <<pc, dp, hash, dentry, stamp, allocFloor>> /\ tip' = tip
    BY <2>1, <2>2 DEF InFlight, procVars, dcVars, Mark
  <2>4. TreesKept'
    BY <2>1, <2>3, MarkKeepsTrees DEF SafeInv, TreesKept, TypeInv, JournalOK
  <2>5. Quiet' /\ Reached' /\ Shaped' /\ Replayed' /\ Apart'
    BY <2>1, <2>2, <2>3, ViewKept DEF ViewTree
  <2>6. Stamped'
    <3>1. \A v \in Vnodes : stamp[v].gen <= gen /\ stamp[v].gen \in Nat
      BY Types DEF SafeInv, Stamped
    <3>2. \A f \in Hashed' : ~IsCurrent(hash[f])'
      <4>1. \A f \in Hashed' : f \in Hashed /\ (At(f).backing = "staged" => At(f).vnode \in Vnodes)
        BY <2>3, Types DEF Hashed
      <4> QED BY <2>1, <2>3, <3>1, <4>1, Types DEF IsCurrent, At
    <3> QED BY <2>1, <2>3, <3>1, <3>2, Types DEF Stamped
  <2>7. Writing'
    BY <2>2, <2>3 DEF Writing
  <2> QED BY <2>4, <2>5, <2>6, <2>7 DEF SafeInv
<1>2. CASE SnapshotDone
  <2>1. /\ ctl = "snapshot" /\ ctl' = "idle"
        /\ UNCHANGED <<gen, nextIno, dcVars, data, jVars, procVars, target, borrowed>>
        /\ UNCHANGED <<tip, marks, allocFloor, cowFloor, pc, dp, ino, dentry, hash, stamp>>
    BY <1>2 DEF SnapshotDone, jVars, procVars, dcVars
  <2>2. InFlight = {} /\ ViewTree' = ViewTree
    BY <2>1 DEF InFlight, SafeInv, Quiet, ViewTree
  <2>3. Quiet' /\ Reached' /\ Shaped' /\ Replayed' /\ Apart'
    BY <2>1, <2>2, ViewKept
  <2>4. TreesKept'
    BY <2>1 DEF SafeInv, TreesKept, Injective, Below, InFlight
  <2>5. Stamped'
    BY <2>1 DEF SafeInv, Stamped, Fresh, IsCurrent, Hashed, At
  <2>6. Writing'
    BY <2>1 DEF SafeInv, Writing, Fresh, IsCurrent, Hashed
  <2> QED BY <2>3, <2>4, <2>5, <2>6 DEF SafeInv
<1> QED BY <1>1, <1>2

LEMMA TravelViewKeeps ==
  ASSUME ConstAssumption, Disciplined, TypeInv, FdInv, SafeInv,
         NEW g \in 0 .. Len(marks) - 1, TravelView(g)
  PROVE  SafeInv'
<1>1. PICK n \in 1 .. Len(marks) : n = g + 1
  BY DEF TypeInv, JournalOK
<1>2. PICK tree, stampGen : tree = marks[n].tree /\ stampGen = [i \in Inos |-> gen + 1]
  OBVIOUS
<1>3. /\ gen' = gen + 1 /\ target' = tree /\ ctl' = "travel" /\ Inject(Quiesced, tree, stampGen)
      /\ UNCHANGED <<tip, marks, allocFloor, cowFloor, nextIno, data, procVars, borrowed>>
      /\ ctl = "idle"
  BY <1>1, <1>2 DEF TravelView, jVars
<1>4. \A p \in Procs : pc[p] = "idle"
  BY Excluded DEF TravelView
<1>5. \A p \in Procs : dp[p] = Nil
  BY <1>4 DEF SafeInv, Quiet
<1>6. GoodTree(tree) /\ Injective(tree) /\ Below(tree, cowFloor)
  BY <1>2 DEF TypeInv, JournalOK, SafeInv, TreesKept
<1>7. Below(tree, allocFloor)
  <2>1. \A f \in Files : tree[f].kind = "staged" => tree[f].ino \in Inos
    BY <1>6, BackingKinds DEF GoodTree, Trees
  <2> QED BY <1>6, <2>1, Types DEF SafeInv, TreesKept, Below, Inos
<1>8. ViewTree' = tree
  BY <1>3 DEF ViewTree
<1>9. /\ \A f \in Files : Quiesced.hash[f] = Nil
      /\ \A d \in Dentries : Quiesced.dentry[d] = NoDentry
  BY <1>5, QuiescedBlank
<1>10. Quiet' /\ Reached' /\ Shaped' /\ Replayed' /\ Apart' /\ Writing'
  BY <1>3, <1>4, <1>6, <1>7, <1>8, <1>9, InjectSafe
<1>11. TreesKept'
  <2>1. InFlight' = InFlight /\ ino' = ino
    BY <1>3 DEF InFlight, procVars
  <2> QED BY <1>2, <1>3, <2>1 DEF SafeInv, TreesKept, Injective, Below
<1>12. Stamped'
  <2>1. /\ \A f \in Files, v \in Vnodes : tree[f] = Staged(v) => stamp'[v].gen = stampGen[v]
        /\ \A v \in Vnodes : (\A f \in Files : tree[f] # Staged(v)) => stamp'[v] = stamp[v]
    BY <1>3, <1>5, <1>6, <1>9, InjectBlank
  <2>2. \A v \in Vnodes : stamp'[v].gen <= gen'
    <3> SUFFICES ASSUME NEW v \in Vnodes PROVE stamp'[v].gen <= gen'
      OBVIOUS
    <3>1. CASE \A f \in Files : tree[f] # Staged(v)
      <4>1. stamp[v].gen \in Nat /\ stamp[v].gen <= gen
        BY Types DEF SafeInv, Stamped
      <4>2. stamp'[v] = stamp[v]
        BY <2>1, <3>1
      <4>3. gen' = gen + 1 /\ gen \in Nat
        BY <1>3, Types
      <4> QED BY <4>1, <4>2, <4>3
    <3>2. CASE \E f \in Files : tree[f] = Staged(v)
      <4>1. v \in Inos
        BY <1>6, <3>2, BackingKinds DEF GoodTree, Trees, Staged
      <4>2. stamp'[v].gen = stampGen[v]
        BY <2>1, <3>2
      <4> QED BY <1>2, <1>3, <4>1, <4>2, Types
    <3> QED BY <3>1, <3>2
  <2> QED BY <1>3, <2>2 DEF Stamped
<1> QED BY <1>10, <1>11, <1>12 DEF SafeInv

LEMMA TravelDoneKeeps ==
  ASSUME ConstAssumption, Disciplined, TypeInv, SafeInv, TravelDone
  PROVE  SafeInv'
<1>1. /\ ctl = "travel" /\ ctl' = "idle" /\ Mark(target)
      /\ borrowed' = {target[f].ino : f \in Files} \ {0}
      /\ UNCHANGED <<gen, nextIno, dcVars, data, procVars>>
      /\ UNCHANGED <<pc, dp, ino, dentry, hash, stamp, allocFloor>> /\ tip' = target
  BY Excluded DEF TravelDone, procVars, dcVars, Mark
<1>2. InFlight = {} /\ ViewTree = target /\ ViewTree' = ViewTree
  BY <1>1 DEF InFlight, SafeInv, Quiet, ViewTree
<1>3. Quiet' /\ Reached' /\ Shaped' /\ Replayed' /\ Apart'
  BY <1>1, <1>2, ViewKept
<1>4. PICK n \in 1 .. Len(marks) : target = marks[n].tree
  BY <1>1 DEF SafeInv, TreesKept
<1>5. GoodTree(target) /\ Injective(target) /\ Below(target, allocFloor)
  <2>1. GoodTree(target) /\ Injective(target) /\ Below(target, cowFloor)
    BY <1>4 DEF TypeInv, CtlOK, SafeInv, TreesKept
  <2>2. \A f \in Files : target[f].kind = "staged" => target[f].ino \in Inos
    BY <2>1, BackingKinds DEF GoodTree, Trees
  <2> QED BY <2>1, <2>2, Types DEF SafeInv, TreesKept, Below, Inos
<1>6. TreesKept'
  BY <1>1, <1>2, <1>5, MarkKeepsTrees
<1>7. Stamped'
  <2>1. \A f \in Hashed' : IsCurrent(hash[f])' => Fresh(At(f).lower.ino)'
    <3> SUFFICES ASSUME NEW f \in Hashed, IsCurrent(hash[f]) PROVE At(f).lower.ino \in borrowed'
      BY <1>1 DEF Hashed, IsCurrent, At, Fresh
    <3>1. At(f).lower = target[f] /\ f \in Files
      BY <1>2 DEF SafeInv, Replayed, Unsettled, Hashed
    <3>2. At(f).lower = Staged(stamp[At(f).vnode].ino)
      BY DEF SafeInv, Shaped, IsCurrent, At
    <3>3. target[f].kind = "staged"
      BY <3>1, <3>2 DEF Staged
    <3>4. target[f].ino \in Inos
      BY <1>5, <3>1, <3>3, BackingKinds DEF GoodTree, Trees
    <3> QED BY <1>1, <3>1, <3>4 DEF Inos
  <2> QED BY <1>1, <2>1 DEF SafeInv, Stamped
<1>8. Writing'
  BY <1>1 DEF SafeInv, Quiet, Writing
<1> QED BY <1>3, <1>6, <1>7, <1>8 DEF SafeInv

\* Mounting again: the stamps it restores are current above the copy floor
\* only.
LEMMA RemountKeeps ==
  ASSUME ConstAssumption, Disciplined, TypeInv, PositionInv, SafeInv, Remount
  PROVE  /\ SafeInv' /\ gen' = gen
         /\ \A d \in Dentries : dentry'[d].backing = "staged" /\ IsCurrent(d)'
                                  => dentry'[d].lower.ino > cowFloor
<1>1. PICK q, stampGen :
        /\ q = [hash |-> [f \in Files |-> Nil], dentry |-> [d \in Dentries |-> NoDentry]]
        /\ stampGen = [i \in Inos |-> RestoredStamp(i, LatestGen)]
  OBVIOUS
<1>2. /\ ctl = "idle" /\ ctl' = ctl /\ (cowFloor > 0 => LatestGen > 0) /\ gen' = LatestGen
      /\ nextIno' = allocFloor /\ borrowed' = {} /\ Inject(q, tip, stampGen)
      /\ UNCHANGED <<tip, marks, allocFloor, cowFloor, data, procVars, target>>
      /\ \A p \in Procs : pc[p] = "idle"
  BY <1>1 DEF Remount, jVars
<1>3. (\A f \in Files : q.hash[f] = Nil) /\ \A d \in Dentries : q.dentry[d] = NoDentry
  BY <1>1
<1>4. GoodTree(tip) /\ Injective(tip) /\ Below(tip, allocFloor) /\ ViewTree' = tip
  BY <1>2 DEF TypeInv, JournalOK, SafeInv, TreesKept, ViewTree
<1>5. gen' = gen
  BY <1>2 DEF LatestGen, PositionInv
<1>6. \A i \in Inos : /\ stampGen[i] <= gen'
                      /\ stampGen[i] >= gen' => i > cowFloor
  BY <1>1, <1>2, <1>5, Types DEF RestoredStamp, Inos
<1>7. /\ Quiet' /\ Reached' /\ Shaped' /\ Replayed' /\ Apart' /\ Writing'
      /\ \A f \in Hashed' : IsCurrent(hash[f])' =>
           /\ At(f).lower' = tip[f] /\ tip[f] = Staged(tip[f].ino) /\ tip[f].ino \in Inos
           /\ stampGen[tip[f].ino] >= gen'
      /\ \A d \in Dentries : dentry'[d].backing = "staged" => \E f \in Hashed' : hash'[f] = d
  BY <1>2, <1>3, <1>4, InjectSafe
<1>8. \A f \in Hashed' : IsCurrent(hash[f])' => At(f).lower'.ino > cowFloor
  BY <1>6, <1>7
<1>9. \A v \in Vnodes : stamp'[v].gen <= gen'
  <2>1. /\ \A f \in Files, v \in Vnodes : tip[f] = Staged(v) => stamp'[v].gen = stampGen[v]
        /\ \A v \in Vnodes : (\A f \in Files : tip[f] # Staged(v)) => stamp'[v] = stamp[v]
    <3>1. \A p \in Procs : dp[p] = Nil
      BY <1>2 DEF SafeInv, Quiet
    <3> QED BY <1>2, <1>3, <1>4, <3>1, InjectBlank
  <2> SUFFICES ASSUME NEW v \in Vnodes PROVE stamp'[v].gen <= gen'
    OBVIOUS
  <2>2. CASE \A f \in Files : tip[f] # Staged(v)
    BY <1>5, <2>1, <2>2 DEF SafeInv, Stamped
  <2>3. CASE \E f \in Files : tip[f] = Staged(v)
    <3>1. v \in Inos
      BY <1>4, <2>3, BackingKinds DEF GoodTree, Trees, Staged
    <3>2. stamp'[v].gen = stampGen[v]
      BY <2>1, <2>3
    <3> QED BY <1>6, <3>1, <3>2
  <2> QED BY <2>2, <2>3
<1>10. Stamped'
  BY <1>2, <1>8, <1>9 DEF Stamped, Fresh
<1>11. TreesKept'
  <2>1. InFlight' = {} /\ InFlight = {}
    BY <1>2 DEF InFlight, procVars
  <2> QED BY <1>2, <2>1, Types DEF SafeInv, TreesKept, Injective, Below
<1>12. \A d \in Dentries : dentry'[d].backing = "staged" /\ IsCurrent(d)' => dentry'[d].lower.ino > cowFloor
  BY <1>7, <1>8 DEF At
<1> QED BY <1>5, <1>7, <1>10, <1>11, <1>12 DEF SafeInv

-----------------------------------------------------------------------------
LEMMA SafeInvInit == ConstAssumption /\ Init => SafeInv
<1> SUFFICES ASSUME ConstAssumption, Init PROVE SafeInv
  OBVIOUS
<1>1. Hashed = {} /\ InFlight = {} /\ ViewTree = BaseTree /\ \A p \in Procs : pc[p] = "idle"
  BY DEF Init, Hashed, InFlight, ViewTree
<1>2. Quiet /\ Reached /\ Shaped
  BY <1>1 DEF Init, Quiet, Reached, Shaped, Opening
<1>3. Replayed
  BY <1>1 DEF Replayed, BaseTree
<1>4. Injective(BaseTree) /\ \A top : Below(BaseTree, top)
  BY DEF Injective, Below, BaseTree, Base
<1>5. TreesKept
  <2>1. marks[1].tree = BaseTree /\ Len(marks) = 1 /\ tip = BaseTree
    <3> DEFINE m == [tree |-> tip, saw |-> Shows(tip)]
    <3>1. m.tree = tip
      OBVIOUS
    <3> HIDE DEF m
    <3>2. marks = <<m>> /\ tip = BaseTree
      BY DEF Init, m
    <3> QED BY <3>1, <3>2
  <2>2. \A n \in 1 .. Len(marks) : Injective(marks[n].tree) /\ Below(marks[n].tree, cowFloor)
    BY <1>4, <2>1
  <2>3. ctl # "travel" /\ cowFloor <= allocFloor /\ allocFloor <= nextIno
    BY DEF Init
  <2> QED BY <1>1, <1>4, <2>1, <2>2, <2>3 DEF TreesKept
<1>6. Apart
  BY <1>1 DEF Apart
<1>7. Stamped
  BY <1>1 DEF Init, Stamped
<1>8. Writing
  BY <1>1 DEF Writing
<1> QED BY <1>2, <1>3, <1>5, <1>6, <1>7, <1>8 DEF SafeInv

\* What SafeInv says stays with what it talks about.
LEMMA SafeInvFrame ==
  ASSUME SafeInv, UNCHANGED vars
  PROVE  SafeInv'
<1>1. UNCHANGED <<gen, nextIno, dentry, hash, stamp, dirLock, data, tip, marks, allocFloor,
                  cowFloor, pc, dp, ino, mapped, ctl, target, borrowed>>
  BY DEF vars, sbVars, dcVars, jVars, procVars, ctlVars
<1>2. ViewTree' = ViewTree /\ InFlight' = InFlight /\ Hashed' = Hashed /\ Opening' = Opening
      /\ \A f \in Files : At(f)' = At(f) /\ (Awaited(f)' <=> Awaited(f))
                                         /\ (Unsettled(f)' <=> Unsettled(f))
  BY <1>1 DEF ViewTree, InFlight, Hashed, Opening, At, Awaited, Unsettled
<1>3. Quiet' /\ Reached' /\ Shaped'
  BY <1>1, <1>2 DEF SafeInv, Quiet, Reached, Shaped, Positive, Hashed
<1>4. Replayed'
  BY <1>1, <1>2 DEF SafeInv, Replayed, Hashed
<1>5. TreesKept'
  BY <1>1, <1>2 DEF SafeInv, TreesKept, Injective, Below
<1>6. Apart'
  BY <1>1, <1>2 DEF SafeInv, Apart, Hashed
<1>7. Stamped'
  BY <1>1, <1>2 DEF SafeInv, Stamped, IsCurrent, Fresh, Hashed
<1>8. Writing'
  BY <1>1, <1>2 DEF SafeInv, Writing, IsCurrent, Fresh, Hashed
<1> QED BY <1>3, <1>4, <1>5, <1>6, <1>7, <1>8 DEF SafeInv

LEMMA SafeInvStep ==
  ASSUME ConstAssumption, Disciplined, TypeInv, LockInv, FdInv, PositionInv, SafeInv, [Next]_vars
  PROVE  SafeInv'
<1>1. ASSUME NEW p \in Procs, ProcStep(p) PROVE SafeInv'
  <2>1. CASE \/ \E f \in Files : Walk(p, f)
             \/ OpenRead(p) \/ OpenFast(p) \/ OpenStale(p) \/ Recheck(p)
    BY <2>1, OpenKeeps
  <2>2. CASE OpenLower(p) \/ OpenLowerFail(p)
    BY <2>2, LowerKeeps
  <2>3. CASE CowFail(p) \/ Close(p) \/ CreateFail(p)
    BY <2>3, ExitKeeps
  <2>4. CASE Map(p) \/ \E c \in Data : Write(p, c) \/ WriteMapped(p, c)
    BY <2>4, FileKeeps
  <2>5. CASE CowJournal(p)
    BY <2>5, CowRecordKeeps
  <2>6. CASE CowPublish(p)
    BY <2>6, CowPublishKeeps
  <2>7. CASE CreatePublish(p)
    BY <2>7, CreatePublishKeeps
  <2>8. CASE \E f \in Files : CreateJournal(p, f)
    BY <2>8, CreateRecordKeeps
  <2>9. ~CreateUnpublished(p)
    BY Excluded DEF CreateUnpublished
  <2> QED BY <1>1, <2>1, <2>2, <2>3, <2>4, <2>5, <2>6, <2>7, <2>8, <2>9 DEF ProcStep
<1>2. ASSUME NameStep PROVE SafeInv'
  <2>1. CASE \E f \in Files : Lookup(f)
    BY <2>1, LookupKeeps
  <2>2. CASE \E f \in Files : Evict(f)
    BY <2>2, EvictKeeps
  <2>3. CASE \E f \in Files : Unlink(f)
    BY <2>3, UnlinkKeeps
  <2>4. CASE \E f, g \in Files : Rename(f, g)
    BY <2>4, RenameKeeps
  <2> QED BY <1>2, <2>1, <2>2, <2>3, <2>4 DEF NameStep
<1>3. ASSUME CtlStep PROVE SafeInv'
  <2>1. CASE SnapshotMark \/ SnapshotDone
    BY <2>1, SnapshotKeeps
  <2>2. CASE \E g \in 0 .. Len(marks) - 1 : TravelView(g)
    BY <2>2, TravelViewKeeps
  <2>3. CASE TravelDone
    BY <2>3, TravelDoneKeeps
  <2>4. ~TravelFail
    BY Excluded DEF TravelFail
  <2>5. CASE Remount
    BY <2>5, RemountKeeps
  <2> QED BY <1>3, <2>1, <2>2, <2>3, <2>4, <2>5 DEF CtlStep
<1>4. CASE UNCHANGED vars
  BY <1>4, SafeInvFrame
<1> QED BY <1>1, <1>2, <1>3, <1>4 DEF Next

LEMMA InvHolds ==
  ASSUME Disciplined
  PROVE  (Init => Inv) /\ (Inv /\ [Next]_vars => Inv')
<1>1. Init => FdInv
  <2> SUFFICES ASSUME Init PROVE FdInv
    OBVIOUS
  <2>1. Counted = {}
    BY DEF Init, Counted
  <2> QED BY <2>1, FS_EmptySet DEF Init, FdInv, PcLabels
<1>2. Init => LockInv /\ PositionInv
  BY DEF Init, LockInv, PositionInv
<1>3. Init => Inv
  BY <1>1, <1>2, SafeInvInit, TypeInvInit, ConstAssumption DEF Inv
<1>4. Inv /\ [Next]_vars => Inv'
  BY SafeInvStep, TypeInvStep, LockInvStep, FdInvStep, PositionInvStep, Excluded, ConstAssumption
     DEF Inv
<1> QED BY <1>3, <1>4

-----------------------------------------------------------------------------
\* The view of a state with nothing in flight.
LEMMA ViewReplays ==
  ASSUME ConstAssumption, TypeInv, SafeInv, ctl = "idle", InFlight = {}, NEW f \in Files
  PROVE  View(f) = Resolve(tip[f])
<1>1. ViewTree = tip /\ ~Unsettled(f)
  BY DEF ViewTree, Unsettled
<1>2. CASE hash[f] = Nil
  BY <1>1, <1>2 DEF SafeInv, Replayed, Hashed, View
<1>3. CASE hash[f] # Nil
  <2>1. f \in Hashed /\ View(f) = At(f).lower /\ tip[f] = At(f).lower
    BY <1>1, <1>3 DEF Hashed, View, At, SafeInv, Replayed
  <2>2. CASE At(f).lower = Gone
    BY <2>1, <2>2 DEF Resolve, Gone
  <2>3. CASE At(f).lower # Gone
    BY <1>1, <2>1, <2>3, SettledContent
  <2> QED BY <2>2, <2>3
<1> QED BY <1>2, <1>3

\* ViewIsReplay for every instance of the discipline: what the kernel shows is
\* what a replay of the journal gives, through copies, creates, deletions,
\* renames, evictions, travels and mounts.
THEOREM ViewIsTheReplay ==
  ASSUME Disciplined
  PROVE  Spec => []ViewIsReplay
<1>1. Inv => ViewIsReplay
  BY ViewReplays, ConstAssumption DEF Inv, ViewIsReplay, InFlight
<1> QED BY <1>1, InvHolds, PTL DEF Spec

\* WritersAgree for every instance of the discipline: a file that two
\* descriptors write has been copied once, whatever the stale opens did.
THEOREM OneCopyForWriters ==
  ASSUME Disciplined
  PROVE  Spec => []WritersAgree
<1>1. Inv => WritersAgree
  <2> SUFFICES ASSUME Inv, NEW p \in Procs, NEW q \in Procs, pc[p] = "writing", pc[q] = "writing",
                      dp[p] = dp[q]
               PROVE  ino[p] = ino[q]
    BY DEF WritersAgree
  <2>1. Staged(ino[p]) = Staged(ino[q])
    BY DEF Inv, SafeInv, Writing
  <2> QED BY <2>1 DEF Staged
<1> QED BY <1>1, InvHolds, PTL DEF Spec

\* What a step may change in the store.
LEMMA WritesFresh ==
  ASSUME ConstAssumption, Disciplined, TypeInv, SafeInv, [Next]_vars,
         NEW i \in Inos, data[i] # Nil, data'[i] # data[i]
  PROVE  /\ Fresh(i)
         /\ \E p \in Procs : pc[p] \in {"writing", "lower"}
<1>1. ASSUME NEW p \in Procs, pc[p] = "lower", MayTruncate(p)
      PROVE  Fresh(i)
  <2>1. i = dentry[dp[p]].lower.ino
    BY <1>1 DEF MayTruncate, TypeInv, DataOK
  <2>2. PICK f \in Files : hash[f] = dp[p]
    BY <1>1 DEF SafeInv, Reached, Opening
  <2>3. f \in Hashed /\ dp[p] = hash[f]
    BY <1>1, <2>2, Types DEF Hashed
  <2>4. IsCurrent(hash[f]) /\ ctl # "travel"
    BY <1>1, <2>3, Types DEF SafeInv, Writing, Quiet, TypeInv, CtlOK
  <2> QED BY <2>1, <2>3, <2>4 DEF SafeInv, Stamped, At
<1>2. ~ \E c : Alloc(nextIno + 1, c)
  BY DEF Alloc, TypeInv, DataOK
<1>3. ~AllocFail
  BY AllocFailKeeps
<1>4. ASSUME NEW p \in Procs, ProcStep(p)
      PROVE  Fresh(i) /\ pc[p] \in {"writing", "lower"}
  <2>1. CASE OpenLower(p) \/ OpenLowerFail(p)
    BY <1>1, <2>1 DEF OpenLower, OpenLowerFail
  <2>2. CASE \E c \in Data : Write(p, c)
    <3>1. pc[p] = "writing" /\ i = ino[p]
      BY <2>2 DEF Write, TypeInv, DataOK
    <3> QED BY <3>1 DEF SafeInv, Writing
  <2>3. ~ \E c \in Data : WriteMapped(p, c)
    BY DEF WriteMapped, SafeInv, Quiet
  <2>4. ~CowJournal(p) /\ ~ \E f \in Files : CreateJournal(p, f)
    BY <1>2 DEF CowJournal, CreateJournal
  <2>5. ~CowFail(p) /\ ~CreateFail(p)
    BY <1>3 DEF CowFail, CreateFail
  <2> QED BY <1>4, <2>1, <2>2, <2>3, <2>4, <2>5
          DEF ProcStep, Walk, OpenRead, OpenFast, OpenStale, Recheck, CowPublish, CreatePublish,
              CreateUnpublished, Map, Close
<1>5. ~NameStep
  BY DEF NameStep, Lookup, Evict, Unlink, Rename
<1>6. ~CtlStep
  BY DEF CtlStep, SnapshotMark, SnapshotDone, TravelView, TravelDone, TravelFail, Remount
<1>7. ~UNCHANGED vars
  BY DEF vars
<1> QED BY <1>4, <1>5, <1>6, <1>7 DEF Next

\* RemountInvisible for every instance of the discipline: what is mounted
\* after an unmount is what was there, and the restored stamps make nothing
\* of a snapshot writable in place.
THEOREM RemountLosesNothing ==
  ASSUME Disciplined
  PROVE  Spec => RemountInvisible
<1> DEFINE A == Remount =>
       /\ \A f \in Files : View(f)' = View(f)
       /\ gen' = gen
       /\ recs => dirty'
       /\ \A d \in Dentries : dentry'[d].backing = "staged" /\ IsCurrent(d)'
                                => dentry'[d].lower.ino > cowFloor
<1>1. ASSUME Inv, ViewIsReplay, ViewIsReplay', Remount PROVE A
  <2>1. /\ ctl = "idle" /\ ctl' = ctl /\ tip' = tip /\ pc' = pc /\ dirty' = recs
        /\ \A p \in Procs : pc[p] = "idle"
    BY <1>1 DEF Remount, jVars, procVars
  <2>2. \A f \in Files : View(f)' = View(f)
    BY <1>1, <2>1 DEF ViewIsReplay, Resolve
  <2>3. /\ gen' = gen
        /\ \A d \in Dentries : dentry'[d].backing = "staged" /\ IsCurrent(d)'
                                 => dentry'[d].lower.ino > cowFloor
    BY <1>1, RemountKeeps, ConstAssumption DEF Inv
  <2> QED BY <2>1, <2>2, <2>3
<1>2. (Init => Inv) /\ (Inv /\ [Next]_vars => Inv')
  BY InvHolds
<1>3. Inv /\ ViewIsReplay /\ ViewIsReplay' /\ [Next]_vars => [A]_vars
  BY <1>1
<1>4. Spec => []ViewIsReplay
  BY ViewIsTheReplay
<1> QED BY <1>2, <1>3, <1>4, PTL DEF Spec, RemountInvisible

-----------------------------------------------------------------------------
(* Without writes after a travel. *)

LEMMA UnborrowedStep ==
  ASSUME ConstAssumption, Disciplined, "travelwrite" \notin Env, TypeInv, SafeInv, Unborrowed,
         [Next]_vars
  PROVE  Unborrowed'
<1>0. pc \in [Procs -> PcLabels]
  BY Types
<1> DEFINE owning == {"slow", "cow", "publish", "lower", "writing", "neither"}
<1>1. ASSUME NEW p \in Procs, UNCHANGED borrowed, \A q \in Procs : q # p => pc'[q] = pc[q],
             pc'[p] \in owning => pc[p] \in owning \/ borrowed = {}
      PROVE  Unborrowed'
  BY <1>1 DEF Unborrowed
<1>2. ASSUME UNCHANGED <<pc, borrowed>> PROVE Unborrowed'
  BY <1>2 DEF Unborrowed
<1>3. ASSUME NEW p \in Procs, ProcStep(p) PROVE Unborrowed'
  <2>1. ASSUME NEW label \in PcLabels, Goto(p, label), UNCHANGED borrowed,
               label \in owning => pc[p] \in owning \/ borrowed = {}
        PROVE  Unborrowed'
    BY <1>0, <1>1, <2>1 DEF Goto
  <2>2. CASE (\E f \in Files : Walk(p, f) \/ CreateJournal(p, f)) \/ OpenRead(p) \/ CreatePublish(p)
    <3>1. /\ UNCHANGED borrowed /\ \E label \in {"found", "create", "reading"} : Goto(p, label)
      BY <2>2 DEF Walk, CreateJournal, OpenRead, CreatePublish, Goto, ctlVars
    <3> QED BY <2>1, <3>1 DEF PcLabels
  <2>3. CASE OpenFast(p) \/ OpenStale(p)
    <3>1. UNCHANGED borrowed /\ borrowed = {} /\ \E label \in {"lower", "slow"} : Goto(p, label)
      BY <2>3 DEF OpenFast, OpenStale, MayOpenForWrite, ctlVars
    <3> QED BY <2>1, <3>1 DEF PcLabels
  <2>4. CASE Recheck(p) \/ OpenLower(p) \/ CowJournal(p) \/ CowPublish(p)
    <3>1. /\ UNCHANGED borrowed /\ pc[p] \in owning
          /\ \E label \in {"lower", "cow", "writing", "neither", "publish", "idle"} : Goto(p, label)
      BY <2>4 DEF Recheck, OpenLower, CowJournal, CowPublish, Opened, ctlVars
    <3> QED BY <2>1, <3>1 DEF PcLabels
  <2>5. CASE OpenLowerFail(p) \/ CowFail(p) \/ Close(p) \/ CreateUnpublished(p)
    <3>1. UNCHANGED borrowed /\ Goto(p, "idle")
      BY <2>5 DEF OpenLowerFail, CowFail, Close, CreateUnpublished, Done, Goto, ctlVars
    <3> QED BY <2>1, <3>1 DEF PcLabels
  <2>6. CASE CreateFail(p) \/ Map(p) \/ \E c \in Data : Write(p, c) \/ WriteMapped(p, c)
    BY <1>2, <2>6 DEF CreateFail, Map, Write, WriteMapped, procVars, ctlVars
  <2> QED BY <1>3, <2>2, <2>3, <2>4, <2>5, <2>6 DEF ProcStep
<1>4. CASE NameStep
  BY <1>2, <1>4 DEF NameStep, Lookup, Evict, Unlink, Rename, procVars, ctlVars
<1>5. CASE SnapshotMark \/ Remount
  <2>1. borrowed' = {}
    BY <1>5, Excluded DEF SnapshotMark, Remount
  <2> QED BY <2>1 DEF Unborrowed
<1>6. CASE SnapshotDone \/ TravelFail \/ \E g \in 0 .. Len(marks) - 1 : TravelView(g)
  BY <1>2, <1>6 DEF SnapshotDone, TravelFail, TravelView, procVars, ctlVars
<1>7. CASE TravelDone
  BY <1>7 DEF TravelDone, procVars, Unborrowed, SafeInv, Quiet
<1>8. CASE UNCHANGED vars
  BY <1>2, <1>8 DEF vars, procVars, ctlVars
<1> QED BY <1>3, <1>4, <1>5, <1>6, <1>7, <1>8 DEF Next, CtlStep

\* A store inode of a snapshot keeps its content.
LEMMA SnapshotDataKept ==
  ASSUME ConstAssumption, Disciplined, TypeInv, SafeInv, Unborrowed, [Next]_vars,
         NEW i \in Inos, i <= cowFloor, data[i] # Nil
  PROVE  data'[i] = data[i]
<1> SUFFICES ASSUME data'[i] # data[i] PROVE FALSE
  OBVIOUS
<1>1. Fresh(i) /\ \E p \in Procs : pc[p] \in {"writing", "lower"}
  BY WritesFresh
<1>2. borrowed = {}
  BY <1>1 DEF Unborrowed
<1> QED BY <1>1, <1>2, Types DEF Fresh, Inos

\* A tree shows what it showed while the objects it names keep their content.
LEMMA ShowsKept ==
  ASSUME NEW tree, \A f \in Files : tree[f].kind = "staged" => data'[tree[f].ino] = data[tree[f].ino]
  PROVE  Shows(tree)' = Shows(tree)
<1>1. \A f \in Files : ContentOf(Resolve(tree[f]))' = ContentOf(Resolve(tree[f]))
  BY DEF ContentOf, Resolve, Gone
<1> QED BY <1>1 DEF Shows

\* The trees of the markers go on showing what they showed.
LEMMA MarkersShow ==
  ASSUME ConstAssumption, Disciplined, TypeInv, SafeInv, Unborrowed, [Next]_vars,
         NEW n \in 1 .. Len(marks), NEW tree, tree = marks[n].tree
  PROVE  Shows(tree)' = Shows(tree)
<1>1. \A f \in Files : tree[f].kind = "staged" =>
        tree[f].ino \in Inos /\ tree[f].ino <= cowFloor /\ data[tree[f].ino] # Nil
  BY BackingKinds DEF TypeInv, JournalOK, GoodTree, Trees, SafeInv, TreesKept, Below
<1>2. \A f \in Files : tree[f].kind = "staged" => data'[tree[f].ino] = data[tree[f].ino]
  BY <1>1, SnapshotDataKept
<1> QED BY <1>2, ShowsKept

\* OnlyFreshWritten for every instance of the discipline in which nothing is
\* written between a travel and the next snapshot: a write, a truncation and a
\* failed open reach no inode that the tree of a marker names.
THEOREM SnapshotsUnwritten ==
  ASSUME Disciplined, "travelwrite" \notin Env
  PROVE  Spec => OnlyFreshWritten
<1> DEFINE A == \A i \in Inos : data[i] # Nil /\ data'[i] # data[i] =>
                  \A n \in DOMAIN marks : \A f \in Files : marks[n].tree[f] # Staged(i)
<1>1. ASSUME Inv, Unborrowed, [Next]_vars PROVE A
  <2> SUFFICES ASSUME NEW i \in Inos, data[i] # Nil, data'[i] # data[i],
                      NEW n \in DOMAIN marks, NEW f \in Files, marks[n].tree[f] = Staged(i)
               PROVE  FALSE
    OBVIOUS
  <2>1. n \in 1 .. Len(marks)
    BY <1>1 DEF Inv, TypeInv, JournalOK
  <2>2. marks[n].tree[f].kind = "staged" /\ marks[n].tree[f].ino = i
    BY DEF Staged
  <2>3. i <= cowFloor
    BY <1>1, <2>1, <2>2 DEF Inv, SafeInv, TreesKept, Below
  <2>4. data'[i] = data[i]
    BY <1>1, <2>3, SnapshotDataKept, ConstAssumption DEF Inv
  <2> QED BY <2>4
<1>2. Init => Unborrowed
  BY DEF Init, Unborrowed
<1>3. Inv /\ Unborrowed /\ [Next]_vars => Unborrowed'
  BY UnborrowedStep, ConstAssumption DEF Inv
<1>4. Inv /\ Unborrowed /\ [Next]_vars => [A]_vars
  BY <1>1
<1> QED BY <1>2, <1>3, <1>4, InvHolds, PTL DEF Spec, OnlyFreshWritten

\* How the markers change.
LEMMA MarksMove ==
  ASSUME ConstAssumption, TypeInv, [Next]_vars
  PROVE  \/ marks' = marks
         \/ \E tree : Mark(tree) /\ data' = data
<1>1. ASSUME NEW p \in Procs, ProcStep(p) PROVE marks' = marks
  BY <1>1 DEF ProcStep, Walk, CreateJournal, OpenRead, OpenFast, OpenStale, Recheck, OpenLower,
         OpenLowerFail, CowJournal, CowFail, CowPublish, CreateFail, CreatePublish,
         CreateUnpublished, Map, Close, Write, WriteMapped, JournalStage, jVars
<1>2. NameStep => marks' = marks
  BY DEF NameStep, Lookup, Evict, Unlink, Rename, JournalNames, jVars
<1>3. SnapshotMark => marks' = marks \/ (Mark(tip) /\ data' = data)
  BY DEF SnapshotMark, jVars
<1>4. TravelDone => marks' = marks \/ (Mark(target) /\ data' = data)
  BY DEF TravelDone, jVars
<1>5. SnapshotDone \/ TravelFail \/ Remount \/ (\E g \in 0 .. Len(marks) - 1 : TravelView(g)) => marks' = marks
  BY DEF SnapshotDone, TravelFail, TravelView, Remount, jVars
<1>6. UNCHANGED vars => marks' = marks
  BY DEF vars, jVars
<1> QED BY <1>1, <1>2, <1>3, <1>4, <1>5, <1>6 DEF Next, CtlStep

LEMMA StableStep ==
  ASSUME ConstAssumption, Disciplined, TypeInv, SafeInv, Unborrowed, SnapshotStable, [Next]_vars
  PROVE  SnapshotStable'
<1>0. marks \in Seq(MarkRecs) /\ Len(marks) \in Nat /\ DOMAIN marks = 1 .. Len(marks)
  BY DEF TypeInv, JournalOK
<1>1. ASSUME NEW n \in 1 .. Len(marks), marks'[n] = marks[n]
      PROVE  (Shows(marks[n].tree) = marks[n].saw)'
  <2>1. PICK tree : tree = marks[n].tree
    OBVIOUS
  <2>2. Shows(tree)' = Shows(tree) /\ Shows(tree) = marks[n].saw
    BY <1>0, <2>1, MarkersShow DEF SnapshotStable
  <2>3. Shows(marks[n].tree)' = Shows(tree)'
    BY <1>1, <2>1 DEF Shows
  <2> QED BY <1>1, <2>2, <2>3
<1>2. CASE marks' = marks
  BY <1>0, <1>1, <1>2 DEF SnapshotStable
<1>3. ASSUME NEW tree, Mark(tree), data' = data PROVE SnapshotStable'
  <2>1. PICK m : m = [tree |-> tree, saw |-> Shows(tree)]
    OBVIOUS
  <2>2. m.tree = tree /\ m.saw = Shows(tree)
    BY <2>1
  <2>3. marks' = Append(marks, m)
    BY <1>3, <2>1 DEF Mark
  <2>4. /\ DOMAIN marks' = 1 .. Len(marks) + 1 /\ marks'[Len(marks) + 1] = m
        /\ \A n \in 1 .. Len(marks) : marks'[n] = marks[n]
    BY <1>0, <2>3
  <2>5. Shows(tree)' = Shows(tree)
    BY <1>3, ShowsKept
  <2>6. ASSUME NEW n, n = Len(marks) + 1 PROVE (Shows(marks[n].tree) = marks[n].saw)'
    BY <2>2, <2>4, <2>5, <2>6 DEF Shows
  <2>7. ASSUME NEW n \in 1 .. Len(marks) + 1 PROVE (Shows(marks[n].tree) = marks[n].saw)'
    <3>1. n \in 1 .. Len(marks) \/ n = Len(marks) + 1
      BY <1>0
    <3> QED BY <1>1, <2>4, <2>6, <3>1
  <2> QED BY <2>4, <2>7 DEF SnapshotStable
<1> QED BY <1>2, <1>3, MarksMove

\* SnapshotStable for every instance of the discipline in which nothing is
\* written between a travel and the next snapshot: what a snapshot showed when
\* it was taken it shows for ever after.
THEOREM SnapshotsStay ==
  ASSUME Disciplined, "travelwrite" \notin Env
  PROVE  Spec => []SnapshotStable
<1> DEFINE I == Inv /\ Unborrowed /\ SnapshotStable
<1>1. Init => Unborrowed /\ SnapshotStable
  <2> SUFFICES ASSUME Init PROVE Unborrowed /\ SnapshotStable
    OBVIOUS
  <2>1. Unborrowed
    BY DEF Init, Unborrowed
  <2>2. PICK m : m = [tree |-> tip, saw |-> Shows(tip)]
    OBVIOUS
  <2>3. m.tree = tip /\ m.saw = Shows(tip) /\ marks = <<m>>
    BY <2>2 DEF Init
  <2>4. SnapshotStable
    BY <2>3 DEF SnapshotStable
  <2> QED BY <2>1, <2>4
<1>2. I /\ [Next]_vars => I'
  BY InvHolds, UnborrowedStep, StableStep, ConstAssumption DEF Inv
<1> QED BY <1>1, <1>2, InvHolds, PTL DEF Spec

-----------------------------------------------------------------------------
(* The store of SnapshotStore.  StoreSpec instantiates it with these two. *)

Cur   == Shows(tip)
Saved == [n \in DOMAIN marks |-> Shows(marks[n].tree)]

\* Appending to a sequence that is given as a function.
LEMMA AppendIs ==
  ASSUME NEW k \in Nat, NEW V, NEW s \in [1 .. k -> V], NEW v \in V
  PROVE  Append(s, v) = [n \in 1 .. k + 1 |-> IF n = k + 1 THEN v ELSE s[n]]
<1>1. s \in Seq(V) /\ Len(s) = k
  OBVIOUS
<1>2. Append(s, v) \in Seq(V) /\ Len(Append(s, v)) = k + 1
  BY <1>1
<1>3. Append(s, v) \in [1 .. k + 1 -> V]
  <2>1. \A t \in Seq(V) : t \in [1 .. Len(t) -> V]
    OBVIOUS
  <2> QED BY <1>2, <2>1
<1>4. \A n \in 1 .. k + 1 : Append(s, v)[n] = IF n = k + 1 THEN v ELSE s[n]
  BY <1>1
<1> QED BY <1>3, <1>4

\* What is saved stays when no marker is written.
LEMMA SavedKept ==
  ASSUME ConstAssumption, Disciplined, TypeInv, SafeInv, Unborrowed, [Next]_vars, marks' = marks
  PROVE  Saved' = Saved
<1>0. DOMAIN marks = 1 .. Len(marks)
  BY DEF TypeInv, JournalOK
<1>1. ASSUME NEW n \in 1 .. Len(marks) PROVE Shows(marks[n].tree)' = Shows(marks[n].tree)
  <2>1. PICK tree : tree = marks[n].tree
    OBVIOUS
  <2>2. Shows(tree)' = Shows(tree)
    BY <2>1, MarkersShow
  <2> QED BY <2>1, <2>2 DEF Shows
<1> QED BY <1>0, <1>1 DEF Saved

\* A marker saves what its tree shows and makes it current.
LEMMA MarkSaves ==
  ASSUME ConstAssumption, TypeInv, NEW tree, Mark(tree), data' = data
  PROVE  Saved' = Append(Saved, Shows(tree)) /\ Cur' = Shows(tree)
<1>0. marks \in Seq(MarkRecs) /\ Len(marks) \in Nat /\ DOMAIN marks = 1 .. Len(marks)
  BY DEF TypeInv, JournalOK
<1>1. PICK m, k : m = [tree |-> tree, saw |-> Shows(tree)] /\ k = Len(marks)
  OBVIOUS
<1>2. m.tree = tree /\ k \in Nat
  BY <1>0, <1>1
<1>3. marks' = Append(marks, m) /\ tip' = tree
  BY <1>1 DEF Mark
<1>4. DOMAIN marks' = 1 .. k + 1 /\ marks'[k + 1] = m /\ \A n \in 1 .. k : marks'[n] = marks[n]
  BY <1>0, <1>1, <1>3
<1>5. Shows(tree)' = Shows(tree)
  BY ShowsKept
<1>6. \A n \in 1 .. k : Shows(marks[n].tree)' = Shows(marks[n].tree)
  <2> SUFFICES ASSUME NEW n \in 1 .. k PROVE Shows(marks[n].tree)' = Shows(marks[n].tree)
    OBVIOUS
  <2>1. PICK t : t = marks[n].tree
    OBVIOUS
  <2>2. Shows(t)' = Shows(t)
    BY ShowsKept
  <2> QED BY <1>4, <2>1, <2>2 DEF Shows
<1>7. \A n : n = k + 1 => Shows(marks[n].tree)' = Shows(tree)
  BY <1>2, <1>4, <1>5 DEF Shows
<1>8. \A n \in 1 .. k + 1 :
        Shows(marks[n].tree)' = IF n = k + 1 THEN Shows(tree) ELSE Saved[n]
  BY <1>0, <1>1, <1>2, <1>6, <1>7 DEF Saved
<1>9. Saved' = [n \in 1 .. k + 1 |-> IF n = k + 1 THEN Shows(tree) ELSE Saved[n]]
  BY <1>4, <1>8 DEF Saved
<1>10. PICK V : V = {Shows(marks[n].tree) : n \in 1 .. k} \cup {Shows(tree)}
  OBVIOUS
<1>11. Saved \in [1 .. k -> V] /\ Shows(tree) \in V
  BY <1>0, <1>1, <1>10 DEF Saved
<1>12. Append(Saved, Shows(tree)) =
         [n \in 1 .. k + 1 |-> IF n = k + 1 THEN Shows(tree) ELSE Saved[n]]
  BY <1>2, <1>11, AppendIs
<1>13. Cur' = Shows(tree)
  BY <1>3, <1>5 DEF Cur, Shows
<1> QED BY <1>9, <1>12, <1>13

\* What a name of the live tree is.
LEMMA TipKinds ==
  ASSUME ConstAssumption, TypeInv, SafeInv, NEW f \in Files
  PROVE  /\ tip[f].kind = "staged" => /\ tip[f] = Staged(tip[f].ino) /\ tip[f].ino \in Inos
                                     /\ data[tip[f].ino] # Nil
         /\ \A i : tip[f] = Staged(i) => tip[f].kind = "staged" /\ tip[f].ino = i
                                         /\ tip[f] # Gone /\ Resolve(tip[f]) = tip[f]
                                         /\ ContentOf(tip[f]) = data[i]
<1>1. tip[f] \in Backings
  BY DEF TypeInv, JournalOK, GoodTree, Trees
<1>2. tip[f].kind = "staged" => data[tip[f].ino] # Nil
  BY DEF SafeInv, TreesKept, Below
<1> QED BY <1>1, <1>2, BackingKinds DEF Staged, Gone, Resolve, ContentOf

\* Writing a store object changes what one name shows, or nothing.
LEMMA DataShows ==
  ASSUME ConstAssumption, TypeInv, SafeInv, tip' = tip, NEW i \in Inos, NEW c,
         data' = [data EXCEPT ![i] = c]
  PROVE  Cur' = Cur \/ \E f \in Files : Cur' = [Cur EXCEPT ![f] = c]
<1>0. data'[i] = c /\ \A j \in Inos : j # i => data'[j] = data[j]
  BY DEF TypeInv, DataOK
<1>1. ASSUME NEW f \in Files, tip[f] # Staged(i)
      PROVE  ContentOf(Resolve(tip[f]))' = ContentOf(Resolve(tip[f]))
  <2>1. tip[f].kind = "staged" => data'[tip[f].ino] = data[tip[f].ino]
    BY <1>0, <1>1, TipKinds
  <2> QED BY <2>1 DEF ContentOf, Resolve, Gone
<1>2. CASE \A f \in Files : tip[f] # Staged(i)
  BY <1>1, <1>2 DEF Cur, Shows
<1>3. CASE \E f \in Files : tip[f] = Staged(i)
  <2>1. PICK f \in Files : tip[f] = Staged(i)
    BY <1>3
  <2>2. \A g \in Files : g # f => tip[g] # Staged(i)
    BY <2>1, TipKinds DEF SafeInv, TreesKept, Injective
  <2>3. ContentOf(Resolve(tip[f]))' = c
    BY <1>0, <2>1 DEF ContentOf, Resolve, Staged
  <2>4. \A g \in Files : ContentOf(Resolve(tip[g]))' = IF g = f THEN c ELSE ContentOf(Resolve(tip[g]))
    BY <1>1, <2>2, <2>3
  <2> QED BY <2>4 DEF Cur, Shows
<1> QED BY <1>2, <1>3

\* Recording a new store object under a name puts its content there.
LEMMA RecordShows ==
  ASSUME ConstAssumption, TypeInv, SafeInv, NEW f \in Files, NEW c,
         Alloc(nextIno + 1, c), JournalStage(f, nextIno + 1)
  PROVE  Cur' = [Cur EXCEPT ![f] = c]
<1>1. PICK i : i = nextIno + 1
  OBVIOUS
<1>2. i \in Inos /\ data[i] = Nil /\ data' = [data EXCEPT ![i] = c] /\ tip' = [tip EXCEPT ![f] = Staged(i)]
  BY <1>1, Types DEF Alloc, JournalStage, Inos
<1>3. data'[i] = c /\ \A j \in Inos : j # i => data'[j] = data[j]
  BY <1>2 DEF TypeInv, DataOK
<1>4. tip'[f] = Staged(i) /\ \A g \in Files : g # f => tip'[g] = tip[g]
  BY <1>2 DEF TypeInv, JournalOK, GoodTree, Trees
<1>5. ContentOf(Resolve(tip[f]))' = c
  BY <1>3, <1>4 DEF ContentOf, Resolve, Staged
<1>6. ASSUME NEW g \in Files, g # f
      PROVE  ContentOf(Resolve(tip[g]))' = ContentOf(Resolve(tip[g]))
  <2>1. tip[g].kind = "staged" => data'[tip[g].ino] = data[tip[g].ino]
    BY <1>2, <1>3, TipKinds
  <2> QED BY <1>4, <1>6, <2>1 DEF ContentOf, Resolve, Gone
<1>7. \A g \in Files : ContentOf(Resolve(tip[g]))' = IF g = f THEN c ELSE ContentOf(Resolve(tip[g]))
  BY <1>5, <1>6
<1> QED BY <1>7 DEF Cur, Shows

\* The steps of a process, seen from the store.
LEMMA ProcStore ==
  ASSUME ConstAssumption, Disciplined, TypeInv, LockInv, SafeInv, NEW p \in Procs, ProcStep(p)
  PROVE  /\ marks' = marks
         /\ Cur' = Cur \/ \E f \in Files, c \in Contents : Cur' = [Cur EXCEPT ![f] = c]
<1>0. Data \subseteq Contents /\ Empty \in Contents
  BY DEF Contents
<1>1. ASSUME tip' = tip, data' = data PROVE Cur' = Cur
  BY <1>1 DEF Cur, Shows, ContentOf
<1>2. CASE \/ \E f \in Files : Walk(p, f)
           \/ OpenRead(p) \/ OpenFast(p) \/ OpenStale(p) \/ Recheck(p) \/ CowPublish(p)
           \/ CreatePublish(p) \/ CreateUnpublished(p) \/ Map(p) \/ Close(p)
  BY <1>1, <1>2 DEF Walk, OpenRead, OpenFast, OpenStale, Recheck, CowPublish, CreatePublish,
                    CreateUnpublished, Map, Close, jVars
<1>3. CASE OpenLower(p) \/ OpenLowerFail(p)
  <2>1. MayTruncate(p) /\ tip' = tip /\ marks' = marks
    BY <1>3 DEF OpenLower, OpenLowerFail, jVars
  <2>2. CASE data' = data
    BY <1>1, <2>1, <2>2
  <2>3. CASE data' # data
    <3>1. PICK i : i = dentry[dp[p]].lower.ino
      OBVIOUS
    <3>2. data' = [data EXCEPT ![i] = Empty]
      BY <2>1, <2>3, <3>1 DEF MayTruncate
    <3>3. i \in Inos
      BY <2>3, <3>2 DEF TypeInv, DataOK
    <3> QED BY <1>0, <2>1, <3>2, <3>3, DataShows
  <2> QED BY <2>2, <2>3
<1>4. CASE \E c \in Data : Write(p, c)
  <2>1. PICK c \in Data : data' = [data EXCEPT ![ino[p]] = c]
    BY <1>4 DEF Write
  <2>2. tip' = tip /\ marks' = marks
    BY <1>4 DEF Write, jVars
  <2>3. CASE ino[p] \in Inos
    BY <1>0, <2>1, <2>2, <2>3, DataShows
  <2>4. CASE ino[p] \notin Inos
    <3>1. data' = data
      BY <2>1, <2>4 DEF TypeInv, DataOK
    <3> QED BY <1>1, <2>2, <3>1
  <2> QED BY <2>3, <2>4
<1>5. CASE \E c \in Data : WriteMapped(p, c)
  BY <1>5 DEF WriteMapped, SafeInv, Quiet
<1>6. CASE CowJournal(p)
  <2>1. PICK f, d : f = dentry[dp[p]].name /\ d = dp[p]
    OBVIOUS
  <2>2. f \in Hashed /\ hash[f] = d /\ ~Unsettled(f) /\ At(f).lower # Gone /\ ctl = "idle"
    BY <1>6, <2>1, CopySettled DEF CowJournal
  <2>3. ContentOf(dentry[d].lower) \in Contents
    BY <2>2, SettledContent DEF At
  <2>4. PICK c \in {Empty, ContentOf(dentry[d].lower)} : Alloc(nextIno + 1, c)
    BY <1>6, <2>1 DEF CowJournal
  <2>5. JournalStage(f, nextIno + 1)
    BY <1>6, <2>1 DEF CowJournal
  <2>6. c \in Contents /\ f \in Files
    BY <1>0, <2>2, <2>3 DEF Hashed
  <2> QED BY <2>4, <2>5, <2>6, RecordShows DEF JournalStage
<1>7. CASE \E f \in Files : CreateJournal(p, f)
  <2>1. PICK f \in Files : Alloc(nextIno + 1, Empty) /\ JournalStage(f, nextIno + 1)
    BY <1>7 DEF CreateJournal
  <2> QED BY <1>0, <2>1, RecordShows DEF JournalStage
<1>8. CASE CowFail(p) \/ CreateFail(p)
  <2>1. tip' = tip /\ marks' = marks /\ AllocFail
    BY <1>8 DEF CowFail, CreateFail, jVars
  <2>2. \A i \in Inos : data[i] # Nil => data'[i] = data[i]
    BY <2>1, AllocFailKeeps
  <2>3. \A f \in Files : ContentOf(Resolve(tip[f]))' = ContentOf(Resolve(tip[f]))
    <3> SUFFICES ASSUME NEW f \in Files
                 PROVE  ContentOf(Resolve(tip[f]))' = ContentOf(Resolve(tip[f]))
      OBVIOUS
    <3>1. tip[f].kind = "staged" => data'[tip[f].ino] = data[tip[f].ino]
      BY <2>2, TipKinds
    <3> QED BY <2>1, <3>1 DEF ContentOf, Resolve, Gone
  <2> QED BY <2>1, <2>3 DEF Cur, Shows
<1> QED BY <1>2, <1>3, <1>4, <1>5, <1>6, <1>7, <1>8 DEF ProcStep

\* A deletion and a rename, seen from the store.
LEMMA NameStore ==
  ASSUME ConstAssumption, Disciplined, TypeInv, LockInv, SafeInv, NameStep
  PROVE  /\ marks' = marks
         /\ \/ Cur' = Cur
            \/ \E f \in Files : Cur' = [Cur EXCEPT ![f] = Nil]
            \/ \E f, g \in Files : /\ f # g /\ Cur[f] # Nil
                                   /\ Cur' = [Cur EXCEPT ![g] = Cur[f], ![f] = Nil]
<1>0. tip \in [Files -> Backings]
  BY DEF TypeInv, JournalOK, GoodTree, Trees
<1>1. CASE \E f \in Files : Lookup(f) \/ Evict(f)
  BY <1>1 DEF Lookup, Evict, jVars, Cur, Shows, ContentOf
<1>2. ContentOf(Resolve(Gone))' = Nil
  BY DEF ContentOf, Resolve, Gone
<1>3. ASSUME data' = data, NEW f \in Files, NEW g \in Files, tip'[f] = tip[g]
      PROVE  ContentOf(Resolve(tip[f]))' = ContentOf(Resolve(tip[g]))
  BY <1>3 DEF ContentOf, Resolve
<1>4. ASSUME NEW f \in Files, tip'[f] = Gone PROVE ContentOf(Resolve(tip[f]))' = Nil
  BY <1>4 DEF ContentOf, Resolve, Gone
<1>5. CASE \E f \in Files : Unlink(f)
  <2>1. PICK f \in Files : Unlink(f)
    BY <1>5
  <2>2. data' = data /\ marks' = marks /\ tip'[f] = Gone /\ \A g \in Files : g # f => tip'[g] = tip[g]
    BY <1>0, <2>1 DEF Unlink, JournalNames
  <2>3. \A g \in Files : ContentOf(Resolve(tip[g]))' = IF g = f THEN Nil ELSE ContentOf(Resolve(tip[g]))
    BY <1>3, <1>4, <2>2
  <2> QED BY <2>2, <2>3 DEF Cur, Shows
<1>6. CASE \E f, g \in Files : Rename(f, g)
  <2>1. PICK f \in Files, g \in Files : Rename(f, g)
    BY <1>6
  <2>2. PICK d, e : d = hash[f] /\ e = hash[g]
    OBVIOUS
  <2>3. /\ NoCtlRace /\ dirLock = Nil /\ NoOpenOf({d, e}) /\ f \in Hashed /\ f # g
        /\ At(f).lower # Gone /\ data' = data /\ marks' = marks
        /\ tip' = [tip EXCEPT ![f] = Gone, ![g] = PreimageBacking(d)]
    BY <2>1, <2>2 DEF Rename, Hashed, At, Positive, JournalNames
  <2>4. ~Unsettled(f) /\ ctl = "idle"
    <3>1. PICK ds : ds = {d, e}
      OBVIOUS
    <3> QED BY <2>2, <2>3, <3>1, NamesFree
  <2>5. tip[f] = At(f).lower /\ ContentOf(At(f).lower) # Nil /\ Resolve(At(f).lower) = At(f).lower
    BY <2>3, <2>4, SettledContent
  <2>6. PreimageBacking(d) = tip[f]
    <3>1. CASE At(f).backing # "staged"
      BY <2>2, <2>5, <3>1 DEF PreimageBacking, At
    <3>2. CASE At(f).backing = "staged"
      <4>1. At(f).lower = Staged(stamp[At(f).vnode].ino)
        BY <2>3, <3>2 DEF SafeInv, Shaped
      <4>2. stamp[At(f).vnode].ino \in Inos
        BY <2>5, <4>1, TipKinds, <2>3 DEF Hashed, Staged
      <4> QED BY <2>2, <2>5, <3>2, <4>1, <4>2 DEF PreimageBacking, At, Inos
    <3> QED BY <3>1, <3>2
  <2>7. tip'[f] = Gone /\ tip'[g] = tip[f] /\ \A h \in Files : h # f /\ h # g => tip'[h] = tip[h]
    BY <1>0, <2>3, <2>6
  <2>8. \A h \in Files : ContentOf(Resolve(tip[h]))' =
          IF h = f THEN Nil ELSE IF h = g THEN ContentOf(Resolve(tip[f])) ELSE ContentOf(Resolve(tip[h]))
    BY <1>3, <1>4, <2>3, <2>7
  <2>9. Cur' = [Cur EXCEPT ![g] = Cur[f], ![f] = Nil]
    BY <2>3, <2>8 DEF Cur, Shows
  <2>10. Cur[f] # Nil
    BY <2>5 DEF Cur, Shows
  <2> QED BY <2>3, <2>9, <2>10
<1> QED BY <1>1, <1>5, <1>6 DEF NameStep

\* The ioctls, seen from the store.
LEMMA CtlStore ==
  ASSUME ConstAssumption, Disciplined, TypeInv, SafeInv, CtlStep
  PROVE  \/ marks' = marks /\ Cur' = Cur
         \/ Saved' = Append(Saved, Cur) /\ Cur' = Cur
         \/ \E n \in DOMAIN Saved : Cur' = Saved[n] /\ Saved' = Append(Saved, Saved[n])
<1>1. CASE SnapshotMark
  <2>1. PICK tree : tree = tip
    OBVIOUS
  <2>2. Mark(tree) /\ data' = data
    BY <1>1, <2>1, Excluded DEF SnapshotMark
  <2>3. Shows(tree) = Cur
    BY <2>1 DEF Cur
  <2>4. Saved' = Append(Saved, Shows(tree)) /\ Cur' = Shows(tree)
    BY <2>2, MarkSaves
  <2> QED BY <2>3, <2>4
<1>2. CASE TravelDone
  <2>1. PICK n \in 1 .. Len(marks) : target = marks[n].tree
    BY <1>2 DEF TravelDone, SafeInv, TreesKept
  <2>2. PICK tree : tree = target
    OBVIOUS
  <2>3. Mark(tree) /\ data' = data
    BY <1>2, <2>2, Excluded DEF TravelDone
  <2>4. Saved' = Append(Saved, Shows(tree)) /\ Cur' = Shows(tree)
    BY <2>3, MarkSaves
  <2>5. n \in DOMAIN Saved /\ Saved[n] = Shows(tree)
    BY <2>1, <2>2 DEF Saved, TypeInv, JournalOK
  <2> QED BY <2>4, <2>5
<1>3. CASE SnapshotDone \/ TravelFail \/ Remount \/ \E g \in 0 .. Len(marks) - 1 : TravelView(g)
  BY <1>3 DEF SnapshotDone, TravelFail, TravelView, Remount, jVars, Cur, Shows, ContentOf
<1> QED BY <1>1, <1>2, <1>3 DEF CtlStep

LEMMA StoreStep ==
  ASSUME ConstAssumption, Disciplined, TypeInv, LockInv, SafeInv, Unborrowed, [Next]_vars
  PROVE  [Store!Next]_<<Cur, Saved>>
<1>1. marks' = marks => Saved' = Saved
  BY SavedKept
<1>2. CASE \E p \in Procs : ProcStep(p)
  <2>1. Saved' = Saved /\ (Cur' = Cur \/ \E f \in Files, c \in Contents : Cur' = [Cur EXCEPT ![f] = c])
    BY <1>1, <1>2, ProcStore
  <2> QED BY <2>1 DEF Store!Next, Store!Put, Cur, Saved
<1>3. CASE NameStep
  <2>1. /\ Saved' = Saved
        /\ \/ Cur' = Cur
           \/ \E f \in Files : Cur' = [Cur EXCEPT ![f] = Nil]
           \/ \E f, g \in Files : /\ f # g /\ Cur[f] # Nil
                                  /\ Cur' = [Cur EXCEPT ![g] = Cur[f], ![f] = Nil]
    BY <1>1, <1>3, NameStore
  <2> QED BY <2>1 DEF Store!Next, Store!Remove, Store!Move, Cur, Saved
<1>4. CASE CtlStep
  <2>1. \/ Saved' = Saved /\ Cur' = Cur
        \/ Saved' = Append(Saved, Cur) /\ Cur' = Cur
        \/ \E n \in DOMAIN Saved : Cur' = Saved[n] /\ Saved' = Append(Saved, Saved[n])
    BY <1>1, <1>4, CtlStore
  <2> QED BY <2>1 DEF Store!Next, Store!Snapshot, Store!Travel, Cur, Saved
<1>5. CASE UNCHANGED vars
  BY <1>1, <1>5 DEF vars, jVars, Cur, Shows, ContentOf
<1> QED BY <1>2, <1>3, <1>4, <1>5 DEF Next

LEMMA StoreInit == ConstAssumption /\ Init => Store!Init
<1> SUFFICES ASSUME ConstAssumption, Init PROVE Store!Init
  OBVIOUS
<1>1. PICK m : m = [tree |-> tip, saw |-> Shows(tip)]
  OBVIOUS
<1>2. m.tree = tip /\ marks = <<m>> /\ tip = BaseTree
  BY <1>1 DEF Init
<1>3. Shows(tip) = BaseState
  <2>1. \A f \in Files : ContentOf(Resolve(tip[f])) = IF f \in BaseFiles THEN BaseInode[f] ELSE Nil
    BY <1>2 DEF BaseTree, Base, Resolve, ContentOf, Gone
  <2> QED BY <2>1 DEF Shows, BaseState
<1>4. Saved = <<BaseState>>
  <2>1. DOMAIN marks = {1} /\ marks[1].tree = tip
    BY <1>2
  <2>2. Saved = [n \in {1} |-> BaseState]
    BY <1>3, <2>1 DEF Saved
  <2> QED BY <2>2
<1> QED BY <1>3, <1>4 DEF Store!Init, Saved

\* Staging implements SnapshotStore for every instance of the discipline in
\* which nothing is written between a travel and the next snapshot: a current
\* state and saved ones that never change, whatever copies, generations and
\* descriptors there are.
THEOREM StoreImplemented ==
  ASSUME Disciplined, "travelwrite" \notin Env
  PROVE  Spec => StoreSpec
<1> DEFINE I == Inv /\ Unborrowed
<1>1. Init => I /\ Store!Init
  <2>1. Init => Unborrowed
    BY DEF Init, Unborrowed
  <2> QED BY <2>1, InvHolds, StoreInit, ConstAssumption
<1>2. I /\ [Next]_vars => I'
  BY InvHolds, UnborrowedStep, ConstAssumption DEF Inv
<1>3. I /\ [Next]_vars => [Store!Next]_<<Cur, Saved>>
  BY StoreStep, ConstAssumption DEF Inv
<1> QED BY <1>1, <1>2, <1>3, PTL DEF Spec, StoreSpec, Store!Spec, Cur, Saved

=============================================================================
