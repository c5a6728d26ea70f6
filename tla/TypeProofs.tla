----------------------------- MODULE TypeProofs -----------------------------
(***************************************************************************)
(* The types of Staging, for every set of names and processes, every bound *)
(* and every environment.                                                  *)
(*                                                                         *)
(* TypeOK is not inductive: that a store inode written through a dentry is *)
(* one that exists, or that a travel can inject the tree of a marker,      *)
(* needs what TypeInv adds.  A dentry in use has the backing its inode     *)
(* answers to, a dentry a process has reached is not reused under it, a    *)
(* redirect in the journal names a base file, and the generation never     *)
(* falls behind the markers.                                               *)
(***************************************************************************)
EXTENDS Staging, TLAPS

\* A free slot is blank; a dentry with a lower path has an inode, and a lower
\* path outside the store is that of a file the base has.
GoodDentry(r) ==
  /\ r \in DentryRecs
  /\ r.name = Nil => r = NoDentry
  /\ r.backing = "staged" \/ r.lower # Gone => r.vnode \in Vnodes
  /\ r.lower.kind = "base" => r.lower.name \in BaseFiles

GoodSlots(dent) ==
  /\ dent \in [Dentries -> DentryRecs]
  /\ \A d \in Dentries : GoodDentry(dent[d])

\* A redirect names a base file.
GoodTree(tree) ==
  /\ tree \in Trees
  /\ \A f \in Files : tree[f].kind = "base" =>
       tree[f] = Base(f) \/ tree[f].name \in BaseFiles

MarkRecs == [tree : Trees, saw : [Files -> Contents \cup {Nil}]]

SbOK ==
  /\ sem \in Procs \cup {Nil, Ctl}
  /\ gen \in 0 .. MaxGen /\ dirty \in BOOLEAN
  /\ fdCount \in Int /\ nextIno \in 0 .. MaxIno

DcOK ==
  /\ GoodSlots(dentry)
  /\ hash \in [Files -> Dentries \cup {Nil}]
  /\ stamp \in [Vnodes -> [gen : 0 .. MaxGen, ino : 0 .. MaxIno]]
  /\ dirLock \in Procs \cup {Nil}

DataOK == data \in [Inos -> Contents \cup {Nil}]

JournalOK ==
  /\ GoodTree(tip)
  /\ marks \in Seq(MarkRecs)
  /\ \A n \in 1 .. Len(marks) : GoodTree(marks[n].tree)
  /\ recs \in BOOLEAN /\ allocFloor \in 0 .. MaxIno /\ cowFloor \in 0 .. MaxIno

ProcOK ==
  /\ pc \in [Procs -> PcLabels] /\ dp \in [Procs -> Dentries \cup {Nil}]
  /\ ino \in [Procs -> 0 .. MaxIno] /\ mapped \in [Procs -> 0 .. MaxIno]

CtlOK ==
  /\ ctl \in {"idle", "snapshot", "travel"}
  /\ GoodTree(target) /\ borrowed \subseteq Inos

\* Between its system calls a process holds no dentry, in the middle of one a
\* dentry in use; an open has reached a positive one, and a new store inode
\* has a number.
GoodRef(p) ==
  pc[p] # "idle" =>
    /\ dp[p] \in Dentries
    /\ dentry[dp[p]].name # Nil
    /\ pc[p] \in {"found", "slow", "cow", "publish", "lower"} => Positive(dp[p])
    /\ pc[p] \in {"create", "publish"} => ino[p] \in Inos

GoodRefs == \A p \in Procs : GoodRef(p)

\* A marker is written after its generation is taken.
MarksBehind ==
  /\ Len(marks) >= 1 /\ Len(marks) - 1 <= gen
  /\ ctl = "travel" => Len(marks) <= gen

TypeInv ==
  SbOK /\ DcOK /\ DataOK /\ JournalOK /\ ProcOK /\ CtlOK /\ GoodRefs /\ MarksBehind

-----------------------------------------------------------------------------
\* A backing is of one of three kinds.
LEMMA BackingKinds ==
  ASSUME ConstAssumption, NEW b \in Backings
  PROVE  /\ b.kind \in {"base", "staged", "none"} /\ b.ino \in 0 .. MaxIno
         /\ b.kind = "staged" => b.ino \in Inos /\ b = Staged(b.ino)
         /\ b.kind = "base" => b.name \in Files /\ b = Base(b.name)
         /\ b.kind = "none" <=> b = Gone
BY DEF ConstAssumption, Backings, Base, Staged, Gone, Inos

\* What a backing shows is content or nothing.
LEMMA ContentType ==
  ASSUME ConstAssumption, DataOK, NEW b \in Backings,
         b.kind = "base" => b.name \in BaseFiles
  PROVE  ContentOf(b) \in Contents \cup {Nil}
<1>1. CASE b.kind = "base"
  BY <1>1 DEF ContentOf, Contents, BaseInodes
<1>2. CASE b.kind = "staged"
  BY <1>2, BackingKinds DEF ContentOf, DataOK
<1>3. CASE b.kind = "none"
  BY <1>3 DEF ContentOf
<1> QED BY <1>1, <1>2, <1>3, BackingKinds

\* What a tree shows can be kept with a marker.
LEMMA ShowsType ==
  ASSUME ConstAssumption, DataOK, NEW tree \in Trees
  PROVE  Shows(tree) \in [Files -> Contents \cup {Nil}]
<1>1. ASSUME NEW f \in Files
      PROVE  ContentOf(Resolve(tree[f])) \in Contents \cup {Nil}
  <2>1. Resolve(tree[f]) \in Backings
    BY DEF Resolve, Trees, Backings
  <2>2. Resolve(tree[f]).kind = "base" => Resolve(tree[f]).name \in BaseFiles
    BY DEF Resolve, Gone
  <2> QED BY <2>1, <2>2, ContentType
<1> QED BY <1>1 DEF Shows

\* Freeing dentries leaves the others, and those held in particular.
LEMMA ReapKeeps ==
  ASSUME ConstAssumption, NEW dent, GoodSlots(dent), NEW h, NEW held
  PROVE  /\ GoodSlots(Reap(dent, h, held))
         /\ \A d \in Dentries : d \in held => Reap(dent, h, held)[d] = dent[d]
<1>1. GoodDentry(NoDentry)
  BY DEF GoodDentry, NoDentry, DentryRecs, Gone, Backings
<1>2. ASSUME NEW d \in Dentries
      PROVE  Reap(dent, h, held)[d] \in {dent[d], NoDentry}
  BY DEF Reap
<1>3. Reap(dent, h, held) \in [Dentries -> DentryRecs]
  BY <1>1 DEF Reap, GoodSlots, GoodDentry
<1>4. \A d \in Dentries : d \in held => Reap(dent, h, held)[d] = dent[d]
  BY DEF Reap
<1> QED BY <1>1, <1>2, <1>3, <1>4 DEF GoodSlots

\* A process whose registers do not change keeps a good reference while its
\* dentry keeps its lower path and a name.
LEMMA RefKept ==
  ASSUME NEW p \in Procs, GoodRef(p),
         pc'[p] = pc[p], dp'[p] = dp[p], ino'[p] = ino[p],
         pc[p] # "idle" /\ dp[p] \in Dentries /\ dentry[dp[p]].name # Nil =>
           dentry'[dp[p]].name # Nil /\ dentry'[dp[p]].lower = dentry[dp[p]].lower
  PROVE  GoodRef(p)'
BY DEF GoodRef, Positive

\* The exit of an open: the process is idle, the others keep what they hold.
LEMMA DoneOK ==
  ASSUME ConstAssumption, TypeInv, NEW p \in Procs, Done(p)
  PROVE  DcOK' /\ ProcOK' /\ GoodRefs'
<1>1. DcOK'
  BY ReapKeeps DEF TypeInv, DcOK, Done
<1>2. ProcOK'
  BY ConstAssumption DEF TypeInv, ProcOK, Done, PcLabels, ConstAssumption
<1>3. ASSUME NEW q \in Procs
      PROVE  GoodRef(q)'
  <2>1. CASE q = p
    BY <2>1 DEF TypeInv, ProcOK, Done, GoodRef
  <2>2. CASE q # p
    <3>1. pc'[q] = pc[q] /\ dp'[q] = dp[q] /\ ino'[q] = ino[q]
      BY <2>2 DEF TypeInv, ProcOK, Done
    <3>2. ASSUME pc[q] # "idle", dp[q] \in Dentries
          PROVE  dentry'[dp[q]] = dentry[dp[q]]
      <4>1. dp[q] \in Held(Procs \ {p})
        BY <2>2, <3>2, ConstAssumption DEF Held, ConstAssumption
      <4> QED BY <3>2, <4>1, ReapKeeps DEF TypeInv, DcOK, Done
    <3> QED BY <3>1, <3>2, RefKept DEF TypeInv, GoodRefs
  <2> QED BY <2>1, <2>2
<1> QED BY <1>1, <1>2, <1>3 DEF GoodRefs

\* A marker of a good tree keeps the journal well formed.
LEMMA MarkOK ==
  ASSUME ConstAssumption, DataOK, JournalOK, NEW tree, GoodTree(tree), Mark(tree)
  PROVE  JournalOK' /\ Len(marks') = Len(marks) + 1
<1> DEFINE m == [tree |-> tree, saw |-> Shows(tree)]
<1>1. m \in MarkRecs
  BY ShowsType DEF GoodTree, MarkRecs
<1> HIDE DEF m
<1>2. /\ marks' = Append(marks, m)
      /\ marks' \in Seq(MarkRecs) /\ Len(marks') = Len(marks) + 1
      /\ marks'[Len(marks) + 1] = m
      /\ \A n \in 1 .. Len(marks) : marks'[n] = marks[n]
  BY <1>1 DEF JournalOK, Mark, m
<1>3. \A n \in 1 .. Len(marks') : GoodTree(marks'[n].tree)
  <2> SUFFICES ASSUME NEW n \in 1 .. Len(marks') PROVE GoodTree(marks'[n].tree)
    OBVIOUS
  <2>1. CASE n = Len(marks) + 1
    BY <1>2, <2>1 DEF m
  <2>2. CASE n \in 1 .. Len(marks)
    BY <1>2, <2>2 DEF JournalOK
  <2> QED BY <1>2, <2>1, <2>2 DEF JournalOK
<1> QED BY <1>2, <1>3 DEF JournalOK, Mark, GoodTree

\* Unpinning keeps a dentry good.
LEMMA UnpinGood ==
  ASSUME ConstAssumption, NEW r, GoodDentry(r)
  PROVE  GoodDentry(Unpinned(r)) /\ Unpinned(r).name = r.name /\ Unpinned(r).lower = r.lower
<1> DEFINE u == Unpinned(r)
<1>1. u \in DentryRecs
  BY DEF GoodDentry, Unpinned, DentryRecs
<1>2. /\ u.name = r.name /\ u.lower = r.lower /\ u.vnode = r.vnode
      /\ u.backing = "base" /\ u.pinned = FALSE
  BY DEF GoodDentry, Unpinned, DentryRecs
<1> HIDE DEF u
<1>3. u = [name |-> u.name, backing |-> u.backing, pinned |-> u.pinned,
           lower |-> u.lower, vnode |-> u.vnode]
  BY <1>1 DEF DentryRecs
<1>4. r.name = Nil => u = NoDentry
  BY <1>2, <1>3 DEF GoodDentry, NoDentry
<1> QED BY <1>1, <1>2, <1>4 DEF GoodDentry, u

\* Unpinning everything keeps good dentries good, and those processes hold.
LEMMA QuiescedOK ==
  ASSUME ConstAssumption, DcOK
  PROVE  /\ GoodSlots(Quiesced.dentry)
         /\ Quiesced.hash \in [Files -> Dentries \cup {Nil}]
         /\ \A d \in Dentries : d \in Held(Procs) =>
              /\ Quiesced.dentry[d].name = dentry[d].name
              /\ Quiesced.dentry[d].lower = dentry[d].lower
<1> DEFINE h == Quiesced.hash
           u == [d \in Dentries |-> Unpinned(dentry[d])]
<1>1. Quiesced.dentry = Reap(u, h, Held(Procs))
  BY DEF Quiesced
<1>2. h \in [Files -> Dentries \cup {Nil}]
  BY DEF Quiesced, DcOK
<1>3. ASSUME NEW d \in Dentries
      PROVE  GoodDentry(u[d])
  <2>1. u[d] = Unpinned(dentry[d])
    OBVIOUS
  <2>2. GoodDentry(dentry[d])
    BY DEF DcOK, GoodSlots
  <2> QED BY <2>1, <2>2, UnpinGood
<1>4. u \in [Dentries -> DentryRecs]
  BY <1>3 DEF GoodDentry
<1>5. GoodSlots(u)
  BY <1>3, <1>4 DEF GoodSlots
<1>6. \A d \in Dentries : u[d].name = dentry[d].name /\ u[d].lower = dentry[d].lower
  BY UnpinGood DEF DcOK, GoodSlots
<1> HIDE DEF u, h
<1>7. /\ GoodSlots(Reap(u, h, Held(Procs)))
      /\ \A d \in Dentries : d \in Held(Procs) => Reap(u, h, Held(Procs))[d] = u[d]
  BY <1>5, ReapKeeps
<1> QED BY <1>1, <1>2, <1>6, <1>7 DEF h

\* Injecting a good tree over a good dcache fills free slots only.
LEMMA InjectOK ==
  ASSUME ConstAssumption, DcOK, NEW q, NEW tree, NEW stampGen, Inject(q, tree, stampGen),
         GoodSlots(q.dentry), q.hash \in [Files -> Dentries \cup {Nil}],
         GoodTree(tree), stampGen \in [Inos -> 0 .. MaxGen], UNCHANGED dirLock
  PROVE  /\ DcOK'
         /\ \A d \in Dentries : d \in Held(Procs) /\ q.dentry[d].name # Nil =>
              dentry'[d] = q.dentry[d]
<1> DEFINE nodes == {f \in Files : tree[f] # Base(f)}
           free  == {d \in Dentries : q.dentry[d].name = Nil}
           Slot(f) == [name |-> f, backing |-> tree[f].kind, pinned |-> TRUE,
                       lower |-> tree[f],
                       vnode |-> CASE tree[f].kind = "base"   -> BaseInode[tree[f].name]
                                   [] tree[f].kind = "staged" -> tree[f].ino
                                   [] OTHER                   -> Nil]
<1>1. PICK at \in [nodes -> free] :
        /\ hash' = [f \in Files |-> IF f \in nodes THEN at[f] ELSE q.hash[f]]
        /\ dentry' = Reap([d \in Dentries |->
                            IF \E f \in nodes : at[f] = d
                            THEN Slot(CHOOSE f \in nodes : at[f] = d)
                            ELSE q.dentry[d]], hash', Held(Procs))
        /\ stamp' = [v \in Vnodes |->
             IF \E f \in nodes : tree[f] = Staged(v)
             THEN [gen |-> stampGen[v], ino |-> v] ELSE stamp[v]]
  BY DEF Inject
<1> DEFINE u == [d \in Dentries |-> IF \E f \in nodes : at[f] = d
                                    THEN Slot(CHOOSE f \in nodes : at[f] = d)
                                    ELSE q.dentry[d]]
<1>2. ASSUME NEW f \in nodes
      PROVE  GoodDentry(Slot(f))
  <2>0. tree[f] \in Backings /\ f \in Files /\ f # Nil
    BY DEF GoodTree, Trees, ConstAssumption
  <2>1. CASE tree[f].kind = "base"
    <3>1. tree[f].name \in BaseFiles
      BY <2>0, <2>1 DEF GoodTree
    <3>2. Slot(f).vnode = BaseInode[tree[f].name] /\ Slot(f).vnode \in Vnodes
      BY <2>1, <3>1 DEF Vnodes, BaseInodes
    <3> QED BY <2>0, <2>1, <3>1, <3>2 DEF GoodDentry, DentryRecs
  <2>2. CASE tree[f].kind = "staged"
    <3>1. Slot(f).vnode = tree[f].ino /\ Slot(f).vnode \in Vnodes
      BY <2>0, <2>2, BackingKinds DEF Vnodes
    <3> QED BY <2>0, <2>2, <3>1 DEF GoodDentry, DentryRecs
  <2>3. CASE tree[f].kind = "none"
    <3>1. Slot(f).vnode = Nil /\ Slot(f).lower = Gone
      BY <2>0, <2>3, BackingKinds
    <3> QED BY <2>0, <2>3, <3>1 DEF GoodDentry, DentryRecs
  <2> QED BY <2>0, <2>1, <2>2, <2>3, BackingKinds
<1>3. \A d \in Dentries : (\E f \in nodes : at[f] = d) =>
         (CHOOSE f \in nodes : at[f] = d) \in nodes
  OBVIOUS
<1>4. \A d \in Dentries : GoodDentry(u[d])
  <2> SUFFICES ASSUME NEW d \in Dentries PROVE GoodDentry(u[d])
    OBVIOUS
  <2>1. CASE \E f \in nodes : at[f] = d
    <3>1. u[d] = Slot(CHOOSE f \in nodes : at[f] = d)
      BY <2>1
    <3> HIDE DEF u, Slot
    <3> QED BY <1>2, <1>3, <2>1, <3>1
  <2>2. CASE ~ \E f \in nodes : at[f] = d
    BY <2>2 DEF GoodSlots
  <2> QED BY <2>1, <2>2
<1>5. GoodSlots(u)
  <2> HIDE DEF u
  <2>1. \A d \in Dentries : u[d] \in DentryRecs
    BY <1>4 DEF GoodDentry
  <2>2. u = [d \in Dentries |-> u[d]]
    BY DEF u
  <2>3. u \in [Dentries -> DentryRecs]
    BY <2>1, <2>2
  <2> QED BY <1>4, <2>3 DEF GoodSlots
<1>6. \A d \in Dentries : q.dentry[d].name # Nil => u[d] = q.dentry[d]
  OBVIOUS
<1>7. dentry' = Reap(u, hash', Held(Procs))
  BY <1>1
<1> HIDE DEF u
<1>8. /\ GoodSlots(dentry')
      /\ \A d \in Dentries : d \in Held(Procs) => dentry'[d] = u[d]
  BY <1>5, <1>7, ReapKeeps
<1>9. hash' \in [Files -> Dentries \cup {Nil}]
  BY <1>1
<1>10. stamp' \in [Vnodes -> [gen : 0 .. MaxGen, ino : 0 .. MaxIno]]
  <2> SUFFICES ASSUME NEW v \in Vnodes
               PROVE  stamp'[v] \in [gen : 0 .. MaxGen, ino : 0 .. MaxIno]
    BY <1>1
  <2>1. CASE \E f \in nodes : tree[f] = Staged(v)
    <3>1. v \in Inos
      BY <2>1, BackingKinds DEF GoodTree, Trees, Staged
    <3> QED BY <1>1, <2>1, <3>1 DEF Inos
  <2>2. CASE ~ \E f \in nodes : tree[f] = Staged(v)
    BY <1>1, <2>2 DEF DcOK
  <2> QED BY <2>1, <2>2
<1> QED BY <1>6, <1>8, <1>9, <1>10 DEF DcOK

-----------------------------------------------------------------------------
\* What a step leaves alone stays well formed.
LEMMA Frames ==
  ASSUME TypeInv
  PROVE  /\ UNCHANGED sbVars => SbOK'
         /\ UNCHANGED dcVars => DcOK'
         /\ UNCHANGED data => DataOK'
         /\ UNCHANGED jVars => JournalOK'
         /\ UNCHANGED ctlVars => CtlOK'
         /\ UNCHANGED <<marks, gen, ctl>> => MarksBehind'
BY DEF TypeInv, SbOK, DcOK, DataOK, JournalOK, CtlOK, MarksBehind,
       sbVars, dcVars, jVars, ctlVars

\* A process that moves on within a system call keeps its dentry.
LEMMA MoveOK ==
  ASSUME TypeInv, NEW p \in Procs, NEW label \in PcLabels, NEW i \in 0 .. MaxIno,
         pc' = [pc EXCEPT ![p] = label], ino' = [ino EXCEPT ![p] = i],
         UNCHANGED <<dp, mapped, dentry>>,
         pc[p] # "idle",
         label \in {"found", "slow", "cow", "publish", "lower"} =>
           pc[p] \in {"found", "slow", "cow", "publish", "lower"},
         label \in {"create", "publish"} => i \in Inos
  PROVE  ProcOK' /\ GoodRefs'
<1>1. ProcOK'
  BY DEF TypeInv, ProcOK
<1>2. GoodRef(p)'
  BY DEF TypeInv, ProcOK, GoodRefs, GoodRef, Positive
<1>3. \A q \in Procs : q # p => GoodRef(q)'
  BY RefKept DEF TypeInv, ProcOK, GoodRefs
<1> QED BY <1>1, <1>2, <1>3 DEF GoodRefs

\* An S record keeps the journal well formed.
LEMMA StageOK ==
  ASSUME ConstAssumption, JournalOK, NEW f, NEW i \in Inos, JournalStage(f, i)
  PROVE  JournalOK' /\ dirty' = TRUE /\ UNCHANGED marks
<1>1. Staged(i) \in Backings /\ Staged(i).kind # "base"
  BY DEF Backings, Staged
<1>2. GoodTree(tip')
  BY <1>1 DEF JournalStage, JournalOK, GoodTree, Trees
<1>3. i \in 0 .. MaxIno
  BY DEF Inos, ConstAssumption
<1> QED BY <1>2, <1>3 DEF JournalStage, JournalOK

\* So does a D or an R record.
LEMMA NamesOK ==
  ASSUME JournalOK, NEW tree, GoodTree(tree), JournalNames(tree)
  PROVE  JournalOK' /\ dirty' = TRUE /\ UNCHANGED marks
BY DEF JournalNames, JournalOK

\* A new store inode has a number and the content it was given.
LEMMA AllocOK ==
  ASSUME ConstAssumption, SbOK, DataOK, NEW c \in Contents \cup {Nil}, Alloc(nextIno + 1, c)
  PROVE  /\ nextIno + 1 \in Inos /\ nextIno + 1 \in 0 .. MaxIno
         /\ nextIno' \in 0 .. MaxIno /\ DataOK'
BY DEF Alloc, SbOK, DataOK, Inos, ConstAssumption

LEMMA AllocFailOK ==
  ASSUME ConstAssumption, SbOK, DataOK, AllocFail
  PROVE  nextIno' \in 0 .. MaxIno /\ DataOK'
BY DEF AllocFail, SbOK, DataOK, Contents, ConstAssumption

\* The opens that only move on: the count and the lock may change with them.
LEMMA OpenStepsOK ==
  ASSUME ConstAssumption, TypeInv, NEW p \in Procs,
         OpenRead(p) \/ OpenFast(p) \/ OpenStale(p) \/ Recheck(p) \/ OpenLower(p)
  PROVE  TypeInv'
<1>1. pc \in [Procs -> PcLabels] /\ ino = [ino EXCEPT ![p] = ino[p]] /\ ino[p] \in 0 .. MaxIno
  BY DEF TypeInv, ProcOK
<1>2. JournalOK' /\ CtlOK' /\ MarksBehind' /\ DcOK'
  BY Frames DEF OpenRead, OpenFast, OpenStale, Recheck, OpenLower, sbVars, jVars, ctlVars
<1>3. SbOK'
  BY DEF TypeInv, SbOK, OpenRead, OpenFast, OpenStale, Recheck, OpenLower, sbVars
<1>4. DataOK'
  BY DEF TypeInv, DataOK, OpenRead, OpenFast, OpenStale, Recheck, OpenLower,
         MayTruncate, Contents
<1>5. CASE OpenRead(p) \/ OpenFast(p) \/ OpenStale(p) \/ Recheck(p)
  <2>1. \E label \in {"reading", "lower", "slow", "cow"} :
          pc' = [pc EXCEPT ![p] = label] /\ (label = "reading" \/ pc[p] \in {"found", "slow"})
    BY <1>5 DEF OpenRead, OpenFast, OpenStale, Recheck, Goto
  <2>2. UNCHANGED <<dp, mapped, dentry, ino>> /\ pc[p] \in {"found", "slow"}
    BY <1>5 DEF OpenRead, OpenFast, OpenStale, Recheck, dcVars
  <2>3. ProcOK' /\ GoodRefs'
    BY <1>1, <2>1, <2>2, MoveOK DEF PcLabels
  <2> QED BY <1>2, <1>3, <1>4, <2>3 DEF TypeInv
<1>6. CASE OpenLower(p)
  <2>1. dentry[dp[p]].lower.ino \in 0 .. MaxIno
    BY <1>6, BackingKinds DEF OpenLower, TypeInv, GoodRefs, GoodRef, DcOK, GoodSlots, DentryRecs
  <2>2. ProcOK' /\ GoodRefs'
    BY <1>6, <2>1, MoveOK DEF OpenLower, Opened, Goto, dcVars, PcLabels
  <2> QED BY <1>2, <1>3, <1>4, <2>2 DEF TypeInv
<1> QED BY <1>5, <1>6

\* The exits of an open or of a descriptor.
LEMMA ExitStepsOK ==
  ASSUME ConstAssumption, TypeInv, NEW p \in Procs,
         OpenLowerFail(p) \/ CowFail(p) \/ Close(p)
  PROVE  TypeInv'
<1>1. DcOK' /\ ProcOK' /\ GoodRefs'
  BY DoneOK DEF OpenLowerFail, CowFail, Close
<1>2. JournalOK' /\ CtlOK' /\ MarksBehind'
  BY Frames DEF OpenLowerFail, CowFail, Close, jVars, ctlVars
<1>3. CASE OpenLowerFail(p)
  <2>1. SbOK'
    BY <1>3 DEF OpenLowerFail, TypeInv, SbOK
  <2>2. DataOK'
    BY <1>3 DEF OpenLowerFail, TypeInv, DataOK, MayTruncate, Contents
  <2> QED BY <1>1, <1>2, <2>1, <2>2 DEF TypeInv
<1>4. CASE CowFail(p)
  <2>1. nextIno' \in 0 .. MaxIno /\ DataOK'
    BY <1>4, AllocFailOK DEF CowFail, TypeInv
  <2>2. SbOK'
    BY <1>4, <2>1 DEF CowFail, TypeInv, SbOK
  <2> QED BY <1>1, <1>2, <2>1, <2>2 DEF TypeInv
<1>5. CASE Close(p)
  <2>1. SbOK' /\ DataOK'
    BY <1>5 DEF Close, TypeInv, SbOK, DataOK
  <2> QED BY <1>1, <1>2, <2>1 DEF TypeInv
<1> QED BY <1>3, <1>4, <1>5

\* A dentry a process holds has a name, so it is not a free slot.
LEMMA HeldNamed ==
  ASSUME TypeInv, NEW p \in Procs, pc[p] # "idle", NEW d \in FreeDentries
  PROVE  dp[p] # d
BY DEF TypeInv, GoodRefs, GoodRef, FreeDentries

\* Publishing a store inode on the dentry of p, with an inode v.
LEMMA PublishGood ==
  ASSUME ConstAssumption, TypeInv, NEW p \in Procs, pc[p] \in {"publish", "create"},
         NEW v \in Vnodes
  PROVE  /\ GoodSlots(Published(p, v))
         /\ Published(p, v)[dp[p]].name # Nil /\ Published(p, v)[dp[p]].lower # Gone
         /\ \A d \in Dentries : d # dp[p] => Published(p, v)[d] = dentry[d]
<1> DEFINE r == [name |-> dentry[dp[p]].name, backing |-> "staged", pinned |-> TRUE,
                 lower |-> Staged(ino[p]), vnode |-> v]
<1>0. dp[p] \in Dentries /\ ino[p] \in Inos /\ dentry[dp[p]].name # Nil
  BY DEF TypeInv, GoodRefs, GoodRef
<1>1. Staged(ino[p]) \in Backings /\ Staged(ino[p]).kind # "base" /\ Staged(ino[p]) # Gone
  BY <1>0 DEF Backings, Staged, Gone
<1>2. r \in DentryRecs
  BY <1>0, <1>1 DEF DentryRecs, TypeInv, DcOK, GoodSlots
<1>3. GoodDentry(r) /\ r.name # Nil /\ r.lower # Gone
  BY <1>0, <1>1, <1>2 DEF GoodDentry
<1>4. Published(p, v) = [dentry EXCEPT ![dp[p]] = r]
  BY DEF Published
<1> HIDE DEF r
<1>5. \A d \in Dentries : Published(p, v)[d] = IF d = dp[p] THEN r ELSE dentry[d]
  BY <1>4 DEF TypeInv, DcOK, GoodSlots
<1>6. Published(p, v) \in [Dentries -> DentryRecs]
  BY <1>2, <1>4 DEF TypeInv, DcOK, GoodSlots
<1> QED BY <1>0, <1>3, <1>5, <1>6 DEF TypeInv, DcOK, GoodSlots

\* What is published through a dentry the other processes keep hold of.
LEMMA PublishRefs ==
  ASSUME ConstAssumption, TypeInv, NEW p \in Procs, pc[p] \in {"publish", "create"},
         NEW v \in Vnodes, dentry' = Published(p, v),
         NEW q \in Procs, q # p, pc'[q] = pc[q], dp'[q] = dp[q], ino'[q] = ino[q]
  PROVE  GoodRef(q)'
<1>1. CASE dp[q] = dp[p]
  BY <1>1, PublishGood DEF TypeInv, GoodRefs, GoodRef, Positive
<1>2. CASE dp[q] # dp[p]
  BY <1>2, PublishGood DEF TypeInv, GoodRefs, GoodRef, Positive
<1> QED BY <1>1, <1>2

\* The S record of a copy, and its publication.
LEMMA CowStepsOK ==
  ASSUME ConstAssumption, TypeInv, NEW p \in Procs, CowJournal(p) \/ CowPublish(p)
  PROVE  TypeInv'
<1>1. pc \in [Procs -> PcLabels] /\ dp \in [Procs -> Dentries \cup {Nil}]
      /\ ino \in [Procs -> 0 .. MaxIno] /\ mapped \in [Procs -> 0 .. MaxIno]
  BY DEF TypeInv, ProcOK
<1>2. CASE CowJournal(p)
  <2>1. PICK c \in {Empty, ContentOf(dentry[dp[p]].lower)} : Alloc(nextIno + 1, c)
    BY <1>2 DEF CowJournal
  <2>2. GoodDentry(dentry[dp[p]])
    BY <1>2 DEF CowJournal, TypeInv, GoodRefs, GoodRef, DcOK, GoodSlots
  <2>3. c \in Contents \cup {Nil}
    BY <2>2, ContentType DEF TypeInv, GoodDentry, DentryRecs, Contents
  <2>4. nextIno + 1 \in Inos /\ nextIno + 1 \in 0 .. MaxIno /\ nextIno' \in 0 .. MaxIno /\ DataOK'
    BY <2>1, <2>3, AllocOK DEF TypeInv
  <2>5. JournalOK' /\ dirty' = TRUE /\ UNCHANGED marks
    BY <1>2, <2>4, StageOK DEF CowJournal, TypeInv
  <2>6. SbOK'
    BY <1>2, <2>4, <2>5 DEF CowJournal, TypeInv, SbOK
  <2>7. DcOK' /\ CtlOK' /\ MarksBehind'
    BY <1>2, <2>5, Frames DEF CowJournal, ctlVars
  <2>8. ProcOK' /\ GoodRefs'
    BY <1>2, <2>4, MoveOK DEF CowJournal, Goto, PcLabels, dcVars
  <2> QED BY <2>4, <2>5, <2>6, <2>7, <2>8 DEF TypeInv
<1>3. CASE CowPublish(p)
  <2> DEFINE v == dentry[dp[p]].vnode
  <2>1. pc[p] = "publish" /\ dentry' = Published(p, v) /\ dp[p] \in Dentries /\ ino[p] \in Inos
    BY <1>3 DEF CowPublish, TypeInv, GoodRefs, GoodRef
  <2>2. v \in Vnodes
    BY <2>1 DEF TypeInv, GoodRefs, GoodRef, Positive, DcOK, GoodSlots, GoodDentry
  <2>3. stamp' \in [Vnodes -> [gen : 0 .. MaxGen, ino : 0 .. MaxIno]]
    BY <1>1, <1>3 DEF CowPublish, TypeInv, DcOK, SbOK
  <2>4. DcOK'
    BY <1>3, <2>1, <2>2, <2>3, PublishGood DEF CowPublish, TypeInv, DcOK
  <2>5. SbOK' /\ DataOK' /\ JournalOK' /\ CtlOK' /\ MarksBehind'
    BY <1>3, Frames DEF CowPublish, TypeInv, SbOK, jVars, ctlVars
  <2>6. ProcOK'
    BY <1>1, <1>3, ConstAssumption DEF CowPublish, Opened, Goto, ProcOK, PcLabels, ConstAssumption
  <2>7. GoodRef(p)'
    BY <1>1, <1>3, <2>1, <2>2, PublishGood DEF CowPublish, Opened, Goto, GoodRef
  <2>8. \A q \in Procs : q # p => pc'[q] = pc[q] /\ dp'[q] = dp[q] /\ ino'[q] = ino[q]
    BY <1>1, <1>3 DEF CowPublish, Opened, Goto
  <2>9. GoodRefs'
    BY <2>1, <2>2, <2>7, <2>8, PublishRefs DEF GoodRefs
  <2> QED BY <2>4, <2>5, <2>6, <2>9 DEF TypeInv
<1> QED BY <1>2, <1>3

\* The steps of open(O_CREAT) on a name that is absent.
LEMMA CreateStepsOK ==
  ASSUME ConstAssumption, TypeInv, NEW p \in Procs,
         (\E f \in Files : CreateJournal(p, f)) \/ CreateFail(p)
           \/ CreatePublish(p) \/ CreateUnpublished(p)
  PROVE  TypeInv'
<1>1. pc \in [Procs -> PcLabels] /\ dp \in [Procs -> Dentries \cup {Nil}]
      /\ ino \in [Procs -> 0 .. MaxIno] /\ mapped \in [Procs -> 0 .. MaxIno]
  BY DEF TypeInv, ProcOK
<1>2. ASSUME NEW f \in Files, CreateJournal(p, f)
      PROVE  TypeInv'
  <2>1. PICK d \in (IF hash[f] = Nil THEN FreeDentries ELSE {hash[f]}) :
          /\ dentry' = [dentry EXCEPT ![d].name = f]
          /\ hash' = [hash EXCEPT ![f] = d]
          /\ dp' = [dp EXCEPT ![p] = d]
    BY <1>2 DEF CreateJournal
  <2>2. d \in Dentries /\ dentry[d].lower = Gone
    BY <1>2, <2>1 DEF CreateJournal, View, FreeDentries, TypeInv, DcOK, GoodSlots,
                      GoodDentry, NoDentry
  <2>3. /\ dentry' \in [Dentries -> DentryRecs]
        /\ dentry'[d].name = f /\ dentry'[d].lower = Gone
        /\ dentry'[d].backing = dentry[d].backing /\ dentry'[d].vnode = dentry[d].vnode
        /\ \A e \in Dentries : e # d => dentry'[e] = dentry[e]
    <3>1. dentry \in [Dentries -> DentryRecs]
      BY DEF TypeInv, DcOK, GoodSlots
    <3>2. dentry[d] \in DentryRecs
      BY <2>2, <3>1
    <3>3. [dentry[d] EXCEPT !.name = f] \in DentryRecs
      BY <3>2 DEF DentryRecs
    <3>4. dentry' = [dentry EXCEPT ![d] = [dentry[d] EXCEPT !.name = f]]
      BY <2>1, <3>1
    <3>5. dentry' \in [Dentries -> DentryRecs] /\ dentry'[d] = [dentry[d] EXCEPT !.name = f]
          /\ \A e \in Dentries : e # d => dentry'[e] = dentry[e]
      BY <2>2, <3>1, <3>3, <3>4
    <3> QED BY <2>2, <3>2, <3>5 DEF DentryRecs
  <2>4. f # Nil
    BY DEF ConstAssumption
  <2>5. GoodDentry(dentry'[d])
    BY <2>2, <2>3, <2>4 DEF GoodDentry, TypeInv, DcOK, GoodSlots, Gone
  <2>6. GoodSlots(dentry')
    BY <2>3, <2>5 DEF GoodSlots, TypeInv, DcOK
  <2>7. nextIno + 1 \in Inos /\ nextIno + 1 \in 0 .. MaxIno /\ nextIno' \in 0 .. MaxIno /\ DataOK'
    BY <1>2, AllocOK DEF CreateJournal, TypeInv, Contents
  <2>8. JournalOK' /\ dirty' = TRUE /\ UNCHANGED marks
    BY <1>2, <2>7, StageOK DEF CreateJournal, TypeInv
  <2>9. SbOK' /\ CtlOK' /\ MarksBehind'
    BY <1>2, <2>7, <2>8, Frames DEF CreateJournal, TypeInv, SbOK, ctlVars
  <2>10. DcOK'
    BY <1>2, <2>1, <2>2, <2>6 DEF CreateJournal, TypeInv, DcOK
  <2>11. ProcOK'
    BY <1>1, <1>2, <2>1, <2>2, <2>7 DEF CreateJournal, Goto, ProcOK, PcLabels
  <2>12. GoodRef(p)'
    BY <1>1, <1>2, <2>1, <2>2, <2>3, <2>4, <2>7 DEF CreateJournal, Goto, GoodRef
  <2>13. ASSUME NEW q \in Procs, q # p PROVE GoodRef(q)'
    <3>1. pc'[q] = pc[q] /\ dp'[q] = dp[q] /\ ino'[q] = ino[q]
      BY <1>1, <1>2, <2>1, <2>13 DEF CreateJournal, Goto
    <3>2. dp[q] \in Dentries => dentry'[dp[q]].lower = dentry[dp[q]].lower
                              /\ (dentry[dp[q]].name # Nil => dentry'[dp[q]].name # Nil)
      BY <2>2, <2>3, <2>4
    <3> QED BY <3>1, <3>2, RefKept DEF TypeInv, GoodRefs
  <2> QED BY <2>7, <2>8, <2>9, <2>10, <2>11, <2>12, <2>13 DEF TypeInv, GoodRefs
<1>3. CASE CreateFail(p)
  <2>1. nextIno' \in 0 .. MaxIno /\ DataOK'
    BY <1>3, AllocFailOK DEF CreateFail, TypeInv
  <2>2. SbOK' /\ DcOK' /\ JournalOK' /\ CtlOK' /\ MarksBehind'
    BY <1>3, <2>1, Frames DEF CreateFail, TypeInv, SbOK, jVars, ctlVars
  <2>3. ProcOK' /\ GoodRefs'
    BY <1>3 DEF CreateFail, TypeInv, ProcOK, GoodRefs, GoodRef, Positive, procVars, dcVars
  <2> QED BY <2>1, <2>2, <2>3 DEF TypeInv
<1>4. CASE CreatePublish(p)
  <2>1. pc[p] = "create" /\ dentry' = Published(p, ino[p]) /\ dp[p] \in Dentries /\ ino[p] \in Inos
    BY <1>4 DEF CreatePublish, TypeInv, GoodRefs, GoodRef
  <2>2. ino[p] \in Vnodes
    BY <2>1 DEF Vnodes
  <2>3. stamp' \in [Vnodes -> [gen : 0 .. MaxGen, ino : 0 .. MaxIno]]
    BY <1>1, <1>4 DEF CreatePublish, TypeInv, DcOK, SbOK
  <2>4. DcOK'
    BY <1>4, <2>1, <2>2, <2>3, PublishGood DEF CreatePublish, TypeInv, DcOK
  <2>5. SbOK' /\ DataOK' /\ JournalOK' /\ CtlOK' /\ MarksBehind'
    BY <1>4, Frames DEF CreatePublish, sbVars, jVars, ctlVars
  <2>6. ProcOK'
    BY <1>1, <1>4, ConstAssumption DEF CreatePublish, Goto, ProcOK, PcLabels, ConstAssumption
  <2>7. GoodRef(p)'
    BY <1>1, <1>4, <2>1, <2>2, PublishGood DEF CreatePublish, Goto, GoodRef, Positive
  <2>8. \A q \in Procs : q # p => pc'[q] = pc[q] /\ dp'[q] = dp[q] /\ ino'[q] = ino[q]
    BY <1>1, <1>4 DEF CreatePublish, Goto
  <2>9. GoodRefs'
    BY <2>1, <2>2, <2>7, <2>8, PublishRefs DEF GoodRefs
  <2> QED BY <2>4, <2>5, <2>6, <2>9 DEF TypeInv
<1>5. CASE CreateUnpublished(p)
  <2> DEFINE h == [f \in Files |-> IF hash[f] = dp[p] /\ ~dentry[dp[p]].pinned
                                   THEN Nil ELSE hash[f]]
  <2>1. dentry' = Reap(dentry, h, Held(Procs \ {p})) /\ hash' = h
    BY <1>5 DEF CreateUnpublished
  <2>2. GoodSlots(dentry') /\ \A d \in Dentries : d \in Held(Procs \ {p}) => dentry'[d] = dentry[d]
    BY <2>1, ReapKeeps DEF TypeInv, DcOK
  <2>3. DcOK'
    BY <1>5, <2>1, <2>2 DEF CreateUnpublished, TypeInv, DcOK
  <2>4. SbOK' /\ DataOK' /\ JournalOK' /\ CtlOK' /\ MarksBehind'
    BY <1>5, Frames DEF CreateUnpublished, sbVars, jVars, ctlVars
  <2>5. ProcOK'
    BY <1>1, <1>5, ConstAssumption DEF CreateUnpublished, ProcOK, PcLabels, ConstAssumption
  <2>6. GoodRef(p)'
    BY <1>1, <1>5 DEF CreateUnpublished, GoodRef
  <2>7. ASSUME NEW q \in Procs, q # p PROVE GoodRef(q)'
    <3>1. pc'[q] = pc[q] /\ dp'[q] = dp[q] /\ ino'[q] = ino[q]
      BY <1>1, <1>5, <2>7 DEF CreateUnpublished
    <3>2. dp[q] \in Dentries => dp[q] \in Held(Procs \ {p})
      BY <2>7 DEF Held, ConstAssumption
    <3> QED BY <2>2, <3>1, <3>2, RefKept DEF TypeInv, GoodRefs
  <2> QED BY <2>3, <2>4, <2>5, <2>6, <2>7 DEF TypeInv, GoodRefs
<1> QED BY <1>2, <1>3, <1>4, <1>5

\* A walk, and the writes through a descriptor or a mapping.
LEMMA FileStepsOK ==
  ASSUME ConstAssumption, TypeInv, NEW p \in Procs,
         (\E f \in Files : Walk(p, f)) \/ Map(p)
           \/ (\E c \in Data : Write(p, c) \/ WriteMapped(p, c))
  PROVE  TypeInv'
<1>1. SbOK' /\ DcOK' /\ JournalOK' /\ CtlOK' /\ MarksBehind'
  BY Frames DEF Walk, Map, Write, WriteMapped, sbVars, jVars, ctlVars
<1>2. DataOK'
  BY DEF TypeInv, DataOK, Walk, Map, Write, WriteMapped, Contents
<1>3. CASE \E f \in Files : Walk(p, f)
  <2>1. PICK f \in Files : Walk(p, f)
    BY <1>3
  <2>2. hash[f] \in Dentries /\ Positive(hash[f]) /\ dentry[hash[f]].name # Nil
    BY <2>1 DEF Walk, TypeInv, DcOK, GoodSlots, GoodDentry, NoDentry, Positive
  <2>3. ProcOK'
    BY <2>1, <2>2 DEF Walk, TypeInv, ProcOK, PcLabels
  <2>4. GoodRefs'
    BY <2>1, <2>2 DEF Walk, TypeInv, ProcOK, GoodRefs, GoodRef, Positive, dcVars
  <2> QED BY <1>1, <1>2, <2>3, <2>4 DEF TypeInv
<1>4. CASE Map(p) \/ (\E c \in Data : Write(p, c) \/ WriteMapped(p, c))
  <2>1. ProcOK'
    BY <1>4 DEF Map, Write, WriteMapped, TypeInv, ProcOK, procVars
  <2>2. GoodRefs'
    BY <1>4 DEF Map, Write, WriteMapped, TypeInv, GoodRefs, GoodRef, Positive, procVars, dcVars
  <2> QED BY <1>1, <1>2, <2>1, <2>2 DEF TypeInv
<1> QED BY <1>3, <1>4

-----------------------------------------------------------------------------
\* The pre-image of a positive dentry can be the target of an R record.
LEMMA PreImageType ==
  ASSUME ConstAssumption, DcOK, NEW d \in Dentries
  PROVE  /\ PreimageBacking(d) \in Backings
         /\ PreimageBacking(d).kind = "base" => PreimageBacking(d).name \in BaseFiles
<1>1. GoodDentry(dentry[d])
  BY DEF DcOK, GoodSlots
<1>2. CASE dentry[d].backing # "staged"
  BY <1>1, <1>2 DEF PreimageBacking, GoodDentry, DentryRecs
<1>3. CASE dentry[d].backing = "staged"
  <2>1. stamp[dentry[d].vnode].ino \in 0 .. MaxIno
    BY <1>1, <1>3 DEF GoodDentry, DcOK
  <2>2. CASE stamp[dentry[d].vnode].ino = 0
    BY <1>3, <2>2 DEF PreimageBacking, Backings, Gone
  <2>3. CASE stamp[dentry[d].vnode].ino # 0
    BY <1>3, <2>1, <2>3, ConstAssumption DEF PreimageBacking, Backings, Staged, Inos, ConstAssumption
  <2> QED BY <2>2, <2>3
<1> QED BY <1>2, <1>3

\* Steps that only touch the dcache keep every reference, as long as the
\* dentries of the processes keep their lower path and a name.
LEMMA RefsKept ==
  ASSUME ConstAssumption, TypeInv, UNCHANGED procVars,
         \A d \in Dentries : d \in Held(Procs) /\ dentry[d].name # Nil =>
           dentry'[d].name # Nil /\ dentry'[d].lower = dentry[d].lower
  PROVE  ProcOK' /\ GoodRefs'
<1>1. ProcOK'
  BY DEF TypeInv, ProcOK, procVars
<1>2. ASSUME NEW q \in Procs PROVE GoodRef(q)'
  <2>1. dp[q] \in Dentries => dp[q] \in Held(Procs)
    BY DEF Held, ConstAssumption
  <2> QED BY <2>1, RefKept DEF TypeInv, GoodRefs, procVars
<1> QED BY <1>1, <1>2 DEF GoodRefs

\* A tombstone is a good dentry.
LEMMA TombstoneGood ==
  ASSUME ConstAssumption, NEW f \in Files
  PROVE  GoodDentry(Tombstone(f)) /\ Tombstone(f).name = f
BY DEF GoodDentry, Tombstone, DentryRecs, Backings, Gone, ConstAssumption

\* Lookup fills a free slot, eviction empties one nobody holds.
LEMMA CacheStepsOK ==
  ASSUME ConstAssumption, TypeInv, NEW f \in Files, Lookup(f) \/ Evict(f)
  PROVE  TypeInv'
<1>1. SbOK' /\ DataOK' /\ JournalOK' /\ CtlOK' /\ MarksBehind'
  BY Frames DEF Lookup, Evict, sbVars, jVars, ctlVars
<1>2. CASE Lookup(f)
  <2> DEFINE r == [name |-> f, backing |-> "base", pinned |-> FALSE,
                   lower |-> Base(f), vnode |-> BaseInode[f]]
  <2>1. PICK d \in FreeDentries : /\ dentry' = [dentry EXCEPT ![d] = r]
                                  /\ hash' = [hash EXCEPT ![f] = d]
    BY <1>2 DEF Lookup
  <2>2. d \in Dentries /\ dentry[d].name = Nil
    BY DEF FreeDentries
  <2>3. f \in BaseFiles /\ f # Nil /\ r.vnode \in Vnodes /\ Base(f) \in Backings
    BY <1>2 DEF Lookup, ConstAssumption, Vnodes, BaseInodes, Backings
  <2>4. GoodDentry(r)
    BY <2>3 DEF GoodDentry, DentryRecs, Base
  <2> HIDE DEF r
  <2>5. GoodSlots(dentry')
    <3>1. dentry' \in [Dentries -> DentryRecs]
      BY <2>1, <2>4 DEF GoodDentry, TypeInv, DcOK, GoodSlots
    <3>2. \A e \in Dentries : dentry'[e] = IF e = d THEN r ELSE dentry[e]
      BY <2>1 DEF TypeInv, DcOK, GoodSlots
    <3> QED BY <2>4, <3>1, <3>2 DEF TypeInv, DcOK, GoodSlots
  <2>6. DcOK'
    BY <1>2, <2>1, <2>2, <2>5 DEF Lookup, TypeInv, DcOK
  <2>7. ProcOK' /\ GoodRefs'
    BY <1>2, <2>1, <2>2, RefsKept DEF Lookup, TypeInv, DcOK, GoodSlots
  <2> QED BY <1>1, <2>6, <2>7 DEF TypeInv
<1>3. CASE Evict(f)
  <2>1. GoodDentry(NoDentry)
    BY DEF GoodDentry, NoDentry, DentryRecs, Gone, Backings
  <2>2. hash[f] \in Dentries /\ \A e \in Dentries : dentry'[e] = IF e = hash[f] THEN NoDentry ELSE dentry[e]
    BY <1>3 DEF Evict, TypeInv, DcOK, GoodSlots
  <2>3. GoodSlots(dentry')
    <3>1. dentry' \in [Dentries -> DentryRecs]
      BY <1>3, <2>1 DEF Evict, GoodDentry, TypeInv, DcOK, GoodSlots
    <3> QED BY <2>1, <2>2, <3>1 DEF TypeInv, DcOK, GoodSlots
  <2>4. DcOK'
    BY <1>3, <2>3 DEF Evict, TypeInv, DcOK
  <2>5. ProcOK' /\ GoodRefs'
    BY <1>3, <2>2, RefsKept DEF Evict
  <2> QED BY <1>1, <2>4, <2>5 DEF TypeInv
<1> QED BY <1>2, <1>3

\* Unlink and rename: a tombstone in a free slot, and the tree of the record.
LEMMA NameStepsOK ==
  ASSUME ConstAssumption, TypeInv,
         \/ \E f \in Files : Unlink(f)
         \/ \E f, g \in Files : Rename(f, g)
  PROVE  TypeInv'
<1>1. DataOK' /\ CtlOK'
  BY Frames DEF Unlink, Rename, ctlVars
<1>2. ASSUME NEW tree, GoodTree(tree), JournalNames(tree),
             UNCHANGED <<sem, gen, fdCount, nextIno, ctl>>
      PROVE  SbOK' /\ JournalOK' /\ MarksBehind'
  <2>1. JournalOK' /\ dirty' = TRUE /\ UNCHANGED marks
    BY <1>2, NamesOK DEF TypeInv
  <2> QED BY <1>2, <2>1, Frames DEF TypeInv, SbOK
<1>3. ASSUME NEW u, NEW h \in [Files -> Dentries \cup {Nil}], GoodSlots(u),
             \A d \in Dentries : dentry[d].name # Nil =>
               u[d].name # Nil /\ u[d].lower = dentry[d].lower,
             hash' = h, dentry' = Reap(u, h, Held(Procs)),
             UNCHANGED <<stamp, dirLock, procVars>>
      PROVE  DcOK' /\ ProcOK' /\ GoodRefs'
  <2>1. GoodSlots(dentry') /\ \A d \in Dentries : d \in Held(Procs) => dentry'[d] = u[d]
    BY <1>3, ReapKeeps
  <2>2. ProcOK' /\ GoodRefs'
    BY <1>3, <2>1, RefsKept
  <2> QED BY <1>3, <2>1, <2>2 DEF TypeInv, DcOK
<1>4. ASSUME NEW f \in Files, Unlink(f)
      PROVE  TypeInv'
  <2>1. hash[f] \in Dentries /\ dentry[hash[f]].lower # Gone
    BY <1>4 DEF Unlink, Positive, TypeInv, DcOK
  <2>2. PICK t \in FreeDentries :
          /\ hash' = [hash EXCEPT ![f] = t]
          /\ dentry' = Reap([dentry EXCEPT ![t] = Tombstone(f), ![hash[f]] = Unpinned(@)],
                            [hash EXCEPT ![f] = t], Held(Procs))
    BY <1>4 DEF Unlink
  <2> DEFINE u == [dentry EXCEPT ![t] = Tombstone(f), ![hash[f]] = Unpinned(@)]
  <2>3. t \in Dentries /\ dentry[t].name = Nil /\ t # hash[f]
    BY <2>1 DEF FreeDentries, TypeInv, DcOK, GoodSlots, GoodDentry, NoDentry
  <2>4. \A d \in Dentries : u[d] = IF d = t THEN Tombstone(f)
                                  ELSE IF d = hash[f] THEN Unpinned(dentry[d]) ELSE dentry[d]
    BY <2>1, <2>3 DEF TypeInv, DcOK, GoodSlots
  <2>5. u \in [Dentries -> DentryRecs]
    BY <2>1, TombstoneGood, UnpinGood DEF GoodDentry, TypeInv, DcOK, GoodSlots
  <2> HIDE DEF u
  <2>6. GoodSlots(u)
    BY <2>4, <2>5, TombstoneGood, UnpinGood DEF TypeInv, DcOK, GoodSlots
  <2>7. \A d \in Dentries : dentry[d].name # Nil => u[d].name # Nil /\ u[d].lower = dentry[d].lower
    BY <2>3, <2>4, UnpinGood DEF TypeInv, DcOK, GoodSlots
  <2>8. [hash EXCEPT ![f] = t] \in [Files -> Dentries \cup {Nil}]
    BY <2>3 DEF TypeInv, DcOK
  <2>9. DcOK' /\ ProcOK' /\ GoodRefs'
    BY <1>3, <1>4, <2>2, <2>6, <2>7, <2>8 DEF Unlink, u
  <2>10. GoodTree([tip EXCEPT ![f] = Gone])
    BY DEF TypeInv, JournalOK, GoodTree, Trees, Backings, Gone
  <2>11. SbOK' /\ JournalOK' /\ MarksBehind'
    BY <1>2, <1>4, <2>10 DEF Unlink, ctlVars
  <2> QED BY <1>1, <2>9, <2>11, <1>4 DEF TypeInv
<1>5. ASSUME NEW f \in Files, NEW g \in Files, Rename(f, g)
      PROVE  TypeInv'
  <2>1. hash[f] \in Dentries /\ dentry[hash[f]].lower # Gone /\ f # g /\ g # Nil
    BY <1>5 DEF Rename, Positive, TypeInv, DcOK, ConstAssumption
  <2> DEFINE moved(t) == [d \in Dentries |->
                            IF d = t THEN Tombstone(f)
                            ELSE IF d = hash[f] THEN [dentry[d] EXCEPT !.name = g, !.pinned = TRUE]
                            ELSE IF d = hash[g] THEN Unpinned(dentry[d])
                            ELSE dentry[d]]
             h(t) == [hash EXCEPT ![f] = t, ![g] = hash[f]]
  <2>2. PICK t \in FreeDentries : hash' = h(t) /\ dentry' = Reap(moved(t), h(t), Held(Procs))
    BY <1>5 DEF Rename
  <2> DEFINE m == [dentry[hash[f]] EXCEPT !.name = g, !.pinned = TRUE]
  <2>3. t \in Dentries /\ dentry[t].name = Nil /\ t # hash[f]
    BY <2>1 DEF FreeDentries, TypeInv, DcOK, GoodSlots, GoodDentry, NoDentry
  <2>4. GoodDentry(dentry[hash[f]])
    BY <2>1 DEF TypeInv, DcOK, GoodSlots
  <2>5. /\ m \in DentryRecs /\ m.name = g /\ m.lower = dentry[hash[f]].lower
        /\ m.backing = dentry[hash[f]].backing /\ m.vnode = dentry[hash[f]].vnode
    BY <2>1, <2>4 DEF GoodDentry, DentryRecs
  <2>6. GoodDentry(m)
    <3> HIDE DEF m
    <3> QED BY <2>1, <2>4, <2>5 DEF GoodDentry
  <2>7. ASSUME NEW d \in Dentries
        PROVE  /\ GoodDentry(moved(t)[d])
               /\ dentry[d].name # Nil => moved(t)[d].name # Nil /\ moved(t)[d].lower = dentry[d].lower
    <3>0. GoodDentry(dentry[d])
      BY DEF TypeInv, DcOK, GoodSlots
    <3>1. CASE d = t
      <4>1. moved(t)[d] = Tombstone(f)
        BY <3>1
      <4> QED BY <2>3, <3>1, <4>1, TombstoneGood
    <3>2. CASE d # t /\ d = hash[f]
      <4>1. moved(t)[d] = m
        BY <3>2
      <4> HIDE DEF m, moved
      <4> QED BY <2>1, <2>5, <2>6, <3>2, <4>1
    <3>3. CASE d # t /\ d # hash[f] /\ d = hash[g]
      <4>1. moved(t)[d] = Unpinned(dentry[d])
        BY <3>3
      <4> HIDE DEF moved
      <4> QED BY <3>0, <4>1, UnpinGood
    <3>4. CASE d # t /\ d # hash[f] /\ d # hash[g]
      <4>1. moved(t)[d] = dentry[d]
        BY <3>4
      <4> QED BY <3>0, <4>1
    <3> QED BY <3>1, <3>2, <3>3, <3>4
  <2> DEFINE u == moved(t)
  <2>8. u = [d \in Dentries |-> u[d]]
    OBVIOUS
  <2> HIDE DEF moved, m
  <2>9. u \in [Dentries -> DentryRecs]
    BY <2>7, <2>8 DEF GoodDentry
  <2>10. GoodSlots(u)
    BY <2>7, <2>9 DEF GoodSlots
  <2>11. h(t) \in [Files -> Dentries \cup {Nil}]
    BY <2>1, <2>3 DEF TypeInv, DcOK
  <2> HIDE DEF h
  <2>12. DcOK' /\ ProcOK' /\ GoodRefs'
    <3>1. UNCHANGED <<stamp, dirLock, procVars>>
      BY <1>5 DEF Rename
    <3> QED BY <1>3, <2>2, <2>7, <2>10, <2>11, <3>1
  <2>13. GoodTree([tip EXCEPT ![f] = Gone, ![g] = PreimageBacking(hash[f])])
    <3>1. PreimageBacking(hash[f]) \in Backings /\ Gone \in Backings /\ Gone.kind # "base"
          /\ (PreimageBacking(hash[f]).kind = "base" => PreimageBacking(hash[f]).name \in BaseFiles)
      BY <2>1, PreImageType DEF TypeInv, Backings, Gone
    <3> QED BY <2>1, <3>1 DEF TypeInv, JournalOK, GoodTree, Trees
  <2>14. SbOK' /\ JournalOK' /\ MarksBehind'
    BY <1>2, <1>5, <2>13 DEF Rename, ctlVars
  <2> QED BY <1>1, <1>5, <2>12, <2>14 DEF TypeInv
<1> QED BY <1>4, <1>5

-----------------------------------------------------------------------------
\* SNAPSHOT: a marker of the current tree, if the append succeeds.
LEMMA SnapshotStepsOK ==
  ASSUME ConstAssumption, TypeInv, SnapshotMark \/ SnapshotDone
  PROVE  TypeInv'
<1>1. DcOK' /\ DataOK'
  BY Frames DEF SnapshotMark, SnapshotDone
<1>2. ProcOK' /\ GoodRefs'
  BY DEF SnapshotMark, SnapshotDone, TypeInv, ProcOK, GoodRefs, GoodRef, Positive,
         procVars, dcVars
<1>3. CASE SnapshotMark
  <2>1. gen' = gen + 1 /\ gen' \in 0 .. MaxGen /\ ctl' = "snapshot"
    BY <1>3 DEF SnapshotMark, MaySeal, TypeInv, SbOK, ConstAssumption
  <2>2. SbOK' /\ CtlOK'
    BY <1>3, <2>1 DEF SnapshotMark, TypeInv, SbOK, CtlOK
  <2>3. CASE Mark(tip)
    BY <1>1, <1>2, <2>1, <2>2, <2>3, MarkOK DEF TypeInv, JournalOK, MarksBehind, SbOK
  <2>4. CASE UNCHANGED jVars
    BY <1>1, <1>2, <2>1, <2>2, <2>4, Frames DEF TypeInv, MarksBehind, jVars, SbOK, JournalOK
  <2> QED BY <1>3, <2>3, <2>4 DEF SnapshotMark
<1>4. CASE SnapshotDone
  <2>1. SbOK' /\ CtlOK' /\ JournalOK' /\ MarksBehind'
    BY <1>4, Frames DEF SnapshotDone, TypeInv, SbOK, CtlOK, MarksBehind, jVars
  <2> QED BY <1>1, <1>2, <2>1 DEF TypeInv
<1> QED BY <1>3, <1>4

\* TRAVEL: the injection of a marker's tree, its T record, and its failure.
LEMMA TravelStepsOK ==
  ASSUME ConstAssumption, TypeInv,
         (\E g \in 0 .. Len(marks) - 1 : TravelView(g)) \/ TravelDone \/ TravelFail
  PROVE  TypeInv'
<1>1. DataOK'
  BY Frames DEF TravelView, TravelDone, TravelFail
<1>2. ASSUME NEW g \in 0 .. Len(marks) - 1, TravelView(g)
      PROVE  TypeInv'
  <2>1. gen' = gen + 1 /\ gen' \in 0 .. MaxGen /\ ctl' = "travel"
    BY <1>2 DEF TravelView, MaySeal, TypeInv, SbOK, ConstAssumption
  <2>2. GoodTree(marks[g + 1].tree)
    <3>1. Len(marks) \in Nat /\ g + 1 \in 1 .. Len(marks)
      BY DEF TypeInv, JournalOK
    <3> QED BY <3>1 DEF TypeInv, JournalOK
  <2>3. SbOK' /\ CtlOK' /\ JournalOK' /\ MarksBehind'
    BY <1>2, <2>1, <2>2, Frames DEF TravelView, TypeInv, SbOK, CtlOK, MarksBehind, jVars, JournalOK
  <2>4. [i \in Inos |-> gen + 1] \in [Inos -> 0 .. MaxGen]
    BY <2>1
  <2>5. GoodSlots(Quiesced.dentry) /\ Quiesced.hash \in [Files -> Dentries \cup {Nil}]
    BY QuiescedOK DEF TypeInv
  <2>6. Inject(Quiesced, marks[g + 1].tree, [i \in Inos |-> gen + 1]) /\ UNCHANGED <<dirLock, procVars>>
    BY <1>2 DEF TravelView
  <2>7. /\ DcOK'
        /\ \A d \in Dentries : d \in Held(Procs) /\ Quiesced.dentry[d].name # Nil =>
             dentry'[d] = Quiesced.dentry[d]
    BY <2>2, <2>4, <2>5, <2>6, InjectOK DEF TypeInv
  <2>8. ProcOK' /\ GoodRefs'
    BY <2>6, <2>7, QuiescedOK, RefsKept DEF TypeInv
  <2> QED BY <1>1, <2>3, <2>7, <2>8 DEF TypeInv
<1>3. CASE TravelDone
  <2>1. DcOK'
    BY <1>3, Frames DEF TravelDone
  <2>2. ProcOK' /\ GoodRefs'
    BY <1>3 DEF TravelDone, TypeInv, ProcOK, GoodRefs, GoodRef, Positive, procVars, dcVars
  <2>3. GoodTree(BaseTree)
    BY DEF BaseTree, GoodTree, Trees, Backings
  <2>4. {target[f].ino : f \in Files} \ {0} \subseteq Inos
    <3>1. \A f \in Files : target[f].ino \in 0 .. MaxIno
      BY BackingKinds DEF TypeInv, CtlOK, GoodTree, Trees
    <3> QED BY <3>1 DEF Inos
  <2>5. SbOK' /\ CtlOK'
    BY <1>3, <2>3, <2>4 DEF TravelDone, TypeInv, SbOK, CtlOK
  <2>6. JournalOK' /\ MarksBehind'
    <3>1. CASE Mark(target)
      BY <1>3, <3>1, MarkOK DEF TravelDone, TypeInv, CtlOK, MarksBehind, SbOK, JournalOK
    <3>2. CASE UNCHANGED jVars
      BY <1>3, <3>2, Frames DEF TravelDone, TypeInv, MarksBehind, jVars
    <3> QED BY <1>3, <3>1, <3>2 DEF TravelDone
  <2> QED BY <1>1, <2>1, <2>2, <2>5, <2>6 DEF TypeInv
<1>4. CASE TravelFail
  <2>1. gen' = gen + 1 /\ gen' \in 0 .. MaxGen /\ ctl = "idle" /\ UNCHANGED <<ctl, marks>>
    BY <1>4 DEF TravelFail, MaySeal, TypeInv, SbOK, ConstAssumption, ctlVars, jVars
  <2>2. SbOK' /\ CtlOK' /\ JournalOK' /\ MarksBehind'
    BY <1>4, <2>1, Frames DEF TravelFail, TypeInv, SbOK, MarksBehind, JournalOK
  <2>3. DcOK'
    BY <1>4, QuiescedOK DEF TravelFail, TypeInv, DcOK
  <2>4. ProcOK' /\ GoodRefs'
    BY <1>4, QuiescedOK, RefsKept DEF TravelFail, TypeInv
  <2> QED BY <1>1, <2>2, <2>3, <2>4 DEF TypeInv
<1> QED BY <1>2, <1>3, <1>4

\* Unmount and mount: everything in memory is rebuilt from the journal.
LEMMA RemountOK ==
  ASSUME ConstAssumption, TypeInv, Remount
  PROVE  TypeInv'
<1> DEFINE q == [hash |-> [f \in Files |-> Nil], dentry |-> [d \in Dentries |-> NoDentry]]
           s == [i \in Inos |-> RestoredStamp(i, LatestGen)]
<1>1. LatestGen \in 0 .. MaxGen
  BY DEF LatestGen, TypeInv, JournalOK, MarksBehind, SbOK, ConstAssumption
<1>2. s \in [Inos -> 0 .. MaxGen]
  BY <1>1 DEF RestoredStamp, ConstAssumption
<1>3. GoodSlots(q.dentry) /\ q.hash \in [Files -> Dentries \cup {Nil}]
  BY DEF GoodSlots, GoodDentry, NoDentry, DentryRecs, Gone, Backings
<1>4. Inject(q, tip, s) /\ UNCHANGED dirLock
  BY DEF Remount
<1>5. DcOK'
  <2> HIDE DEF q, s
  <2> QED BY <1>2, <1>3, <1>4, InjectOK DEF TypeInv, JournalOK
<1>6. SbOK' /\ CtlOK' /\ MarksBehind'
  BY <1>1 DEF Remount, TypeInv, SbOK, CtlOK, MarksBehind, JournalOK, jVars, LatestGen,
              ConstAssumption
<1>7. DataOK' /\ JournalOK'
  BY Frames DEF Remount
<1>8. ProcOK' /\ GoodRefs'
  BY DEF Remount, TypeInv, ProcOK, GoodRefs, GoodRef, procVars
<1> QED BY <1>5, <1>6, <1>7, <1>8 DEF TypeInv

LEMMA TypeInvInit == ConstAssumption /\ Init => TypeInv
<1> SUFFICES ASSUME ConstAssumption, Init PROVE TypeInv
  OBVIOUS
<1>0. dirty \in BOOLEAN /\ recs \in BOOLEAN
  BY Zenon DEF Init
<1>1. SbOK
  <2>1. sem = Nil /\ gen = 0 /\ fdCount = 0 /\ nextIno = 0
    BY DEF Init
  <2> QED BY <1>0, <2>1 DEF SbOK, ConstAssumption
<1>2. DcOK
  BY DEF Init, DcOK, GoodSlots, GoodDentry, NoDentry, DentryRecs, Gone, Backings,
         ConstAssumption
<1>3. DataOK
  BY DEF Init, DataOK
<1>4. GoodTree(BaseTree)
  BY DEF BaseTree, GoodTree, Trees, Backings
<1>5. JournalOK
  <2> DEFINE m == [tree |-> BaseTree, saw |-> Shows(BaseTree)]
  <2>1. m \in MarkRecs
    BY <1>3, <1>4, ShowsType DEF GoodTree, MarkRecs
  <2>2. marks = <<m>>
    BY DEF Init
  <2> HIDE DEF m
  <2>3. marks \in Seq(MarkRecs) /\ Len(marks) = 1 /\ marks[1] = m
    BY <2>1, <2>2
  <2>4. m.tree = BaseTree
    BY DEF m
  <2>5. tip = BaseTree /\ allocFloor = 0 /\ cowFloor = 0
    BY DEF Init
  <2> QED BY <1>0, <1>4, <2>3, <2>4, <2>5 DEF JournalOK, ConstAssumption
<1>6. ProcOK /\ GoodRefs
  BY DEF Init, ProcOK, GoodRefs, GoodRef, PcLabels, ConstAssumption
<1>7. CtlOK /\ MarksBehind
  BY <1>4 DEF Init, CtlOK, MarksBehind
<1> QED BY <1>1, <1>2, <1>3, <1>5, <1>6, <1>7 DEF TypeInv

LEMMA TypeInvStep == ConstAssumption /\ TypeInv /\ [Next]_vars => TypeInv'
<1> SUFFICES ASSUME ConstAssumption, TypeInv, [Next]_vars PROVE TypeInv'
  OBVIOUS
<1>1. CASE UNCHANGED vars
  BY <1>1, Frames DEF vars, TypeInv, ProcOK, GoodRefs, GoodRef, Positive, MarksBehind,
                      procVars, dcVars, jVars, sbVars, ctlVars
<1>2. ASSUME NEW p \in Procs, ProcStep(p)
      PROVE  TypeInv'
  BY <1>2, OpenStepsOK, ExitStepsOK, CowStepsOK, CreateStepsOK, FileStepsOK DEF ProcStep
<1>3. CASE NameStep
  BY <1>3, CacheStepsOK, NameStepsOK DEF NameStep
<1>4. CASE CtlStep
  BY <1>4, SnapshotStepsOK, TravelStepsOK, RemountOK DEF CtlStep
<1> QED BY <1>1, <1>2, <1>3, <1>4 DEF Next

\* TypeOK for every instance: whatever an open, a create, a rename, a travel
\* or a mount does, in any interleaving and any environment, the structures
\* of the module keep their shape.
THEOREM TypeCorrect == Spec => []TypeOK
<1>1. Init => TypeInv
  BY TypeInvInit, ConstAssumption
<1>2. TypeInv /\ [Next]_vars => TypeInv'
  BY TypeInvStep, ConstAssumption
<1>3. TypeInv => TypeOK
  BY DEF TypeInv, TypeOK, SbOK, DcOK, GoodSlots, DataOK, JournalOK, GoodTree, ProcOK,
         CtlOK, MarkRecs
<1> QED BY <1>1, <1>2, <1>3, PTL DEF Spec

=============================================================================
