--------------------------- MODULE SessionProofs ---------------------------
(***************************************************************************)
(* What holds of a session for any number of processes, superblocks, rules *)
(* and jobs.                                                               *)
(***************************************************************************)
EXTENDS Session, SequenceTheorems, FiniteSetTheorems, TLAPS

-----------------------------------------------------------------------------
(* What a step does to the process that takes it.                          *)

IsProc(r) == r = [pc |-> r.pc, next |-> r.next, seen |-> r.seen, rules |-> r.rules]

ProcShape == /\ proc = [q \in Procs |-> proc[q]]
             /\ \A q \in Procs : IsProc(proc[q])

\* Process p moves to label l with n to follow, and the others stay.
Moves(p, l, n) ==
  /\ proc'[p].pc = l /\ proc'[p].next = n
  /\ \A q \in Procs \ {p} : proc'[q] = proc[q]

LEMMA GotoMoves ==
  ASSUME ProcShape, NEW p \in Procs, NEW l, Goto(p, l)
  PROVE  /\ ProcShape'
         /\ Moves(p, l, IF l = "idle" THEN "idle" ELSE proc[p].next)
         /\ l # "idle" => proc'[p].seen = proc[p].seen
<1>1. CASE l = "idle"
  <2>1. proc' = [proc EXCEPT ![p] = Resting]
    BY <1>1 DEF Goto
  <2> QED BY <1>1, <2>1 DEF ProcShape, IsProc, Moves, Resting
<1>2. CASE l # "idle"
  <2>1. proc' = [proc EXCEPT ![p] = [proc[p] EXCEPT !.pc = l]]
    BY <1>2 DEF Goto
  <2>2. IsProc(proc[p])
    BY DEF ProcShape
  <2>3. proc'[p] = [pc |-> l, next |-> proc[p].next, seen |-> proc[p].seen, rules |-> proc[p].rules]
    BY <2>1, <2>2 DEF ProcShape, IsProc
  <2>4. \A q \in Procs \ {p} : proc'[q] = proc[q]
    BY <2>1 DEF ProcShape
  <2>5. proc' = [q \in Procs |-> proc'[q]]
    BY <2>1 DEF ProcShape
  <2> QED BY <1>2, <2>3, <2>4, <2>5 DEF ProcShape, IsProc, Moves
<1> QED BY <1>1, <1>2

\* The moves that take more along than a label.
LEMMA OtherMoves ==
  ASSUME ProcShape, NEW p \in Procs, NEW l, NEW n, NEW s, NEW r,
         \/ proc' = [proc EXCEPT ![p].pc = l, ![p].seen = s] /\ n = proc[p].next
         \/ proc' = [proc EXCEPT ![p].pc = l, ![p].next = n] /\ s = proc[p].seen
         \/ proc' = [proc EXCEPT ![p].pc = l, ![p].rules = r]
              /\ n = proc[p].next /\ s = proc[p].seen
         \/ proc' = [proc EXCEPT ![p].pc = l, ![p].seen = s, ![p].next = n]
         \/ proc' = [proc EXCEPT ![p].pc = l, ![p].seen = s, ![p].rules = r] /\ n = proc[p].next
  PROVE  ProcShape' /\ Moves(p, l, n) /\ proc'[p].seen = s
<1> DEFINE Rec(x) == [pc |-> l, next |-> n, seen |-> s, rules |-> x]
<1>1. proc[p] = [pc |-> proc[p].pc, next |-> proc[p].next, seen |-> proc[p].seen,
                 rules |-> proc[p].rules]
  BY DEF ProcShape, IsProc
<1>2. proc'[p] = Rec(proc[p].rules) \/ proc'[p] = Rec(r)
  <2>1. CASE proc' = [proc EXCEPT ![p].pc = l, ![p].seen = s] /\ n = proc[p].next
    BY <1>1, <2>1 DEF ProcShape
  <2>2. CASE proc' = [proc EXCEPT ![p].pc = l, ![p].next = n] /\ s = proc[p].seen
    BY <1>1, <2>2 DEF ProcShape
  <2>3. CASE proc' = [proc EXCEPT ![p].pc = l, ![p].rules = r]
               /\ n = proc[p].next /\ s = proc[p].seen
    BY <1>1, <2>3 DEF ProcShape
  <2>4. CASE proc' = [proc EXCEPT ![p].pc = l, ![p].seen = s, ![p].next = n]
    BY <1>1, <2>4 DEF ProcShape
  <2>5. CASE proc' = [proc EXCEPT ![p].pc = l, ![p].seen = s, ![p].rules = r] /\ n = proc[p].next
    BY <1>1, <2>5 DEF ProcShape
  <2> QED BY <2>1, <2>2, <2>3, <2>4, <2>5
<1>3. \A q \in Procs \ {p} : proc'[q] = proc[q]
  BY DEF ProcShape
<1>4. proc' = [q \in Procs |-> proc'[q]]
  BY DEF ProcShape
<1>5. /\ proc'[p].pc = l /\ proc'[p].next = n /\ proc'[p].seen = s
      /\ IsProc(proc'[p])
  BY <1>2 DEF IsProc
<1>6. \A q \in Procs : IsProc(proc'[q])
  BY <1>3, <1>5 DEF ProcShape
<1>7. ProcShape'
  BY <1>4, <1>6 DEF ProcShape
<1> QED BY <1>3, <1>5, <1>7 DEF Moves
-----------------------------------------------------------------------------
(* The inductive invariant of the types.  That a journal is never taken for *)
(* a missing one needs that the next inode is a number, and that needs the  *)
(* staged inodes to have a largest.                                         *)

NextLabels == {"idle", "check", "spawn", "insert", "failed", "replay", "clear"}
Needy      == {"load", "domount", "read", "running"}

\* A journal whose largest inode a restore can compute.
Readable(j) == /\ j \in Seq(Nat)
               /\ \E n \in Staged(j) \cup {0} : \A m \in Staged(j) \cup {0} : m <= n

Sound(q) ==
  /\ proc[q].pc \in PcLabels /\ proc[q].next \in NextLabels
  /\ proc[q].next = "failed" => proc[q].pc \in {"umount", "rmdir"}
  /\ proc[q].pc = "running" <=> cmd[q] # Nil
  /\ proc[q].pc \in Needy => journal # Nil
  /\ proc[q].pc = "restore" => Readable(proc[q].seen)

ProcsOK == ProcShape /\ \A q \in Procs : Sound(q)

CmdOK     == cmd \in [Procs -> Supers \cup {Nil}]
JournalOK == journal = Nil \/ Readable(journal)

IsSb(r) == r = [view |-> r.view, next |-> r.next, gen |-> r.gen, dirty |-> r.dirty, live |-> r.live]
SbsOK == /\ sbs = [s \in Supers |-> sbs[s]]
         /\ \A s \in Supers : IsSb(sbs[s]) /\ sbs[s].next \in Nat

StackOK == stack \in Seq(Supers) /\ IsInjective(stack)
MountOK == /\ loaded \in BOOLEAN /\ mntdir \in BOOLEAN
           /\ stack # << >> => loaded = TRUE /\ mntdir = TRUE /\ journal # Nil

TypeInv == ProcsOK /\ CmdOK /\ JournalOK /\ SbsOK /\ StackOK /\ MountOK

\* A process that moves to a sound place leaves all of them sound.
LEMMA MoveKeepsSound ==
  ASSUME ProcsOK, NEW p \in Procs, NEW l \in PcLabels, NEW n \in NextLabels,
         ProcShape', Moves(p, l, n),
         n = "failed" => l \in {"umount", "rmdir"},
         l = "running" <=> cmd'[p] # Nil, \A q \in Procs \ {p} : cmd'[q] = cmd[q],
         l \in Needy => journal' # Nil, journal # Nil => journal' # Nil,
         l = "restore" => Readable(proc'[p].seen)
  PROVE  ProcsOK'
<1>1. Sound(p)'
  BY DEF Sound, Moves
<1>2. ASSUME NEW q \in Procs \ {p} PROVE Sound(q)'
  <2>1. Sound(q) /\ proc'[q] = proc[q] /\ cmd'[q] = cmd[q]
    BY <1>2 DEF ProcsOK, Moves
  <2> QED BY <2>1 DEF Sound
<1> QED BY <1>1, <1>2 DEF ProcsOK

LEMMA GotoKeepsSound ==
  ASSUME ProcsOK, NEW p \in Procs, NEW l \in PcLabels \ {"running", "restore"}, Goto(p, l),
         proc[p].next = "failed" => l \in {"umount", "rmdir", "idle"},
         cmd'[p] = Nil, \A q \in Procs \ {p} : cmd'[q] = cmd[q],
         l \in Needy => journal' # Nil, journal # Nil => journal' # Nil
  PROVE  ProcsOK'
<1> DEFINE n == IF l = "idle" THEN "idle" ELSE proc[p].next
<1>1. ProcShape' /\ Moves(p, l, n)
  BY GotoMoves DEF ProcsOK
<1>2. n \in NextLabels /\ (n = "failed" => l \in {"umount", "rmdir"})
  BY DEF ProcsOK, Sound, NextLabels
<1> HIDE DEF n
<1> QED BY <1>1, <1>2, MoveKeepsSound

\* The common case: only proc and what no label depends on change.
LEMMA QuietGoto ==
  ASSUME ProcsOK, NEW p \in Procs, NEW l \in PcLabels \ ({"running", "restore"} \cup Needy),
         Goto(p, l), proc[p].pc # "running",
         proc[p].next = "failed" => l \in {"umount", "rmdir", "idle"},
         cmd' = cmd, journal # Nil => journal' # Nil
  PROVE  ProcsOK'
<1>1. cmd[p] = Nil
  BY DEF ProcsOK, Sound
<1> QED BY <1>1, GotoKeepsSound

\* Nothing but what no label depends on changes.
LEMMA StillSound ==
  ASSUME ProcsOK, proc' = proc, cmd' = cmd, journal # Nil => journal' # Nil
  PROVE  ProcsOK'
<1>1. ASSUME NEW q \in Procs PROVE Sound(q)'
  <2>1. Sound(q)
    BY DEF ProcsOK
  <2> QED BY <2>1 DEF Sound
<1> QED BY <1>1 DEF ProcsOK, ProcShape
-----------------------------------------------------------------------------
(* Journals, superblocks and the stack of mounts.                          *)

LEMMA ReadableEmpty == Readable(<< >>) /\ Staged(<< >>) = {}
BY DEF Readable, Staged, Range

LEMMA StagedAppend ==
  ASSUME NEW j \in Seq(Nat), NEW r \in Nat
  PROVE  /\ Append(j, r) \in Seq(Nat)
         /\ Staged(Append(j, r)) = Staged(j) \cup ({r} \ {0})
<1>1. DOMAIN Append(j, r) = DOMAIN j \cup {Len(j) + 1}
  OBVIOUS
<1>2. \A i \in DOMAIN j : Append(j, r)[i] = j[i]
  OBVIOUS
<1>3. Append(j, r)[Len(j) + 1] = r
  OBVIOUS
<1>4. Range(Append(j, r)) = Range(j) \cup {r}
  BY <1>1, <1>2, <1>3 DEF Range
<1> QED BY <1>4 DEF Staged

LEMMA ReadableAppend ==
  ASSUME NEW j, Readable(j), NEW r \in Nat
  PROVE  Readable(Append(j, r)) /\ Append(j, r) # Nil
<1>1. PICK n \in Staged(j) \cup {0} : \A m \in Staged(j) \cup {0} : m <= n
  BY DEF Readable
<1>2. j \in Seq(Nat) /\ n \in Nat
  BY <1>1 DEF Readable, Staged, Range
<1>3. Staged(j) \subseteq Nat
  BY <1>2 DEF Staged, Range
<1>4. Append(j, r) \in Seq(Nat) /\ Staged(Append(j, r)) = Staged(j) \cup ({r} \ {0})
  BY <1>2, StagedAppend
<1>5. CASE r <= n
  BY <1>1, <1>2, <1>3, <1>4, <1>5, SessionAssumption DEF Readable
<1>6. CASE n < r
  <2>1. r \in Staged(Append(j, r)) /\ \A m \in Staged(Append(j, r)) \cup {0} : m <= r
    BY <1>1, <1>2, <1>3, <1>4, <1>6
  <2> QED BY <1>4, <2>1, SessionAssumption DEF Readable
<1> QED BY <1>2, <1>5, <1>6

LEMMA MarkersEmpty == Markers(<< >>) = 0
<1>1. {i \in DOMAIN << >> : << >>[i] = 0} = {}
  OBVIOUS
<1> QED BY <1>1, FS_EmptySet DEF Markers

\* Appending a marker is one marker more; nothing else is.
LEMMA MarkersAppend ==
  ASSUME NEW j \in Seq(Nat), NEW r \in Nat
  PROVE  /\ Markers(j) \in Nat
         /\ Markers(Append(j, r)) = IF r = 0 THEN Markers(j) + 1 ELSE Markers(j)
<1> DEFINE S == {i \in DOMAIN j : j[i] = 0}
           T == {i \in DOMAIN Append(j, r) : Append(j, r)[i] = 0}
           n == Len(j) + 1
<1>1. Len(j) \in Nat /\ DOMAIN j = 1 .. Len(j)
  OBVIOUS
<1>2. IsFiniteSet(1 .. Len(j))
  BY <1>1, FS_Interval
<1>3. IsFiniteSet(S) /\ Cardinality(S) \in Nat
  BY <1>1, <1>2, FS_Subset, FS_CardinalityType
<1>4. DOMAIN Append(j, r) = DOMAIN j \cup {n} /\ Append(j, r)[n] = r
  BY <1>1
<1>5. \A i \in DOMAIN j : Append(j, r)[i] = j[i]
  OBVIOUS
<1>6. n \notin S
  BY <1>1
<1>7. T = IF r = 0 THEN S \cup {n} ELSE S
  BY <1>1, <1>4, <1>5
<1>8. Cardinality(S \cup {n}) = Cardinality(S) + 1
  BY <1>3, <1>6, FS_AddElement
<1>9. Markers(j) = Cardinality(S) /\ Markers(Append(j, r)) = Cardinality(T)
  BY DEF Markers
<1> QED BY <1>3, <1>7, <1>8, <1>9

LEMMA LargestInode ==
  ASSUME NEW j, Readable(j)
  PROVE  MaxOf(Staged(j)) \in Nat /\ \A m \in Staged(j) : m <= MaxOf(Staged(j))
<1>1. \E n \in Staged(j) \cup {0} : \A m \in Staged(j) : m <= n
  BY DEF Readable
<1>2. Staged(j) \cup {0} \subseteq Nat
  BY DEF Readable, Staged, Range
<1> QED BY <1>1, <1>2 DEF MaxOf

\* A restore changes one superblock, and only what the journal says of it.
LEMMA ReplaceOne ==
  ASSUME SbsOK, NEW s \in Supers, NEW v, v.next \in Nat, sbs' = Replaced(s, v)
  PROVE  /\ SbsOK' /\ sbs'[s].view = v.view /\ sbs'[s].next = v.next /\ sbs'[s].gen = v.gen
         /\ \A t \in Supers \ {s} : sbs'[t] = sbs[t]
<1>1. sbs[s] = [view |-> sbs[s].view, next |-> sbs[s].next, gen |-> sbs[s].gen,
                dirty |-> sbs[s].dirty, live |-> sbs[s].live]
  BY DEF SbsOK, IsSb
<1>2. sbs'[s] = [view |-> v.view, next |-> v.next, gen |-> v.gen, dirty |-> v.dirty,
                 live |-> sbs[s].live]
  BY <1>1 DEF Replaced, SbsOK
<1>3. \A t \in Supers \ {s} : sbs'[t] = sbs[t]
  BY DEF Replaced, SbsOK
<1>4. sbs' = [t \in Supers |-> sbs'[t]]
  BY DEF Replaced, SbsOK
<1>5. IsSb(sbs'[s]) /\ sbs'[s].view = v.view /\ sbs'[s].next = v.next /\ sbs'[s].gen = v.gen
  BY <1>2 DEF IsSb
<1>6. \A t \in Supers : IsSb(sbs'[t]) /\ sbs'[t].next \in Nat
  BY <1>3, <1>5 DEF SbsOK
<1> QED BY <1>3, <1>4, <1>5, <1>6 DEF SbsOK

\* The rules, the dirty flag and the generation of one change.
LEMMA TuneOne ==
  ASSUME SbsOK, NEW s \in Supers, NEW x, NEW y,
         \/ sbs' = [sbs EXCEPT ![s].live = x]
         \/ sbs' = [sbs EXCEPT ![s].gen = x, ![s].dirty = y]
  PROVE  /\ SbsOK' /\ \A t \in Supers : sbs'[t].view = sbs[t].view /\ sbs'[t].next = sbs[t].next
         /\ sbs' = [sbs EXCEPT ![s].live = x] => sbs'[s].gen = sbs[s].gen
         /\ sbs' = [sbs EXCEPT ![s].gen = x, ![s].dirty = y] => sbs'[s].gen = x
<1>1. sbs[s] = [view |-> sbs[s].view, next |-> sbs[s].next, gen |-> sbs[s].gen,
                dirty |-> sbs[s].dirty, live |-> sbs[s].live]
  BY DEF SbsOK, IsSb
<1>2. \/ sbs'[s] = [view |-> sbs[s].view, next |-> sbs[s].next, gen |-> sbs[s].gen,
                    dirty |-> sbs[s].dirty, live |-> x]
      \/ sbs'[s] = [view |-> sbs[s].view, next |-> sbs[s].next, gen |-> x,
                    dirty |-> y, live |-> sbs[s].live]
  <2>1. CASE sbs' = [sbs EXCEPT ![s].live = x]
    BY <1>1, <2>1 DEF SbsOK
  <2>2. CASE sbs' = [sbs EXCEPT ![s].gen = x, ![s].dirty = y]
    BY <1>1, <2>2 DEF SbsOK
  <2> QED BY <2>1, <2>2
<1>3. \A t \in Supers \ {s} : sbs'[t] = sbs[t]
  BY DEF SbsOK
<1>4. sbs' = [t \in Supers |-> sbs'[t]]
  BY DEF SbsOK
<1>5. IsSb(sbs'[s]) /\ sbs'[s].view = sbs[s].view /\ sbs'[s].next = sbs[s].next
  BY <1>2 DEF IsSb
<1>6. \A t \in Supers : IsSb(sbs'[t]) /\ sbs'[t].view = sbs[t].view /\ sbs'[t].next = sbs[t].next
  BY <1>3, <1>5 DEF SbsOK
<1>7. sbs' = [sbs EXCEPT ![s].live = x] => sbs'[s].gen = sbs[s].gen
  BY <1>1 DEF SbsOK
<1>8. sbs' = [sbs EXCEPT ![s].gen = x, ![s].dirty = y] => sbs'[s].gen = x
  BY <1>1 DEF SbsOK
<1> QED BY <1>4, <1>6, <1>7, <1>8 DEF SbsOK

LEMMA PushStack ==
  ASSUME StackOK, NEW s \in Supers \ Range(stack), stack' = Append(stack, s)
  PROVE  StackOK' /\ stack' # << >>
<1>1. stack \in Seq(Supers)
  BY DEF StackOK
<1>2. \A i \in 1 .. Len(stack) : stack[i] # s
  BY <1>1 DEF Range
<1>3. \A i, k \in 1 .. Len(stack) : stack[i] = stack[k] => i = k
  BY <1>1 DEF StackOK, IsInjective
<1>4. Append(stack, s) \in Seq(Supers) /\ Len(Append(stack, s)) = Len(stack) + 1
  BY <1>1
<1>5. \A i, k \in 1 .. Len(stack) + 1 : Append(stack, s)[i] = Append(stack, s)[k] => i = k
  BY <1>1, <1>2, <1>3
<1> QED BY <1>4, <1>5 DEF StackOK, IsInjective

LEMMA PopStack ==
  ASSUME StackOK, stack # << >>, stack' = Front(stack)
  PROVE  StackOK' /\ Top \in Supers /\ (Len(stack) <= 1 => stack' = << >>)
<1>1. stack \in Seq(Supers) /\ Len(stack) \in Nat \ {0}
  BY DEF StackOK
<1>2. stack' = SubSeq(stack, 1, Len(stack) - 1)
  BY DEF Front
<1>3. /\ stack' \in Seq(Supers) /\ Len(stack') = Len(stack) - 1
      /\ \A i \in 1 .. Len(stack) - 1 : stack'[i] = stack[i]
  <2> DEFINE n == Len(stack) - 1
  <2>1. \A i \in 1 .. n : stack[i] \in Supers
    BY <1>1
  <2>2. n \in Nat
    BY <1>1
  <2> HIDE DEF n
  <2>3. /\ SubSeq(stack, 1, n) \in Seq(Supers)
        /\ Len(SubSeq(stack, 1, n)) = IF 1 <= n THEN n - 1 + 1 ELSE 0
        /\ \A i \in 1 .. n - 1 + 1 : SubSeq(stack, 1, n)[i] = stack[1 + i - 1]
    <3>1. 1 \in Int /\ n \in Int
      BY <2>2
    <3>2. ASSUME NEW S, NEW q, NEW m \in Int, NEW k \in Int, \A i \in m .. k : q[i] \in S
          PROVE  /\ SubSeq(q, m, k) \in Seq(S)
                 /\ Len(SubSeq(q, m, k)) = IF m <= k THEN k - m + 1 ELSE 0
                 /\ \A i \in 1 .. k - m + 1 : SubSeq(q, m, k)[i] = q[m + i - 1]
      BY <3>2, SubSeqProperties
    <3> QED BY <2>1, <3>1, <3>2
  <2>4. Len(SubSeq(stack, 1, n)) = n /\ \A i \in 1 .. n : SubSeq(stack, 1, n)[i] = stack[i]
    BY <2>2, <2>3
  <2> QED BY <1>2, <2>3, <2>4 DEF n
<1>4. IsInjective(stack')
  BY <1>1, <1>3 DEF StackOK, IsInjective
<1> QED BY <1>1, <1>3, <1>4 DEF StackOK, Top, Last

LEMMA TopIsSuper ==
  ASSUME StackOK, Mounted
  PROVE  Top \in Supers
BY DEF StackOK, Mounted, Top, Last
-----------------------------------------------------------------------------
(* The steps that only move a process: all that is to show is where to.    *)

LEMMA QuietStep ==
  ASSUME TypeInv, ProcsOK', UNCHANGED <<journal, kernel, mntdir>>
  PROVE  TypeInv'
BY DEF TypeInv, CmdOK, JournalOK, SbsOK, StackOK, MountOK, kernel

LEMMA BeginKeeps ==
  ASSUME TypeInv, NEW p \in Procs, NEW job \in Commands, Begin(p, job)
  PROVE  TypeInv'
<1> DEFINE l == Entry[job]
           n == Then(job)
<1>1. l \in PcLabels \ ({"running", "restore"} \cup Needy)
  BY DEF Commands, Entry, PcLabels, Managing, Needy
<1>2. n \in {"idle", "check", "spawn", "insert"}
  BY DEF Then
<1>3. n \in NextLabels /\ n # "failed"
  BY <1>2 DEF NextLabels
<1>4. proc' = [proc EXCEPT ![p].pc = l, ![p].next = n] /\ proc[p].pc = "idle"
      /\ UNCHANGED <<journal, kernel, mntdir>> /\ cmd' = cmd
  BY DEF Begin, artifact, kernel
<1> HIDE DEF l, n
<1>5. ProcShape' /\ Moves(p, l, n) /\ cmd[p] = Nil
  BY <1>4, OtherMoves DEF TypeInv, ProcsOK, Sound
<1>6. ProcsOK'
  BY <1>1, <1>3, <1>4, <1>5, MoveKeepsSound DEF TypeInv
<1> QED BY <1>4, <1>6, QuietStep

LEMMA EnterRunKeeps ==
  ASSUME TypeInv, NEW p \in Procs, EnterRun(p)
  PROVE  TypeInv'
<1>1. PICK l \in {"spawn", "idle", "check"} : Goto(p, l)
  BY DEF EnterRun
<1>2. proc[p].pc = "enter" /\ proc[p].next # "failed" /\ cmd' = cmd /\ journal' = journal
  BY DEF EnterRun, TypeInv, ProcsOK, Sound, kernel, artifact
<1>3. ProcsOK'
  BY <1>1, <1>2, QuietGoto DEF TypeInv, PcLabels, Managing, Needy
<1> QED BY <1>3, QuietStep DEF EnterRun, artifact

LEMMA MountCheckKeeps ==
  ASSUME TypeInv, NEW p \in Procs, MountCheck(p)
  PROVE  TypeInv'
<1> DEFINE s == IF journal = Nil THEN Nil ELSE << >>
<1>1. proc[p].pc = "check" /\ proc[p].next \in NextLabels \ {"failed"} /\ cmd[p] = Nil
      /\ cmd' = cmd /\ journal' = journal
  BY DEF MountCheck, TypeInv, ProcsOK, Sound, kernel, artifact
<1>2. ProcsOK'
  <2>1. CASE Goto(p, proc[p].next)
    BY <1>1, <2>1, QuietGoto DEF TypeInv, PcLabels, Managing, Needy, NextLabels
  <2>2. CASE proc' = [proc EXCEPT ![p].pc = "setup", ![p].seen = s]
    <3> HIDE DEF s
    <3>1. ProcShape' /\ Moves(p, "setup", proc[p].next)
      BY <2>2, OtherMoves DEF TypeInv, ProcsOK
    <3>2. "setup" \in PcLabels \ Needy
      BY DEF PcLabels, Managing, Needy
    <3> QED BY <1>1, <3>1, <3>2, MoveKeepsSound DEF TypeInv
  <2> QED BY <2>1, <2>2 DEF MountCheck
<1> QED BY <1>2, QuietStep DEF MountCheck, artifact

LEMMA ReadJournalKeeps ==
  ASSUME TypeInv, NEW p \in Procs, ReadJournal(p)
  PROVE  TypeInv'
<1>1. proc[p].pc = "read" /\ proc[p].next \in NextLabels \ {"failed"} /\ cmd[p] = Nil
      /\ cmd' = cmd /\ journal' = journal /\ journal # Nil
  BY DEF ReadJournal, TypeInv, ProcsOK, Sound, kernel, artifact, Needy
<1>2. ProcShape' /\ Moves(p, "restore", proc[p].next) /\ proc'[p].seen = journal
  <2>1. proc' = [proc EXCEPT ![p].pc = "restore", ![p].seen = journal]
    BY DEF ReadJournal
  <2>2. ProcShape' /\ Moves(p, "restore", proc[p].next)
    BY <2>1, OtherMoves DEF TypeInv, ProcsOK
  <2>3. proc[p] = [pc |-> proc[p].pc, next |-> proc[p].next, seen |-> proc[p].seen,
                   rules |-> proc[p].rules]
    BY DEF TypeInv, ProcsOK, ProcShape, IsProc
  <2>4. proc'[p].seen = journal
    BY <2>1, <2>3 DEF TypeInv, ProcsOK, ProcShape
  <2> QED BY <2>2, <2>4
<1>3. Readable(journal)
  BY <1>1 DEF TypeInv, JournalOK
<1>4. Readable(proc'[p].seen)
  BY <1>2, <1>3
<1>5. "restore" \in PcLabels \ Needy
  BY DEF PcLabels, Managing, Needy
<1>6. ProcsOK'
  BY <1>1, <1>2, <1>4, <1>5, MoveKeepsSound DEF TypeInv
<1> QED BY <1>6, QuietStep DEF ReadJournal, artifact

LEMMA RollBackSound ==
  ASSUME ProcsOK, NEW p \in Procs, proc[p].pc # "running", RollBack(p), cmd' = cmd,
         journal' = journal
  PROVE  ProcsOK'
<1>1. cmd[p] = Nil
  BY DEF ProcsOK, Sound
<1>2. ProcShape' /\ Moves(p, "umount", "failed")
  BY OtherMoves DEF ProcsOK, RollBack
<1>3. "umount" \in PcLabels \ Needy /\ "failed" \in NextLabels
  BY DEF PcLabels, Managing, Needy, NextLabels
<1> QED BY <1>1, <1>2, <1>3, MoveKeepsSound

LEMMA ReadRulesKeeps ==
  ASSUME TypeInv, NEW p \in Procs, ReadRules(p)
  PROVE  TypeInv'
<1>1. proc[p].pc = "rules" /\ proc[p].next \in NextLabels \ {"failed"} /\ cmd[p] = Nil
      /\ cmd' = cmd /\ journal' = journal
  BY DEF ReadRules, TypeInv, ProcsOK, Sound, kernel, artifact
<1>2. ProcsOK'
  <2>1. CASE RollBack(p)
    BY <1>1, <2>1, RollBackSound DEF TypeInv
  <2>2. CASE Goto(p, proc[p].next)
    BY <1>1, <2>2, QuietGoto DEF TypeInv, PcLabels, Managing, Needy, NextLabels
  <2>3. CASE proc' = [proc EXCEPT ![p].pc = "apply", ![p].rules = config.rules]
    <3>1. ProcShape' /\ Moves(p, "apply", proc[p].next)
      BY <2>3, OtherMoves DEF TypeInv, ProcsOK
    <3>2. "apply" \in PcLabels \ Needy
      BY DEF PcLabels, Managing, Needy
    <3> QED BY <1>1, <3>1, <3>2, MoveKeepsSound DEF TypeInv
  <2> QED BY <2>1, <2>2, <2>3 DEF ReadRules
<1> QED BY <1>2, QuietStep DEF ReadRules, artifact

LEMMA ReloadKeeps ==
  ASSUME TypeInv, NEW p \in Procs, Reload(p)
  PROVE  TypeInv'
<1>1. PICK l \in {"each", "insert"} : Goto(p, l)
  BY DEF Reload
<1>2. proc[p].pc = "reload" /\ proc[p].next # "failed" /\ cmd' = cmd /\ journal' = journal
  BY DEF Reload, TypeInv, ProcsOK, Sound, kernel, artifact
<1>3. ProcsOK'
  BY <1>1, <1>2, QuietGoto DEF TypeInv, PcLabels, Managing, Needy
<1> QED BY <1>3, QuietStep DEF Reload, artifact

LEMMA ReadStagedKeeps ==
  ASSUME TypeInv, NEW p \in Procs, ReadStaged(p)
  PROVE  TypeInv'
<1> DEFINE n == IF proc[p].pc = "commit" THEN "replay" ELSE "clear"
<1>1. proc[p].pc # "running" /\ proc[p].next # "failed" /\ cmd[p] = Nil
      /\ cmd' = cmd /\ journal' = journal
  BY DEF ReadStaged, TypeInv, ProcsOK, Sound, kernel, artifact
<1>2. n \in NextLabels /\ n # "failed" /\ {"idle", "leave"} \subseteq PcLabels \ Needy
  BY DEF NextLabels, PcLabels, Managing, Needy
<1>3. ProcsOK'
  <2>1. CASE Goto(p, "idle")
    BY <1>1, <1>2, <2>1, QuietGoto DEF TypeInv
  <2>2. CASE proc' = [proc EXCEPT ![p].pc = "leave", ![p].seen = journal, ![p].next = n]
    <3> HIDE DEF n
    <3>1. ProcShape' /\ Moves(p, "leave", n)
      BY <2>2, OtherMoves DEF TypeInv, ProcsOK
    <3> QED BY <1>1, <1>2, <3>1, MoveKeepsSound DEF TypeInv
  <2> QED BY <2>1, <2>2 DEF ReadStaged
<1> QED BY <1>3, QuietStep DEF ReadStaged, artifact

LEMMA EditRulesKeeps ==
  ASSUME TypeInv, NEW p \in Procs, EditRules(p)
  PROVE  TypeInv'
<1>1. proc[p].pc = "rule" /\ proc[p].next \in NextLabels \ {"failed"} /\ cmd[p] = Nil
      /\ cmd' = cmd /\ journal' = journal
  BY DEF EditRules, TypeInv, ProcsOK, Sound, kernel, artifact
<1>2. {"idle", "write"} \subseteq PcLabels \ Needy
  BY DEF PcLabels, Managing, Needy
<1>3. ProcsOK'
  <2>1. CASE Goto(p, "idle")
    BY <1>1, <1>2, <2>1, QuietGoto DEF TypeInv
  <2>2. ASSUME NEW s, NEW r,
               proc' = [proc EXCEPT ![p].pc = "write", ![p].seen = s, ![p].rules = r]
        PROVE  ProcsOK'
    <3>1. ProcShape' /\ Moves(p, "write", proc[p].next)
      BY <2>2, OtherMoves DEF TypeInv, ProcsOK
    <3> QED BY <1>1, <1>2, <3>1, MoveKeepsSound DEF TypeInv
  <2> QED BY <2>1, <2>2 DEF EditRules
<1> QED BY <1>3, QuietStep DEF EditRules, artifact

LEMMA WriteRulesKeeps ==
  ASSUME TypeInv, NEW p \in Procs, WriteRules(p)
  PROVE  TypeInv'
<1>1. proc[p].pc = "write" /\ proc[p].next # "failed" /\ cmd' = cmd /\ journal' = journal
  BY DEF WriteRules, TypeInv, ProcsOK, Sound, kernel, artifact
<1>2. ProcsOK'
  BY <1>1, QuietGoto DEF TypeInv, WriteRules, PcLabels, Managing, Needy
<1> QED BY <1>2, QuietStep DEF WriteRules, artifact

LEMMA EditConfigKeeps ==
  ASSUME TypeInv, EditConfig
  PROVE  TypeInv'
<1>1. ProcsOK'
  BY StillSound DEF TypeInv, EditConfig, artifact, kernel
<1> QED BY <1>1, QuietStep DEF EditConfig, artifact

LEMMA CrashKeeps ==
  ASSUME TypeInv, NEW p \in Procs, Crash(p)
  PROVE  TypeInv'
<1>1. Goto(p, "idle") /\ proc[p].pc # "running" /\ cmd' = cmd /\ journal' = journal
  BY DEF Crash, Manages, Managing, artifact, kernel
<1>2. ProcsOK'
  BY <1>1, QuietGoto DEF TypeInv, PcLabels, Needy
<1> QED BY <1>2, QuietStep DEF Crash, artifact

-----------------------------------------------------------------------------
(* The steps of a mount.                                                   *)

LEMMA SetupYoloDirKeeps ==
  ASSUME TypeInv, NEW p \in Procs, SetupYoloDir(p)
  PROVE  TypeInv'
<1>1. proc[p].pc = "setup" /\ proc[p].next # "failed" /\ cmd' = cmd /\ cmd[p] = Nil
      /\ Goto(p, "load") /\ mntdir' = TRUE /\ UNCHANGED <<loaded, sbs, stack>>
  BY DEF SetupYoloDir, TypeInv, ProcsOK, Sound, kernel
<1>2. journal' # Nil /\ Readable(journal')
  <2>1. CASE journal = Nil
    <3>1. << >> \in Seq(Nat)
      OBVIOUS
    <3>2. << >> # Nil
      BY <3>1, SessionAssumption
    <3> QED BY <2>1, <3>2, ReadableEmpty DEF SetupYoloDir
  <2>2. CASE journal # Nil
    BY <2>2 DEF SetupYoloDir, TypeInv, JournalOK
  <2> QED BY <2>1, <2>2
<1>3. ProcsOK'
  BY <1>1, <1>2, GotoKeepsSound DEF TypeInv, PcLabels, Managing
<1> QED BY <1>1, <1>2, <1>3 DEF TypeInv, CmdOK, JournalOK, Readable, SbsOK, StackOK, MountOK

LEMMA LoadModuleKeeps ==
  ASSUME TypeInv, NEW p \in Procs, LoadModule(p)
  PROVE  TypeInv'
<1>1. proc[p].pc = "load" /\ proc[p].next # "failed" /\ cmd' = cmd /\ cmd[p] = Nil
      /\ UNCHANGED <<journal, sbs, stack, mntdir>> /\ journal # Nil
  BY DEF LoadModule, TypeInv, ProcsOK, Sound, artifact, Needy
<1>2. PICK l \in {"domount", "idle"} : Goto(p, l) /\ loaded' \in {loaded, TRUE}
  BY DEF LoadModule
<1>3. ProcsOK'
  BY <1>1, <1>2, GotoKeepsSound DEF TypeInv, PcLabels, Managing
<1> QED BY <1>1, <1>2, <1>3 DEF TypeInv, CmdOK, JournalOK, SbsOK, StackOK, MountOK

LEMMA DoMountKeeps ==
  ASSUME TypeInv, NEW p \in Procs, DoMount(p)
  PROVE  TypeInv'
<1>1. proc[p].pc = "domount" /\ proc[p].next # "failed" /\ cmd' = cmd /\ cmd[p] = Nil
      /\ UNCHANGED <<journal, loaded, mntdir>> /\ journal # Nil
  BY DEF DoMount, TypeInv, ProcsOK, Sound, artifact, Needy
<1>2. PICK l \in {"rules", "read", "idle"} : Goto(p, l)
  BY DEF DoMount
<1>3. ProcsOK'
  BY <1>1, <1>2, GotoKeepsSound DEF TypeInv, PcLabels, Managing
<1>4. StackOK' /\ SbsOK' /\ MountOK'
  <2>1. CASE loaded /\ mntdir /\ Free # {}
    <3>1. PICK s \in Free : stack' = Append(stack, s) /\ sbs' = [sbs EXCEPT ![s] = Fresh]
      BY <2>1 DEF DoMount
    <3>2. s \in Supers \ Range(stack)
      BY DEF Free, InUse
    <3>3. StackOK' /\ stack' # << >>
      BY <3>1, <3>2, PushStack DEF TypeInv
    <3>4. IsSb(Fresh) /\ Fresh.next \in Nat
      BY DEF IsSb, Fresh
    <3> HIDE DEF Fresh
    <3>5. SbsOK'
      BY <3>1, <3>2, <3>4 DEF SbsOK, TypeInv
    <3>6. MountOK'
      BY <1>1, <2>1 DEF MountOK, TypeInv
    <3> QED BY <3>3, <3>5, <3>6
  <2>2. CASE UNCHANGED <<stack, sbs>>
    BY <1>1, <2>2 DEF TypeInv, StackOK, SbsOK, MountOK
  <2> QED BY <2>1, <2>2 DEF DoMount
<1> QED BY <1>1, <1>3, <1>4 DEF TypeInv, CmdOK, JournalOK

LEMMA RestoreKeeps ==
  ASSUME TypeInv, NEW p \in Procs, Restore(p)
  PROVE  TypeInv'
<1>1. proc[p].pc = "restore" /\ proc[p].next # "failed" /\ cmd' = cmd
      /\ UNCHANGED <<journal, loaded, stack, mntdir>>
  BY DEF Restore, TypeInv, ProcsOK, Sound, artifact
<1>2. ProcsOK'
  <2>1. CASE Goto(p, "rules")
    BY <1>1, <2>1, QuietGoto DEF TypeInv, PcLabels, Managing, Needy
  <2>2. CASE RollBack(p)
    BY <1>1, <2>2, RollBackSound DEF TypeInv
  <2> QED BY <2>1, <2>2 DEF Restore
<1>3. SbsOK'
  <2> DEFINE v == RestoredFrom(proc[p].seen)
  <2>1. v.next \in Nat /\ Fresh.next \in Nat
    <3>1. Readable(proc[p].seen)
      BY <1>1 DEF TypeInv, ProcsOK, Sound
    <3> QED BY <3>1, LargestInode DEF RestoredFrom, Fresh
  <2> HIDE DEF v
  <2>2. CASE Mounted /\ sbs' = Replaced(Top, v)
    BY <2>1, <2>2, TopIsSuper, ReplaceOne DEF TypeInv
  <2>3. CASE Mounted /\ sbs' = Replaced(Top, Fresh)
    BY <2>1, <2>3, TopIsSuper, ReplaceOne DEF TypeInv
  <2>4. CASE sbs' = sbs
    BY <2>4 DEF TypeInv, SbsOK
  <2> QED BY <2>2, <2>3, <2>4 DEF Restore, v
<1> QED BY <1>1, <1>2, <1>3 DEF TypeInv, CmdOK, JournalOK, StackOK, MountOK

LEMMA ApplyRulesKeeps ==
  ASSUME TypeInv, NEW p \in Procs, ApplyRules(p)
  PROVE  TypeInv'
<1>1. proc[p].pc = "apply" /\ proc[p].next \in NextLabels \ {"failed"} /\ cmd' = cmd
      /\ UNCHANGED <<journal, loaded, stack, mntdir>>
  BY DEF ApplyRules, TypeInv, ProcsOK, Sound, artifact
<1>2. ProcsOK'
  BY <1>1, QuietGoto DEF TypeInv, ApplyRules, PcLabels, Managing, Needy, NextLabels
<1>3. SbsOK'
  <2>1. PICK x : sbs' = IF Mounted THEN [sbs EXCEPT ![Top].live = x] ELSE sbs
    BY DEF ApplyRules
  <2> QED BY <2>1, TopIsSuper, TuneOne DEF TypeInv, SbsOK
<1> QED BY <1>1, <1>2, <1>3 DEF TypeInv, CmdOK, JournalOK, StackOK, MountOK

-----------------------------------------------------------------------------
(* The steps of unmount, load and unload.                                  *)

LEMMA PoppedStack ==
  ASSUME TypeInv, \/ Mounted /\ PopTop
                  \/ UNCHANGED <<stack, dying>>,
         UNCHANGED <<journal, loaded, mntdir>>
  PROVE  StackOK' /\ MountOK'
<1>1. CASE Mounted /\ PopTop
  BY <1>1, PopStack DEF TypeInv, Mounted, PopTop, MountOK
<1>2. CASE UNCHANGED <<stack, dying>>
  BY <1>2 DEF TypeInv, StackOK, MountOK
<1> QED BY <1>1, <1>2

LEMMA UmountKeeps ==
  ASSUME TypeInv, NEW p \in Procs, Umount(p)
  PROVE  TypeInv'
<1>1. proc[p].pc = "umount" /\ cmd' = cmd /\ UNCHANGED <<journal, loaded, sbs, mntdir>>
  BY DEF Umount, artifact
<1>2. PICK l \in {"rmdir", "idle"} : Goto(p, l)
  BY DEF Umount
<1>3. ProcsOK'
  BY <1>1, <1>2, QuietGoto DEF TypeInv, PcLabels, Managing, Needy
<1>4. StackOK' /\ MountOK'
  BY <1>1, PoppedStack DEF Umount
<1> QED BY <1>1, <1>3, <1>4 DEF TypeInv, CmdOK, JournalOK, SbsOK

LEMMA RmdirKeeps ==
  ASSUME TypeInv, NEW p \in Procs, Rmdir(p)
  PROVE  TypeInv'
<1>1. proc[p].pc = "rmdir" /\ cmd' = cmd /\ cmd[p] = Nil /\ ~Mounted /\ mntdir' = FALSE
      /\ UNCHANGED <<journal, loaded, sbs, stack>>
  BY DEF Rmdir, artifact, kernel, TypeInv, ProcsOK, Sound
<1>2. ProcsOK'
  <2>1. CASE proc' = [proc EXCEPT ![p].pc = "check", ![p].next = "idle"]
    <3>1. ProcShape' /\ Moves(p, "check", "idle")
      BY <2>1, OtherMoves DEF TypeInv, ProcsOK
    <3>2. "check" \in PcLabels \ Needy /\ "idle" \in NextLabels
      BY DEF PcLabels, Managing, Needy, NextLabels
    <3> QED BY <1>1, <3>1, <3>2, MoveKeepsSound DEF TypeInv
  <2>2. CASE Goto(p, "idle")
    BY <1>1, <2>2, QuietGoto DEF TypeInv, PcLabels, Managing, Needy
  <2> QED BY <2>1, <2>2 DEF Rmdir
<1> QED BY <1>1, <1>2 DEF TypeInv, CmdOK, JournalOK, SbsOK, StackOK, MountOK, Mounted

LEMMA TeardownKeeps ==
  ASSUME TypeInv, NEW s \in Supers, Teardown(s)
  PROVE  TypeInv'
<1>1. ProcsOK'
  BY StillSound DEF TypeInv, Teardown, artifact
<1> QED BY <1>1 DEF Teardown, artifact, TypeInv, CmdOK, JournalOK, SbsOK, StackOK, MountOK

LEMMA InsertModuleKeeps ==
  ASSUME TypeInv, NEW p \in Procs, InsertModule(p)
  PROVE  TypeInv'
<1>1. proc[p].pc = "insert" /\ cmd' = cmd /\ UNCHANGED <<journal, sbs, stack, mntdir>>
      /\ loaded' \in {loaded, TRUE}
  BY DEF InsertModule, artifact
<1>2. ProcsOK'
  BY <1>1, QuietGoto DEF TypeInv, InsertModule, PcLabels, Managing, Needy
<1> QED BY <1>1, <1>2 DEF TypeInv, CmdOK, JournalOK, SbsOK, StackOK, MountOK

LEMMA UnmountEachKeeps ==
  ASSUME TypeInv, NEW p \in Procs, UnmountEach(p)
  PROVE  TypeInv'
<1>1. proc[p].pc = "each" /\ proc[p].next # "failed" /\ cmd' = cmd
      /\ UNCHANGED <<journal, loaded, sbs, mntdir>>
  BY DEF UnmountEach, artifact, TypeInv, ProcsOK, Sound
<1>2. ProcsOK'
  <2>1. CASE proc' = proc
    BY <1>1, <2>1, StillSound DEF TypeInv
  <2>2. ASSUME NEW l \in {"idle", "sweep"}, Goto(p, l) PROVE ProcsOK'
    BY <1>1, <2>2, QuietGoto DEF TypeInv, PcLabels, Managing, Needy
  <2> QED BY <2>1, <2>2 DEF UnmountEach
<1>3. StackOK' /\ MountOK'
  BY <1>1, PoppedStack DEF UnmountEach
<1> QED BY <1>1, <1>2, <1>3 DEF TypeInv, CmdOK, JournalOK, SbsOK

LEMMA SweepKeeps ==
  ASSUME TypeInv, NEW p \in Procs, Sweep(p)
  PROVE  TypeInv'
<1>1. proc[p].pc = "sweep" /\ proc[p].next # "failed" /\ cmd' = cmd /\ mntdir' = Mounted
      /\ UNCHANGED <<journal, loaded, sbs, stack>>
  BY DEF Sweep, artifact, kernel, TypeInv, ProcsOK, Sound
<1>2. ProcsOK'
  BY <1>1, QuietGoto DEF TypeInv, Sweep, PcLabels, Managing, Needy
<1> QED BY <1>1, <1>2 DEF TypeInv, CmdOK, JournalOK, SbsOK, StackOK, MountOK, Mounted

LEMMA DeleteModuleKeeps ==
  ASSUME TypeInv, NEW p \in Procs, DeleteModule(p)
  PROVE  TypeInv'
<1>1. proc[p].pc = "delete" /\ proc[p].next \in NextLabels \ {"failed"} /\ cmd' = cmd
      /\ UNCHANGED <<journal, sbs, stack, mntdir>>
  BY DEF DeleteModule, artifact, TypeInv, ProcsOK, Sound
<1>2. PICK l \in {"idle", proc[p].next} : Goto(p, l)
  BY DEF DeleteModule
<1>3. ProcsOK'
  BY <1>1, <1>2, QuietGoto DEF TypeInv, PcLabels, Managing, Needy, NextLabels
<1>4. InUse = {} => stack = << >>
  BY DEF InUse, TypeInv, StackOK, Range
<1> QED BY <1>1, <1>3, <1>4 DEF DeleteModule, TypeInv, CmdOK, JournalOK, SbsOK, StackOK, MountOK

-----------------------------------------------------------------------------
(* The steps of run, snapshot, commit, abort and rule.                     *)

LEMMA SpawnKeeps ==
  ASSUME TypeInv, NEW p \in Procs, Spawn(p)
  PROVE  TypeInv'
<1>1. proc[p].pc = "spawn" /\ proc[p].next \in NextLabels \ {"failed"} /\ cmd[p] = Nil
      /\ UNCHANGED <<journal, loaded, sbs, stack, mntdir>>
  BY DEF Spawn, artifact, TypeInv, ProcsOK, Sound
<1>2. CASE Mounted
  <2>1. Goto(p, "running") /\ cmd' = [cmd EXCEPT ![p] = Top]
    BY <1>2 DEF Spawn
  <2>2. Top \in Supers
    BY <1>2, TopIsSuper DEF TypeInv
  <2>3. CmdOK' /\ cmd'[p] # Nil /\ \A q \in Procs \ {p} : cmd'[q] = cmd[q]
    BY <2>1, <2>2, SessionAssumption DEF TypeInv, CmdOK
  <2>4. ProcShape' /\ Moves(p, "running", proc[p].next)
    BY <2>1, GotoMoves DEF TypeInv, ProcsOK
  <2>5. journal # Nil /\ "running" \in PcLabels
    BY <1>2 DEF TypeInv, MountOK, Mounted, PcLabels
  <2>6. ProcsOK'
    BY <1>1, <2>3, <2>4, <2>5, MoveKeepsSound DEF TypeInv
  <2> QED BY <1>1, <2>3, <2>6 DEF TypeInv, JournalOK, SbsOK, StackOK, MountOK
<1>3. CASE ~Mounted
  <2>1. Goto(p, "idle") /\ cmd' = cmd
    BY <1>3 DEF Spawn
  <2>2. ProcsOK'
    BY <1>1, <2>1, QuietGoto DEF TypeInv, PcLabels, Managing, Needy
  <2> QED BY <1>1, <2>1, <2>2 DEF TypeInv, CmdOK, JournalOK, SbsOK, StackOK, MountOK
<1> QED BY <1>2, <1>3

\* The writer's superblock: the next inode is a number and stays one.
LEMMA StagedIn ==
  ASSUME SbsOK, NEW s \in Supers, NEW ino \in Nat, NEW v,
         \/ sbs' = [sbs EXCEPT ![s].next = ino]
         \/ sbs' = [sbs EXCEPT ![s].next = ino, ![s].view = v, ![s].dirty = TRUE]
  PROVE  SbsOK'
<1>1. sbs[s] = [view |-> sbs[s].view, next |-> sbs[s].next, gen |-> sbs[s].gen,
                dirty |-> sbs[s].dirty, live |-> sbs[s].live]
  BY DEF SbsOK, IsSb
<1>2. \/ sbs'[s] = [view |-> sbs[s].view, next |-> ino, gen |-> sbs[s].gen,
                    dirty |-> sbs[s].dirty, live |-> sbs[s].live]
      \/ sbs'[s] = [view |-> v, next |-> ino, gen |-> sbs[s].gen,
                    dirty |-> TRUE, live |-> sbs[s].live]
  <2>1. CASE sbs' = [sbs EXCEPT ![s].next = ino]
    BY <1>1, <2>1 DEF SbsOK
  <2>2. CASE sbs' = [sbs EXCEPT ![s].next = ino, ![s].view = v, ![s].dirty = TRUE]
    BY <1>1, <2>2 DEF SbsOK
  <2> QED BY <2>1, <2>2
<1>3. \A t \in Supers \ {s} : sbs'[t] = sbs[t]
  BY DEF SbsOK
<1>4. sbs' = [t \in Supers |-> sbs'[t]]
  BY DEF SbsOK
<1>5. IsSb(sbs'[s]) /\ sbs'[s].next \in Nat
  BY <1>2 DEF IsSb
<1>6. \A t \in Supers : IsSb(sbs'[t]) /\ sbs'[t].next \in Nat
  BY <1>3, <1>5 DEF SbsOK
<1> QED BY <1>4, <1>6 DEF SbsOK

LEMMA WriteKeeps ==
  ASSUME TypeInv, NEW p \in Procs, Write(p)
  PROVE  TypeInv'
<1> DEFINE s   == cmd[p]
           ino == sbs[s].next + 1
           v   == sbs[s].view \cup {ino}
<1>1. proc[p].pc = "running" /\ proc' = proc /\ UNCHANGED <<loaded, stack, cmd, mntdir>>
  BY DEF Write
<1>2. s \in Supers /\ journal # Nil /\ Readable(journal)
  BY <1>1 DEF TypeInv, ProcsOK, Sound, CmdOK, JournalOK, Needy
<1>3. ino \in Nat
  BY <1>2 DEF TypeInv, SbsOK
<1>4. \/ sbs' = [sbs EXCEPT ![s].next = ino] /\ journal' = journal
      \/ /\ sbs' = [sbs EXCEPT ![s].next = ino, ![s].view = @ \cup {ino}, ![s].dirty = TRUE]
         /\ journal' = Append(journal, ino)
  BY DEF Write, artifact
<1>5. \/ sbs' = [sbs EXCEPT ![s].next = ino] /\ journal' = journal
      \/ /\ sbs' = [sbs EXCEPT ![s].next = ino, ![s].view = v, ![s].dirty = TRUE]
         /\ journal' = Append(journal, ino)
  BY <1>4
<1> HIDE DEF s, ino, v
<1>6. SbsOK'
  BY <1>2, <1>3, <1>5, StagedIn DEF TypeInv
<1>7. journal' # Nil /\ Readable(journal')
  BY <1>2, <1>3, <1>5, ReadableAppend
<1>8. ProcsOK'
  BY <1>1, <1>7, StillSound DEF TypeInv
<1>9. JournalOK'
  BY <1>7 DEF JournalOK, Readable, Staged
<1> QED BY <1>1, <1>6, <1>7, <1>8, <1>9 DEF TypeInv, CmdOK, StackOK, MountOK

LEMMA EndOfCommandKeeps ==
  ASSUME TypeInv, NEW p \in Procs, CommandEnds(p)
  PROVE  TypeInv'
<1>1. proc[p].pc = "running" /\ proc[p].next # "failed" /\ cmd' = [cmd EXCEPT ![p] = Nil]
      /\ UNCHANGED <<journal, loaded, sbs, stack, mntdir>>
  BY DEF CommandEnds, artifact, TypeInv, ProcsOK, Sound
<1>2. CmdOK' /\ cmd'[p] = Nil /\ \A q \in Procs \ {p} : cmd'[q] = cmd[q]
  BY <1>1 DEF TypeInv, CmdOK
<1>3. Goto(p, "autosnap") /\ "autosnap" \in PcLabels \ (Needy \cup {"running", "restore"})
  BY DEF CommandEnds, PcLabels, Needy
<1>4. ProcsOK'
  BY <1>1, <1>2, <1>3, GotoKeepsSound DEF TypeInv
<1> QED BY <1>1, <1>2, <1>4 DEF TypeInv, JournalOK, SbsOK, StackOK, MountOK

LEMMA SnapshotKeeps ==
  ASSUME TypeInv, NEW p \in Procs, Snapshot(p)
  PROVE  TypeInv'
<1>1. proc[p].pc # "running" /\ proc[p].next # "failed" /\ cmd' = cmd /\ Goto(p, "idle")
      /\ UNCHANGED <<loaded, stack, mntdir>>
  BY DEF Snapshot, TypeInv, ProcsOK, Sound
<1>2. /\ (journal = Nil /\ journal' = Nil) \/ (journal' # Nil /\ Readable(journal'))
      /\ SbsOK'
  <2>1. CASE UNCHANGED <<artifact, sbs>>
    BY <2>1 DEF TypeInv, JournalOK, SbsOK, artifact
  <2>2. CASE /\ Mounted /\ journal' = Append(journal, 0)
             /\ sbs' = [sbs EXCEPT ![Top].gen = @ + 1, ![Top].dirty = FALSE]
    <3>1. Readable(journal) /\ Top \in Supers
      BY <2>2, TopIsSuper DEF TypeInv, JournalOK, MountOK, Mounted
    <3>2. journal' # Nil /\ Readable(journal')
      BY <2>2, <3>1, ReadableAppend
    <3>3. PICK x : sbs' = [sbs EXCEPT ![Top].gen = x, ![Top].dirty = FALSE]
      BY <2>2
    <3>4. SbsOK'
      BY <3>1, <3>3, TuneOne DEF TypeInv
    <3> QED BY <3>2, <3>4
  <2> QED BY <2>1, <2>2 DEF Snapshot
<1>3. ProcsOK'
  BY <1>1, <1>2, QuietGoto DEF TypeInv, PcLabels, Needy
<1>4. JournalOK' /\ MountOK'
  BY <1>1, <1>2 DEF TypeInv, JournalOK, MountOK, Readable, Staged
<1> QED BY <1>1, <1>2, <1>3, <1>4 DEF TypeInv, CmdOK, StackOK

LEMMA LeaveViewKeeps ==
  ASSUME TypeInv, NEW p \in Procs, LeaveView(p)
  PROVE  TypeInv'
<1>1. proc[p].pc = "leave" /\ proc[p].next \in NextLabels \ {"failed"} /\ cmd' = cmd
      /\ UNCHANGED <<journal, loaded, stack, mntdir>>
  BY DEF LeaveView, artifact, TypeInv, ProcsOK, Sound
<1>2. PICK l \in {"idle", proc[p].next} : Goto(p, l)
  BY DEF LeaveView
<1>3. ProcsOK'
  BY <1>1, <1>2, QuietGoto DEF TypeInv, PcLabels, Managing, Needy, NextLabels
<1>4. SbsOK'
  <2>1. CASE Mounted /\ sbs' = Replaced(Top, Fresh)
    BY <2>1, TopIsSuper, ReplaceOne DEF TypeInv, Fresh
  <2>2. CASE sbs' = sbs
    BY <2>2 DEF TypeInv, SbsOK
  <2> QED BY <2>1, <2>2 DEF LeaveView
<1> QED BY <1>1, <1>3, <1>4 DEF TypeInv, CmdOK, JournalOK, StackOK, MountOK

LEMMA ReplayKeeps ==
  ASSUME TypeInv, NEW p \in Procs, Replay(p) \/ ClearStore(p)
  PROVE  TypeInv'
<1>1. proc[p].pc \in {"replay", "clear"} /\ proc[p].next # "failed"
      /\ UNCHANGED <<journal, kernel, mntdir>> /\ cmd' = cmd
  BY DEF Replay, ClearStore, kernel, TypeInv, ProcsOK, Sound
<1>2. PICK l \in {"clear", "truncate"} : Goto(p, l)
  BY DEF Replay, ClearStore
<1>3. ProcsOK'
  BY <1>1, <1>2, QuietGoto DEF TypeInv, PcLabels, Managing, Needy
<1> QED BY <1>1, <1>3, QuietStep

LEMMA TruncateKeeps ==
  ASSUME TypeInv, NEW p \in Procs, Truncate(p)
  PROVE  TypeInv'
<1>1. proc[p].pc = "truncate" /\ proc[p].next # "failed" /\ cmd' = cmd /\ journal' = << >>
      /\ UNCHANGED <<loaded, sbs, stack, mntdir>> /\ Goto(p, "idle")
  BY DEF Truncate, kernel, TypeInv, ProcsOK, Sound
<1>2. << >> \in Seq(Nat)
  OBVIOUS
<1>3. journal' # Nil /\ Readable(journal')
  BY <1>1, <1>2, ReadableEmpty, SessionAssumption
<1>4. ProcsOK'
  BY <1>1, <1>3, QuietGoto DEF TypeInv, PcLabels, Needy
<1>5. JournalOK'
  BY <1>3 DEF JournalOK, Readable, Staged
<1> QED BY <1>1, <1>3, <1>4, <1>5 DEF TypeInv, CmdOK, SbsOK, StackOK, MountOK

LEMMA PushRuleKeeps ==
  ASSUME TypeInv, NEW p \in Procs, PushRule(p)
  PROVE  TypeInv'
<1>1. proc[p].pc = "push" /\ proc[p].next # "failed" /\ cmd' = cmd /\ Goto(p, "idle")
      /\ UNCHANGED <<journal, loaded, stack, mntdir>>
  BY DEF PushRule, artifact, TypeInv, ProcsOK, Sound
<1>2. ProcsOK'
  BY <1>1, QuietGoto DEF TypeInv, PcLabels, Needy
<1>3. SbsOK'
  <2>1. PICK x : sbs' = IF Mounted THEN [sbs EXCEPT ![Top].live = x] ELSE sbs
    BY DEF PushRule
  <2> QED BY <2>1, TopIsSuper, TuneOne DEF TypeInv, SbsOK
<1> QED BY <1>1, <1>2, <1>3 DEF TypeInv, CmdOK, JournalOK, StackOK, MountOK

-----------------------------------------------------------------------------
LEMMA TypeInvInit == Init => TypeInv
<1> SUFFICES ASSUME Init PROVE TypeInv
  OBVIOUS
<1>1. ProcsOK
  BY DEF Init, ProcsOK, ProcShape, IsProc, Sound, Resting, PcLabels, NextLabels, Needy
<1>2. SbsOK
  BY DEF Init, SbsOK, IsSb, Fresh
<1>3. CmdOK /\ JournalOK
  BY DEF Init, CmdOK, JournalOK
<1>4. StackOK
  BY DEF Init, StackOK, IsInjective
<1> QED BY <1>1, <1>2, <1>3, <1>4 DEF Init, TypeInv, MountOK

LEMMA TypeInvNext == TypeInv /\ [Next]_vars => TypeInv'
<1> SUFFICES ASSUME TypeInv, [Next]_vars PROVE TypeInv'
  OBVIOUS
<1>1. ASSUME NEW p \in Procs, MountStep(p) PROVE TypeInv'
  BY <1>1, MountCheckKeeps, SetupYoloDirKeeps, LoadModuleKeeps, DoMountKeeps,
     ReadJournalKeeps, RestoreKeeps, ReadRulesKeeps, ApplyRulesKeeps DEF MountStep
<1>2. ASSUME NEW p \in Procs, UnmountStep(p) \/ ModuleStep(p) PROVE TypeInv'
  BY <1>2, UmountKeeps, RmdirKeeps, InsertModuleKeeps, ReloadKeeps, UnmountEachKeeps,
     SweepKeeps, DeleteModuleKeeps DEF UnmountStep, ModuleStep
<1>3. ASSUME NEW p \in Procs, RunStep(p) \/ Write(p) PROVE TypeInv'
  BY <1>3, EnterRunKeeps, SpawnKeeps, EndOfCommandKeeps, SnapshotKeeps, WriteKeeps DEF RunStep
<1>4. ASSUME NEW p \in Procs, ClearStep(p) PROVE TypeInv'
  BY <1>4, ReadStagedKeeps, LeaveViewKeeps, ReplayKeeps, TruncateKeeps DEF ClearStep
<1>5. ASSUME NEW p \in Procs, RuleStep(p) PROVE TypeInv'
  BY <1>5, EditRulesKeeps, WriteRulesKeeps, PushRuleKeeps DEF RuleStep
<1>6. ASSUME NEW p \in Procs, Crash(p) \/ \E job \in Commands : Begin(p, job) PROVE TypeInv'
  BY <1>6, CrashKeeps, BeginKeeps
<1>7. CASE (\E s \in Supers : Teardown(s)) \/ EditConfig
  BY <1>7, TeardownKeeps, EditConfigKeeps
<1>8. CASE UNCHANGED vars
  <2>1. ProcsOK'
    BY <1>8, StillSound DEF TypeInv, vars, artifact, kernel
  <2> QED BY <1>8, <2>1, QuietStep DEF vars, artifact
<1> QED BY <1>1, <1>2, <1>3, <1>4, <1>5, <1>6, <1>7, <1>8 DEF Next, CliStep

\* A process is where it can be, a command holds a superblock exactly while it
\* runs, no superblock is mounted twice, and a mount stands on a loaded module, a
\* mountpoint and a journal: whatever is started together, killed or retried.
THEOREM TypeCorrect == Spec => []TypeOK
<1>1. TypeInv => TypeOK
  BY DEF TypeInv, TypeOK, ProcsOK, Sound, CmdOK, StackOK, MountOK, Mounted
<1>2. Spec => []TypeInv
  BY TypeInvInit, TypeInvNext, PTL DEF Spec
<1> QED BY <1>1, <1>2, PTL
=============================================================================
