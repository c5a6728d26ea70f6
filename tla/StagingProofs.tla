--------------------------- MODULE StagingProofs ---------------------------
(***************************************************************************)
(* Theorems about Staging, for every set of names and processes, every     *)
(* bound and every environment the theorem does not exclude by name.       *)
(*                                                                         *)
(* The counter argument: each step that moves a process into Counted       *)
(* counts up, and each that moves one out counts down, the close of an     *)
(* access-mode-3 descriptor excepted.  So fdCount is never below their     *)
(* number, and equal to it without that mode.  A generation changes only   *)
(* when the counter is not positive, so when nobody is in the set.         *)
(*                                                                         *)
(* The lock argument: pc and ctl say who holds staging.sem, so an ioctl    *)
(* and a copy exclude each other; with it the dirty flag follows recs,     *)
(* and the generation runs one ahead of the markers only inside a travel.  *)
(***************************************************************************)
EXTENDS TypeProofs, FiniteSetTheorems

\* The inductive form of FdCountExact: the labels are needed to know in which
\* of the two sets a step takes a process.
FdInv ==
  /\ pc \in [Procs -> PcLabels]
  /\ fdCount \in Int /\ fdCount >= Cardinality(Counted)
  /\ "mode3" \notin Env => /\ fdCount = Cardinality(Counted)
                           /\ \A p \in Procs : pc[p] # "neither"

\* The labels of Counted.
CountedLabels == {"cow", "publish", "lower", "writing", "neither"}

\* Moving one process into the counted labels adds one to their number,
\* moving one out takes one away, and any other move leaves it.
LEMMA CountMoves ==
  ASSUME ConstAssumption,
         NEW p \in Procs, NEW label \in PcLabels,
         pc \in [Procs -> PcLabels], pc' = [pc EXCEPT ![p] = label]
  PROVE  /\ pc' \in [Procs -> PcLabels]
         /\ pc[p] \notin CountedLabels /\ label \in CountedLabels
              => Cardinality(Counted') = Cardinality(Counted) + 1
         /\ pc[p] \in CountedLabels /\ label \notin CountedLabels
              => Cardinality(Counted') = Cardinality(Counted) - 1
         /\ (pc[p] \in CountedLabels <=> label \in CountedLabels)
              => Counted' = Counted
<1>1. IsFiniteSet(Counted)
  BY FS_Subset DEF Counted, ConstAssumption
<1>2. pc' \in [Procs -> PcLabels]
  OBVIOUS
<1>3. ASSUME pc[p] \notin CountedLabels, label \in CountedLabels
      PROVE  Cardinality(Counted') = Cardinality(Counted) + 1
  <2>1. Counted' = Counted \cup {p} /\ p \notin Counted
    BY <1>3 DEF Counted, CountedLabels
  <2> QED BY <1>1, <2>1, FS_AddElement
<1>4. ASSUME pc[p] \in CountedLabels, label \notin CountedLabels
      PROVE  Cardinality(Counted') = Cardinality(Counted) - 1
  <2>1. Counted' = Counted \ {p} /\ p \in Counted
    BY <1>4 DEF Counted, CountedLabels
  <2> QED BY <1>1, <2>1, FS_RemoveElement
<1>5. (pc[p] \in CountedLabels <=> label \in CountedLabels) => Counted' = Counted
  BY DEF Counted, CountedLabels
<1> QED BY <1>2, <1>3, <1>4, <1>5

\* The number is a natural number.
LEMMA CountIsNat ==
  ASSUME ConstAssumption
  PROVE  Cardinality(Counted) \in Nat /\ (Cardinality(Counted) = 0 <=> Counted = {})
<1>1. IsFiniteSet(Counted)
  BY FS_Subset DEF Counted, ConstAssumption
<1> QED BY <1>1, FS_CardinalityType, FS_EmptySet

\* FdInv is kept by every step.
LEMMA FdInvStep == ConstAssumption /\ FdInv /\ [Next]_vars => FdInv'
<1> SUFFICES ASSUME ConstAssumption, FdInv, [Next]_vars
             PROVE  FdInv'
  OBVIOUS
<1>0. /\ pc \in [Procs -> PcLabels] /\ Cardinality(Counted) \in Nat
      /\ fdCount \in Int /\ fdCount >= Cardinality(Counted)
      /\ "mode3" \notin Env => /\ fdCount = Cardinality(Counted)
                               /\ \A p \in Procs : pc[p] # "neither"
  BY CountIsNat DEF FdInv
<1>1. ASSUME UNCHANGED <<pc, fdCount>>
      PROVE  FdInv'
  BY <1>0, <1>1 DEF FdInv, Counted
<1>2. ASSUME NEW p \in Procs, ProcStep(p)
      PROVE  FdInv'
  <2>1. ASSUME NEW label \in PcLabels, pc' = [pc EXCEPT ![p] = label],
               label = "neither" => "mode3" \in Env,
               \/ pc[p] \notin CountedLabels /\ label \in CountedLabels /\ fdCount' = fdCount + 1
               \/ pc[p] \in CountedLabels /\ label \notin CountedLabels /\ fdCount' = fdCount - 1
               \/ (pc[p] \in CountedLabels <=> label \in CountedLabels) /\ fdCount' = fdCount
               \/ pc[p] = "neither" /\ label = "idle" /\ fdCount' = fdCount
        PROVE  FdInv'
    <3>1. \/ Cardinality(Counted') = Cardinality(Counted) + 1 /\ fdCount' = fdCount + 1
          \/ Cardinality(Counted') = Cardinality(Counted) - 1 /\ fdCount' = fdCount - 1
          \/ Cardinality(Counted') = Cardinality(Counted) /\ fdCount' = fdCount
          \/ /\ "mode3" \in Env /\ fdCount' = fdCount
             /\ Cardinality(Counted') = Cardinality(Counted) - 1
      BY <1>0, <2>1, CountMoves DEF CountedLabels
    <3>2. "mode3" \notin Env => \A q \in Procs : pc'[q] # "neither"
      BY <1>0, <2>1
    <3>3. pc' \in [Procs -> PcLabels]
      BY <1>0, <2>1
    <3> QED BY <1>0, <3>1, <3>2, <3>3 DEF FdInv
  <2>2. CASE \E f \in Files : Walk(p, f)
    BY <2>1, <2>2 DEF Walk, sbVars, PcLabels, CountedLabels
  <2>3. CASE \E f \in Files : CreateJournal(p, f)
    BY <2>1, <2>3 DEF CreateJournal, Goto, PcLabels, CountedLabels
  <2>4. CASE OpenRead(p)
    BY <2>1, <2>4 DEF OpenRead, Goto, sbVars, PcLabels, CountedLabels
  <2>5. CASE OpenFast(p)
    BY <2>1, <2>5 DEF OpenFast, Goto, PcLabels, CountedLabels
  <2>6. CASE OpenStale(p)
    BY <2>1, <2>6 DEF OpenStale, Goto, sbVars, PcLabels, CountedLabels
  <2>7. CASE Recheck(p)
    BY <2>1, <2>7 DEF Recheck, Goto, PcLabels, CountedLabels
  <2>8. CASE OpenLower(p)
    BY <2>1, <2>8 DEF OpenLower, Opened, Goto, sbVars, PcLabels, CountedLabels
  <2>9. CASE OpenLowerFail(p)
    BY <2>1, <2>9 DEF OpenLowerFail, Done, PcLabels, CountedLabels
  <2>10. CASE CowJournal(p)
    BY <2>1, <2>10 DEF CowJournal, Goto, PcLabels, CountedLabels
  <2>11. CASE CowFail(p)
    BY <2>1, <2>11 DEF CowFail, Done, PcLabels, CountedLabels
  <2>12. CASE CowPublish(p)
    BY <2>1, <2>12 DEF CowPublish, Opened, Goto, PcLabels, CountedLabels
  <2>13. CASE CreateFail(p)
    BY <1>1, <2>13 DEF CreateFail, procVars
  <2>14. CASE CreatePublish(p)
    BY <2>1, <2>14 DEF CreatePublish, Goto, sbVars, PcLabels, CountedLabels
  <2>15. CASE CreateUnpublished(p)
    BY <2>1, <2>15 DEF CreateUnpublished, sbVars, PcLabels, CountedLabels
  <2>16. CASE Map(p)
    BY <1>1, <2>16 DEF Map, sbVars
  <2>17. CASE Close(p)
    BY <2>1, <2>17 DEF Close, Done, PcLabels, CountedLabels
  <2>18. CASE \E c \in Data : Write(p, c) \/ WriteMapped(p, c)
    BY <1>1, <2>18 DEF Write, WriteMapped, procVars, sbVars
  <2> QED
    BY <1>2, <2>2, <2>3, <2>4, <2>5, <2>6, <2>7, <2>8, <2>9, <2>10, <2>11,
       <2>12, <2>13, <2>14, <2>15, <2>16, <2>17, <2>18 DEF ProcStep
<1>3. ASSUME NameStep
      PROVE  FdInv'
  BY <1>1, <1>3 DEF NameStep, Lookup, Evict, Unlink, Rename, procVars, sbVars
<1>4. ASSUME CtlStep
      PROVE  FdInv'
  <2>1. CASE Remount
    <3>1. fdCount' = 0 /\ pc' = pc /\ \A p \in Procs : pc[p] = "idle"
      BY <2>1 DEF Remount, procVars
    <3>2. Counted' = {} /\ \A p \in Procs : pc'[p] # "neither"
      BY <3>1 DEF Counted
    <3> QED BY <1>0, <3>1, <3>2, FS_EmptySet DEF FdInv
  <2>2. CASE SnapshotMark \/ SnapshotDone \/ TravelDone \/ TravelFail
    BY <1>1, <2>2 DEF SnapshotMark, SnapshotDone, TravelDone, TravelFail, procVars
  <2>3. CASE \E g \in 0 .. Len(marks) - 1 : TravelView(g)
    BY <1>1, <2>3 DEF TravelView, procVars
  <2> QED BY <1>4, <2>1, <2>2, <2>3 DEF CtlStep
<1>5. CASE UNCHANGED vars
  BY <1>1, <1>5 DEF vars, procVars, sbVars
<1> QED BY <1>2, <1>3, <1>4, <1>5 DEF Next

\* FdCountExact for every instance without access-mode-3 opens: no error path
\* of the two open paths loses or repeats a decrement, in any interleaving and
\* in any other environment.
THEOREM CountExact ==
  ASSUME "mode3" \notin Env
  PROVE  Spec => []FdCountExact
<1>1. Init => FdInv
  <2> SUFFICES ASSUME Init PROVE FdInv
    OBVIOUS
  <2>1. Counted = {}
    BY DEF Init, Counted
  <2> QED BY <2>1, FS_EmptySet DEF Init, FdInv, PcLabels
<1>2. FdInv /\ [Next]_vars => FdInv'
  BY FdInvStep, ConstAssumption
<1>3. FdInv => FdCountExact
  BY DEF FdInv, FdCountExact
<1> QED BY <1>1, <1>2, <1>3, PTL DEF Spec

\* NoGenChangeUnderWriters for every instance: "no fd spans a snapshot
\* boundary", and neither does an open that is about to return one.
THEOREM GenChangesAlone == Spec => NoGenChangeUnderWriters
<1> DEFINE Alone == gen' # gen => \A p \in Procs : pc[p] \notin CountedLabels
<1>1. Init => FdInv
  <2> SUFFICES ASSUME Init PROVE FdInv
    OBVIOUS
  <2>1. Counted = {}
    BY DEF Init, Counted
  <2> QED BY <2>1, FS_EmptySet DEF Init, FdInv, PcLabels
<1>2. FdInv /\ [Next]_vars => FdInv'
  BY FdInvStep, ConstAssumption
<1>3. FdInv /\ [Next]_vars => [Alone]_vars
  <2> SUFFICES ASSUME FdInv, Next, gen' # gen
               PROVE  \A p \in Procs : pc[p] \notin CountedLabels
    BY DEF vars, sbVars
  <2>1. (\E p \in Procs : ProcStep(p)) => gen' = gen
    BY DEF ProcStep, Walk, CreateJournal, OpenRead, OpenFast, OpenStale, Recheck,
           OpenLower, OpenLowerFail, CowJournal, CowFail, CowPublish, CreateFail,
           CreatePublish, CreateUnpublished, Map, Close, Write, WriteMapped, sbVars
  <2>2. NameStep => gen' = gen
    BY DEF NameStep, Lookup, Evict, Unlink, Rename, sbVars
  <2>3. SnapshotDone \/ TravelDone => gen' = gen
    BY DEF SnapshotDone, TravelDone
  <2>4. ASSUME MaySeal
        PROVE  \A p \in Procs : pc[p] \notin CountedLabels
    <3>1. Cardinality(Counted) = 0
      BY <2>4, CountIsNat, ConstAssumption DEF FdInv, MaySeal
    <3>2. Counted = {}
      BY <3>1, CountIsNat, ConstAssumption
    <3> QED BY <3>2 DEF Counted, CountedLabels
  <2>5. SnapshotMark \/ TravelFail \/ (\E g \in 0 .. Len(marks) - 1 : TravelView(g)) => MaySeal
    BY DEF SnapshotMark, TravelFail, TravelView
  <2>6. Remount => \A p \in Procs : pc[p] \notin CountedLabels
    BY DEF Remount, CountedLabels
  <2> QED BY <2>1, <2>2, <2>3, <2>4, <2>5, <2>6 DEF Next, CtlStep
<1>4. [Alone]_vars => [gen' # gen => \A p \in Procs :
                        pc[p] \notin {"cow", "publish", "lower", "writing"}]_vars
  BY DEF CountedLabels
<1> QED BY <1>1, <1>2, <1>3, <1>4, PTL DEF Spec, NoGenChangeUnderWriters

-----------------------------------------------------------------------------
\* staging.sem is held by the process that copies, or by the ioctl in progress.
LockInv ==
  /\ \A p \in Procs : pc[p] \in {"cow", "publish"} => sem = p
  /\ ctl # "idle" => sem = Ctl

LEMMA LockInvStep == ConstAssumption /\ TypeInv /\ LockInv /\ [Next]_vars => LockInv'
<1> SUFFICES ASSUME ConstAssumption, TypeInv, LockInv, [Next]_vars PROVE LockInv'
  OBVIOUS
<1>0. pc \in [Procs -> PcLabels] /\ Ctl \notin Procs /\ Nil \notin Procs /\ Ctl # Nil
  BY DEF TypeInv, ProcOK, ConstAssumption
<1>1. ASSUME UNCHANGED <<pc, sem, ctl>> PROVE LockInv'
  BY <1>1 DEF LockInv
<1>2. ASSUME NEW p \in Procs, ProcStep(p) PROVE LockInv'
  <2>1. ASSUME NEW label \in PcLabels, pc' = [pc EXCEPT ![p] = label], UNCHANGED ctl,
               \/ pc[p] \notin {"cow", "publish"} /\ label \notin {"cow", "publish"} /\ sem' = sem
               \/ sem = Nil /\ label \in {"cow", "publish"} /\ sem' = p
               \/ pc[p] \in {"cow", "publish"} /\ label \in {"cow", "publish"} /\ sem' = sem
               \/ pc[p] \in {"cow", "publish"} /\ label \notin {"cow", "publish"} /\ sem' = Nil
        PROVE  LockInv'
    BY <1>0, <2>1 DEF LockInv
  <2>2. CASE (\E f \in Files : Walk(p, f) \/ CreateJournal(p, f)) \/ OpenRead(p) \/ OpenFast(p)
             \/ OpenStale(p) \/ OpenLower(p) \/ CreatePublish(p)
    BY <2>1, <2>2 DEF Walk, CreateJournal, OpenRead, OpenFast, OpenStale, OpenLower, Opened,
                      CreatePublish, Goto, sbVars, ctlVars, PcLabels
  <2>3. CASE Recheck(p)
    BY <2>1, <2>3 DEF Recheck, Goto, ctlVars, PcLabels
  <2>4. CASE CowJournal(p) \/ CowFail(p) \/ CowPublish(p)
    BY <2>1, <2>4 DEF CowJournal, CowFail, CowPublish, Opened, Done, Goto, ctlVars, PcLabels
  <2>5. CASE OpenLowerFail(p) \/ Close(p) \/ CreateUnpublished(p)
    BY <2>1, <2>5 DEF OpenLowerFail, Close, CreateUnpublished, Done, sbVars, ctlVars, PcLabels
  <2>6. CASE CreateFail(p) \/ Map(p) \/ (\E c \in Data : Write(p, c) \/ WriteMapped(p, c))
    BY <1>1, <2>6 DEF CreateFail, Map, Write, WriteMapped, procVars, sbVars, ctlVars
  <2> QED BY <1>2, <2>2, <2>3, <2>4, <2>5, <2>6 DEF ProcStep
<1>3. CASE NameStep
  BY <1>1, <1>3 DEF NameStep, Lookup, Evict, Unlink, Rename, procVars, sbVars, ctlVars
<1>4. CASE SnapshotMark \/ \E g \in 0 .. Len(marks) - 1 : TravelView(g)
  <2>1. sem = Nil /\ sem' = Ctl /\ UNCHANGED pc
    BY <1>4 DEF SnapshotMark, TravelView, procVars
  <2> QED BY <1>0, <2>1 DEF LockInv
<1>5. CASE SnapshotDone \/ TravelDone
  <2>1. ctl # "idle" /\ ctl' = "idle" /\ sem' = Nil /\ UNCHANGED pc
    BY <1>5 DEF SnapshotDone, TravelDone, procVars
  <2> QED BY <1>0, <2>1 DEF LockInv
<1>6. CASE TravelFail \/ Remount \/ UNCHANGED vars
  BY <1>1, <1>6 DEF TravelFail, Remount, vars, procVars, sbVars, ctlVars
<1> QED BY <1>2, <1>3, <1>4, <1>5, <1>6 DEF Next, CtlStep

\* DirtyCoversRecords while an ioctl is in progress: the P record has sealed
\* the records before the flag is cleared.
DirtyInv ==
  /\ ctl # "snapshot" /\ recs => dirty
  /\ ctl = "snapshot" => ~recs

LEMMA DirtyInvStep ==
  ASSUME ConstAssumption, "ctlrace" \notin Env, "journal" \notin Env,
         TypeInv, LockInv, DirtyInv, [Next]_vars
  PROVE  DirtyInv'
<1>0. Ctl \notin Procs /\ Ctl # Nil
  BY DEF ConstAssumption
<1>1. ASSUME UNCHANGED <<ctl, dirty, recs>> PROVE DirtyInv'
  BY <1>1 DEF DirtyInv
<1>2. ASSUME NEW p \in Procs, ProcStep(p) PROVE DirtyInv'
  <2>1. CASE CowJournal(p) \/ \E f \in Files : CreateJournal(p, f)
    <3>1. ctl = "idle"
      BY <1>0, <2>1 DEF CowJournal, CreateJournal, NoCtlRace, LockInv
    <3>2. ctl' = ctl /\ dirty' = TRUE
      BY <2>1 DEF CowJournal, CreateJournal, JournalStage, ctlVars
    <3> QED BY <3>1, <3>2 DEF DirtyInv
  <2>2. CASE ~(CowJournal(p) \/ \E f \in Files : CreateJournal(p, f))
    BY <1>1, <1>2, <2>2
       DEF ProcStep, Walk, OpenRead, OpenFast, OpenStale, Recheck, OpenLower, OpenLowerFail,
           CowFail, CowPublish, CreateFail, CreatePublish, CreateUnpublished, Map, Close,
           Write, WriteMapped, sbVars, jVars, ctlVars
  <2> QED BY <2>1, <2>2
<1>3. CASE NameStep
  <2>1. CASE \E f \in Files : Lookup(f) \/ Evict(f)
    BY <1>1, <2>1 DEF Lookup, Evict, sbVars, jVars, ctlVars
  <2>2. CASE (\E f \in Files : Unlink(f)) \/ \E f, g \in Files : Rename(f, g)
    <3>1. ctl = "idle" /\ ctl' = ctl /\ dirty' = TRUE
      BY <2>2 DEF Unlink, Rename, NoCtlRace, JournalNames, ctlVars
    <3> QED BY <3>1 DEF DirtyInv
  <2> QED BY <1>3, <2>1, <2>2 DEF NameStep
<1>4. CASE SnapshotMark
  <2>1. ctl' = "snapshot" /\ recs' = FALSE
    BY <1>4 DEF SnapshotMark, Mark
  <2> QED BY <2>1 DEF DirtyInv
<1>5. CASE SnapshotDone
  <2>1. ctl = "snapshot" /\ ctl' = "idle" /\ UNCHANGED recs
    BY <1>5 DEF SnapshotDone, jVars
  <2> QED BY <2>1 DEF DirtyInv
<1>6. CASE \E g \in 0 .. Len(marks) - 1 : TravelView(g)
  <2>1. ctl = "idle" /\ ctl' = "travel" /\ UNCHANGED <<dirty, recs>>
    BY <1>6 DEF TravelView, jVars
  <2> QED BY <2>1 DEF DirtyInv
<1>7. CASE TravelDone
  <2>1. ctl' = "idle" /\ recs' = FALSE
    BY <1>7 DEF TravelDone, Mark
  <2> QED BY <2>1 DEF DirtyInv
<1>8. CASE TravelFail \/ UNCHANGED vars
  BY <1>1, <1>8 DEF TravelFail, vars, sbVars, jVars, ctlVars
<1>9. CASE Remount
  <2>1. ctl = "idle" /\ ctl' = ctl /\ recs' = recs /\ dirty' = recs
    BY <1>9 DEF Remount, jVars
  <2> QED BY <2>1 DEF DirtyInv
<1> QED BY <1>2, <1>3, <1>4, <1>5, <1>6, <1>7, <1>8, <1>9 DEF Next, CtlStep

\* DirtyCoversRecords for every instance in which no name operation runs
\* during an ioctl and the P and T records are written: the flag is set by
\* each of S, D and R and cleared only once a marker has sealed them, and a
\* copy in progress keeps the ioctls out.
THEOREM DirtyIsKept ==
  ASSUME "ctlrace" \notin Env, "journal" \notin Env
  PROVE  Spec => []DirtyCoversRecords
<1> DEFINE I == TypeInv /\ LockInv /\ DirtyInv
<1>1. Init => I
  <2>1. Init => LockInv /\ DirtyInv
    BY DEF Init, LockInv, DirtyInv
  <2> QED BY <2>1, TypeInvInit, ConstAssumption
<1>2. I /\ [Next]_vars => I'
  BY TypeInvStep, LockInvStep, DirtyInvStep, ConstAssumption
<1>3. I => DirtyCoversRecords
  BY DEF DirtyInv, DirtyCoversRecords
<1> QED BY <1>1, <1>2, <1>3, PTL DEF Spec

-----------------------------------------------------------------------------
\* GenIsPosition while a travel has taken its generation and not yet written
\* its T record.
PositionInv == gen = IF ctl = "travel" THEN Len(marks) ELSE Len(marks) - 1

LEMMA PositionInvStep ==
  ASSUME ConstAssumption, "journal" \notin Env, "badinject" \notin Env,
         TypeInv, PositionInv, [Next]_vars
  PROVE  PositionInv'
<1>0. Len(marks) \in Nat /\ gen \in Nat
  BY DEF TypeInv, SbOK, JournalOK, ConstAssumption
<1>1. ASSUME UNCHANGED <<ctl, gen, marks>> PROVE PositionInv'
  BY <1>1 DEF PositionInv
<1>2. ASSUME NEW tree, Mark(tree) PROVE Len(marks') = Len(marks) + 1
  <2> DEFINE m == [tree |-> tree, saw |-> Shows(tree)]
  <2> HIDE DEF m
  <2>1. marks' = Append(marks, m)
    BY <1>2 DEF Mark, m
  <2> QED BY <2>1 DEF TypeInv, JournalOK
<1>3. ASSUME NEW p \in Procs, ProcStep(p) PROVE PositionInv'
  BY <1>1, <1>3
     DEF ProcStep, Walk, CreateJournal, OpenRead, OpenFast, OpenStale, Recheck, OpenLower,
         OpenLowerFail, CowJournal, CowFail, CowPublish, CreateFail, CreatePublish,
         CreateUnpublished, Map, Close, Write, WriteMapped, JournalStage, sbVars, jVars, ctlVars
<1>4. CASE NameStep
  BY <1>1, <1>4 DEF NameStep, Lookup, Evict, Unlink, Rename, JournalNames, sbVars, jVars, ctlVars
<1>5. CASE SnapshotMark
  <2>1. Mark(tip) /\ ctl = "idle" /\ ctl' = "snapshot" /\ gen' = gen + 1
    BY <1>5 DEF SnapshotMark
  <2> QED BY <1>0, <1>2, <2>1 DEF PositionInv
<1>6. CASE SnapshotDone
  BY <1>6 DEF SnapshotDone, PositionInv, jVars
<1>7. CASE \E g \in 0 .. Len(marks) - 1 : TravelView(g)
  <2>1. ctl = "idle" /\ ctl' = "travel" /\ gen' = gen + 1 /\ UNCHANGED marks
    BY <1>7 DEF TravelView, jVars
  <2> QED BY <1>0, <2>1 DEF PositionInv
<1>8. CASE TravelDone
  <2>1. Mark(target) /\ ctl = "travel" /\ ctl' = "idle" /\ UNCHANGED gen
    BY <1>8 DEF TravelDone
  <2> QED BY <1>0, <1>2, <2>1 DEF PositionInv
<1>9. ~TravelFail
  BY DEF TravelFail
<1>10. CASE Remount
  BY <1>10 DEF Remount, LatestGen, PositionInv, jVars
<1>11. CASE UNCHANGED vars
  BY <1>1, <1>11 DEF vars, sbVars, jVars, ctlVars
<1> QED BY <1>3, <1>4, <1>5, <1>6, <1>7, <1>8, <1>9, <1>10, <1>11 DEF Next, CtlStep

\* GenIsPosition for every instance in which the appends and the injections
\* succeed: "the kernel never skips a gen", across mounts too.
THEOREM GenNeverSkips ==
  ASSUME "journal" \notin Env, "badinject" \notin Env
  PROVE  Spec => []GenIsPosition
<1> DEFINE I == TypeInv /\ PositionInv
<1>1. Init => I
  <2>1. Init => PositionInv
    BY DEF Init, PositionInv
  <2> QED BY <2>1, TypeInvInit, ConstAssumption
<1>2. I /\ [Next]_vars => I'
  BY TypeInvStep, PositionInvStep, ConstAssumption
<1>3. I => GenIsPosition
  BY DEF PositionInv, GenIsPosition
<1> QED BY <1>1, <1>2, <1>3, PTL DEF Spec

=============================================================================
