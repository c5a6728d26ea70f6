-------------------------- MODULE TimelineProofs --------------------------
(***************************************************************************)
(* The properties of Timeline, for journals of every length.               *)
(*                                                                         *)
(* alive_segments_range is a scan from the right, a recursive function of  *)
(* the journal.  What it computes follows by induction in the form of      *)
(* sets: the set of markers a claim holds of has no least gap.  First the  *)
(* scan meets its equation at every marker (ScanEq), then two scans that   *)
(* meet at a marker stay together (Lockstep), which gives AliveAt an       *)
(* equation of its own: a travel takes over what was alive at its target,  *)
(* any other marker adds the segment it closes.  What is alive before a    *)
(* live marker is what was alive at it (Prefix), and what the commands say *)
(* of segments follows.  What they say of a file needs one more invariant  *)
(* (FileOK): the live view has what the live segments fold to, and every   *)
(* pre-image is what the segments alive at its marker fold to.             *)
(***************************************************************************)
EXTENDS Timeline, FiniteSetTheorems, TLAPS

\* Every non-empty set of naturals has a least member.
LEMMA LeastOf ==
  ASSUME NEW T \in SUBSET Nat, T # {}
  PROVE  \E n \in T : \A m \in T : n <= m
<1> DEFINE Below == {0 .. n : n \in T}
<1>1. IsWellFoundedOn(StrictSubsetOrdering(Nat), FiniteSubsetsOf(Nat))
  BY FS_StrictSubsetOrderingWellFounded
<1>2. Below \subseteq FiniteSubsetsOf(Nat)
  <2> SUFFICES ASSUME NEW n \in T PROVE 0 .. n \in FiniteSubsetsOf(Nat)
    OBVIOUS
  <2>1. IsFiniteSet(0 .. n) BY FS_Interval
  <2> QED BY <2>1 DEF FiniteSubsetsOf
<1>3. Below # {} OBVIOUS
<1> HIDE DEF Below
<1>4. PICK x \in Below : \A y \in Below : ~(<<y, x>> \in StrictSubsetOrdering(Nat))
  BY <1>1, <1>2, <1>3, WFMin
<1>5. PICK n \in T : x = 0 .. n BY DEF Below
<1>6. ASSUME NEW m \in T, m < n PROVE FALSE
  <2>1. 0 .. m \in Below BY DEF Below
  <2>2. <<0 .. m, 0 .. n>> \in StrictSubsetOrdering(Nat)
    BY <1>6 DEF StrictSubsetOrdering
  <2> QED BY <2>1, <2>2, <1>4, <1>5
<1> QED BY <1>6

\* Induction from k down to 0, for a property given as a set.
LEMMA Downwards ==
  ASSUME NEW k \in Nat, NEW T, k \in T, \A m \in 0 .. k - 1 : m + 1 \in T => m \in T
  PROVE  0 .. k \subseteq T
<1> DEFINE Gaps == {d \in 0 .. k : k - d \notin T}
<1>1. SUFFICES ASSUME Gaps # {} PROVE FALSE
  <2>1. ASSUME NEW m \in 0 .. k PROVE m \in T
    <3>1. k - m \in 0 .. k /\ k - (k - m) = m OBVIOUS
    <3> QED BY <1>1, <3>1
  <2> QED BY <2>1
<1>2. Gaps \in SUBSET Nat OBVIOUS
<1>3. PICK d \in Gaps : \A e \in Gaps : d <= e BY <1>1, <1>2, LeastOf
<1>4. d # 0 OBVIOUS
<1>5. d - 1 \in 0 .. k /\ d - 1 \notin Gaps BY <1>3, <1>4
<1>6. k - d \in 0 .. k - 1 /\ (k - d) + 1 = k - (d - 1) BY <1>4
<1>7. (k - d) + 1 \in T BY <1>5, <1>6
<1> QED BY <1>6, <1>7

\* Strong induction up to k, for a property given as a set.
LEMMA Upwards ==
  ASSUME NEW k \in Nat, NEW T, \A m \in 0 .. k : 0 .. m - 1 \subseteq T => m \in T
  PROVE  0 .. k \subseteq T
<1> DEFINE Gaps == (0 .. k) \ T
<1>1. SUFFICES ASSUME Gaps # {} PROVE FALSE OBVIOUS
<1>2. Gaps \in SUBSET Nat OBVIOUS
<1>3. PICK d \in Gaps : \A e \in Gaps : d <= e BY <1>1, <1>2, LeastOf
<1>4. 0 .. d - 1 \subseteq T
  <2> SUFFICES ASSUME NEW m \in 0 .. d - 1, m \notin T PROVE FALSE OBVIOUS
  <2>1. m \in Gaps /\ m < d OBVIOUS
  <2> QED BY <1>3, <2>1
<1> QED BY <1>4

\* The non-empty sets of naturals with a bound have a greatest member, which Max is.
LEMMA MaxIs ==
  ASSUME NEW k \in Nat, NEW T \in SUBSET (0 .. k), T # {}
  PROVE  Max(T) \in T /\ \A x \in T : x <= Max(T)
<1> DEFINE Gaps == {k - x : x \in T}
<1>1. Gaps \in SUBSET Nat OBVIOUS
<1>2. Gaps # {} OBVIOUS
<1>3. PICK d \in Gaps : \A e \in Gaps : d <= e BY <1>1, <1>2, LeastOf
<1>4. PICK x \in T : d = k - x OBVIOUS
<1>5. \A y \in T : x >= y
  <2> TAKE y \in T
  <2>1. k - y \in Gaps OBVIOUS
  <2>2. k - x <= k - y BY <1>3, <1>4, <2>1
  <2> QED BY <2>2
<1>6. \E z \in T : \A y \in T : z >= y BY <1>5
<1>7. Max(T) \in T /\ \A y \in T : Max(T) >= y BY <1>6, Zenon DEF Max
<1> QED BY <1>7

\* And a least, which Min is.
LEMMA MinIs ==
  ASSUME NEW k \in Nat, NEW T \in SUBSET (0 .. k), T # {}
  PROVE  Min(T) \in T /\ \A x \in T : Min(T) <= x
<1>1. T \in SUBSET Nat OBVIOUS
<1>2. \E n \in T : \A m \in T : n <= m BY <1>1, LeastOf
<1>3. Min(T) \in T /\ \A m \in T : Min(T) <= m BY <1>2, Zenon DEF Min
<1> QED BY <1>3

-----------------------------------------------------------------------------
\* The scan of AliveRange from marker e down to the phantom, as a function.
ScanStep(m, s) ==
  IF IsTravel(m) /\ m <= s.end /\ Target(m) \in 0 .. m - 1
  THEN [alive |-> s.alive \ (Target(m) .. m - 1), end |-> Target(m)]
  ELSE s

Scan(e, segs) ==
  CHOOSE f : f = [m \in 0 .. e |-> IF m = e THEN [alive |-> 0 .. segs - 1, end |-> e]
                                   ELSE ScanStep(m, f[m + 1])]

LEMMA ScanIs == ASSUME NEW e, NEW segs PROVE AliveRange(0, e, segs) = Scan(e, segs)[0].alive
BY Zenon DEF AliveRange, Scan, ScanStep

\* The scan meets the equation that defines it, at every marker it passes.
LEMMA ScanEq ==
  ASSUME NEW e \in Nat, NEW segs \in Nat
  PROVE  /\ Scan(e, segs)[e] = [alive |-> 0 .. segs - 1, end |-> e]
         /\ \A m \in 0 .. e - 1 : Scan(e, segs)[m] = ScanStep(m, Scan(e, segs)[m + 1])
<1> DEFINE Last == [alive |-> 0 .. segs - 1, end |-> e]
           Good(f, k) == f = [m \in k .. e |-> IF m = e THEN Last ELSE ScanStep(m, f[m + 1])]
           Reached == {k \in 0 .. e : \E f : Good(f, k)}
<1>1. e \in Reached
  <2>1. Good([m \in e .. e |-> Last], e) OBVIOUS
  <2> HIDE DEF Good
  <2>2. \E f : Good(f, e) BY <2>1
  <2> QED BY <2>2
<1>2. ASSUME NEW k \in 0 .. e - 1, k + 1 \in Reached PROVE k \in Reached
  <2>1. PICK f : Good(f, k + 1) BY <1>2
  <2> DEFINE g == [m \in k .. e |-> IF m = k THEN ScanStep(k, f[k + 1]) ELSE f[m]]
  <2> HIDE DEF Last
  <2>2. ASSUME NEW m \in k .. e PROVE g[m] = IF m = e THEN Last ELSE ScanStep(m, g[m + 1])
    <3>1. CASE m = k
      <4>1. k # e /\ k + 1 \in k .. e /\ k + 1 # k /\ k \in k .. e OBVIOUS
      <4>2. g[k] = ScanStep(k, f[k + 1]) /\ g[k + 1] = f[k + 1] BY <4>1
      <4> QED BY <3>1, <4>1, <4>2
    <3>2. CASE m # k
      <4>1. m \in k + 1 .. e BY <3>2
      <4>2. g[m] = f[m] BY <3>2
      <4>3. f[m] = IF m = e THEN Last ELSE ScanStep(m, f[m + 1])
        <5> HIDE DEF g
        <5> QED BY <2>1, <4>1
      <4>4. CASE m = e BY <4>2, <4>3, <4>4
      <4>5. CASE m # e
        <5>1. m + 1 \in k .. e /\ m + 1 # k BY <4>1, <4>5
        <5>2. g[m + 1] = f[m + 1] BY <5>1
        <5> QED BY <4>2, <4>3, <4>5, <5>2
      <4> QED BY <4>4, <4>5
    <3> QED BY <3>1, <3>2
  <2>3. g = [m \in k .. e |-> g[m]] OBVIOUS
  <2> HIDE DEF g
  <2>4. [m \in k .. e |-> g[m]] = [m \in k .. e |-> IF m = e THEN Last ELSE ScanStep(m, g[m + 1])]
    BY <2>2
  <2>5. Good(g, k) BY <2>3, <2>4
  <2> QED BY <2>5
<1> HIDE DEF Reached
<1>3. 0 \in Reached BY <1>1, <1>2, Downwards
<1>4. \E f : Good(f, 0) BY <1>3 DEF Reached
<1>5. Good(Scan(e, segs), 0) BY <1>4, Zenon DEF Scan
<1> HIDE DEF Last
<1> DEFINE S == Scan(e, segs)
<1> HIDE DEF S
<1>6. S = [m \in 0 .. e |-> IF m = e THEN Last ELSE ScanStep(m, S[m + 1])]
  BY <1>5 DEF S
<1>7. S[e] = Last /\ \A m \in 0 .. e - 1 : S[m] = ScanStep(m, S[m + 1])
  <2>1. e \in 0 .. e /\ \A m \in 0 .. e - 1 : m \in 0 .. e /\ m # e OBVIOUS
  <2> QED BY <1>6, <2>1
<1> QED BY <1>7 DEF S, Last

LEMMA ScanNext ==
  \A e, segs \in Nat : \A m \in 0 .. e - 1 :
    Scan(e, segs)[m] = ScanStep(m, Scan(e, segs)[m + 1])
BY ScanEq

\* Two scans that agree at a marker, but for segments no marker before it can
\* reach, agree to the end.
Meet(e1, s1, e2, s2, k, X) ==
  /\ e1 \in Nat /\ e2 \in Nat /\ s1 \in Nat /\ s2 \in Nat
  /\ k \in 0 .. e1 /\ k \in 0 .. e2
  /\ \A x \in X : x \in Nat /\ x >= k - 1
  /\ Scan(e1, s1)[k].alive = Scan(e2, s2)[k].alive \cup X
  /\ Scan(e1, s1)[k].end \in Nat /\ Scan(e1, s1)[k].end >= k - 1
  /\ Scan(e2, s2)[k].end \in Nat /\ Scan(e2, s2)[k].end >= k - 1

LEMMA Lockstep ==
  \A e1, s1, e2, s2, k, X :
    Meet(e1, s1, e2, s2, k, X) => Scan(e1, s1)[0].alive = Scan(e2, s2)[0].alive \cup X
<1> SUFFICES ASSUME NEW e1, NEW s1, NEW e2, NEW s2, NEW k, NEW X, Meet(e1, s1, e2, s2, k, X)
             PROVE  Scan(e1, s1)[0].alive = Scan(e2, s2)[0].alive \cup X
  OBVIOUS
<1> USE DEF Meet
<1> DEFINE A == Scan(e1, s1)
           B == Scan(e2, s2)
           Together(m) == /\ A[m].alive = B[m].alive \cup X
                          /\ \/ A[m].end = B[m].end
                             \/ /\ A[m].end \in Nat /\ B[m].end \in Nat
                                /\ A[m].end >= m - 1 /\ B[m].end >= m - 1
           T == {m \in 0 .. k : Together(m)}
<1>1. k \in T OBVIOUS
<1>2. ASSUME NEW m \in 0 .. k - 1, m + 1 \in T PROVE m \in T
  <2>1. A[m] = ScanStep(m, A[m + 1]) /\ B[m] = ScanStep(m, B[m + 1])
    <3>1. m \in 0 .. e1 - 1 /\ m \in 0 .. e2 - 1 OBVIOUS
    <3> QED BY <3>1, ScanNext
  <2> HIDE DEF A, B
  <2>2. Together(m + 1) BY <1>2
  <2>3. m <= A[m + 1].end <=> m <= B[m + 1].end BY <2>2
  <2>4. CASE IsTravel(m) /\ m <= A[m + 1].end /\ Target(m) \in 0 .. m - 1
    <3>1. A[m] = [alive |-> A[m + 1].alive \ (Target(m) .. m - 1), end |-> Target(m)]
      BY <2>1, <2>4 DEF ScanStep
    <3>2. B[m] = [alive |-> B[m + 1].alive \ (Target(m) .. m - 1), end |-> Target(m)]
      BY <2>1, <2>3, <2>4 DEF ScanStep
    <3>3. X \cap (Target(m) .. m - 1) = {} BY <2>4
    <3>4. A[m].alive = B[m].alive \cup X BY <3>1, <3>2, <3>3, <2>2
    <3> QED BY <3>1, <3>2, <3>4
  <2>5. CASE ~(IsTravel(m) /\ m <= A[m + 1].end /\ Target(m) \in 0 .. m - 1)
    <3>1. A[m] = A[m + 1] /\ B[m] = B[m + 1]
      BY <2>1, <2>3, <2>5 DEF ScanStep
    <3> QED BY <3>1, <2>2
  <2> QED BY <2>4, <2>5
<1> HIDE DEF T
<1>3. 0 \in T BY <1>1, <1>2, Downwards
<1> QED BY <1>3 DEF T

-----------------------------------------------------------------------------
\* What the scan computes at each marker, without scanning: a travel takes over
\* what its target had, any other marker adds the segment it closes.
JournalOK ==
  /\ markers \in Seq([kind : {"snapshot", "travel"}, target : Nat])
  /\ \A g \in 1 .. Tip : IsTravel(g) => Target(g) \in 0 .. g - 1
  /\ work \subseteq 0 .. Tip
  /\ Tip <= MaxMarkers

LEMMA TipIsNat == JournalOK => Tip \in Nat
BY DEF JournalOK, Tip

LEMMA MarkerIs ==
  JournalOK => \A g \in 1 .. Tip : markers[g] \in [kind : {"snapshot", "travel"}, target : Nat]
<1> DEFINE Recs == [kind : {"snapshot", "travel"}, target : Nat]
<1> HIDE DEF Recs
<1>1. JournalOK => markers \in Seq(Recs) BY DEF JournalOK, Recs
<1>2. markers \in Seq(Recs) => \A g \in 1 .. Len(markers) : markers[g] \in Recs OBVIOUS
<1> QED BY <1>1, <1>2 DEF Recs, Tip

LEMMA AliveAtStart == AliveAt(0) = {}
<1>1. Scan(1, 0)[1] = [alive |-> 0 .. 0 - 1, end |-> 1] BY ScanEq
<1>2. Scan(1, 0)[0] = ScanStep(0, Scan(1, 0)[1]) BY ScanNext
<1>3. Scan(1, 0)[0].alive = 0 .. 0 - 1 BY <1>1, <1>2 DEF ScanStep, IsTravel
<1>4. AliveAt(0) = Scan(1, 0)[0].alive BY ScanIs DEF AliveAt
<1> QED BY <1>3, <1>4

LEMMA AliveAtSnapshot ==
  ASSUME NEW g \in Nat \ {0}, ~IsTravel(g)
  PROVE  AliveAt(g) = AliveAt(g - 1) \cup {g - 1}
<1>1. Scan(g + 1, g)[g + 1] = [alive |-> 0 .. g - 1, end |-> g + 1] BY ScanEq
<1>2. Scan(g + 1, g)[g] = ScanStep(g, Scan(g + 1, g)[g + 1]) BY ScanNext
<1>3. Scan(g + 1, g)[g] = [alive |-> 0 .. g - 1, end |-> g + 1] BY <1>1, <1>2 DEF ScanStep
<1>4. Scan(g, g - 1)[g] = [alive |-> 0 .. (g - 1) - 1, end |-> g] BY ScanEq
<1>5. 0 .. g - 1 = (0 .. (g - 1) - 1) \cup {g - 1} OBVIOUS
<1>6. Scan(g + 1, g)[g].alive = Scan(g, g - 1)[g].alive \cup {g - 1}
  BY <1>3, <1>4, <1>5
<1>7. Scan(g + 1, g)[0].alive = Scan(g, g - 1)[0].alive \cup {g - 1}
  <2>1. Meet(g + 1, g, g, g - 1, g, {g - 1}) BY <1>3, <1>4, <1>6 DEF Meet
  <2> QED BY <2>1, Lockstep
<1>8. AliveAt(g) = Scan(g + 1, g)[0].alive BY ScanIs DEF AliveAt
<1>9. AliveAt(g - 1) = Scan(g, g - 1)[0].alive BY ScanIs DEF AliveAt
<1> QED BY <1>7, <1>8, <1>9

LEMMA SameEnd ==
  ASSUME NEW g, NEW t, NEW X, Meet(g + 1, g, t + 1, t, t + 1, X)
  PROVE  Scan(g + 1, g)[0].alive = Scan(t + 1, t)[0].alive \cup X
BY Lockstep, SMT

LEMMA AliveAtTravel ==
  ASSUME NEW g \in Nat \ {0}, NEW t \in 0 .. g - 1, IsTravel(g), Target(g) = t
  PROVE  AliveAt(g) = AliveAt(t)
<1> DEFINE S == Scan(g + 1, g)
           At == [alive |-> 0 .. t - 1, end |-> t]
           T == {m \in 0 .. g : m <= t \/ S[m] = At}
<1>1. S[g + 1] = [alive |-> 0 .. g - 1, end |-> g + 1] BY ScanEq
<1>2. \A m \in 0 .. g : S[m] = ScanStep(m, S[m + 1]) BY ScanNext
<1> HIDE DEF S
<1>3. S[g] = At
  <2>1. S[g] = [alive |-> (0 .. g - 1) \ (t .. g - 1), end |-> t]
    BY <1>1, <1>2 DEF ScanStep
  <2>2. (0 .. g - 1) \ (t .. g - 1) = 0 .. t - 1 OBVIOUS
  <2> QED BY <2>1, <2>2
<1>4. g \in T BY <1>3
<1>5. ASSUME NEW m \in 0 .. g - 1, m + 1 \in T PROVE m \in T
  <2>1. CASE m <= t BY <2>1
  <2>2. CASE m > t
    <3>1. S[m + 1] = At BY <1>5, <2>2
    <3>2. S[m] = ScanStep(m, S[m + 1]) BY <1>2
    <3>3. ~(m <= S[m + 1].end) BY <3>1, <2>2
    <3>4. S[m] = At BY <3>1, <3>2, <3>3 DEF ScanStep
    <3> QED BY <3>4
  <2> QED BY <2>1, <2>2
<1> HIDE DEF T
<1>6. t + 1 \in T BY <1>4, <1>5, Downwards
<1>7. S[t + 1] = At BY <1>6 DEF T
<1>8. Scan(t + 1, t)[t + 1] = [alive |-> 0 .. t - 1, end |-> t + 1]
  <2>1. t \in Nat /\ t + 1 \in Nat OBVIOUS
  <2> QED BY <2>1, ScanEq
<1>9. Scan(g + 1, g)[0].alive = Scan(t + 1, t)[0].alive
  <2>1. /\ Scan(g + 1, g)[t + 1].alive = Scan(t + 1, t)[t + 1].alive \cup (1 .. 0)
        /\ Scan(g + 1, g)[t + 1].end = t /\ Scan(t + 1, t)[t + 1].end = t + 1
    BY <1>7, <1>8 DEF S
  <2>2. Meet(g + 1, g, t + 1, t, t + 1, 1 .. 0) BY <2>1 DEF Meet
  <2>3. Scan(g + 1, g)[0].alive = Scan(t + 1, t)[0].alive \cup (1 .. 0) BY <2>2, SameEnd
  <2> QED BY <2>3
<1>10. AliveAt(g) = Scan(g + 1, g)[0].alive BY ScanIs DEF AliveAt
<1>11. AliveAt(t) = Scan(t + 1, t)[0].alive BY ScanIs DEF AliveAt
<1> QED BY <1>9, <1>10, <1>11

LEMMA AliveIs == ASSUME Tip \in Nat PROVE Alive = AliveAt(Tip) \cup {Tip}
<1>1. Scan(Tip + 1, Tip + 1)[Tip + 1] = [alive |-> 0 .. (Tip + 1) - 1, end |-> Tip + 1]
  BY ScanEq
<1>2. Scan(Tip + 1, Tip)[Tip + 1] = [alive |-> 0 .. Tip - 1, end |-> Tip + 1]
  BY ScanEq
<1>3. 0 .. (Tip + 1) - 1 = (0 .. Tip - 1) \cup {Tip} OBVIOUS
<1>4. Scan(Tip + 1, Tip + 1)[Tip + 1].alive = Scan(Tip + 1, Tip)[Tip + 1].alive \cup {Tip}
  BY <1>1, <1>2, <1>3
<1>5. Scan(Tip + 1, Tip + 1)[0].alive = Scan(Tip + 1, Tip)[0].alive \cup {Tip}
  <2>1. Meet(Tip + 1, Tip + 1, Tip + 1, Tip, Tip + 1, {Tip}) BY <1>1, <1>2, <1>4 DEF Meet
  <2> QED BY <2>1, Lockstep
<1>6. Alive = Scan(Tip + 1, Tip + 1)[0].alive BY ScanIs DEF Alive
<1>7. AliveAt(Tip) = Scan(Tip + 1, Tip)[0].alive BY ScanIs DEF AliveAt
<1> QED BY <1>5, <1>6, <1>7

LEMMA AliveAtNext ==
  ASSUME JournalOK, NEW g \in 1 .. Tip
  PROVE  /\ IsTravel(g) => Target(g) \in 0 .. g - 1 /\ AliveAt(g) = AliveAt(Target(g))
         /\ ~IsTravel(g) => AliveAt(g) = AliveAt(g - 1) \cup {g - 1}
<1>1. g \in Nat \ {0} BY TipIsNat
<1>2. CASE IsTravel(g)
  <2>1. Target(g) \in 0 .. g - 1 BY <1>2 DEF JournalOK
  <2>2. AliveAt(g) = AliveAt(Target(g)) BY <1>1, <1>2, <2>1, AliveAtTravel
  <2> QED BY <1>2, <2>1, <2>2
<1>3. CASE ~IsTravel(g) BY <1>1, <1>3, AliveAtSnapshot
<1> QED BY <1>2, <1>3

\* What is alive at a marker lies before it.
LEMMA AliveAtBelow ==
  ASSUME JournalOK PROVE \A h \in 0 .. Tip : AliveAt(h) \subseteq 0 .. h - 1
<1> DEFINE T == {h \in 0 .. Tip : AliveAt(h) \subseteq 0 .. h - 1}
<1>1. Tip \in Nat BY TipIsNat
<1>2. ASSUME NEW h \in 0 .. Tip, 0 .. h - 1 \subseteq T PROVE AliveAt(h) \subseteq 0 .. h - 1
  <2>1. CASE h = 0 BY <2>1, AliveAtStart
  <2>2. CASE h # 0 /\ IsTravel(h)
    <3>1. Target(h) \in 0 .. h - 1 /\ AliveAt(h) = AliveAt(Target(h))
      BY <1>1, <2>2, AliveAtNext
    <3>2. Target(h) \in T BY <1>2, <3>1
    <3> QED BY <1>1, <3>1, <3>2
  <2>3. CASE h # 0 /\ ~IsTravel(h)
    <3>1. AliveAt(h) = AliveAt(h - 1) \cup {h - 1} BY <1>1, <2>3, AliveAtNext
    <3>2. h - 1 \in T BY <1>1, <1>2, <2>3
    <3> QED BY <1>1, <2>3, <3>1, <3>2
  <2> QED BY <2>1, <2>2, <2>3
<1> HIDE DEF T
<1>3. \A h \in 0 .. Tip : 0 .. h - 1 \subseteq T => h \in T BY <1>2 DEF T
<1>4. 0 .. Tip \subseteq T BY <1>1, <1>3, Upwards
<1> QED BY <1>4 DEF T

\* A segment that is alive was closed by a snapshot, and what is alive before it
\* is what was alive at that snapshot.
Prefix(h) ==
  \A b \in 1 .. Tip : b - 1 \in AliveAt(h) =>
    ~IsTravel(b) /\ AliveAt(b) = AliveAt(h) \cap (0 .. b - 1)

LEMMA AliveAtPrefix == ASSUME JournalOK PROVE \A h \in 0 .. Tip : Prefix(h)
<1> DEFINE T == {h \in 0 .. Tip : Prefix(h)}
<1>1. Tip \in Nat BY TipIsNat
<1>2. ASSUME NEW h \in 0 .. Tip, 0 .. h - 1 \subseteq T PROVE Prefix(h)
  <2>1. CASE h = 0 BY <2>1, AliveAtStart DEF Prefix
  <2>2. CASE h # 0 /\ IsTravel(h)
    <3>1. Target(h) \in 0 .. h - 1 /\ AliveAt(h) = AliveAt(Target(h))
      BY <1>1, <2>2, AliveAtNext
    <3>2. Prefix(Target(h)) BY <1>2, <3>1
    <3> QED BY <3>1, <3>2 DEF Prefix
  <2>3. CASE h # 0 /\ ~IsTravel(h)
    <3>1. AliveAt(h) = AliveAt(h - 1) \cup {h - 1} BY <1>1, <2>3, AliveAtNext
    <3>2. h - 1 \in 0 .. h - 1 /\ h - 1 \in 0 .. Tip BY <1>1, <2>3
    <3>3. Prefix(h - 1) BY <1>2, <3>2
    <3>4. AliveAt(h - 1) \subseteq 0 .. (h - 1) - 1 BY <3>2, AliveAtBelow
    <3>5. SUFFICES ASSUME NEW b \in 1 .. Tip, b - 1 \in AliveAt(h)
                   PROVE  ~IsTravel(b) /\ AliveAt(b) = AliveAt(h) \cap (0 .. b - 1)
      BY DEF Prefix
    <3>6. CASE b = h
      <4>1. AliveAt(h) \subseteq 0 .. h - 1 BY AliveAtBelow
      <4> QED BY <2>3, <3>6, <4>1
    <3>7. CASE b # h
      <4>1. b - 1 \in AliveAt(h - 1) BY <1>1, <3>1, <3>5, <3>7
      <4>2. ~IsTravel(b) /\ AliveAt(b) = AliveAt(h - 1) \cap (0 .. b - 1)
        BY <3>3, <4>1 DEF Prefix
      <4>3. b - 1 <= (h - 1) - 1 BY <1>1, <3>4, <4>1
      <4>4. h - 1 \notin 0 .. b - 1 BY <1>1, <4>3
      <4> QED BY <3>1, <4>2, <4>4
    <3> QED BY <3>6, <3>7
  <2> QED BY <2>1, <2>2, <2>3
<1> HIDE DEF T
<1>3. \A h \in 0 .. Tip : 0 .. h - 1 \subseteq T => h \in T BY <1>2 DEF T
<1>4. 0 .. Tip \subseteq T BY <1>1, <1>3, Upwards
<1> QED BY <1>4 DEF T

\* The same of the present.
LEMMA AlivePrefix ==
  ASSUME JournalOK
  PROVE  /\ Tip \in Alive /\ Alive \subseteq 0 .. Tip
         /\ \A b \in 1 .. Tip : b - 1 \in Alive =>
              ~IsTravel(b) /\ AliveAt(b) = Alive \cap (0 .. b - 1)
<1>1. Tip \in Nat BY TipIsNat
<1>2. Alive = AliveAt(Tip) \cup {Tip} BY <1>1, AliveIs
<1>3. AliveAt(Tip) \subseteq 0 .. Tip - 1 BY <1>1, AliveAtBelow
<1>4. Prefix(Tip) BY <1>1, AliveAtPrefix
<1>5. ASSUME NEW b \in 1 .. Tip, b - 1 \in Alive
      PROVE  ~IsTravel(b) /\ AliveAt(b) = Alive \cap (0 .. b - 1)
  <2>1. b - 1 \in AliveAt(Tip) BY <1>1, <1>2, <1>5
  <2>2. ~IsTravel(b) /\ AliveAt(b) = AliveAt(Tip) \cap (0 .. b - 1) BY <1>4, <2>1 DEF Prefix
  <2>3. Tip \notin 0 .. b - 1 BY <1>1
  <2> QED BY <1>2, <2>2, <2>3
<1> QED BY <1>1, <1>2, <1>3, <1>5

-----------------------------------------------------------------------------
LEMMA JournalInit == Init => JournalOK
<1> SUFFICES ASSUME Init PROVE JournalOK OBVIOUS
<1>1. markers = <<>> /\ work = {} /\ Len(markers) = 0 BY DEF Init
<1>2. markers \in Seq([kind : {"snapshot", "travel"}, target : Nat]) BY <1>1
<1> QED BY <1>1, <1>2, TimelineAssumption DEF JournalOK, Tip

\* Appending a marker leaves those before it alone.
Grown(r) ==
  /\ Tip' = Tip + 1
  /\ \A g \in 1 .. Tip : markers'[g] = markers[g]
  /\ markers'[Tip + 1] = r

LEMMA GrownIs ==
  ASSUME JournalOK, NEW r \in [kind : {"snapshot", "travel"}, target : Nat],
         markers' = Append(markers, r)
  PROVE  Grown(r)
BY DEF JournalOK, Grown, Tip

LEMMA JournalStep == ASSUME JournalOK, [Next]_vars PROVE JournalOK'
<1> DEFINE Recs == [kind : {"snapshot", "travel"}, target : Nat]
<1>1. Tip \in Nat /\ markers \in Seq(Recs) BY TipIsNat DEF JournalOK
<1>2. ASSUME NEW r \in Recs, markers' = Append(markers, r), work' = work, Tip < MaxMarkers,
             r.kind = "travel" => r.target \in 0 .. Tip
      PROVE  JournalOK'
  <2>1. Grown(r) BY <1>2, GrownIs
  <2>2. markers' \in Seq(Recs) BY <1>1, <1>2
  <2>3. work' \subseteq 0 .. Tip' BY <1>1, <1>2, <2>1 DEF JournalOK, Grown
  <2>4. Tip' <= MaxMarkers BY <1>1, <1>2, <2>1, TimelineAssumption DEF Grown
  <2>5. ASSUME NEW g \in 1 .. Tip', IsTravel(g)' PROVE Target(g)' \in 0 .. g - 1
    <3>1. CASE g = Tip + 1
      <4>1. markers'[g] = r BY <2>1, <3>1 DEF Grown
      <4>2. r.kind = "travel" BY <2>5, <4>1 DEF IsTravel
      <4>3. r.target \in 0 .. g - 1 BY <1>1, <1>2, <3>1, <4>2
      <4> QED BY <4>1, <4>3 DEF Target
    <3>2. CASE g # Tip + 1
      <4>1. g \in 1 .. Tip BY <1>1, <2>1, <3>2 DEF Grown
      <4> QED BY <2>1, <2>5, <4>1 DEF Grown, IsTravel, Target, JournalOK
    <3> QED BY <3>1, <3>2
  <2> QED BY <2>2, <2>3, <2>4, <2>5 DEF JournalOK
<1>3. CASE Record
  <2>1. Tip' = Tip /\ markers' = markers BY <1>3 DEF Record, Tip
  <2>2. work' \subseteq 0 .. Tip BY <1>1, <1>3 DEF Record, JournalOK
  <2>3. \A g : IsTravel(g)' = IsTravel(g) /\ Target(g)' = Target(g)
    BY <2>1 DEF IsTravel, Target
  <2> QED BY <2>1, <2>2, <2>3 DEF JournalOK
<1>4. CASE Snapshot
  <2>1. [kind |-> "snapshot", target |-> 0] \in Recs OBVIOUS
  <2> QED BY <1>2, <1>4, <2>1 DEF Snapshot
<1>5. ASSUME NEW g \in Ids, Travel(g) PROVE JournalOK'
  <2>1. [kind |-> "travel", target |-> g] \in Recs BY <1>1, <1>5 DEF Ids
  <2> QED BY <1>2, <1>5, <2>1 DEF Travel, Ids
<1>6. CASE UNCHANGED vars
  BY <1>6 DEF vars, JournalOK, Tip, IsTravel, Target
<1>7. ASSUME NEW c \in Contents, Stage(c) PROVE JournalOK' BY <1>3, <1>7 DEF Stage, Touch
<1>8. CASE Delete BY <1>3, <1>8 DEF Delete, Touch
<1>9. CASE Other BY <1>3, <1>9 DEF Other
<1> QED BY <1>4, <1>5, <1>6, <1>7, <1>8, <1>9 DEF Next

\* The journal only ever travels back, and has no record behind its end.
THEOREM JournalSound == Spec => []JournalOK
<1>1. Init => JournalOK BY JournalInit
<1>2. JournalOK /\ [Next]_vars => JournalOK' BY JournalStep
<1> QED BY <1>1, <1>2, PTL DEF Spec

-----------------------------------------------------------------------------
LEMMA OwnChangeHolds == JournalOK => OwnChange
<1> SUFFICES ASSUME JournalOK, NEW g \in Snapshots
             PROVE  OwnRange(g) \cap Alive = IF g - 1 \in Alive THEN {g - 1} ELSE {}
  BY DEF OwnChange, Shown, ParseRange, One
<1>1. Tip \in Nat /\ g \in 1 .. Tip BY TipIsNat DEF Snapshots
<1> DEFINE Before == {0} \cup {s \in 1 .. g - 1 : IsSnapshot(s)}
           p == Max(Before)
<1>2. p \in Before /\ \A s \in Before : s <= p
  <2>1. Before \in SUBSET (0 .. g) /\ Before # {} /\ g \in Nat BY <1>1
  <2> QED BY <2>1, MaxIs
<1>3. OwnRange(g) = p .. g - 1 BY DEF OwnRange, PrevSnapshot
<1> HIDE DEF p
<1>4. p \in 0 .. g - 1 BY <1>1, <1>2
<1>5. ASSUME NEW i \in p .. g - 1, i \in Alive PROVE i = g - 1
  <2> SUFFICES ASSUME i # g - 1 PROVE FALSE OBVIOUS
  <2>1. i + 1 \in 1 .. Tip /\ i + 1 \in 1 .. g - 1 /\ i + 1 > p /\ (i + 1) - 1 = i
    BY <1>1, <1>4
  <2>2. ~IsTravel(i + 1) BY <1>5, <2>1, AlivePrefix
  <2>3. ~IsSnapshot(i + 1)
    <3> SUFFICES ASSUME IsSnapshot(i + 1) PROVE FALSE OBVIOUS
    <3>1. i + 1 \in Before BY <2>1
    <3>2. i + 1 <= p BY <1>2, <3>1
    <3> QED BY <1>4, <2>1, <3>2
  <2>4. markers[i + 1].kind \in {"snapshot", "travel"}
    <3>1. markers[i + 1] \in [kind : {"snapshot", "travel"}, target : Nat] BY <2>1, MarkerIs
    <3> QED BY <3>1
  <2> QED BY <2>1, <2>2, <2>3, <2>4 DEF IsTravel, IsSnapshot
<1>6. g - 1 \in p .. g - 1 BY <1>1, <1>4
<1> QED BY <1>3, <1>5, <1>6

\* A review of one id shows what that snapshot sealed, for journals of any length.
THEOREM OwnChangeAlways == Spec => []OwnChange
BY JournalSound, OwnChangeHolds, PTL

LEMMA LatestCoversTailHolds == JournalOK => LatestCoversTail
<1> SUFFICES ASSUME JournalOK, NEW i \in Alive \cap work, \A s \in Snapshots : s <= i
             PROVE  i \in Shown(Latest) \cap AfterExec(0)
  BY DEF LatestCoversTail
<1>1. Tip \in Nat /\ i \in 0 .. Tip BY TipIsNat, AlivePrefix
<1>2. Snapshots \in SUBSET (0 .. Tip) BY <1>1 DEF Snapshots
<1>3. Shown(Latest) = LatestRange \cap Alive BY DEF Shown, ParseRange, Latest
<1>4. i \in LatestRange
  <2>1. CASE Snapshots = {} BY <1>1, <2>1 DEF LatestRange
  <2>2. CASE Snapshots # {}
    <3> DEFINE m == Max(Snapshots)
    <3>1. m \in Snapshots BY <1>1, <1>2, <2>2, MaxIs
    <3>2. LatestRange = IF \E j \in m .. Tip : j \in Alive /\ j \in work
                        THEN m .. Tip ELSE PrevSnapshot(m) .. m - 1
      BY <2>2 DEF LatestRange
    <3> HIDE DEF m
    <3>3. m \in 0 .. Tip /\ m <= i BY <1>2, <3>1
    <3>4. i \in m .. Tip BY <1>1, <3>3
    <3> QED BY <3>2, <3>4
  <2> QED BY <2>1, <2>2
<1>5. AfterExec(0) = (Max({0} \cup Snapshots) .. Tip) \cap Alive BY DEF AfterExec
<1>6. i \in Max({0} \cup Snapshots) .. Tip
  <2>1. {0} \cup Snapshots \in SUBSET (0 .. Tip) BY <1>1, <1>2
  <2> DEFINE m == Max({0} \cup Snapshots)
  <2>2. m \in {0} \cup Snapshots BY <1>1, <2>1, MaxIs
  <2> HIDE DEF m
  <2>3. m \in 0 .. Tip /\ m <= i BY <1>1, <1>2, <2>2
  <2>4. i \in m .. Tip BY <1>1, <2>3
  <2> QED BY <2>4 DEF m
<1> QED BY <1>3, <1>4, <1>5, <1>6

\* No default review and no review after a command hides live work behind the last snapshot.
THEOREM LatestCoversTailAlways == Spec => []LatestCoversTail
BY JournalSound, LatestCoversTailHolds, PTL

LEMMA DimmedIsAbandonedHolds == JournalOK => DimmedIsAbandoned
<1> SUFFICES ASSUME JournalOK, NEW g \in Snapshots
             PROVE  g - 1 \in Alive <=> AliveAt(g) \subseteq Alive
  <2>1. \A g \in Snapshots : g # 0 BY TipIsNat DEF Snapshots
  <2> QED BY <2>1 DEF DimmedIsAbandoned, Reachable
<1>1. Tip \in Nat /\ g \in 1 .. Tip /\ ~IsTravel(g)
  BY TipIsNat DEF Snapshots, IsSnapshot, IsTravel
<1>2. AliveAt(g) = AliveAt(g - 1) \cup {g - 1} BY <1>1, AliveAtNext
<1>3. g - 1 \in Alive => AliveAt(g) = Alive \cap (0 .. g - 1) BY <1>1, AlivePrefix
<1> QED BY <1>2, <1>3

\* A snapshot is dimmed exactly when something it kept has been travelled away from.
THEOREM DimmedIsAbandonedAlways == Spec => []DimmedIsAbandoned
BY JournalSound, DimmedIsAbandonedHolds, PTL

LEMMA RangeIsDifferenceHolds == JournalOK => RangeIsDifference
<1> SUFFICES ASSUME JournalOK, NEW a \in {0} \cup Snapshots, NEW b \in Snapshots \cup {Tip + 1},
                    a <= b, Reachable(a), b <= Tip => Reachable(b)
             PROVE  (a .. b - 1) \cap Alive = (IF b > Tip THEN Alive ELSE AliveAt(b)) \ AliveAt(a)
  BY DEF RangeIsDifference, Shown, ParseRange, Two, Between
<1>1. Tip \in Nat /\ a \in 0 .. Tip /\ b \in 1 .. Tip + 1 /\ Alive \subseteq 0 .. Tip
  BY TipIsNat, AlivePrefix DEF Snapshots
<1>2. AliveAt(a) = Alive \cap (0 .. a - 1)
  <2>1. CASE a = 0 BY <2>1, AliveAtStart
  <2>2. CASE a # 0
    <3>1. a \in 1 .. Tip /\ a - 1 \in Alive BY <1>1, <2>2 DEF Reachable
    <3> QED BY <3>1, AlivePrefix
  <2> QED BY <2>1, <2>2
<1>3. CASE b > Tip
  <2>1. b = Tip + 1 /\ b - 1 = Tip BY <1>1, <1>3
  <2>2. (a .. Tip) \cap Alive = Alive \ (Alive \cap (0 .. a - 1))
    <3>1. \A x \in Alive : x \in 0 .. Tip /\ (x \in a .. Tip <=> x \notin 0 .. a - 1) BY <1>1
    <3> QED BY <3>1
  <2> QED BY <1>2, <1>3, <2>1, <2>2
<1>4. CASE b <= Tip
  <2>1. b \in 1 .. Tip /\ b - 1 \in Alive BY <1>1, <1>4 DEF Reachable
  <2>2. AliveAt(b) = Alive \cap (0 .. b - 1) BY <2>1, AlivePrefix
  <2> QED BY <1>1, <1>2, <1>4, <2>2
<1> QED BY <1>1, <1>3, <1>4

\* A review of a range is the difference of the two states at its ends.
THEOREM RangeIsDifferenceAlways == Spec => []RangeIsDifference
BY JournalSound, RangeIsDifferenceHolds, PTL

-----------------------------------------------------------------------------
\* The equations of AliveAt and Alive, in this state and in the next.
Equations ==
  /\ AliveAt(0) = {}
  /\ \A g \in 1 .. Tip : IsTravel(g) =>
       Target(g) \in 0 .. g - 1 /\ AliveAt(g) = AliveAt(Target(g))
  /\ \A g \in 1 .. Tip : ~IsTravel(g) => AliveAt(g) = AliveAt(g - 1) \cup {g - 1}
  /\ \A g \in 0 .. Tip : AliveAt(g) \subseteq 0 .. g - 1
  /\ Alive = AliveAt(Tip) \cup {Tip}

LEMMA EquationsHold == JournalOK => Tip \in Nat /\ Equations
BY TipIsNat, AliveAtStart, AliveAtNext, AliveAtBelow, AliveIs DEF Equations

LEMMA EquationsNext == JournalOK' => (Tip \in Nat /\ Equations)'
BY EquationsHold, PTL

\* A new marker changes nothing that was computed of the ones before it.
LEMMA AliveAtKept ==
  ASSUME JournalOK, JournalOK', Tip <= Tip',
         \A g \in 1 .. Tip : markers'[g] = markers[g]
  PROVE  \A g \in 0 .. Tip : AliveAt(g)' = AliveAt(g)
<1> DEFINE T == {g \in 0 .. Tip : AliveAt(g)' = AliveAt(g)}
<1>1. Tip \in Nat /\ Equations BY EquationsHold
<1>2. Tip' \in Nat /\ Equations' BY EquationsNext
<1>3. ASSUME NEW g \in 0 .. Tip, 0 .. g - 1 \subseteq T PROVE g \in T
  <2>1. CASE g = 0
    <3>1. AliveAt(0)' = AliveAt(0) BY <1>1, <1>2 DEF Equations
    <3> QED BY <2>1, <3>1
  <2>2. CASE g # 0
    <3>1. g \in 1 .. Tip /\ g \in 1 .. Tip' BY <1>1, <1>2, <2>2
    <3>2. IsTravel(g)' <=> IsTravel(g) BY <3>1 DEF IsTravel
    <3>3. Target(g)' = Target(g) BY <3>1 DEF Target
    <3>4. CASE IsTravel(g)
      <4>1. Target(g) \in 0 .. g - 1 /\ AliveAt(g) = AliveAt(Target(g))
        BY <1>1, <3>1, <3>4 DEF Equations
      <4>2. PICK t \in 0 .. g - 1 : t = Target(g) BY <4>1
      <4>3. \A h \in 1 .. Tip' : IsTravel(h)' => AliveAt(h)' = AliveAt(Target(h))'
        BY <1>2 DEF Equations
      <4>4. AliveAt(Target(g))' = AliveAt(t)' BY <3>3, <4>2
      <4>5. AliveAt(g)' = AliveAt(t)' BY <3>1, <3>2, <3>4, <4>3, <4>4
      <4>6. AliveAt(t)' = AliveAt(t) BY <1>3
      <4> QED BY <4>1, <4>2, <4>5, <4>6
    <3>5. CASE ~IsTravel(g)
      <4>1. AliveAt(g) = AliveAt(g - 1) \cup {g - 1} BY <1>1, <3>1, <3>5 DEF Equations
      <4>2. AliveAt(g)' = AliveAt(g - 1)' \cup {g - 1} BY <1>2, <3>1, <3>2, <3>5 DEF Equations
      <4>3. AliveAt(g - 1)' = AliveAt(g - 1)
        <5>1. g - 1 \in 0 .. g - 1 BY <3>1
        <5> QED BY <1>3, <5>1
      <4> QED BY <4>1, <4>2, <4>3
    <3> QED BY <3>4, <3>5
  <2> QED BY <2>1, <2>2
<1> HIDE DEF T
<1>4. 0 .. Tip \subseteq T BY <1>1, <1>3, Upwards
<1> QED BY <1>4 DEF T

LEMMA SnapshotAlive ==
  ASSUME JournalOK, JournalOK', Snapshot
  PROVE  AliveAt(Tip)' = Alive /\ \E r : Grown(r)
<1> DEFINE r == [kind |-> "snapshot", target |-> 0]
<1>1. Tip \in Nat /\ Equations BY EquationsHold
<1>2. Tip' \in Nat /\ Equations' BY EquationsNext
<1>3. Grown(r)
  <2>1. r \in [kind : {"snapshot", "travel"}, target : Nat] OBVIOUS
  <2> QED BY <2>1, GrownIs DEF Snapshot
<1>4. Tip' = Tip + 1 /\ \A g \in 0 .. Tip : AliveAt(g)' = AliveAt(g)
  BY <1>1, <1>3, AliveAtKept DEF Grown
<1>5. AliveAt(Tip)' = Alive
  <2>1. PICK k : k = Tip + 1 OBVIOUS
  <2>2. k \in 1 .. Tip' /\ k - 1 = Tip BY <1>1, <1>4, <2>1
  <2>3. ~IsTravel(k)' BY <1>3, <2>1 DEF Grown, IsTravel
  <2>4. AliveAt(k)' = AliveAt(k - 1)' \cup {k - 1} BY <1>2, <2>2, <2>3 DEF Equations
  <2>5. AliveAt(k - 1)' = AliveAt(Tip)
    <3>1. k - 1 \in 0 .. Tip BY <1>1, <2>2
    <3>2. AliveAt(k - 1)' = AliveAt(k - 1) BY <1>4, <3>1
    <3> QED BY <2>2, <3>2
  <2>6. AliveAt(k)' = Alive BY <1>1, <2>2, <2>4, <2>5 DEF Equations
  <2>7. Tip' = k BY <1>4, <2>1
  <2> QED BY <2>6, <2>7
<1> QED BY <1>3, <1>5

LEMMA TravelAlive ==
  ASSUME JournalOK, JournalOK', NEW g \in Ids, Travel(g)
  PROVE  AliveAt(Tip)' = AliveAt(g) /\ \E r : Grown(r)
<1> DEFINE r == [kind |-> "travel", target |-> g]
<1>1. Tip \in Nat /\ Equations /\ g \in 0 .. Tip BY EquationsHold DEF Ids
<1>2. Tip' \in Nat /\ Equations' BY EquationsNext
<1>3. Grown(r)
  <2>1. r \in [kind : {"snapshot", "travel"}, target : Nat] BY <1>1
  <2> QED BY <2>1, GrownIs DEF Travel
<1>4. Tip' = Tip + 1 /\ \A h \in 0 .. Tip : AliveAt(h)' = AliveAt(h)
  BY <1>1, <1>3, AliveAtKept DEF Grown
<1>5. AliveAt(Tip)' = AliveAt(g)
  <2>1. PICK k : k = Tip + 1 OBVIOUS
  <2>2. k \in 1 .. Tip' /\ k > 0 BY <1>1, <1>4, <2>1
  <2>3. IsTravel(k)' /\ Target(k)' = g BY <1>3, <2>1, <2>2 DEF Grown, IsTravel, Target
  <2>4. AliveAt(k)' = AliveAt(Target(k))' BY <1>2, <2>2, <2>3 DEF Equations
  <2>5. AliveAt(k)' = AliveAt(g)' BY <2>3, <2>4
  <2>6. Tip' = k BY <1>4, <2>1
  <2> QED BY <1>1, <1>4, <2>5, <2>6
<1> QED BY <1>3, <1>5

\* A record leaves the scan alone.
LEMMA RecordAlive ==
  ASSUME JournalOK, JournalOK', markers' = markers
  PROVE  Alive' = Alive /\ Tip' = Tip /\ \A g \in 0 .. Tip : AliveAt(g)' = AliveAt(g)
<1>1. Tip \in Nat /\ Equations BY EquationsHold
<1>2. Tip' \in Nat /\ Equations' BY EquationsNext
<1>3. Tip' = Tip BY DEF Tip
<1>4. \A g \in 0 .. Tip : AliveAt(g)' = AliveAt(g) BY <1>1, <1>3, AliveAtKept
<1> QED BY <1>1, <1>2, <1>3, <1>4 DEF Equations

-----------------------------------------------------------------------------
\* What the records of n make of the file in a set of segments.
LiesIn(n, segs) ==
  IF segs \cap DOMAIN n = {} THEN Base ELSE n[Max(segs \cap DOMAIN n)].new

\* Only the segments with records of the file count.
LEMMA LiesSame ==
  ASSUME NEW k \in Nat, NEW n, NEW m, NEW A, NEW B, DOMAIN n \subseteq 0 .. k,
         A \cap DOMAIN n = B \cap DOMAIN m, \A i \in A \cap DOMAIN n : m[i] = n[i]
  PROVE  LiesIn(n, A) = LiesIn(m, B)
<1> DEFINE T == A \cap DOMAIN n
<1>1. CASE T = {} BY <1>1 DEF LiesIn
<1>2. CASE T # {}
  <2>1. T \in SUBSET (0 .. k) OBVIOUS
  <2>2. Max(T) \in T BY <1>2, <2>1, MaxIs
  <2> HIDE DEF T
  <2>3. LiesIn(n, A) = n[Max(T)].new BY <1>2 DEF T, LiesIn
  <2>4. B \cap DOMAIN m = T BY DEF T
  <2>5. LiesIn(m, B) = m[Max(T)].new BY <1>2, <2>4 DEF LiesIn
  <2>6. m[Max(T)] = n[Max(T)] BY <2>2 DEF T
  <2> QED BY <2>3, <2>5, <2>6
<1> QED BY <1>1, <1>2

\* The last of them decides.
LEMMA LiesLast ==
  ASSUME NEW k \in Nat, NEW n, NEW A, DOMAIN n \subseteq 0 .. k,
         NEW i \in A \cap DOMAIN n, \A x \in A \cap DOMAIN n : x <= i
  PROVE  LiesIn(n, A) = n[i].new
<1> DEFINE T == A \cap DOMAIN n
<1>1. T \in SUBSET (0 .. k) /\ T # {} OBVIOUS
<1>2. Max(T) \in T /\ \A x \in T : x <= Max(T) BY <1>1, MaxIs
<1>3. Max(T) = i
  <2>1. Max(T) <= i /\ i <= Max(T) BY <1>2
  <2>2. Max(T) \in Nat /\ i \in Nat BY <1>1, <1>2
  <2> QED BY <2>1, <2>2
<1> QED BY <1>1, <1>3 DEF LiesIn

\* The live view has the file as the live segments fold to, and what a segment
\* recorded as its pre-image is what the segments alive at its marker fold to.
FileOK ==
  /\ DOMAIN net \subseteq work
  /\ now = LiesIn(net, Alive)
  /\ \A g \in DOMAIN net : net[g].old = LiesIn(net, AliveAt(g))

LEMMA NetBelow == JournalOK /\ FileOK => Tip \in Nat /\ DOMAIN net \subseteq 0 .. Tip
BY TipIsNat DEF JournalOK, FileOK

LEMMA FileInit == Init => FileOK
<1> SUFFICES ASSUME Init PROVE FileOK OBVIOUS
<1>1. work = {} /\ now = Base /\ net = <<>> BY DEF Init
<1>2. DOMAIN net = {} BY <1>1
<1> QED BY <1>1, <1>2 DEF FileOK, LiesIn

\* A record of the file.
LEMMA FileTouch ==
  ASSUME JournalOK, JournalOK', FileOK, NEW new, Touch(new)
  PROVE  FileOK' /\ \A g \in 0 .. Tip : LiesIn(net', AliveAt(g)) = LiesIn(net, AliveAt(g))
<1>1. Tip \in Nat /\ Equations /\ DOMAIN net \subseteq 0 .. Tip BY EquationsHold, NetBelow
<1>2. /\ Alive' = Alive /\ Tip' = Tip
      /\ \A g \in 0 .. Tip : AliveAt(g)' = AliveAt(g)
  BY RecordAlive DEF Touch, Record
<1>3. /\ DOMAIN net' = DOMAIN net \cup {Tip}
      /\ \A i \in DOMAIN net : i # Tip => net'[i] = net[i]
      /\ net'[Tip] = [old |-> IF Tip \in DOMAIN net THEN net[Tip].old ELSE now, new |-> new]
  BY DEF Touch
<1>4. now' = new /\ work' = work \cup {Tip} BY DEF Touch, Record
<1>5. \A g \in 0 .. Tip : LiesIn(net', AliveAt(g)) = LiesIn(net, AliveAt(g))
  <2> TAKE g \in 0 .. Tip
  <2>1. PICK A : A = AliveAt(g) OBVIOUS
  <2>2. Tip \notin A BY <1>1, <2>1 DEF Equations
  <2>3. A \cap DOMAIN net = A \cap DOMAIN net' BY <1>3, <2>2
  <2>4. \A i \in A \cap DOMAIN net : net'[i] = net[i] BY <1>3, <2>2
  <2>5. LiesIn(net, A) = LiesIn(net', A) BY <1>1, <2>3, <2>4, LiesSame
  <2> QED BY <2>1, <2>5
<1>6. now' = LiesIn(net', Alive')
  <2>1. PICK A : A = Alive OBVIOUS
  <2>2. PICK n : n = net' OBVIOUS
  <2>3. DOMAIN n \subseteq 0 .. Tip BY <1>1, <1>3, <2>2
  <2>4. Tip \in A \cap DOMAIN n BY <1>1, <1>3, <2>1, <2>2 DEF Equations
  <2>5. \A x \in A \cap DOMAIN n : x <= Tip BY <2>3
  <2>6. LiesIn(n, A) = n[Tip].new BY <1>1, <2>3, <2>4, <2>5, LiesLast
  <2>7. n[Tip].new = new BY <1>3, <2>2
  <2> QED BY <1>2, <1>4, <2>1, <2>2, <2>6, <2>7
<1>7. ASSUME NEW g \in DOMAIN net' PROVE net'[g].old = LiesIn(net', AliveAt(g)')
  <2>1. g \in 0 .. Tip BY <1>1, <1>3
  <2>2. LiesIn(net', AliveAt(g)') = LiesIn(net, AliveAt(g)) BY <1>2, <1>5, <2>1
  <2>3. CASE g \in DOMAIN net
    <3>1. net'[g].old = net[g].old
      <4>1. CASE g = Tip BY <1>3, <2>3, <4>1
      <4>2. CASE g # Tip BY <1>3, <2>3, <4>2
      <4> QED BY <4>1, <4>2
    <3>2. net[g].old = LiesIn(net, AliveAt(g)) BY <2>3 DEF FileOK
    <3> QED BY <2>2, <3>1, <3>2
  <2>4. CASE g \notin DOMAIN net
    <3>1. g = Tip /\ net'[g].old = now BY <1>3, <2>4
    <3>2. now = LiesIn(net, Alive) BY DEF FileOK
    <3>3. Alive \cap DOMAIN net = AliveAt(Tip) \cap DOMAIN net
      BY <1>1, <2>4, <3>1 DEF Equations
    <3>4. LiesIn(net, Alive) = LiesIn(net, AliveAt(Tip)) BY <3>3 DEF LiesIn
    <3> QED BY <2>2, <3>1, <3>2, <3>4
  <2> QED BY <2>3, <2>4
<1>8. DOMAIN net' \subseteq work' BY <1>3, <1>4 DEF FileOK
<1> QED BY <1>5, <1>6, <1>7, <1>8 DEF FileOK

\* A marker, after which a set S of segments is alive besides the new one.
LEMMA FileMarker ==
  ASSUME JournalOK, JournalOK', FileOK, NEW r, Grown(r), work' = work, net' = net,
         NEW S, AliveAt(Tip)' = S, now' = LiesIn(net, S)
  PROVE  FileOK' /\ \A g \in 0 .. Tip : AliveAt(g)' = AliveAt(g)
<1>1. Tip \in Nat /\ Equations /\ DOMAIN net \subseteq 0 .. Tip BY EquationsHold, NetBelow
<1>2. Tip' \in Nat /\ Equations' BY EquationsNext
<1>3. Tip' = Tip + 1 BY DEF Grown
<1>4. \A g \in 0 .. Tip : AliveAt(g)' = AliveAt(g) BY <1>1, <1>3, AliveAtKept DEF Grown
<1>5. now' = LiesIn(net', Alive')
  <2>1. Alive' = S \cup {Tip'} BY <1>2 DEF Equations
  <2>2. Tip' \notin DOMAIN net BY <1>1, <1>3
  <2>3. Alive' \cap DOMAIN net = S \cap DOMAIN net BY <2>1, <2>2
  <2> QED BY <2>3 DEF LiesIn
<1>6. ASSUME NEW g \in DOMAIN net' PROVE net'[g].old = LiesIn(net', AliveAt(g)')
  BY <1>1, <1>4 DEF FileOK
<1> QED BY <1>4, <1>5, <1>6 DEF FileOK

LEMMA FileStep == ASSUME JournalOK, JournalOK', FileOK, [Next]_vars PROVE FileOK'
<1>1. CASE UNCHANGED vars \/ Other
  <2>1. work \subseteq work' /\ now' = now /\ net' = net /\ markers' = markers
    BY <1>1 DEF vars, Other, Record
  <2>2. Alive' = Alive /\ \A g \in 0 .. Tip : AliveAt(g)' = AliveAt(g) BY <2>1, RecordAlive
  <2>3. DOMAIN net \subseteq 0 .. Tip BY NetBelow
  <2>4. ASSUME NEW g \in DOMAIN net PROVE net[g].old = LiesIn(net, AliveAt(g)')
    BY <2>2, <2>3 DEF FileOK
  <2> QED BY <2>1, <2>2, <2>4 DEF FileOK
<1>2. ASSUME NEW c \in Contents, Stage(c) PROVE FileOK' BY <1>2, FileTouch DEF Stage
<1>3. CASE Delete BY <1>3, FileTouch DEF Delete
<1>4. CASE Snapshot
  <2>1. PICK r : Grown(r) BY <1>4, SnapshotAlive
  <2>2. AliveAt(Tip)' = Alive /\ now' = LiesIn(net, Alive) /\ work' = work /\ net' = net
    BY <1>4, SnapshotAlive DEF Snapshot, FileOK
  <2> QED BY <2>1, <2>2, FileMarker
<1>5. ASSUME NEW g \in Ids, Travel(g) PROVE FileOK'
  <2>1. PICK r : Grown(r) BY <1>5, TravelAlive
  <2>2. AliveAt(Tip)' = AliveAt(g) BY <1>5, TravelAlive
  <2>3. now' = LiesIn(net, AliveAt(g)) /\ work' = work /\ net' = net
    BY <1>5 DEF Travel, Lies, LiesIn
  <2> QED BY <2>1, <2>2, <2>3, FileMarker
<1> QED BY <1>1, <1>2, <1>3, <1>4, <1>5 DEF Next

\* The pre-images of the journal are the states its reader folds, in every branch.
THEOREM PreimagesAreStates == Spec => [](JournalOK /\ FileOK)
<1>1. Init => JournalOK /\ FileOK BY JournalInit, FileInit
<1>2. JournalOK /\ FileOK /\ [Next]_vars => (JournalOK /\ FileOK)'
  BY JournalStep, FileStep
<1> QED BY <1>1, <1>2, PTL DEF Spec

-----------------------------------------------------------------------------
\* The abstract values of a journal, and what each kind of record makes of them.
cur == [file |-> now]

LEMMA SavedIs == Saved = [n \in 1 .. Tip + 1 |-> [file |-> LiesIn(net, AliveAt(n - 1))]]
BY DEF Saved, Lies, LiesIn

LEMMA SavedNext ==
  Saved' = [n \in 1 .. Tip' + 1 |-> [file |-> LiesIn(net', AliveAt(n - 1)')]]
BY DEF Saved, Lies, LiesIn

LEMMA StoreInit == Init => Store!Init
<1> SUFFICES ASSUME Init PROVE Store!Init OBVIOUS
<1>1. now = Base /\ net = <<>> /\ Tip = 0 BY DEF Init, Tip
<1>2. \A segs : LiesIn(net, segs) = Base
  <2>1. DOMAIN net = {} BY <1>1
  <2> QED BY <2>1 DEF LiesIn
<1>3. Saved = [n \in 1 .. 1 |-> [file |-> Base]] BY <1>1, <1>2, SavedIs
<1>4. Saved = <<[file |-> Base]>> BY <1>3
<1> QED BY <1>1, <1>4 DEF Store!Init

\* When nothing saved shows the file otherwise, nothing saved changes.
LEMMA SavedKept ==
  ASSUME Tip \in Nat, Tip' = Tip,
         \A g \in 0 .. Tip : LiesIn(net', AliveAt(g)') = LiesIn(net, AliveAt(g))
  PROVE  Saved' = Saved
<1>1. ASSUME NEW n \in 1 .. Tip + 1
      PROVE  LiesIn(net', AliveAt(n - 1)') = LiesIn(net, AliveAt(n - 1))
  <2>1. PICK g \in 0 .. Tip : g = n - 1 OBVIOUS
  <2>2. LiesIn(net', AliveAt(g)') = LiesIn(net, AliveAt(g)) OBVIOUS
  <2> QED BY <2>1, <2>2
<1> QED BY <1>1, SavedIs, SavedNext

LEMMA AppendIs ==
  ASSUME NEW k \in Nat, NEW V, NEW f \in [1 .. k -> V], NEW v \in V
  PROVE  Append(f, v) = [n \in 1 .. k + 1 |-> IF n = k + 1 THEN v ELSE f[n]]
<1>1. f \in Seq(V) /\ Len(f) = k OBVIOUS
<1>2. Append(f, v) \in Seq(V) /\ Len(Append(f, v)) = k + 1 BY <1>1
<1>3. Append(f, v) \in [1 .. k + 1 -> V]
  <2>1. \A s \in Seq(V) : s \in [1 .. Len(s) -> V] OBVIOUS
  <2> QED BY <1>2, <2>1
<1>4. \A n \in 1 .. k + 1 : Append(f, v)[n] = IF n = k + 1 THEN v ELSE f[n] BY <1>1
<1> QED BY <1>3, <1>4

\* A marker saves the state it leaves current.
LEMMA MarkerSaves ==
  ASSUME Tip \in Nat, Tip' = Tip + 1, net' = net,
         \A g \in 0 .. Tip : AliveAt(g)' = AliveAt(g),
         NEW v, LiesIn(net, AliveAt(Tip)') = v
  PROVE  Saved' = Append(Saved, [file |-> v])
<1> DEFINE f == [n \in 1 .. Tip + 1 |-> [file |-> LiesIn(net, AliveAt(n - 1))]]
           g == [n \in 1 .. Tip + 2 |-> IF n = Tip + 2 THEN [file |-> v] ELSE f[n]]
           V == {f[n] : n \in 1 .. Tip + 1} \cup {[file |-> v]}
<1>1. Saved = f BY SavedIs
<1>2. Saved' = [n \in 1 .. Tip + 2 |-> [file |-> LiesIn(net, AliveAt(n - 1)')]]
  <2>1. Tip' + 1 = Tip + 2 OBVIOUS
  <2> QED BY <2>1, SavedNext
<1>3. ASSUME NEW n \in 1 .. Tip + 2
      PROVE  [file |-> LiesIn(net, AliveAt(n - 1)')] =
             IF n = Tip + 2 THEN [file |-> v] ELSE f[n]
  <2>1. CASE n = Tip + 2
    <3>1. n - 1 = Tip' BY <2>1
    <3>2. AliveAt(n - 1)' = AliveAt(Tip)' BY <3>1
    <3> QED BY <2>1, <3>2
  <2>2. CASE n # Tip + 2
    <3>1. n \in 1 .. Tip + 1 BY <2>2
    <3>2. PICK h \in 0 .. Tip : h = n - 1 BY <3>1
    <3>3. AliveAt(h)' = AliveAt(h) OBVIOUS
    <3> QED BY <2>2, <3>1, <3>2, <3>3
  <2> QED BY <2>1, <2>2
<1>4. Saved' = g BY <1>2, <1>3
<1>5. f \in [1 .. Tip + 1 -> V] /\ [file |-> v] \in V OBVIOUS
<1> HIDE DEF f, V
<1>6. Append(f, [file |-> v]) = g
  <2>1. Tip + 1 \in Nat /\ (Tip + 1) + 1 = Tip + 2 OBVIOUS
  <2>2. Append(f, [file |-> v]) =
          [n \in 1 .. (Tip + 1) + 1 |-> IF n = (Tip + 1) + 1 THEN [file |-> v] ELSE f[n]]
    BY <1>5, <2>1, AppendIs
  <2> QED BY <2>1, <2>2
<1> QED BY <1>1, <1>4, <1>6

LEMMA TouchPuts ==
  ASSUME JournalOK, JournalOK', FileOK, NEW new, Touch(new)
  PROVE  cur' = [cur EXCEPT !["file"] = new] /\ Saved' = Saved
<1>1. Tip \in Nat BY TipIsNat
<1>2. Tip' = Tip /\ \A g \in 0 .. Tip : AliveAt(g)' = AliveAt(g)
  BY RecordAlive DEF Touch, Record
<1>3. \A g \in 0 .. Tip : LiesIn(net', AliveAt(g)) = LiesIn(net, AliveAt(g)) BY FileTouch
<1>4. Saved' = Saved BY <1>1, <1>2, <1>3, SavedKept
<1>5. now' = new BY DEF Touch
<1> QED BY <1>4, <1>5 DEF cur

LEMMA StoreStep ==
  ASSUME JournalOK, JournalOK', FileOK, FileOK', [Next]_vars
  PROVE  [Store!Next]_<<cur, Saved>>
<1>1. Tip \in Nat BY TipIsNat
<1>2. CASE UNCHANGED vars \/ Other
  <2>1. now' = now /\ net' = net /\ markers' = markers BY <1>2 DEF vars, Other, Record
  <2>2. Tip' = Tip /\ \A g \in 0 .. Tip : AliveAt(g)' = AliveAt(g) BY <2>1, RecordAlive
  <2>3. Saved' = Saved BY <1>1, <2>1, <2>2, SavedKept
  <2> QED BY <2>1, <2>3 DEF cur
<1>3. ASSUME NEW c \in Contents, Stage(c) PROVE Store!Next
  <2>1. cur' = [cur EXCEPT !["file"] = c] /\ Saved' = Saved BY <1>3, TouchPuts DEF Stage
  <2>2. Store!Put("file", c) BY <2>1 DEF Store!Put, cur
  <2> QED BY <2>2 DEF Store!Next
<1>4. CASE Delete
  <2>1. cur' = [cur EXCEPT !["file"] = Absent] /\ Saved' = Saved BY <1>4, TouchPuts DEF Delete
  <2>2. Store!Remove("file") BY <2>1 DEF Store!Remove, cur
  <2> QED BY <2>2 DEF Store!Next
<1>5. CASE Snapshot
  <2>1. PICK r : Grown(r) BY <1>5, SnapshotAlive
  <2>2. AliveAt(Tip)' = Alive BY <1>5, SnapshotAlive
  <2>3. now' = now /\ now = LiesIn(net, Alive) /\ work' = work /\ net' = net
    BY <1>5 DEF Snapshot, FileOK
  <2>4. Tip' = Tip + 1 /\ \A g \in 0 .. Tip : AliveAt(g)' = AliveAt(g)
    BY <2>1, <2>2, <2>3, FileMarker DEF Grown
  <2>5. Saved' = Append(Saved, [file |-> now]) BY <1>1, <2>2, <2>3, <2>4, MarkerSaves
  <2>6. Store!Snapshot BY <2>3, <2>5 DEF Store!Snapshot
  <2> QED BY <2>6 DEF Store!Next
<1>6. ASSUME NEW g \in Ids, Travel(g) PROVE Store!Next
  <2>1. PICK r : Grown(r) BY <1>6, TravelAlive
  <2>2. AliveAt(Tip)' = AliveAt(g) BY <1>6, TravelAlive
  <2>3. now' = LiesIn(net, AliveAt(g)) /\ work' = work /\ net' = net
    BY <1>6 DEF Travel, Lies, LiesIn
  <2>4. Tip' = Tip + 1 /\ \A h \in 0 .. Tip : AliveAt(h)' = AliveAt(h)
    BY <2>1, <2>2, <2>3, FileMarker DEF Grown
  <2>5. PICK v : v = LiesIn(net, AliveAt(g)) OBVIOUS
  <2>6. Saved' = Append(Saved, [file |-> v]) BY <1>1, <2>2, <2>3, <2>4, <2>5, MarkerSaves
  <2>7. g + 1 \in 1 .. Tip + 1 /\ (g + 1) - 1 = g BY <1>1 DEF Ids
  <2>8. Saved[g + 1] = [file |-> v] /\ g + 1 \in DOMAIN Saved BY <2>5, <2>7, SavedIs
  <2>9. cur' = Saved[g + 1] BY <2>3, <2>5, <2>8 DEF cur
  <2>10. Store!Travel(g + 1) BY <2>6, <2>8, <2>9 DEF Store!Travel, cur
  <2> QED BY <2>8, <2>10 DEF Store!Next
<1> QED BY <1>2, <1>3, <1>4, <1>5, <1>6 DEF Next

\* The scan and the fold over the journal are a store that saves the file with
\* every marker and returns it to any of them, whatever the journal's length.
THEOREM StoreImplemented == Spec => StoreSpec
<1>1. Init => Store!Init BY StoreInit
<1>2. JournalOK /\ FileOK /\ (JournalOK /\ FileOK)' /\ [Next]_vars
        => [Store!Next]_<<[file |-> now], Saved>>
  BY StoreStep DEF cur
<1> QED BY <1>1, <1>2, PreimagesAreStates, PTL DEF Spec, StoreSpec, Store!Spec

-----------------------------------------------------------------------------
(* The reports of a file.                                                  *)

\* The members of a finite set of naturals next to a given number.
LEMMA NextIn ==
  ASSUME NEW k \in Nat, NEW T \in SUBSET (0 .. k), NEW j \in T, NEW i \in Nat, i < j
  PROVE  \E p \in T : i < p /\ p <= j /\ \A x \in T : x <= i \/ x >= p
<1> DEFINE U == {x \in T : x > i}
<1>1. U \in SUBSET (0 .. k) /\ j \in U OBVIOUS
<1>2. Min(U) \in U /\ \A x \in U : Min(U) <= x BY <1>1, MinIs
<1>3. PICK p \in U : \A x \in U : p <= x BY <1>2
<1>4. \A x \in T : x <= i \/ x >= p BY <1>3
<1> QED BY <1>1, <1>3, <1>4

LEMMA PrevIn ==
  ASSUME NEW k \in Nat, NEW T \in SUBSET (0 .. k), NEW i \in T, NEW j \in Nat, i < j
  PROVE  \E p \in T : i <= p /\ p < j /\ \A x \in T : x <= p \/ x >= j
<1> DEFINE U == {x \in T : x < j}
<1>1. U \in SUBSET (0 .. k) /\ i \in U OBVIOUS
<1>2. Max(U) \in U /\ \A x \in U : x <= Max(U) BY <1>1, MaxIs
<1>3. PICK p \in U : \A x \in U : x <= p BY <1>2
<1>4. \A x \in T : x <= p \/ x >= j BY <1>3
<1> QED BY <1>1, <1>3, <1>4

\* A chain of changes stays one when those from absent to absent are left out.
Linked(T, old, new) ==
  \A i, j \in T : i < j /\ (\A x \in T : x <= i \/ x >= j) => old[j] = new[i]

Showing(T, old, new) == {i \in T : ~(old[i] = Absent /\ new[i] = Absent)}

LEMMA StillLinked ==
  ASSUME NEW k \in Nat, NEW T \in SUBSET (0 .. k), NEW old, NEW new, Linked(T, old, new)
  PROVE  Linked(Showing(T, old, new), old, new)
<1> DEFINE S == Showing(T, old, new)
<1>1. S \subseteq T /\ \A x \in T : x \notin S => old[x] = Absent /\ new[x] = Absent
  BY DEF Showing
<1> HIDE DEF S
<1>2. SUFFICES ASSUME NEW i \in S, NEW j \in S, i < j, \A x \in S : x <= i \/ x >= j
               PROVE  old[j] = new[i]
  BY DEF S, Linked
<1>3. i \in T /\ j \in T /\ i \in Nat /\ j \in Nat BY <1>1
<1>4. PICK p \in T : i < p /\ p <= j /\ \A x \in T : x <= i \/ x >= p BY <1>2, <1>3, NextIn
<1>5. PICK q \in T : i <= q /\ q < j /\ \A x \in T : x <= q \/ x >= j BY <1>2, <1>3, PrevIn
<1>6. old[p] = new[i] BY <1>3, <1>4 DEF Linked
<1>7. old[j] = new[q] BY <1>3, <1>5 DEF Linked
<1>8. CASE p = j BY <1>6, <1>8
<1>9. CASE p # j
  <2>1. p \in Nat /\ q \in Nat OBVIOUS
  <2>2. p \notin S BY <1>2, <1>3, <1>4, <1>9, <2>1
  <2>3. q # i BY <1>3, <1>4, <1>5, <1>9, <2>1
  <2>4. q \notin S BY <1>2, <1>3, <1>5, <2>1, <2>3
  <2> QED BY <1>1, <1>6, <1>7, <2>2, <2>4
<1> QED BY <1>8, <1>9

\* And begins and ends as before.
LEMMA SameEnds ==
  ASSUME NEW k \in Nat, NEW T \in SUBSET (0 .. k), NEW old, NEW new, Linked(T, old, new),
         Showing(T, old, new) # {}
  PROVE  /\ old[Min(T)] = old[Min(Showing(T, old, new))]
         /\ new[Max(T)] = new[Max(Showing(T, old, new))]
<1> DEFINE S == Showing(T, old, new)
<1>1. S \subseteq T /\ \A x \in T : x \notin S => old[x] = Absent /\ new[x] = Absent
  BY DEF Showing
<1> HIDE DEF S
<1>2. S \in SUBSET (0 .. k) /\ S # {} /\ T # {} BY <1>1 DEF S
<1>3. old[Min(T)] = old[Min(S)]
  <2>1. PICK m \in T : m = Min(T) /\ \A x \in T : m <= x BY <1>2, MinIs
  <2>2. PICK f \in S : f = Min(S) /\ \A x \in S : f <= x BY <1>2, MinIs
  <2>3. f \in T /\ m <= f /\ m \in Nat /\ f \in Nat BY <1>1, <2>1
  <2>4. CASE m # f
    <3>1. m < f BY <2>3, <2>4
    <3>2. m \notin S BY <2>2, <2>3, <3>1
    <3>3. PICK q \in T : m <= q /\ q < f /\ \A x \in T : x <= q \/ x >= f
      BY <2>3, <3>1, PrevIn
    <3>4. q \notin S
      <4>1. q \in Nat OBVIOUS
      <4> QED BY <2>2, <2>3, <3>3, <4>1
    <3>5. old[f] = new[q] BY <2>3, <3>3 DEF Linked
    <3> QED BY <1>1, <2>1, <2>2, <3>2, <3>4, <3>5
  <2> QED BY <2>1, <2>2, <2>4
<1>4. new[Max(T)] = new[Max(S)]
  <2>1. PICK m \in T : m = Max(T) /\ \A x \in T : x <= m BY <1>2, MaxIs
  <2>2. PICK f \in S : f = Max(S) /\ \A x \in S : x <= f BY <1>2, MaxIs
  <2>3. f \in T /\ f <= m /\ m \in Nat /\ f \in Nat BY <1>1, <2>1
  <2>4. CASE m # f
    <3>1. f < m BY <2>3, <2>4
    <3>2. m \notin S BY <2>2, <2>3, <3>1
    <3>3. PICK q \in T : f < q /\ q <= m /\ \A x \in T : x <= f \/ x >= q
      BY <2>3, <3>1, NextIn
    <3>4. q \notin S
      <4>1. q \in Nat OBVIOUS
      <4> QED BY <2>2, <2>3, <3>3, <4>1
    <3>5. old[q] = new[f] BY <2>3, <3>3 DEF Linked
    <3> QED BY <1>1, <2>1, <2>2, <3>2, <3>4, <3>5
  <2> QED BY <2>1, <2>2, <2>4
<1> QED BY <1>3, <1>4 DEF S

\* The live segments with records of the file, with their old and new sides.
Live == Alive \cap DOMAIN net
Old  == [i \in DOMAIN net |-> net[i].old]
New  == [i \in DOMAIN net |-> net[i].new]

LEMMA AliveAtLive ==
  ASSUME JournalOK, NEW j \in Alive
  PROVE  j \in 0 .. Tip /\ AliveAt(j) = Alive \cap (0 .. j - 1)
<1>1. Tip \in Nat /\ Equations BY EquationsHold
<1>2. j \in 0 .. Tip BY AlivePrefix
<1>3. CASE j = Tip
  <2>1. \A x \in AliveAt(Tip) : x \in 0 .. Tip - 1 BY <1>1 DEF Equations
  <2>2. Tip \notin 0 .. Tip - 1 BY <1>1
  <2> QED BY <1>1, <1>2, <1>3, <2>1, <2>2 DEF Equations
<1>4. CASE j # Tip
  <2>1. PICK b \in 1 .. Tip : b - 1 = j BY <1>1, <1>2, <1>4
  <2>2. ~IsTravel(b) /\ AliveAt(b) = Alive \cap (0 .. b - 1) BY <2>1, AlivePrefix
  <2>3. AliveAt(b) = AliveAt(j) \cup {j} BY <2>1, <2>2, AliveAtNext
  <2>4. AliveAt(j) \subseteq 0 .. j - 1 BY <1>2, AliveAtBelow
  <2>5. \A x \in 0 .. j - 1 : x # j BY <1>1, <1>2
  <2>6. \A x : x \in 0 .. b - 1 <=> x = j \/ x \in 0 .. j - 1 BY <1>1, <1>2, <2>1
  <2> QED BY <1>2, <2>2, <2>3, <2>4, <2>5, <2>6
<1> QED BY <1>2, <1>3, <1>4

\* The pre-image of a live segment is what the live segments before it fold to.
LEMMA OldIs ==
  ASSUME JournalOK, FileOK, NEW j \in Live
  PROVE  net[j].old = LiesIn(net, Alive \cap (0 .. j - 1))
BY AliveAtLive DEF FileOK, Live

LEMMA LiveLinked == ASSUME JournalOK, FileOK PROVE Linked(Live, Old, New)
<1> SUFFICES ASSUME NEW i \in Live, NEW j \in Live, i < j, \A x \in Live : x <= i \/ x >= j
             PROVE  net[j].old = net[i].new
  BY DEF Linked, Live, Old, New
<1>1. Tip \in Nat /\ DOMAIN net \subseteq 0 .. Tip BY NetBelow
<1>2. Live \subseteq 0 .. Tip BY <1>1 DEF Live
<1>3. PICK A : A = Alive \cap (0 .. j - 1) OBVIOUS
<1>4. \A x : x \in A \cap DOMAIN net <=> x \in Live /\ x < j BY <1>2, <1>3 DEF Live
<1>5. i \in A \cap DOMAIN net /\ \A x \in A \cap DOMAIN net : x <= i
  <2>1. \A x \in Live : x \in Nat /\ j \in Nat BY <1>2
  <2> QED BY <1>4, <2>1
<1>6. LiesIn(net, A) = net[i].new BY <1>1, <1>5, LiesLast
<1> QED BY <1>3, <1>6, OldIs

\* The folds, in terms of the chain.
LEMMA FoldIs ==
  ASSUME NEW live, live \cap DOMAIN net # {}, NEW m \in DOMAIN net, NEW n \in DOMAIN net,
         m = Min(live \cap DOMAIN net), n = Max(live \cap DOMAIN net)
  PROVE  Fold(live) = [old |-> Old[m], new |-> New[n]]
BY DEF Fold, Old, New

LEMMA FoldOne ==
  ASSUME NEW k \in Nat, DOMAIN net \subseteq 0 .. k, NEW i \in DOMAIN net
  PROVE  Fold({i}) = [old |-> Old[i], new |-> New[i]]
<1>1. {i} \cap DOMAIN net = {i} /\ {i} \in SUBSET (0 .. k) /\ {i} # {} OBVIOUS
<1>2. Min({i}) \in {i} BY <1>1, MinIs
<1>3. Max({i}) \in {i} BY <1>1, MaxIs
<1>4. Min({i}) = i /\ Max({i}) = i BY <1>2, <1>3
<1> QED BY <1>1, <1>4, FoldIs

LEMMA FoldSides ==
  ASSUME NEW k \in Nat, DOMAIN net \subseteq 0 .. k, NEW i \in DOMAIN net
  PROVE  Fold({i}).old = Old[i] /\ Fold({i}).new = New[i]
<1>1. PICK F : F = Fold({i}) OBVIOUS
<1>2. F = [old |-> Old[i], new |-> New[i]] BY <1>1, FoldOne
<1>3. F.old = Old[i] /\ F.new = New[i] BY <1>2
<1> QED BY <1>1, <1>3

LEMMA FoldSome ==
  ASSUME NEW k \in Nat, DOMAIN net \subseteq 0 .. k, NEW live, NEW T,
         T = live \cap DOMAIN net, T # {}
  PROVE  Fold(live) = [old |-> Old[Min(T)], new |-> New[Max(T)]]
<1>1. T \in SUBSET (0 .. k) OBVIOUS
<1>2. Min(T) \in T /\ Max(T) \in T BY <1>1, MinIs, MaxIs
<1> QED BY <1>2, FoldIs

\* A range of the commands has no gaps.
LEMMA RangeIs ==
  ASSUME JournalOK, NEW spec \in Specs
  PROVE  \E a, b \in Int : ParseRange(spec) = a .. b
<1>1. Tip \in Nat BY TipIsNat
<1>2. ASSUME NEW g \in 0 .. Tip PROVE PrevSnapshot(g) \in Int
  <2> DEFINE U == {0} \cup {s \in 1 .. g - 1 : IsSnapshot(s)}
  <2>1. U \in SUBSET (0 .. g) /\ U # {} /\ g \in Nat BY <1>1, <1>2
  <2>2. Max(U) \in U BY <2>1, MaxIs
  <2> QED BY <2>1, <2>2 DEF PrevSnapshot
<1>3. CASE spec = Latest
  <2>1. ParseRange(spec) = LatestRange BY <1>3 DEF ParseRange, Latest
  <2>2. CASE Snapshots = {} BY <1>1, <2>1, <2>2 DEF LatestRange
  <2>3. CASE Snapshots # {}
    <3>1. Snapshots \in SUBSET (0 .. Tip) BY <1>1 DEF Snapshots
    <3>2. PICK s \in 0 .. Tip : s = Max(Snapshots) BY <1>1, <2>3, <3>1, MaxIs
    <3>3. LatestRange = s .. Tip \/ LatestRange = PrevSnapshot(s) .. s - 1
      BY <2>3, <3>2 DEF LatestRange
    <3>4. PrevSnapshot(s) \in Int /\ s \in Int /\ s - 1 \in Int /\ Tip \in Int
      BY <1>1, <1>2
    <3> QED BY <2>1, <3>3, <3>4
  <2> QED BY <2>2, <2>3
<1>4. ASSUME NEW g \in Ids, spec = One(g) PROVE \E a, b \in Int : ParseRange(spec) = a .. b
  <2>1. ParseRange(spec) = PrevSnapshot(g) .. g - 1
    BY <1>4 DEF ParseRange, One, OwnRange
  <2>2. PrevSnapshot(g) \in Int /\ g - 1 \in Int BY <1>1, <1>2 DEF Ids
  <2> QED BY <2>1, <2>2
<1>5. ASSUME NEW a \in 0 .. Tip, NEW b \in 0 .. Tip + 1, spec = Two(a, b)
      PROVE  \E c, d \in Int : ParseRange(spec) = c .. d
  <2>1. ParseRange(spec) = a .. b - 1 BY <1>5 DEF ParseRange, Two, Between
  <2>2. a \in Int /\ b - 1 \in Int BY <1>1
  <2> QED BY <2>1, <2>2
<1>6. spec \in {Two(r[1], r[2]) : r \in {q \in Ids \X (0 .. Tip + 1) : q[1] <= q[2]}}
        => \E a \in 0 .. Tip, b \in 0 .. Tip + 1 : spec = Two(a, b)
  BY DEF Ids
<1> QED BY <1>3, <1>4, <1>5, <1>6 DEF Specs

LEMMA ChainsHold ==
  ASSUME JournalOK, FileOK, NEW a \in Int, NEW b \in Int
  PROVE  Chains(a .. b)
<1> DEFINE R == a .. b
           T == Live \cap R
           S == Showing(T, Old, New)
<1>1. Tip \in Nat /\ DOMAIN net \subseteq 0 .. Tip BY NetBelow
<1>2. T \in SUBSET (0 .. Tip) BY <1>1 DEF Live
<1>3. Linked(T, Old, New)
  <2> SUFFICES ASSUME NEW i \in T, NEW j \in T, i < j, \A x \in T : x <= i \/ x >= j
               PROVE  Old[j] = New[i]
    BY DEF Linked
  <2>1. \A x \in Live : x <= i \/ x >= j
    <3> SUFFICES ASSUME NEW x \in Live, ~(x <= i), ~(x >= j) PROVE FALSE OBVIOUS
    <3>1. x \in Nat /\ i \in Nat /\ j \in Nat BY <1>1, <1>2 DEF Live
    <3>2. x \in T BY <3>1
    <3> QED BY <3>2
  <2> QED BY <2>1, LiveLinked DEF Linked
<1>4. Stanzas(R) = S
  <2>1. \A i \in R \cap Alive : i \notin DOMAIN net => Fold({i}) = Nothing
    <3> TAKE i \in R \cap Alive
    <3>1. i \notin DOMAIN net => {i} \cap DOMAIN net = {} OBVIOUS
    <3> QED BY <3>1 DEF Fold
  <2>2. \A i \in T : Fold({i}) = [old |-> Old[i], new |-> New[i]]
    BY <1>1, FoldOne DEF Live
  <2>3. \A i \in T : Fold({i}) = Nothing <=> Old[i] = Absent /\ New[i] = Absent
    <3>1. \A x, y : [old |-> x, new |-> y] = Nothing <=> x = Absent /\ y = Absent
      BY DEF Nothing
    <3> HIDE DEF T
    <3> QED BY <2>2, <3>1
  <2>4. \A i : i \in Stanzas(R) <=> i \in R \cap Alive /\ Fold({i}) # Nothing
    BY DEF Stanzas
  <2>5. \A i : i \in S <=> i \in T /\ ~(Old[i] = Absent /\ New[i] = Absent)
    BY DEF Showing
  <2>6. \A i : i \in T <=> i \in R \cap Alive /\ i \in DOMAIN net BY DEF Live
  <2> HIDE DEF S, T, R
  <2> QED BY <2>1, <2>3, <2>4, <2>5, <2>6
<1>5. S \in SUBSET (0 .. Tip) /\ S \subseteq T BY <1>2 DEF Showing
<1>6. \A i \in S : Fold({i}).old = Old[i] /\ Fold({i}).new = New[i]
  <2>1. \A i \in S : i \in DOMAIN net BY <1>5 DEF Live
  <2> HIDE DEF S
  <2> QED BY <1>1, <2>1, FoldSides
<1>7. Linked(S, Old, New) BY <1>1, <1>2, <1>3, StillLinked
<1>8. Change(R) = IF S = {} THEN Nothing
                  ELSE [old |-> Fold({Min(S)}).old, new |-> Fold({Max(S)}).new]
  <2>1. T = (R \cap Alive) \cap DOMAIN net BY DEF Live
  <2>2. CASE T = {}
    <3>1. Change(R) = Nothing BY <2>1, <2>2 DEF Change, Fold
    <3>2. S = {} BY <1>5, <2>2
    <3> QED BY <3>1, <3>2
  <2>3. CASE T # {}
    <3>1. Change(R) = [old |-> Old[Min(T)], new |-> New[Max(T)]]
      <4> HIDE DEF T, R
      <4> QED BY <1>1, <2>1, <2>3, FoldSome DEF Change
    <3>2. CASE S = {}
      <4>1. Min(T) \in T /\ Max(T) \in T BY <1>1, <1>2, <2>3, MinIs, MaxIs
      <4>2. Min(T) \notin S /\ Max(T) \notin S BY <3>2
      <4>3. Old[Min(T)] = Absent /\ New[Max(T)] = Absent BY <4>1, <4>2 DEF Showing
      <4> QED BY <3>1, <3>2, <4>3 DEF Nothing
    <3>3. CASE S # {}
      <4>1. Old[Min(T)] = Old[Min(S)] /\ New[Max(T)] = New[Max(S)]
        BY <1>1, <1>2, <1>3, <3>3, SameEnds
      <4>2. Min(S) \in S /\ Max(S) \in S BY <1>1, <1>5, <3>3, MinIs, MaxIs
      <4> HIDE DEF S, T, R
      <4>3. PICK p \in S, q \in S : p = Min(S) /\ q = Max(S) BY <4>2
      <4>4. Fold({p}).old = Old[p] /\ Fold({q}).new = New[q] BY <1>6
      <4> QED BY <3>1, <3>3, <4>1, <4>3, <4>4
    <3> QED BY <3>2, <3>3
  <2> QED BY <2>2, <2>3
<1> HIDE DEF R, T, S
<1>9. \A i, j \in S : i < j /\ (\A x \in S : x <= i \/ x >= j)
        => Fold({j}).old = Fold({i}).new
  BY <1>6, <1>7 DEF Linked
<1>10. Chains(R) BY <1>4, <1>8, <1>9 DEF Chains
<1> QED BY <1>10 DEF R

\* What was alive at a marker that is not dimmed is alive still.
LEMMA ReachableIs ==
  ASSUME JournalOK, NEW g \in 0 .. Tip, Reachable(g)
  PROVE  AliveAt(g) = Alive \cap (0 .. g - 1)
<1>1. CASE g = 0 BY <1>1, AliveAtStart
<1>2. CASE g # 0
  <2>1. g \in 1 .. Tip /\ g - 1 \in Alive BY <1>2, TipIsNat DEF Reachable
  <2> QED BY <2>1, AlivePrefix
<1> QED BY <1>1, <1>2

LEMMA EachAddsUpHolds == JournalOK /\ FileOK => EachAddsUp
<1> SUFFICES ASSUME JournalOK, FileOK PROVE EachAddsUp OBVIOUS
<1>1. Tip \in Nat /\ DOMAIN net \subseteq 0 .. Tip /\ Alive \subseteq 0 .. Tip
  BY NetBelow, AlivePrefix
<1>2. \A range \in {ParseRange(spec) : spec \in Specs} : Chains(range)
  BY RangeIs, ChainsHold
<1>3. ASSUME NEW a \in {0} \cup Snapshots, NEW b \in Snapshots \cup {Tip + 1},
             a <= b, Reachable(a), b <= Tip => Reachable(b),
             NEW from, from = Lies(AliveAt(a)),
             NEW to, to = Lies(IF b > Tip THEN Alive ELSE AliveAt(b)),
             NEW shown, shown = Between(a, b) \cap Alive
      PROVE  IF shown \cap DOMAIN net = {} THEN from = to
             ELSE Fold(shown) = [old |-> from, new |-> to]
  <2>1. a \in 0 .. Tip /\ b \in 0 .. Tip + 1 BY <1>1 DEF Snapshots
  <2>2. PICK A : A = Alive \cap (0 .. a - 1) OBVIOUS
  <2>3. PICK B : B = Alive \cap (0 .. b - 1) OBVIOUS
  <2>4. from = LiesIn(net, A)
    <3>1. AliveAt(a) = A BY <1>3, <2>1, <2>2, ReachableIs
    <3> QED BY <1>3, <3>1 DEF Lies, LiesIn
  <2>5. to = LiesIn(net, B)
    <3>1. CASE b > Tip
      <4>1. b - 1 = Tip BY <1>1, <2>1, <3>1
      <4>2. B = Alive BY <1>1, <2>3, <4>1
      <4> QED BY <1>3, <3>1, <4>2 DEF Lies, LiesIn
    <3>2. CASE ~(b > Tip)
      <4>1. b \in 0 .. Tip /\ Reachable(b) BY <1>1, <1>3, <2>1, <3>2
      <4>2. AliveAt(b) = B BY <2>3, <4>1, ReachableIs
      <4> QED BY <1>3, <3>2, <4>2 DEF Lies, LiesIn
    <3> QED BY <3>1, <3>2
  <2>6. PICK T : T = shown \cap DOMAIN net OBVIOUS
  <2>7. \A x : x \in T <=> x \in Live /\ x \in a .. b - 1
    BY <1>3, <2>6 DEF Between, Live
  <2>8. /\ \A x : x \in A \cap DOMAIN net <=> x \in Live /\ x \in 0 .. a - 1
        /\ \A x : x \in B \cap DOMAIN net <=> x \in Live /\ x \in 0 .. b - 1
    BY <2>2, <2>3 DEF Live
  <2>9. Live \subseteq 0 .. Tip BY <1>1 DEF Live
  <2>10. CASE T = {}
    <3>1. \A x \in Live : x \in 0 .. a - 1 <=> x \in 0 .. b - 1
      BY <1>3, <2>1, <2>7, <2>9, <2>10
    <3>2. A \cap DOMAIN net = B \cap DOMAIN net BY <2>8, <3>1
    <3>3. LiesIn(net, A) = LiesIn(net, B) BY <3>2 DEF LiesIn
    <3> QED BY <2>4, <2>5, <2>6, <2>10, <3>3
  <2>11. CASE T # {}
    <3>1. T \in SUBSET (0 .. Tip) BY <2>7, <2>9
    <3>2. PICK m \in T : m = Min(T) /\ \A x \in T : m <= x BY <1>1, <2>11, <3>1, MinIs
    <3>3. PICK n \in T : n = Max(T) /\ \A x \in T : x <= n BY <1>1, <2>11, <3>1, MaxIs
    <3>4. Fold(shown) = [old |-> Old[m], new |-> New[n]]
      BY <1>1, <2>6, <2>11, <3>2, <3>3, FoldSome
    <3>5. m \in DOMAIN net /\ n \in DOMAIN net /\ m \in Live /\ n \in Live BY <2>6, <2>7
    <3>6. net[m].old = from
      <4>1. PICK M : M = Alive \cap (0 .. m - 1) OBVIOUS
      <4>2. net[m].old = LiesIn(net, M) BY <3>5, <4>1, OldIs
      <4>3. \A x \in Live : x \in 0 .. m - 1 <=> x \in 0 .. a - 1
        <5>1. m \in a .. b - 1 /\ \A x \in Live : x \in Nat BY <2>7, <2>9
        <5>2. ASSUME NEW x \in Live, x \in 0 .. m - 1, x >= a PROVE FALSE
          <6>1. x \in a .. b - 1 BY <2>1, <5>1, <5>2
          <6>2. x \in T BY <2>7, <6>1
          <6>3. m <= x BY <3>2, <6>2
          <6> QED BY <5>1, <5>2, <6>3, <2>1
        <5> QED BY <2>1, <5>1, <5>2
      <4>4. M \cap DOMAIN net = A \cap DOMAIN net
        <5>1. \A x : x \in M \cap DOMAIN net <=> x \in Live /\ x \in 0 .. m - 1
          BY <4>1 DEF Live
        <5> QED BY <2>8, <4>3, <5>1
      <4>5. LiesIn(net, M) = LiesIn(net, A) BY <4>4 DEF LiesIn
      <4> QED BY <2>4, <4>2, <4>5
    <3>7. net[n].new = to
      <4>1. n \in a .. b - 1 /\ n \in 0 .. b - 1 BY <2>1, <2>7
      <4>2. n \in B \cap DOMAIN net BY <2>8, <3>5, <4>1
      <4>3. \A x \in B \cap DOMAIN net : x <= n
        <5> TAKE x \in B \cap DOMAIN net
        <5>1. x \in Live /\ x \in 0 .. b - 1 BY <2>8
        <5>2. CASE x \in a .. b - 1
          <6>1. x \in T BY <2>7, <5>1, <5>2
          <6> QED BY <3>3, <6>1
        <5>3. CASE x \notin a .. b - 1 BY <2>1, <4>1, <5>1, <5>3
        <5> QED BY <5>2, <5>3
      <4>4. LiesIn(net, B) = net[n].new BY <1>1, <4>2, <4>3, LiesLast
      <4> QED BY <2>5, <4>4
    <3>8. Old[m] = from /\ New[n] = to BY <3>5, <3>6, <3>7 DEF Old, New
    <3> QED BY <2>6, <2>11, <3>4, <3>8
  <2> QED BY <2>10, <2>11
<1>4. \A a \in {0} \cup Snapshots, b \in Snapshots \cup {Tip + 1} :
        a <= b /\ Reachable(a) /\ (b <= Tip => Reachable(b)) =>
          IF (Between(a, b) \cap Alive) \cap DOMAIN net = {}
          THEN Lies(AliveAt(a)) = Lies(IF b > Tip THEN Alive ELSE AliveAt(b))
          ELSE Fold(Between(a, b) \cap Alive) =
                 [old |-> Lies(AliveAt(a)), new |-> Lies(IF b > Tip THEN Alive ELSE AliveAt(b))]
  <2> TAKE a \in {0} \cup Snapshots, b \in Snapshots \cup {Tip + 1}
  <2> HAVE a <= b /\ Reachable(a) /\ (b <= Tip => Reachable(b))
  <2>1. PICK from : from = Lies(AliveAt(a)) OBVIOUS
  <2>2. PICK to : to = Lies(IF b > Tip THEN Alive ELSE AliveAt(b)) OBVIOUS
  <2>3. PICK shown : shown = Between(a, b) \cap Alive OBVIOUS
  <2>4. IF shown \cap DOMAIN net = {} THEN from = to
        ELSE Fold(shown) = [old |-> from, new |-> to]
    BY <1>3, <2>1, <2>2, <2>3
  <2> QED BY <2>1, <2>2, <2>3, <2>4
<1> QED BY <1>2, <1>4, Zenon DEF EachAddsUp

\* The stanzas of --each add up to the review of the range, and that is the
\* difference of the two states at its ends, for journals of every length.
THEOREM EachAddsUpAlways == Spec => []EachAddsUp
BY PreimagesAreStates, EachAddsUpHolds, PTL
===========================================================================
