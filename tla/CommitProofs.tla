---------------------------- MODULE CommitProofs ----------------------------
(***************************************************************************)
(* Why the journal of a tree of directories replays to the view that wrote *)
(* it, why a commit leaves the base a tree of directories whatever happens *)
(* to it, and why it leaves it as the view was: the type invariant,        *)
(* ReplayIsView, ReviewComplete, AddedIsNew, PlanRuns, CommitExact and     *)
(* NothingLost of Commit, for any names, depth, base filesystems and       *)
(* bounds.                                                                 *)
(*                                                                         *)
(* ReplayIsView is not inductive.  Restored is a recursion over the paths; *)
(* its fixpoint is told without recursion by Follows (every path resolves  *)
(* through what its parent shows), which an operation preserves only       *)
(* because the view is closed under parents that are directories (Tidy),   *)
(* no node of the tree with a backing sleeps under a name that is not      *)
(* visible, where a later create would bring it back (Dormant), and what   *)
(* is shown is there (Backed).  Shows is their conjunction and holds until *)
(* a commit leaves the view; TypeInv adds what the steps of a commit need: *)
(* the operations still to do move only between names and scratch files    *)
(* (Planned), so that no move goes below itself.                           *)
(*                                                                         *)
(* A review is of the last segment: Since says that its tree is the        *)
(* difference between the view and the view the segment began with, every  *)
(* path compared with the place its directory had then (Told); from it     *)
(* follow ReviewComplete and AddedIsNew.                                   *)
(*                                                                         *)
(* What the disk is after each prefix of a plan is said by three phases:   *)
(* Saving (what is moved goes to scratch files, deepest first), Placing    *)
(* (each goes to its new name, parents first, until the base is Placed)    *)
(* and Writing (deletes and the store, until the base is the view).  Each  *)
(* speaks of the work as the commit found it (Ready), which CommitInv      *)
(* keeps between commits.                                                  *)
(*                                                                         *)
(* The lemmas go from paths and prefixes to the fold of one record, to the *)
(* plan, to the disk after one operation, and to the actions; then come    *)
(* the reviews, and the phases of a commit.                                *)
(***************************************************************************)
EXTENDS Commit, SequenceTheorems, FiniteSetTheorems, TLAPS

-----------------------------------------------------------------------------
(* Paths.                                                                  *)

N == Range(Names)

LEMMA PathsAre ==
  \A p : p \in Paths <=> p \in Seq(N) /\ Len(p) \in 1 .. Depth
<1> SUFFICES ASSUME NEW p PROVE p \in Paths <=> p \in Seq(N) /\ Len(p) \in 1 .. Depth
  OBVIOUS
<1>1. ASSUME p \in Paths PROVE p \in Seq(N) /\ Len(p) \in 1 .. Depth
  <2>1. PICK n \in 1 .. Depth : p \in [1 .. n -> N] BY <1>1 DEF Paths, N
  <2>2. n \in Nat BY DirTreeAssumption
  <2>3. p \in Seq(N) BY <2>1, <2>2, SeqDef
  <2>4. Len(p) = n BY <2>1, <2>2, <2>3
  <2> QED BY <2>3, <2>4
<1>2. ASSUME p \in Seq(N), Len(p) \in 1 .. Depth PROVE p \in Paths
  BY <1>2, LenProperties DEF Paths, N
<1> QED BY <1>1, <1>2

SubSeqIs(p, n, S) == /\ SubSeq(p, 1, n) \in Seq(S) /\ Len(SubSeq(p, 1, n)) = n
                     /\ \A i \in 1 .. n : SubSeq(p, 1, n)[i] = p[i]

LEMMA InitialIs ==
  ASSUME NEW S, NEW p, NEW n \in Nat, \A i \in 1 .. n : p[i] \in S
  PROVE  SubSeqIs(p, n, S)
<1>1. 1 \in Int /\ n \in Int OBVIOUS
<1>2. /\ SubSeq(p, 1, n) \in Seq(S)
      /\ Len(SubSeq(p, 1, n)) = IF 1 <= n THEN n - 1 + 1 ELSE 0
      /\ \A i \in 1 .. n - 1 + 1 : SubSeq(p, 1, n)[i] = p[1 + i - 1]
  BY <1>1, SubSeqProperties
<1>3. \A i \in 1 .. n : i \in 1 .. n - 1 + 1 /\ 1 + i - 1 = i OBVIOUS
<1>4. \A i \in 1 .. n : SubSeq(p, 1, n)[i] = p[i] BY <1>2, <1>3
<1> QED BY <1>2, <1>4 DEF SubSeqIs

\* A path and the one it is below.
LEMMA FrontIs ==
  ASSUME NEW S, NEW p \in Seq(S), p # << >>
  PROVE  /\ Front(p) \in Seq(S) /\ Len(Front(p)) = Len(p) - 1 /\ Last(p) \in S
         /\ Len(p) \in Nat \ {0} /\ p[Len(p)] = Last(p)
         /\ \A i \in 1 .. Len(p) - 1 : Front(p)[i] = p[i]
         /\ Append(Front(p), Last(p)) = p
<1>1. Len(p) \in Nat \ {0} /\ \A i \in 1 .. Len(p) : p[i] \in S BY EmptySeq, ElementOfSeq
<1>2. /\ Front(p) \in Seq(S) /\ Len(Front(p)) = Len(p) - 1
      /\ \A i \in 1 .. Len(p) - 1 : Front(p)[i] = p[i]
  <2>1. PICK n \in Nat : n = Len(p) - 1 BY <1>1
  <2>2. SubSeqIs(p, n, S) BY <1>1, <2>1, InitialIs
  <2> QED BY <2>1, <2>2 DEF Front, SubSeqIs
<1>3. Last(p) \in S /\ p[Len(p)] = Last(p) BY <1>1 DEF Last
<1>4. Append(Front(p), Last(p)) = p
  <2> DEFINE q == Append(Front(p), Last(p))
  <2>1. /\ q \in Seq(S) /\ Len(q) = Len(p)
        /\ \A i \in 1 .. Len(p) - 1 : q[i] = p[i]
        /\ q[Len(p)] = p[Len(p)]
    BY <1>1, <1>2, <1>3, AppendProperties
  <2> HIDE DEF q
  <2>2. \A i \in 1 .. Len(q) : q[i] = p[i] BY <1>1, <2>1
  <2>3. q = p BY <2>1, <2>2, SeqEqual
  <2> QED BY <2>3 DEF q
<1> QED BY <1>1, <1>2, <1>3, <1>4

LEMMA PrefixIs ==
  ASSUME NEW S, NEW p \in Seq(S), NEW q \in Seq(S)
  PROVE  IsPrefix(p, q) <=> Len(p) <= Len(q) /\ \A i \in 1 .. Len(p) : p[i] = q[i]
<1>1. Len(p) \in Nat /\ Len(q) \in Nat /\ \A i \in 1 .. Len(q) : q[i] \in S
  BY LenProperties, ElementOfSeq
<1>2. CASE ~(Len(p) <= Len(q)) BY <1>2 DEF IsPrefix
<1>3. CASE Len(p) <= Len(q)
  <2>1. PICK r : r = SubSeq(q, 1, Len(p)) OBVIOUS
  <2>2. SubSeqIs(q, Len(p), S) BY <1>1, <1>3, InitialIs
  <2>3. r \in Seq(S) /\ Len(r) = Len(p) /\ \A i \in 1 .. Len(p) : r[i] = q[i]
    BY <2>1, <2>2 DEF SubSeqIs
  <2>4. SubSeq(p, 1, Len(p)) = p BY SubSeqFull
  <2>5. p = r <=> \A i \in 1 .. Len(p) : p[i] = q[i]
    BY <2>3, SeqEqual
  <2> QED BY <1>3, <2>1, <2>4, <2>5 DEF IsPrefix
<1> QED BY <1>2, <1>3

LEMMA PrefixSelf == ASSUME NEW S, NEW p \in Seq(S) PROVE IsPrefix(p, p)
BY PrefixIs, LenProperties

LEMMA PrefixTrans ==
  ASSUME NEW S, NEW p \in Seq(S), NEW q \in Seq(S), NEW r \in Seq(S), IsPrefix(p, q), IsPrefix(q, r)
  PROVE  IsPrefix(p, r)
<1>1. Len(p) \in Nat /\ Len(q) \in Nat /\ Len(r) \in Nat BY LenProperties
<1>2. Len(p) <= Len(q) /\ \A i \in 1 .. Len(p) : p[i] = q[i] BY PrefixIs
<1>3. Len(q) <= Len(r) /\ \A i \in 1 .. Len(q) : q[i] = r[i] BY PrefixIs
<1>4. Len(p) <= Len(r) /\ \A i \in 1 .. Len(p) : p[i] = r[i] BY <1>1, <1>2, <1>3
<1> QED BY <1>4, PrefixIs

LEMMA PrefixAnti ==
  ASSUME NEW S, NEW p \in Seq(S), NEW q \in Seq(S), IsPrefix(p, q), Len(q) <= Len(p)
  PROVE  p = q
<1>1. Len(p) \in Nat /\ Len(q) \in Nat BY LenProperties
<1>2. Len(p) <= Len(q) /\ \A i \in 1 .. Len(p) : p[i] = q[i] BY PrefixIs
<1>3. Len(p) = Len(q) BY <1>1, <1>2
<1> QED BY <1>2, <1>3, SeqEqual

\* Of two paths above the same one the shorter is above the longer.
LEMMA PrefixChain ==
  ASSUME NEW S, NEW a \in Seq(S), NEW b \in Seq(S), NEW q \in Seq(S),
         IsPrefix(a, q), IsPrefix(b, q), Len(a) <= Len(b)
  PROVE  IsPrefix(a, b)
<1>1. Len(a) \in Nat /\ Len(b) \in Nat BY LenProperties
<1>2. \A i \in 1 .. Len(a) : a[i] = q[i] BY PrefixIs
<1>3. \A i \in 1 .. Len(b) : b[i] = q[i] BY PrefixIs
<1>4. \A i \in 1 .. Len(a) : a[i] = b[i] BY <1>1, <1>2, <1>3
<1> QED BY <1>4, PrefixIs

LEMMA PrefixEither ==
  ASSUME NEW S, NEW a \in Seq(S), NEW b \in Seq(S), NEW q \in Seq(S), IsPrefix(a, q), IsPrefix(b, q)
  PROVE  IsPrefix(a, b) \/ IsPrefix(b, a)
<1>1. Len(a) \in Nat /\ Len(b) \in Nat BY LenProperties
<1>2. Len(a) <= Len(b) \/ Len(b) <= Len(a) BY <1>1
<1> QED BY <1>2, PrefixChain

LEMMA PrefixSame ==
  ASSUME NEW S, NEW p \in Seq(S), NEW q \in Seq(S), IsPrefix(p, q), IsPrefix(q, p)
  PROVE  p = q
<1>1. Len(q) <= Len(p) BY PrefixIs
<1> QED BY <1>1, PrefixAnti

LEMMA PrefixFront ==
  ASSUME NEW S, NEW p \in Seq(S), NEW q \in Seq(S), q # << >>
  PROVE  /\ IsPrefix(Front(q), q) /\ Front(q) # q /\ Front(q) \in Seq(S)
         /\ IsPrefix(p, q) <=> p = q \/ IsPrefix(p, Front(q))
         /\ IsStrictPrefix(p, q) <=> IsPrefix(p, Front(q))
<1>1. /\ Front(q) \in Seq(S) /\ Len(Front(q)) = Len(q) - 1 /\ Len(q) \in Nat \ {0}
      /\ \A i \in 1 .. Len(q) - 1 : Front(q)[i] = q[i]
  BY FrontIs
<1>2. Len(p) \in Nat BY LenProperties
<1>3. IsPrefix(Front(q), q) BY <1>1, PrefixIs
<1>4. Front(q) # q BY <1>1
<1>5. ASSUME IsPrefix(p, q), p # q PROVE IsPrefix(p, Front(q))
  <2>1. Len(p) <= Len(q) BY <1>5, PrefixIs
  <2>2. ~(Len(q) <= Len(p)) BY <1>5, PrefixAnti
  <2>3. Len(p) <= Len(Front(q)) BY <1>1, <1>2, <2>1, <2>2
  <2> QED BY <1>1, <1>3, <1>5, <2>3, PrefixChain
<1>6. ASSUME IsPrefix(p, Front(q)) PROVE IsPrefix(p, q) /\ p # q
  <2>1. IsPrefix(p, q) BY <1>1, <1>3, <1>6, PrefixTrans
  <2>2. Len(p) <= Len(Front(q)) BY <1>1, <1>6, PrefixIs
  <2> QED BY <1>1, <1>2, <2>1, <2>2
<1>7. p = q => IsPrefix(p, q) BY PrefixSelf
<1> QED BY <1>1, <1>3, <1>4, <1>5, <1>6, <1>7 DEF IsStrictPrefix

IsRebase(R, q, p, r, S) ==
  /\ R \in Seq(S) /\ Len(R) = Len(r) + (Len(q) - Len(p))
  /\ Len(q) - Len(p) \in Nat /\ Len(r) \in Nat /\ Len(p) \in Nat /\ Len(q) \in Nat
  /\ \A i \in 1 .. Len(r) : R[i] = r[i]
  /\ \A i \in 1 .. Len(q) - Len(p) : R[Len(r) + i] = q[Len(p) + i]

LEMMA RebaseIs ==
  ASSUME NEW S, NEW p \in Seq(S), NEW q \in Seq(S), NEW r \in Seq(S), IsPrefix(p, q)
  PROVE  IsRebase(Rebase(q, p, r), q, p, r, S)
<1>1. /\ Len(p) \in Nat /\ Len(q) \in Nat /\ Len(r) \in Nat /\ Len(p) <= Len(q)
      /\ \A i \in 1 .. Len(q) : q[i] \in S
  BY LenProperties, PrefixIs, ElementOfSeq
<1>2. PICK m, n : m = Len(p) + 1 /\ n = Len(q) OBVIOUS
<1>3. PICK t : t = SubSeq(q, m, n) OBVIOUS
<1>4. PICK k \in Nat : k = Len(q) - Len(p)
  <2>1. Len(q) - Len(p) \in Nat BY <1>1
  <2> QED BY <2>1
<1>5. t \in Seq(S) /\ Len(t) = k /\ \A i \in 1 .. k : t[i] = q[Len(p) + i]
  <2>1. m \in Int /\ n \in Int /\ (\A i \in m .. n : q[i] \in S) BY <1>1, <1>2
  <2>2. /\ t \in Seq(S) /\ Len(t) = IF m <= n THEN n - m + 1 ELSE 0
        /\ \A i \in 1 .. n - m + 1 : t[i] = q[m + i - 1]
    BY <1>3, <2>1, SubSeqProperties
  <2>3. n - m + 1 = k /\ (~(m <= n) => k = 0) BY <1>1, <1>2, <1>4
  <2>4. \A i \in 1 .. k : m + i - 1 = Len(p) + i BY <1>1, <1>2, <1>4
  <2> QED BY <2>2, <2>3, <2>4
<1>6. Rebase(q, p, r) = r \o t BY <1>2, <1>3 DEF Rebase
<1>7. /\ r \o t \in Seq(S) /\ Len(r \o t) = Len(r) + Len(t)
      /\ \A i \in 1 .. Len(r) + Len(t) : (r \o t)[i] = IF i <= Len(r) THEN r[i] ELSE t[i - Len(r)]
  BY <1>5, ConcatProperties
<1>8. \A i \in 1 .. Len(r) : (r \o t)[i] = r[i] BY <1>1, <1>5, <1>7
<1>9. \A i \in 1 .. k : (r \o t)[Len(r) + i] = q[Len(p) + i]
  <2> TAKE i \in 1 .. k
  <2>1. Len(r) + i \in 1 .. Len(r) + Len(t) /\ ~(Len(r) + i <= Len(r)) /\ Len(r) + i - Len(r) = i
    BY <1>1, <1>5
  <2> QED BY <1>5, <1>7, <2>1
<1> QED BY <1>1, <1>4, <1>5, <1>6, <1>7, <1>8, <1>9 DEF IsRebase

LEMMA RebaseBack ==
  ASSUME NEW S, NEW p \in Seq(S), NEW q \in Seq(S), NEW r \in Seq(S), IsPrefix(p, q)
  PROVE  /\ Rebase(q, p, r) \in Seq(S) /\ IsPrefix(r, Rebase(q, p, r))
         /\ Rebase(Rebase(q, p, r), r, p) = q
         /\ Rebase(q, p, r) = r <=> p = q
<1>1. PICK R : R = Rebase(q, p, r) OBVIOUS
<1>2. /\ R \in Seq(S) /\ Len(R) = Len(r) + (Len(q) - Len(p))
      /\ Len(q) - Len(p) \in Nat /\ Len(r) \in Nat /\ Len(q) \in Nat /\ Len(p) \in Nat
      /\ \A i \in 1 .. Len(r) : R[i] = r[i]
      /\ \A i \in 1 .. Len(q) - Len(p) : R[Len(r) + i] = q[Len(p) + i]
  <2>1. IsRebase(R, q, p, r, S) BY <1>1, RebaseIs
  <2> QED BY <2>1 DEF IsRebase
<1>3. IsPrefix(r, R)
  <2>1. Len(r) <= Len(R) /\ \A i \in 1 .. Len(r) : r[i] = R[i] BY <1>2
  <2> QED BY <1>2, <2>1, PrefixIs
<1>4. Rebase(R, r, p) = q
  <2>1. PICK Q : Q = Rebase(R, r, p) OBVIOUS
  <2>2. /\ Q \in Seq(S) /\ Len(Q) = Len(p) + (Len(R) - Len(r))
        /\ \A i \in 1 .. Len(p) : Q[i] = p[i]
        /\ \A i \in 1 .. Len(R) - Len(r) : Q[Len(p) + i] = R[Len(r) + i]
    <3>1. IsRebase(Q, R, r, p, S) BY <1>2, <1>3, <2>1, RebaseIs
    <3> QED BY <3>1 DEF IsRebase
  <2>3. Len(Q) = Len(q) BY <1>2, <2>2
  <2>4. \A i \in 1 .. Len(p) : p[i] = q[i] BY PrefixIs
  <2>5. ASSUME NEW i \in 1 .. Len(q) PROVE Q[i] = q[i]
    <3>1. CASE i \in 1 .. Len(p) BY <2>2, <2>4, <3>1
    <3>2. CASE i \notin 1 .. Len(p)
      <4>1. PICK j \in 1 .. Len(q) - Len(p) : i = Len(p) + j
        <5>1. i - Len(p) \in 1 .. Len(q) - Len(p) /\ i = Len(p) + (i - Len(p)) BY <1>2, <3>2
        <5> QED BY <5>1
      <4>2. j \in 1 .. Len(R) - Len(r) BY <1>2, <4>1
      <4> QED BY <1>2, <2>2, <4>1, <4>2
    <3> QED BY <3>1, <3>2
  <2> QED BY <2>1, <2>2, <2>3, <2>5, SeqEqual
<1>5. ASSUME R = r PROVE p = q
  <2>1. Len(q) <= Len(p) BY <1>2, <1>5
  <2> QED BY <2>1, PrefixAnti
<1>6. ASSUME p = q PROVE R = r
  <2>1. Len(R) = Len(r) BY <1>2, <1>6
  <2> QED BY <1>2, <2>1, SeqEqual
<1> QED BY <1>1, <1>2, <1>3, <1>4, <1>5, <1>6

\* Of two paths moved along, one stays above the other.
LEMMA RebaseBoth ==
  ASSUME NEW S, NEW p \in Seq(S), NEW b \in Seq(S), NEW q \in Seq(S), NEW r \in Seq(S),
         IsPrefix(p, b), IsPrefix(b, q)
  PROVE  /\ IsPrefix(Rebase(b, p, r), Rebase(q, p, r))
         /\ Rebase(b, p, r) = Rebase(q, p, r) => b = q
<1>1. IsPrefix(p, q) BY PrefixTrans
<1>2. PICK B, Q : B = Rebase(b, p, r) /\ Q = Rebase(q, p, r) OBVIOUS
<1>3. IsRebase(B, b, p, r, S) BY <1>2, RebaseIs
<1>4. IsRebase(Q, q, p, r, S) BY <1>1, <1>2, RebaseIs
<1>5. /\ B \in Seq(S) /\ Len(B) = Len(r) + (Len(b) - Len(p)) /\ Len(b) - Len(p) \in Nat
      /\ \A i \in 1 .. Len(r) : B[i] = r[i]
      /\ \A i \in 1 .. Len(b) - Len(p) : B[Len(r) + i] = b[Len(p) + i]
      /\ Len(r) \in Nat /\ Len(p) \in Nat /\ Len(b) \in Nat
  BY <1>3 DEF IsRebase
<1>6. /\ Q \in Seq(S) /\ Len(Q) = Len(r) + (Len(q) - Len(p)) /\ Len(q) \in Nat
      /\ \A i \in 1 .. Len(r) : Q[i] = r[i]
      /\ \A i \in 1 .. Len(q) - Len(p) : Q[Len(r) + i] = q[Len(p) + i]
  BY <1>4 DEF IsRebase
<1>7. Len(b) <= Len(q) /\ \A i \in 1 .. Len(b) : b[i] = q[i] BY PrefixIs
<1>8. Len(B) <= Len(Q) BY <1>5, <1>6, <1>7
<1>9. ASSUME NEW i \in 1 .. Len(B) PROVE B[i] = Q[i]
  <2>1. CASE i \in 1 .. Len(r) BY <1>5, <1>6, <2>1
  <2>2. CASE i \notin 1 .. Len(r)
    <3>1. PICK j \in 1 .. Len(b) - Len(p) : i = Len(r) + j
      <4>1. i - Len(r) \in 1 .. Len(b) - Len(p) /\ i = Len(r) + (i - Len(r)) BY <1>5, <2>2
      <4> QED BY <4>1
    <3>2. j \in 1 .. Len(q) - Len(p) /\ Len(p) + j \in 1 .. Len(b) BY <1>5, <1>6, <1>7, <3>1
    <3> QED BY <1>5, <1>6, <1>7, <3>1, <3>2
  <2> QED BY <2>1, <2>2
<1>10. IsPrefix(B, Q) BY <1>5, <1>6, <1>8, <1>9, PrefixIs
<1>11. ASSUME B = Q PROVE b = q
  <2>1. Len(q) <= Len(b) BY <1>5, <1>6, <1>11
  <2> QED BY <2>1, PrefixAnti
<1> QED BY <1>2, <1>10, <1>11

\* The parent of a path that was moved along is what its parent became.
LEMMA RebaseFront ==
  ASSUME NEW S, NEW p \in Seq(S), NEW q \in Seq(S), NEW r \in Seq(S), IsStrictPrefix(p, q)
  PROVE  /\ q # << >> /\ Rebase(q, p, r) # << >>
         /\ Front(Rebase(q, p, r)) = Rebase(Front(q), p, r)
         /\ Last(Rebase(q, p, r)) = Last(q)
<1>1. IsPrefix(p, q) /\ p # q BY DEF IsStrictPrefix
<1>2. Len(q) \in Nat /\ Len(p) \in Nat /\ Len(p) < Len(q)
  <2>1. ~(Len(q) <= Len(p)) BY <1>1, PrefixAnti
  <2> QED BY <2>1, LenProperties
<1>3. q # << >> BY <1>2, EmptySeq
<1>4. PICK f : f = Front(q) OBVIOUS
<1>5. /\ f \in Seq(S) /\ Len(f) = Len(q) - 1 /\ IsPrefix(p, f)
      /\ \A i \in 1 .. Len(q) - 1 : f[i] = q[i]
  BY <1>1, <1>3, <1>4, FrontIs, PrefixFront
<1>6. PICK R : R = Rebase(q, p, r) OBVIOUS
<1>7. /\ R \in Seq(S) /\ Len(R) = Len(r) + (Len(q) - Len(p)) /\ Len(r) \in Nat
      /\ \A i \in 1 .. Len(r) : R[i] = r[i]
      /\ \A i \in 1 .. Len(q) - Len(p) : R[Len(r) + i] = q[Len(p) + i]
  <2>1. IsRebase(R, q, p, r, S) BY <1>1, <1>6, RebaseIs
  <2> QED BY <2>1 DEF IsRebase
<1>8. R # << >> BY <1>2, <1>7, EmptySeq
<1>9. /\ Front(R) \in Seq(S) /\ Len(Front(R)) = Len(R) - 1 /\ R[Len(R)] = Last(R)
      /\ \A i \in 1 .. Len(R) - 1 : Front(R)[i] = R[i]
  BY <1>7, <1>8, FrontIs
<1>10. Last(R) = Last(q)
  <2>1. Len(q) - Len(p) \in 1 .. Len(q) - Len(p) /\ Len(R) = Len(r) + (Len(q) - Len(p))
        /\ Len(p) + (Len(q) - Len(p)) = Len(q)
    BY <1>2, <1>7
  <2> QED BY <1>7, <1>9, <2>1 DEF Last
<1>11. PICK F : F = Rebase(f, p, r) OBVIOUS
<1>12. /\ F \in Seq(S) /\ Len(F) = Len(r) + (Len(f) - Len(p))
       /\ \A i \in 1 .. Len(r) : F[i] = r[i]
       /\ \A i \in 1 .. Len(f) - Len(p) : F[Len(r) + i] = f[Len(p) + i]
  <2>1. IsRebase(F, f, p, r, S) BY <1>5, <1>11, RebaseIs
  <2> QED BY <2>1 DEF IsRebase
<1>13. Len(F) = Len(Front(R)) BY <1>2, <1>5, <1>7, <1>9, <1>12
<1>14. ASSUME NEW i \in 1 .. Len(F) PROVE F[i] = Front(R)[i]
  <2>1. Front(R)[i] = R[i] BY <1>9, <1>13
  <2>2. CASE i \in 1 .. Len(r) BY <1>7, <1>12, <2>1, <2>2
  <2>3. CASE i \notin 1 .. Len(r)
    <3>1. PICK j \in 1 .. Len(f) - Len(p) : i = Len(r) + j
      <4>1. i - Len(r) \in 1 .. Len(f) - Len(p) /\ i = Len(r) + (i - Len(r)) BY <1>2, <1>5, <1>7, <1>12, <2>3
      <4> QED BY <4>1
    <3>2. j \in 1 .. Len(q) - Len(p) /\ Len(p) + j \in 1 .. Len(q) - 1 BY <1>2, <1>5, <3>1
    <3> QED BY <1>5, <1>7, <1>12, <2>1, <3>1, <3>2
  <2> QED BY <2>2, <2>3
<1>15. F = Front(R) BY <1>9, <1>12, <1>13, <1>14, SeqEqual
<1> QED BY <1>3, <1>4, <1>6, <1>8, <1>10, <1>11, <1>15

LEMMA AncestorsAre ==
  ASSUME NEW S, NEW p \in Seq(S), NEW a
  PROVE  a \in Ancestors(p) <=> a \in Seq(S) /\ a # << >> /\ IsStrictPrefix(a, p)
<1>1. Len(p) \in Nat /\ \A i \in 1 .. Len(p) : p[i] \in S BY LenProperties, ElementOfSeq
<1>2. ASSUME a \in Ancestors(p) PROVE a \in Seq(S) /\ a # << >> /\ IsStrictPrefix(a, p)
  <2>1. PICK n \in 1 .. Len(p) - 1 : a = SubSeq(p, 1, n) BY <1>2 DEF Ancestors
  <2>2. n \in Nat /\ n <= Len(p) /\ n # 0 /\ n # Len(p) BY <1>1
  <2>3. SubSeqIs(p, n, S) BY <1>1, <2>2, InitialIs
  <2>4. a \in Seq(S) /\ Len(a) = n /\ \A i \in 1 .. n : a[i] = p[i] BY <2>1, <2>3 DEF SubSeqIs
  <2>5. IsPrefix(a, p) BY <2>2, <2>4, PrefixIs
  <2> QED BY <2>2, <2>4, <2>5, EmptySeq DEF IsStrictPrefix
<1>3. ASSUME a \in Seq(S), a # << >>, IsStrictPrefix(a, p) PROVE a \in Ancestors(p)
  <2>1. IsPrefix(a, p) /\ a # p BY <1>3 DEF IsStrictPrefix
  <2>2. Len(a) \in Nat \ {0} BY <1>3, EmptySeq
  <2>3. ~(Len(p) <= Len(a)) BY <1>3, <2>1, PrefixAnti
  <2>4. Len(a) \in 1 .. Len(p) - 1 BY <1>1, <2>2, <2>3
  <2>5. a = SubSeq(p, 1, Len(a))
    <3>1. SubSeq(a, 1, Len(a)) = a BY <1>3, SubSeqFull
    <3> QED BY <2>1, <3>1 DEF IsPrefix
  <2> QED BY <2>4, <2>5 DEF Ancestors
<1> QED BY <1>2, <1>3

-----------------------------------------------------------------------------
(* Induction.                                                              *)

\* Every non-empty set of naturals has a least member.
LEMMA LeastOf ==
  ASSUME NEW T \in SUBSET Nat, T # {}
  PROVE  \E n \in T : \A m \in T : n <= m
<1> DEFINE Below == {0 .. n : n \in T}
<1>1. IsWellFoundedOn(StrictSubsetOrdering(Nat), FiniteSubsetsOf(Nat))
  BY FS_StrictSubsetOrderingWellFounded
<1>2. Below \subseteq FiniteSubsetsOf(Nat)
  <2> SUFFICES ASSUME NEW n \in T PROVE 0 .. n \in FiniteSubsetsOf(Nat)
    OBVIOUS
  <2>1. IsFiniteSet(0 .. n) BY FS_Interval
  <2> QED BY <2>1 DEF FiniteSubsetsOf
<1>3. Below # {} OBVIOUS
<1> HIDE DEF Below
<1>4. PICK x \in Below : \A y \in Below : ~(<<y, x>> \in StrictSubsetOrdering(Nat))
  BY <1>1, <1>2, <1>3, WFMin
<1>5. PICK n \in T : x = 0 .. n BY DEF Below
<1>6. ASSUME NEW m \in T, m < n PROVE FALSE
  <2>1. 0 .. m \in Below BY DEF Below
  <2>2. <<0 .. m, 0 .. n>> \in StrictSubsetOrdering(Nat)
    BY <1>6 DEF StrictSubsetOrdering
  <2> QED BY <2>1, <2>2, <1>4, <1>5
<1> QED BY <1>6

\* Induction up to k, for a property given as a set.
LEMMA UpTo ==
  ASSUME NEW k \in Nat, NEW T, 0 \in T, \A m \in 0 .. k - 1 : m \in T => m + 1 \in T
  PROVE  0 .. k \subseteq T
<1> DEFINE Gaps == (0 .. k) \ T
<1>1. SUFFICES ASSUME Gaps # {} PROVE FALSE OBVIOUS
<1>2. Gaps \in SUBSET Nat OBVIOUS
<1>3. PICK d \in Gaps : \A e \in Gaps : d <= e BY <1>1, <1>2, LeastOf
<1>4. d - 1 \in 0 .. k - 1 /\ d - 1 \notin Gaps BY <1>3
<1>5. d - 1 \in T /\ (d - 1) + 1 = d BY <1>4
<1> QED BY <1>4, <1>5

-----------------------------------------------------------------------------
(* The view a tree restores.                                               *)

Loc(t, d) ==
  CHOOSE f : f = [p \in Paths \cup {<< >>} |->
                    IF p = << >> THEN Base(p) ELSE Resolve(t, d, p, f[Front(p)])]

LEMMA RestoredIs ==
  ASSUME NEW t, NEW d
  PROVE  Restored(t, d) = [p \in {q \in Paths : Loc(t, d)[q] # Gone} |-> Loc(t, d)[p]]
BY Zenon DEF Restored, Loc

LEMMA FrontPath ==
  ASSUME NEW p \in Paths
  PROVE  /\ p # << >> /\ p \in Seq(N) /\ Front(p) \in Seq(N) /\ Len(Front(p)) = Len(p) - 1
         /\ Front(p) \in Paths \cup {<< >>} /\ (Len(p) = 1 <=> Front(p) = << >>)
         /\ Append(Front(p), Last(p)) = p /\ Last(p) \in N /\ Len(p) \in 1 .. Depth
         /\ Depth \in Nat /\ << >> \notin Paths
<1>1. p \in Seq(N) /\ Len(p) \in 1 .. Depth /\ Depth \in Nat BY PathsAre, DirTreeAssumption
<1>2. p # << >> /\ << >> \notin Paths BY <1>1, PathsAre, EmptySeq
<1>3. /\ Front(p) \in Seq(N) /\ Len(Front(p)) = Len(p) - 1
      /\ Append(Front(p), Last(p)) = p /\ Last(p) \in N
  BY <1>1, <1>2, FrontIs
<1>4. Len(p) = 1 <=> Front(p) = << >> BY <1>1, <1>3, EmptySeq
<1>5. Front(p) \in Paths \cup {<< >>}
  <2>1. Len(p) # 1 => Len(Front(p)) \in 1 .. Depth BY <1>1, <1>3
  <2> QED BY <1>3, <1>4, <2>1, PathsAre
<1> QED BY <1>1, <1>2, <1>3, <1>4, <1>5

\* A backing for every path, each from its parent's.
LEMMA LocEq ==
  ASSUME NEW t, NEW d
  PROVE  /\ Loc(t, d)[<< >>] = Base(<< >>)
         /\ \A p \in Paths : Loc(t, d)[p] = Resolve(t, d, p, Loc(t, d)[Front(p)])
<1> DEFINE P(n) == {p \in Paths \cup {<< >>} : Len(p) <= n}
           Val(f, p) == IF p = << >> THEN Base(p) ELSE Resolve(t, d, p, f[Front(p)])
           Good(f, n) == f = [p \in P(n) |-> Val(f, p)]
           Reached == {n \in 0 .. Depth : \E f : Good(f, n)}
<1>1. Depth \in Nat BY DirTreeAssumption
<1>2. 0 \in Reached
  <2>1. P(0) = {<< >>}
    <3>1. \A p \in Paths : ~(Len(p) <= 0) BY <1>1, PathsAre
    <3>2. Len(<< >>) = 0 BY EmptySeq
    <3> QED BY <3>1, <3>2
  <2>2. PICK g : g = [p \in P(0) |-> Base(p)] OBVIOUS
  <2>3. \A p \in P(0) : Base(p) = Val(g, p) BY <2>1
  <2>4. g = [p \in P(0) |-> Val(g, p)] BY <2>2, <2>3
  <2>5. Good(g, 0) BY <2>4
  <2>6. 0 \in 0 .. Depth BY <1>1
  <2> HIDE DEF Good
  <2> QED BY <2>5, <2>6
<1>3. ASSUME NEW n \in 0 .. Depth - 1, n \in Reached PROVE n + 1 \in Reached
  <2>1. PICK f : Good(f, n) BY <1>3
  <2>2. PICK g : g = [p \in P(n + 1) |-> IF p \in P(n) THEN f[p] ELSE Val(f, p)] OBVIOUS
  <2>3. ASSUME NEW p \in P(n + 1), p # << >> PROVE Front(p) \in P(n)
    <3>1. p \in Paths BY <2>3
    <3>2. Front(p) \in Paths \cup {<< >>} /\ Len(Front(p)) = Len(p) - 1 /\ Len(p) \in 1 .. Depth
      BY <3>1, FrontPath
    <3> QED BY <1>1, <2>3, <3>2
  <2>4. \A p \in P(n) : f[p] = Val(f, p) BY <2>1
  <2>5. P(n) \subseteq P(n + 1)
    <3> SUFFICES ASSUME NEW p \in P(n) PROVE Len(p) <= n + 1 OBVIOUS
    <3>1. Len(p) \in Nat BY FrontPath, EmptySeq
    <3> QED BY <1>1, <3>1
  <2>6. \A p \in P(n) : g[p] = f[p] BY <2>2, <2>5
  <2>7. ASSUME NEW p \in P(n + 1) PROVE g[p] = Val(g, p)
    <3>1. g[p] = Val(f, p) BY <2>2, <2>4
    <3>2. p # << >> => g[Front(p)] = f[Front(p)] BY <2>3, <2>6
    <3> QED BY <3>1, <3>2
  <2>8. g = [p \in P(n + 1) |-> Val(g, p)]
    <3>1. g = [p \in P(n + 1) |-> g[p]] BY <2>2
    <3>2. [p \in P(n + 1) |-> g[p]] = [p \in P(n + 1) |-> Val(g, p)] BY <2>7
    <3> QED BY <3>1, <3>2
  <2>9. Good(g, n + 1) BY <2>8
  <2>10. \E h : Good(h, n + 1) BY <2>9
  <2> QED BY <1>1, <2>10
<1>4. Depth \in Reached
  <2> HIDE DEF Reached
  <2>1. 0 .. Depth \subseteq Reached BY <1>1, <1>2, <1>3, UpTo
  <2> QED BY <1>1, <2>1
<1>5. PICK f : Good(f, Depth) BY <1>4
<1>6. P(Depth) = Paths \cup {<< >>}
  <2>1. \A p \in Paths : Len(p) <= Depth BY <1>1, PathsAre
  <2>2. Len(<< >>) <= Depth BY <1>1, EmptySeq
  <2> QED BY <2>1, <2>2
<1>7. f = [p \in Paths \cup {<< >>} |-> Val(f, p)] BY <1>5, <1>6
<1>8. \E h : h = [p \in Paths \cup {<< >>} |->
                    IF p = << >> THEN Base(p) ELSE Resolve(t, d, p, h[Front(p)])]
  BY <1>7
<1>9. Loc(t, d) = [p \in Paths \cup {<< >>} |->
                    IF p = << >> THEN Base(p) ELSE Resolve(t, d, p, Loc(t, d)[Front(p)])]
  BY <1>8, Zenon DEF Loc
<1>10. << >> \notin Paths BY FrontPath
<1>11. PICK L : L = Loc(t, d) OBVIOUS
<1>12. L = [p \in Paths \cup {<< >>} |->
              IF p = << >> THEN Base(p) ELSE Resolve(t, d, p, L[Front(p)])]
  BY <1>9, <1>11
<1>13. L[<< >>] = Base(<< >>) BY <1>12
<1>14. \A p \in Paths : L[p] = Resolve(t, d, p, L[Front(p)]) BY <1>10, <1>12
<1> QED BY <1>11, <1>13, <1>14

-----------------------------------------------------------------------------
(* The invariant.                                                          *)

\* A view is the replay of a tree on a disk when every path resolves through
\* what its parent shows.
Up(v, p)         == IF Len(p) = 1 THEN Base(<< >>) ELSE ViewAt(v, Front(p))
Follows(v, t, d) == \A p \in Paths : ViewAt(v, p) = Resolve(t, d, p, Up(v, p))

\* While the view is the staged work: a visible path has a visible directory
\* above it, a node with a backing is visible unless a tombstone is above it,
\* and what is shown is there.
IsView(v)          == v = [p \in DOMAIN v |-> v[p]] /\ DOMAIN v \subseteq Paths
Backs              == {Base(p) : p \in Paths} \cup {Staged(i) : i \in Nat}
DirIn(v, d, st, p) == \/ p = << >>
                      \/ p \in DOMAIN v /\ IF v[p].kind = "base" THEN d[v[p].path].dir ELSE st[v[p].ino]
Tidy(v, d, st)     == \A p \in DOMAIN v : DirIn(v, d, st, Front(p))
Dormant(v, t)      == \A p \in InPlan(t) : t[p].new # Gone => p \in DOMAIN v
Backed(v, d, st)   == \A p \in DOMAIN v : IF v[p].kind = "base" THEN v[p].path \in DOMAIN d
                                                                ELSE v[p].ino \in DOMAIN st

Shows(v, t, d, st) ==
  /\ IsView(v) /\ (\A p \in DOMAIN v : v[p] \in Backs) /\ Follows(v, t, d)
  /\ Tidy(v, d, st) /\ Dormant(v, t) /\ Backed(v, d, st)

Live == pc \in {"live", "read"} => Shows(view, tree, disk, store)

\* The operations of a plan move between names and scratch files.
Ops == {Move(Temp(n), p) : n \in Nat, p \in Paths} \cup {Move(p, Temp(n)) : n \in Nat, p \in Paths}
         \cup {Delete(p) : p \in Paths} \cup {Stage(p, i) : i \in Nat, p \in Paths}
Planned == todo \in Seq(Ops)

\* A fragment is no record.
Torn == ~WellFormed(torn)

\* The last segment has no node the whole has not.
SegIn == DOMAIN seg \subseteq DOMAIN tree

TypeInv == TypeOK /\ Planned /\ Torn /\ SegIn
IInv    == TypeInv /\ Live

-----------------------------------------------------------------------------
(* A restored view, and when a view is one.                                *)

LEMMA Backings ==
  ASSUME NEW p, NEW i
  PROVE  /\ Base(p) # Gone /\ Staged(i) # Gone /\ Base(p) # Staged(i)
         /\ Base(p).kind = "base" /\ Base(p).path = p
         /\ Staged(i).kind = "staged" /\ Staged(i).ino = i /\ Gone.kind = "none"
BY DEF Base, Staged, Gone

LEMMA RestoredFollows ==
  ASSUME NEW t, NEW d, NEW v, v = Restored(t, d)
  PROVE  /\ IsView(v) /\ Follows(v, t, d) /\ \A p \in DOMAIN v : v[p] # Gone
         /\ \A p \in Paths : ViewAt(v, p) = Loc(t, d)[p]
<1>1. PICK L : L = Loc(t, d) OBVIOUS
<1>2. v = [p \in {q \in Paths : L[q] # Gone} |-> L[p]] BY <1>1, RestoredIs
<1>3. \A p \in Paths : ViewAt(v, p) = L[p] BY <1>2 DEF ViewAt
<1>4. L[<< >>] = Base(<< >>) /\ \A p \in Paths : L[p] = Resolve(t, d, p, L[Front(p)])
  BY <1>1, LocEq
<1>5. ASSUME NEW p \in Paths PROVE Up(v, p) = L[Front(p)]
  <2>1. Front(p) \in Paths \cup {<< >>} /\ (Len(p) = 1 <=> Front(p) = << >>) BY FrontPath
  <2>2. << >> \notin Paths BY FrontPath
  <2> QED BY <1>3, <1>4, <2>1, <2>2 DEF Up
<1>6. Follows(v, t, d) BY <1>3, <1>4, <1>5 DEF Follows
<1>7. IsView(v) /\ \A p \in DOMAIN v : v[p] # Gone BY <1>2 DEF IsView
<1> QED BY <1>1, <1>3, <1>6, <1>7

LEMMA FollowsRestored ==
  ASSUME NEW t, NEW d, NEW v, IsView(v), Follows(v, t, d), \A p \in DOMAIN v : v[p] # Gone
  PROVE  Restored(t, d) = v
<1>1. PICK L : L = Loc(t, d) OBVIOUS
<1>2. Restored(t, d) = [p \in {q \in Paths : L[q] # Gone} |-> L[p]] BY <1>1, RestoredIs
<1>3. L[<< >>] = Base(<< >>) /\ \A p \in Paths : L[p] = Resolve(t, d, p, L[Front(p)])
  BY <1>1, LocEq
<1>4. PICK T : T = {n \in Nat : \A p \in Paths : Len(p) <= n => ViewAt(v, p) = L[p]} OBVIOUS
<1>5. Depth \in Nat BY DirTreeAssumption
<1>6. 0 \in T
  <2>1. \A p \in Paths : ~(Len(p) <= 0) BY <1>5, PathsAre
  <2> QED BY <1>4, <2>1
<1>7. ASSUME NEW m \in 0 .. Depth - 1, m \in T PROVE m + 1 \in T
  <2>1. ASSUME NEW p \in Paths, Len(p) <= m + 1 PROVE ViewAt(v, p) = L[p]
    <3>1. /\ Front(p) \in Paths \cup {<< >>} /\ (Len(p) = 1 <=> Front(p) = << >>)
          /\ Len(Front(p)) = Len(p) - 1 /\ Len(p) \in 1 .. Depth
      BY FrontPath
    <3>2. Up(v, p) = L[Front(p)]
      <4>1. CASE Len(p) = 1 BY <1>3, <3>1, <4>1 DEF Up
      <4>2. CASE Len(p) # 1
        <5>1. Front(p) \in Paths /\ Len(Front(p)) <= m BY <1>5, <2>1, <3>1, <4>2
        <5> QED BY <1>4, <1>7, <4>2, <5>1 DEF Up
      <4> QED BY <4>1, <4>2
    <3> QED BY <1>3, <3>2 DEF Follows
  <2> QED BY <1>4, <1>5, <2>1
<1>8. \A p \in Paths : ViewAt(v, p) = L[p]
  <2>1. 0 .. Depth \subseteq T BY <1>5, <1>6, <1>7, UpTo
  <2>2. Depth \in T BY <1>5, <2>1
  <2>3. \A p \in Paths : Len(p) <= Depth BY <1>5, PathsAre
  <2> QED BY <1>4, <2>2, <2>3
<1>9. {q \in Paths : L[q] # Gone} = DOMAIN v BY <1>8 DEF IsView, ViewAt
<1>10. \A p \in DOMAIN v : L[p] = v[p] BY <1>8 DEF IsView, ViewAt
<1> QED BY <1>2, <1>9, <1>10 DEF IsView

\* The view of the base alone: everything at its own place.
LEMMA BareView ==
  ASSUME NEW d, NEW v, v = Restored(Empty, d)
  PROVE  \A p \in DOMAIN v : /\ v[p] = Base(p) /\ p \in DOMAIN d
                             /\ Len(p) = 1 \/ Front(p) \in DOMAIN v
<1>1. IsView(v) /\ Follows(v, Empty, d) /\ \A p \in DOMAIN v : v[p] # Gone BY RestoredFollows
<1>2. Depth \in Nat BY DirTreeAssumption
<1>3. \A p : At(Empty, p).new = Nil BY DEF At, Empty, Scaffold, Node
<1>4. ASSUME NEW p \in DOMAIN v
      PROVE  /\ Up(v, p).kind = "base" /\ Append(Up(v, p).path, Last(p)) \in DOMAIN d
             /\ v[p] = Base(Append(Up(v, p).path, Last(p)))
    BY <1>1, <1>3, <1>4 DEF Follows, IsView, ViewAt, Resolve
<1>5. PICK T : T = {n \in Nat : \A p \in DOMAIN v : Len(p) <= n => v[p] = Base(p)} OBVIOUS
<1>6. 0 \in T
  <2>1. \A p \in Paths : ~(Len(p) <= 0) BY <1>2, PathsAre
  <2> QED BY <1>1, <1>5, <2>1 DEF IsView
<1>7. ASSUME NEW p \in DOMAIN v
      PROVE  /\ Append(Front(p), Last(p)) = p /\ Front(p) \in Paths \cup {<< >>}
             /\ Len(Front(p)) = Len(p) - 1 /\ (Len(p) = 1 <=> Front(p) = << >>)
             /\ Len(p) \in 1 .. Depth
    BY <1>1, FrontPath DEF IsView
<1>8. ASSUME NEW p \in DOMAIN v PROVE Len(p) = 1 \/ Front(p) \in DOMAIN v
  <2>1. Up(v, p) # Gone BY <1>4, Backings
  <2> QED BY <2>1 DEF Up, ViewAt
<1>9. ASSUME NEW p \in DOMAIN v, Len(p) # 1 => v[Front(p)] = Base(Front(p))
      PROVE  v[p] = Base(p) /\ p \in DOMAIN d
  <2>1. Up(v, p) = Base(Front(p)) BY <1>7, <1>8, <1>9 DEF Up, ViewAt
  <2>2. Up(v, p).path = Front(p) BY <2>1, Backings
  <2> QED BY <1>4, <1>7, <2>2
<1>10. ASSUME NEW m \in 0 .. Depth - 1, m \in T PROVE m + 1 \in T
  <2>1. ASSUME NEW p \in DOMAIN v, Len(p) <= m + 1 PROVE v[p] = Base(p)
    <3>1. Len(p) # 1 => Front(p) \in DOMAIN v /\ Len(Front(p)) <= m
      BY <1>2, <1>7, <1>8, <2>1
    <3>2. Len(p) # 1 => v[Front(p)] = Base(Front(p)) BY <1>5, <1>10, <3>1
    <3> QED BY <1>9, <3>2
  <2> QED BY <1>2, <1>5, <2>1
<1>11. \A p \in DOMAIN v : v[p] = Base(p)
  <2>1. 0 .. Depth \subseteq T BY <1>2, <1>6, <1>10, UpTo
  <2>2. Depth \in T BY <1>2, <2>1
  <2>3. \A p \in DOMAIN v : Len(p) <= Depth BY <1>2, <1>7
  <2> QED BY <1>5, <2>2, <2>3
<1> QED BY <1>8, <1>9, <1>11

-----------------------------------------------------------------------------
(* The sequences a plan is made of.                                        *)

Flat(s) == CHOOSE f : f = [i \in 1 .. Len(s) |-> IF i = 1 THEN s[i] ELSE f[i - 1] \o s[i]]

LEMMA FlattenIs ==
  ASSUME NEW s
  PROVE  FlattenSeq(s) = IF Len(s) = 0 THEN s ELSE Flat(s)[Len(s)]
BY Zenon DEF FlattenSeq, Flat

LEMMA FlatEq ==
  ASSUME NEW s, Len(s) \in Nat \ {0}
  PROVE  /\ Flat(s)[1] = s[1]
         /\ \A i \in 2 .. Len(s) : Flat(s)[i] = Flat(s)[i - 1] \o s[i]
<1> DEFINE Val(f, i)  == IF i = 1 THEN s[i] ELSE f[i - 1] \o s[i]
           Good(f, n) == f = [i \in 1 .. n |-> Val(f, i)]
           Reached    == {n \in Nat : \E f : Good(f, n)}
<1>1. 0 \in Reached
  <2>1. PICK g : g = [i \in 1 .. 0 |-> s] OBVIOUS
  <2>2. \A i \in 1 .. 0 : s = Val(g, i) OBVIOUS
  <2>3. g = [i \in 1 .. 0 |-> Val(g, i)] BY <2>1, <2>2
  <2>4. Good(g, 0) BY <2>3
  <2> HIDE DEF Good
  <2> QED BY <2>4
<1>2. ASSUME NEW n \in 0 .. Len(s) - 1, n \in Reached PROVE n + 1 \in Reached
  <2>1. PICK f : Good(f, n) BY <1>2
  <2>2. PICK g : g = [i \in 1 .. n + 1 |-> IF i \in 1 .. n THEN f[i] ELSE Val(f, i)] OBVIOUS
  <2>3. \A i \in 1 .. n : f[i] = Val(f, i) BY <2>1
  <2>4. \A i \in 1 .. n : g[i] = f[i] BY <2>2
  <2>5. ASSUME NEW i \in 1 .. n + 1 PROVE g[i] = Val(g, i)
    <3>1. g[i] = Val(f, i) BY <2>2, <2>3
    <3>2. i # 1 => i - 1 \in 1 .. n OBVIOUS
    <3>3. i # 1 => g[i - 1] = f[i - 1] BY <2>4, <3>2
    <3> QED BY <3>1, <3>3
  <2>6. g = [i \in 1 .. n + 1 |-> Val(g, i)]
    <3>1. g = [i \in 1 .. n + 1 |-> g[i]] BY <2>2
    <3>2. [i \in 1 .. n + 1 |-> g[i]] = [i \in 1 .. n + 1 |-> Val(g, i)] BY <2>5
    <3> QED BY <3>1, <3>2
  <2>7. Good(g, n + 1) BY <2>6
  <2> HIDE DEF Good
  <2> QED BY <2>7
<1>3. Len(s) \in Reached
  <2> HIDE DEF Reached
  <2>1. 0 .. Len(s) \subseteq Reached BY <1>1, <1>2, UpTo
  <2> QED BY <2>1
<1>4. PICK f : Good(f, Len(s)) BY <1>3
<1>5. \E h : h = [i \in 1 .. Len(s) |-> IF i = 1 THEN s[i] ELSE h[i - 1] \o s[i]]
  BY <1>4
<1>6. Flat(s) = [i \in 1 .. Len(s) |-> IF i = 1 THEN s[i] ELSE Flat(s)[i - 1] \o s[i]]
  BY <1>5, Zenon DEF Flat
<1>7. PICK F : F = Flat(s) OBVIOUS
<1>8. F = [i \in 1 .. Len(s) |-> IF i = 1 THEN s[i] ELSE F[i - 1] \o s[i]] BY <1>6, <1>7
<1>9. 1 \in 1 .. Len(s) /\ \A i \in 2 .. Len(s) : i \in 1 .. Len(s) /\ i # 1 OBVIOUS
<1>10. F[1] = s[1] BY <1>8, <1>9
<1>11. \A i \in 2 .. Len(s) : F[i] = F[i - 1] \o s[i] BY <1>8, <1>9
<1> QED BY <1>7, <1>10, <1>11

\* What a concatenation of sequences holds.
LEMMA FlattenRange ==
  ASSUME NEW S, NEW s \in Seq(Seq(S))
  PROVE  /\ FlattenSeq(s) \in Seq(S)
         /\ \A x : x \in Range(FlattenSeq(s)) <=> \E i \in DOMAIN s : x \in Range(s[i])
<1>1. Len(s) \in Nat /\ DOMAIN s = 1 .. Len(s) /\ \A i \in 1 .. Len(s) : s[i] \in Seq(S)
  BY LenProperties, ElementOfSeq
<1>2. CASE Len(s) = 0
  <2>1. s = << >> BY <1>2, EmptySeq
  <2>2. FlattenSeq(s) = << >> BY <1>2, <2>1, FlattenIs
  <2>3. Range(<< >>) = {} BY DEF Range
  <2> QED BY <1>1, <1>2, <2>2, <2>3, EmptySeq
<1>3. CASE Len(s) # 0
  <2>1. PICK F : F = Flat(s) OBVIOUS
  <2>2. F[1] = s[1] /\ \A i \in 2 .. Len(s) : F[i] = F[i - 1] \o s[i]
    BY <1>1, <1>3, <2>1, FlatEq
  <2> DEFINE Fine(n) == /\ F[n] \in Seq(S)
                        /\ \A x : x \in Range(F[n]) <=> \E i \in 1 .. n : x \in Range(s[i])
             T == {n \in Nat : n = 0 \/ Fine(n)}
  <2>3. 0 \in T OBVIOUS
  <2>4. ASSUME NEW m \in 0 .. Len(s) - 1, m \in T PROVE m + 1 \in T
    <3>1. s[m + 1] \in Seq(S) BY <1>1
    <3>2. CASE m = 0
      <4>1. F[1] = s[1] /\ 1 .. 1 = {1} BY <2>2
      <4>2. Fine(1) BY <3>1, <3>2, <4>1
      <4> HIDE DEF Fine
      <4> QED BY <3>2, <4>2
    <3>3. CASE m # 0
      <4>1. Fine(m) BY <2>4, <3>3
      <4>2. F[m + 1] = F[m] \o s[m + 1]
        <5>1. m + 1 \in 2 .. Len(s) /\ (m + 1) - 1 = m BY <1>1, <3>3
        <5> QED BY <2>2, <5>1
      <4>3. F[m + 1] \in Seq(S) /\ Range(F[m + 1]) = Range(F[m]) \cup Range(s[m + 1])
        BY <3>1, <4>1, <4>2, ConcatProperties, RangeConcatenation
      <4>4. 1 .. m + 1 = (1 .. m) \cup {m + 1} BY <1>1
      <4>5. \A x : x \in Range(F[m + 1]) <=> \E i \in 1 .. m + 1 : x \in Range(s[i])
        BY <4>1, <4>3, <4>4
      <4>6. Fine(m + 1) BY <4>3, <4>5
      <4> HIDE DEF Fine
      <4> QED BY <4>6
    <3> QED BY <3>2, <3>3
  <2>5. Fine(Len(s))
    <3> HIDE DEF Fine
    <3>1. 0 .. Len(s) \subseteq T
      <4> HIDE DEF T
      <4> QED BY <1>1, <2>3, <2>4, UpTo
    <3>2. Len(s) \in T BY <1>1, <3>1
    <3> QED BY <1>3, <3>2
  <2> QED BY <1>1, <1>3, <2>1, <2>5, FlattenIs
<1> QED BY <1>2, <1>3

LEMMA ChosenIs ==
  ASSUME NEW S, NEW s \in Seq(S), NEW T
  PROVE  /\ Chosen(s, T) \in Seq(S)
         /\ Range(Chosen(s, T)) = Range(s) \cap T
<1>1. Len(s) \in Nat /\ DOMAIN s = 1 .. Len(s) /\ \A i \in 1 .. Len(s) : s[i] \in S
  BY LenProperties, ElementOfSeq
<1>2. PICK f : f = [i \in DOMAIN s |-> IF s[i] \in T THEN << s[i] >> ELSE << >>] OBVIOUS
<1>3. \A i \in 1 .. Len(s) : f[i] \in Seq(S) BY <1>1, <1>2
<1>4. f \in Seq(Seq(S)) /\ DOMAIN f = 1 .. Len(s) BY <1>1, <1>2, <1>3, SeqDef
<1>5. Range(<< >>) = {} BY DEF Range
<1>6. \A x : Range(<< x >>) = {x} BY DEF Range
<1>7. \A i \in 1 .. Len(s) : Range(f[i]) = {s[i]} \cap T BY <1>1, <1>2, <1>5, <1>6
<1>8. \A x : x \in Range(s) \cap T <=> \E i \in DOMAIN f : x \in Range(f[i])
  <2>1. \A x : x \in Range(s) <=> \E i \in 1 .. Len(s) : x = s[i] BY <1>1 DEF Range
  <2> QED BY <1>4, <1>7, <2>1
<1> QED BY <1>2, <1>4, <1>8, FlattenRange DEF Chosen

LEMMA SeqFrom ==
  ASSUME NEW S, NEW n \in Nat, NEW f, f = [i \in 1 .. n |-> f[i]], \A i \in 1 .. n : f[i] \in S
  PROVE  f \in Seq(S) /\ Len(f) = n /\ DOMAIN f = 1 .. n
<1>1. f \in [1 .. n -> S] OBVIOUS
<1>2. f \in Seq(S) BY <1>1, SeqDef
<1> QED BY <1>1, <1>2, LenProperties

Deeper(b) == FlattenSeq([i \in DOMAIN Names |->
               << <<Names[i]>> >> \o [k \in DOMAIN b |-> <<Names[i]>> \o b[k]]])
Walk == CHOOSE f : f = [d \in 0 .. Depth |-> IF d = 0 THEN << >> ELSE Deeper(f[d - 1])]

LEMMA DfsIs == DfsPaths = Walk[Depth]
BY Zenon DEF DfsPaths, Walk, Deeper

LEMMA WalkEq ==
  /\ Walk[0] = << >>
  /\ \A d \in 1 .. Depth : Walk[d] = Deeper(Walk[d - 1])
<1> DEFINE Val(f, d)  == IF d = 0 THEN << >> ELSE Deeper(f[d - 1])
           Good(f, n) == f = [d \in 0 .. n |-> Val(f, d)]
           Reached    == {n \in Nat : \E f : Good(f, n)}
<1>1. Depth \in Nat BY DirTreeAssumption
<1>2. 0 \in Reached
  <2>1. PICK g : g = [d \in 0 .. 0 |-> << >>] OBVIOUS
  <2>2. \A d \in 0 .. 0 : << >> = Val(g, d) OBVIOUS
  <2>3. g = [d \in 0 .. 0 |-> Val(g, d)] BY <2>1, <2>2
  <2>4. Good(g, 0) BY <2>3
  <2> HIDE DEF Good
  <2> QED BY <2>4
<1>3. ASSUME NEW n \in 0 .. Depth - 1, n \in Reached PROVE n + 1 \in Reached
  <2>1. PICK f : Good(f, n) BY <1>3
  <2>2. PICK g : g = [d \in 0 .. n + 1 |-> IF d \in 0 .. n THEN f[d] ELSE Val(f, d)] OBVIOUS
  <2>3. \A d \in 0 .. n : f[d] = Val(f, d) BY <2>1
  <2>4. \A d \in 0 .. n : g[d] = f[d] BY <2>2
  <2>5. ASSUME NEW d \in 0 .. n + 1 PROVE g[d] = Val(g, d)
    <3>1. g[d] = Val(f, d) BY <2>2, <2>3
    <3>2. d # 0 => d - 1 \in 0 .. n OBVIOUS
    <3>3. d # 0 => g[d - 1] = f[d - 1] BY <2>4, <3>2
    <3> QED BY <3>1, <3>3
  <2>6. g = [d \in 0 .. n + 1 |-> Val(g, d)]
    <3>1. g = [d \in 0 .. n + 1 |-> g[d]] BY <2>2
    <3>2. [d \in 0 .. n + 1 |-> g[d]] = [d \in 0 .. n + 1 |-> Val(g, d)] BY <2>5
    <3> QED BY <3>1, <3>2
  <2>7. Good(g, n + 1) BY <2>6
  <2> HIDE DEF Good
  <2> QED BY <1>1, <2>7
<1>4. Depth \in Reached
  <2> HIDE DEF Reached
  <2>1. 0 .. Depth \subseteq Reached BY <1>1, <1>2, <1>3, UpTo
  <2> QED BY <1>1, <2>1
<1>5. PICK f : Good(f, Depth) BY <1>4
<1>6. \E h : h = [d \in 0 .. Depth |-> IF d = 0 THEN << >> ELSE Deeper(h[d - 1])]
  BY <1>5
<1>7. Walk = [d \in 0 .. Depth |-> IF d = 0 THEN << >> ELSE Deeper(Walk[d - 1])]
  BY <1>6, Zenon DEF Walk
<1>8. PICK W : W = Walk OBVIOUS
<1>9. W = [d \in 0 .. Depth |-> IF d = 0 THEN << >> ELSE Deeper(W[d - 1])] BY <1>7, <1>8
<1>10. 0 \in 0 .. Depth /\ \A d \in 1 .. Depth : d \in 0 .. Depth /\ d # 0 BY <1>1
<1>11. W[0] = << >> BY <1>9, <1>10
<1>12. \A d \in 1 .. Depth : W[d] = Deeper(W[d - 1]) BY <1>9, <1>10
<1> QED BY <1>8, <1>11, <1>12

Within(d) == {p \in Seq(N) : Len(p) \in 1 .. d}

\* A name before each of the paths of one level less, and by itself.
LEMMA DeeperIs ==
  ASSUME NEW d \in Nat, NEW b \in Seq(Within(d)), Range(b) = Within(d)
  PROVE  Deeper(b) \in Seq(Within(d + 1)) /\ Range(Deeper(b)) = Within(d + 1)
<1>1. /\ Names \in Seq(N) /\ DOMAIN Names = 1 .. Len(Names) /\ Len(Names) \in Nat
      /\ \A i \in DOMAIN Names : Names[i] \in N
      /\ \A x \in N : \E i \in DOMAIN Names : Names[i] = x
  BY DirTreeAssumption, LenProperties, SeqOfRange DEF N, Range
<1>2. /\ DOMAIN b = 1 .. Len(b) /\ Len(b) \in Nat
      /\ \A k \in DOMAIN b : b[k] \in Seq(N) /\ Len(b[k]) \in 1 .. d
      /\ \A p \in Within(d) : \E k \in DOMAIN b : b[k] = p
  BY LenProperties, ElementOfSeq DEF Within, Range
<1>3. ASSUME NEW x \in N, NEW p \in Seq(N)
      PROVE  /\ <<x>> \o p \in Seq(N) /\ Len(<<x>> \o p) = Len(p) + 1
             /\ <<x>> \in Seq(N) /\ Len(<<x>>) = 1
  <2>1. <<x>> \in Seq(N) /\ Len(<<x>>) = 1 OBVIOUS
  <2>2. Len(p) \in Nat BY LenProperties
  <2> QED BY <2>1, <2>2, ConcatProperties
<1>4. ASSUME NEW p \in Within(d + 1)
      PROVE  \E x \in N : p = <<x>> \/ \E q \in Within(d) : p = <<x>> \o q
  <2>1. p \in Seq(N) /\ Len(p) \in Nat /\ Len(p) \in 1 .. d + 1 /\ \A i \in 1 .. Len(p) : p[i] \in N
    BY ElementOfSeq DEF Within
  <2>2. PICK x \in N : x = p[1] BY <2>1
  <2>3. CASE Len(p) = 1
    <3>1. <<x>> \in Seq(N) /\ Len(<<x>>) = 1 /\ <<x>>[1] = x OBVIOUS
    <3>2. \A i \in 1 .. Len(p) : p[i] = <<x>>[i] BY <2>2, <2>3, <3>1
    <3>3. p = <<x>> BY <2>1, <2>3, <3>1, <3>2, SeqEqual
    <3> QED BY <3>3
  <2>4. CASE Len(p) # 1
    <3>1. p # << >> BY <2>1, EmptySeq
    <3>2. PICK q : q = Tail(p) OBVIOUS
    <3>3. /\ q \in Seq(N) /\ Len(q) = Len(p) - 1 /\ \A i \in 1 .. Len(q) : q[i] = p[i + 1]
      BY <2>1, <3>1, <3>2, HeadTailProperties
    <3>4. q \in Within(d) BY <2>1, <2>4, <3>3 DEF Within
    <3>5. PICK r : r = <<x>> \o q OBVIOUS
    <3>6. <<x>> \in Seq(N) /\ Len(<<x>>) = 1 /\ <<x>>[1] = x OBVIOUS
    <3>7. /\ r \in Seq(N) /\ Len(r) = 1 + Len(q)
          /\ \A i \in 1 .. 1 + Len(q) : r[i] = IF i <= 1 THEN <<x>>[i] ELSE q[i - 1]
      BY <3>3, <3>5, <3>6, ConcatProperties
    <3>8. ASSUME NEW i \in 1 .. Len(p) PROVE p[i] = r[i]
      <4>1. i \in 1 .. 1 + Len(q) BY <2>1, <3>3
      <4>2. CASE i = 1 BY <2>2, <3>6, <3>7, <4>1, <4>2
      <4>3. CASE i # 1
        <5>1. ~(i <= 1) /\ i - 1 \in 1 .. Len(q) /\ (i - 1) + 1 = i BY <2>1, <3>3, <4>3
        <5> QED BY <3>3, <3>7, <4>1, <5>1
      <4> QED BY <4>2, <4>3
    <3>9. p = r BY <2>1, <3>3, <3>7, <3>8, SeqEqual
    <3> QED BY <3>4, <3>5, <3>9
  <2> QED BY <2>3, <2>4
<1>5. PICK f : f = [i \in DOMAIN Names |->
                      << <<Names[i]>> >> \o [k \in DOMAIN b |-> <<Names[i]>> \o b[k]]]
  OBVIOUS
<1>6. ASSUME NEW i \in DOMAIN Names
      PROVE  /\ f[i] \in Seq(Within(d + 1))
             /\ \A p : p \in Range(f[i]) <=>
                         \/ p = <<Names[i]>>
                         \/ \E k \in DOMAIN b : p = <<Names[i]>> \o b[k]
  <2>1. PICK x \in N : x = Names[i] BY <1>1
  <2>2. PICK g : g = [k \in DOMAIN b |-> <<x>> \o b[k]] OBVIOUS
  <2>3. \A k \in DOMAIN b : g[k] \in Within(d + 1)
    <3> TAKE k \in DOMAIN b
    <3>1. b[k] \in Seq(N) /\ Len(b[k]) \in 1 .. d BY <1>2
    <3>2. <<x>> \o b[k] \in Seq(N) /\ Len(<<x>> \o b[k]) = Len(b[k]) + 1 BY <1>3, <3>1
    <3> QED BY <2>2, <3>1, <3>2 DEF Within
  <2>4. g \in Seq(Within(d + 1))
    <3>1. PICK n \in Nat : n = Len(b) BY <1>2
    <3>2. g = [k \in 1 .. n |-> g[k]] /\ \A k \in 1 .. n : g[k] \in Within(d + 1)
      BY <1>2, <2>2, <2>3, <3>1
    <3> QED BY <3>2, SeqFrom
  <2>5. <<x>> \in Within(d + 1)
    <3>1. <<x>> \in Seq(N) /\ Len(<<x>>) = 1 OBVIOUS
    <3> QED BY <3>1 DEF Within
  <2>6. PICK h : h = << <<x>> >> OBVIOUS
  <2>7. h \in Seq(Within(d + 1)) /\ Range(h) = {<<x>>} BY <2>5, <2>6 DEF Range
  <2>8. h \o g \in Seq(Within(d + 1)) /\ Range(h \o g) = Range(h) \cup Range(g)
    BY <2>4, <2>7, ConcatProperties, RangeConcatenation
  <2>9. f[i] = h \o g BY <1>5, <2>1, <2>2, <2>6
  <2>10. \A p : p \in Range(g) <=> \E k \in DOMAIN b : p = <<x>> \o b[k] BY <2>2 DEF Range
  <2> QED BY <2>1, <2>7, <2>8, <2>9, <2>10
<1>7. f \in Seq(Seq(Within(d + 1))) /\ DOMAIN f = DOMAIN Names
  <2>1. PICK n \in Nat : n = Len(Names) BY <1>1
  <2>2. f = [k \in 1 .. n |-> f[k]] /\ \A k \in 1 .. n : f[k] \in Seq(Within(d + 1))
    BY <1>1, <1>5, <1>6, <2>1
  <2> QED BY <1>1, <2>1, <2>2, SeqFrom
<1>8. Deeper(b) = FlattenSeq(f) BY <1>5 DEF Deeper
<1>9. /\ Deeper(b) \in Seq(Within(d + 1))
      /\ \A p : p \in Range(Deeper(b)) <=> \E i \in DOMAIN Names : p \in Range(f[i])
  BY <1>7, <1>8, FlattenRange
<1>10. ASSUME NEW p \in Within(d + 1) PROVE p \in Range(Deeper(b))
  <2>1. PICK x \in N : p = <<x>> \/ \E q \in Within(d) : p = <<x>> \o q BY <1>4
  <2>2. PICK i \in DOMAIN Names : Names[i] = x BY <1>1
  <2>3. p = <<x>> \/ \E k \in DOMAIN b : p = <<x>> \o b[k] BY <1>2, <2>1
  <2> QED BY <1>6, <1>9, <2>2, <2>3
<1>11. Range(Deeper(b)) \subseteq Within(d + 1) BY <1>9, RangeOfSeq
<1> QED BY <1>9, <1>10, <1>11

LEMMA DfsPathsAre == DfsPaths \in Seq(Paths) /\ Range(DfsPaths) = Paths
<1>1. Depth \in Nat BY DirTreeAssumption
<1> DEFINE Fine(d) == Walk[d] \in Seq(Within(d)) /\ Range(Walk[d]) = Within(d)
           T == {d \in Nat : Fine(d)}
<1>2. 0 \in T
  <2>1. Within(0) = {} BY DEF Within
  <2>2. Range(<< >>) = {} BY DEF Range
  <2> QED BY <2>1, <2>2, WalkEq, EmptySeq
<1>3. ASSUME NEW m \in 0 .. Depth - 1, m \in T PROVE m + 1 \in T
  <2>1. Fine(m) BY <1>3
  <2>2. m + 1 \in 1 .. Depth /\ (m + 1) - 1 = m BY <1>1
  <2>3. Walk[m + 1] = Deeper(Walk[m]) BY <2>2, WalkEq
  <2>4. Fine(m + 1) BY <1>1, <2>1, <2>3, DeeperIs
  <2> HIDE DEF Fine
  <2> QED BY <2>4
<1>4. Depth \in T
  <2> HIDE DEF T
  <2>1. 0 .. Depth \subseteq T BY <1>1, <1>2, <1>3, UpTo
  <2> QED BY <1>1, <2>1
<1>5. Within(Depth) = Paths BY PathsAre DEF Within
<1> QED BY <1>4, <1>5, DfsIs

-----------------------------------------------------------------------------
(* The plan of a tree.                                                     *)

Renames(t) == Chosen(Collected(t), {p \in Net(t) : t[p].new.kind = "base"})
Writes(t)  == Chosen(Collected(t), {p \in Net(t) : t[p].new.kind # "base"})
Saves(t)   == SavesFirst(t, Renames(t))
TempOf(t, p) == Temp(CHOOSE n \in DOMAIN Saves(t) : Saves(t)[n] = p)

LEMMA PlanIs ==
  ASSUME NEW t
  PROVE  IntoPlan(t) =
           [n \in DOMAIN Saves(t) |-> Move(Temp(n), t[Saves(t)[n]].new.path)]
             \o [n \in DOMAIN Renames(t) |-> Move(Renames(t)[n], TempOf(t, Renames(t)[n]))]
             \o [n \in DOMAIN Writes(t) |->
                   IF t[Writes(t)[n]].new = Gone THEN Delete(Writes(t)[n])
                   ELSE Stage(Writes(t)[n], t[Writes(t)[n]].new.ino)]
BY Zenon DEF IntoPlan, Saves, Renames, Writes, TempOf

LEMMA CollectedIs ==
  ASSUME NEW t, DOMAIN t \subseteq Paths
  PROVE  Collected(t) \in Seq(Paths) /\ Range(Collected(t)) = InPlan(t)
<1>1. InPlan(t) \subseteq Paths BY DEF InPlan, Net
<1>2. Collected(t) = Chosen(DfsPaths, InPlan(t)) BY DEF Collected, InPlan
<1>3. Collected(t) \in Seq(Paths) /\ Range(Collected(t)) = Paths \cap InPlan(t)
  BY <1>2, DfsPathsAre, ChosenIs
<1> QED BY <1>1, <1>3

LEMMA SideIs ==
  ASSUME NEW s \in Sides
  PROVE  /\ s = Nil \/ s = Gone \/ (\E p \in Paths : s = Base(p))
              \/ (\E i \in 1 .. nextIno : s = Staged(i))
         /\ s # Nil /\ s.kind = "base" => s.path \in Paths /\ s = Base(s.path)
         /\ s # Nil /\ s.kind # "base" /\ s # Gone => s.ino \in 1 .. nextIno /\ s = Staged(s.ino)
         /\ Gone # Nil /\ (\A p \in Paths : Base(p) # Nil) /\ (\A i \in Nat : Staged(i) # Nil)
<1>1. s = Nil \/ s = Gone \/ (\E p \in Paths : s = Base(p)) \/ (\E i \in 1 .. nextIno : s = Staged(i))
  BY DEF Sides, Unstaged
<1>2. s # Nil /\ s.kind = "base" => s.path \in Paths /\ s = Base(s.path)
  BY <1>1, Backings
<1>3. s # Nil /\ s.kind # "base" /\ s # Gone => s.ino \in 1 .. nextIno /\ s = Staged(s.ino)
  BY <1>1, Backings
<1>4. \A k \in {"base", "staged", "none"}, p \in Seq(STRING), i \in Nat :
        [kind |-> k, path |-> p, ino |-> i] # Nil
  BY DirTreeAssumption
<1>5. << >> \in Seq(STRING) BY EmptySeq
<1>6. \A p \in Paths : p \in Seq(STRING)
  <2>1. N \subseteq STRING BY DirTreeAssumption, RangeOfSeq DEF N
  <2> QED BY <2>1, PathsAre, SeqMonotonic
<1>7. Gone # Nil BY <1>4, <1>5 DEF Gone
<1>8. \A p \in Paths : Base(p) # Nil BY <1>4, <1>5, <1>6 DEF Base
<1>9. \A i \in Nat : Staged(i) # Nil BY <1>4, <1>5 DEF Staged
<1> QED BY <1>1, <1>2, <1>3, <1>7, <1>8, <1>9

\* Every rename of a plan is saved first.
LEMMA RenamesSaved ==
  ASSUME NEW t, IsTree(t)
  PROVE  /\ Renames(t) \in Seq(Paths) /\ Writes(t) \in Seq(Paths) /\ Saves(t) \in Seq(Paths)
         /\ Range(Renames(t)) = {p \in InPlan(t) : t[p].new.kind = "base"}
         /\ Range(Writes(t))  = {p \in InPlan(t) : t[p].new.kind # "base"}
         /\ Range(Saves(t)) = Range(Renames(t))
<1>1. DOMAIN t \subseteq Paths /\ \A p \in DOMAIN t : t[p].new \in Sides BY DEF IsTree
<1>2. Collected(t) \in Seq(Paths) /\ Range(Collected(t)) = InPlan(t) BY <1>1, CollectedIs
<1>3. InPlan(t) \subseteq Net(t) /\ Net(t) \subseteq DOMAIN t BY DEF InPlan, Net
<1>4. /\ Renames(t) \in Seq(Paths)
      /\ Range(Renames(t)) = InPlan(t) \cap {p \in Net(t) : t[p].new.kind = "base"}
  BY <1>2, ChosenIs DEF Renames
<1>5. /\ Writes(t) \in Seq(Paths)
      /\ Range(Writes(t)) = InPlan(t) \cap {p \in Net(t) : t[p].new.kind # "base"}
  BY <1>2, ChosenIs DEF Writes
<1>6. PICK R : R = Renames(t) OBVIOUS
<1>7. PICK level : level = [n \in 1 .. Depth |-> {p \in Range(R) : Len(t[p].new.path) = Depth + 1 - n}]
  OBVIOUS
<1>8. PICK f : f = [n \in 1 .. Depth |-> Chosen(R, level[n])] OBVIOUS
<1>9. Saves(t) = FlattenSeq(f) BY <1>6, <1>7, <1>8 DEF Saves, SavesFirst
<1>10. \A n \in 1 .. Depth : f[n] \in Seq(Paths) /\ Range(f[n]) = Range(R) \cap level[n]
  <2> TAKE n \in 1 .. Depth
  <2>1. f[n] = Chosen(R, level[n]) BY <1>8
  <2> QED BY <1>4, <1>6, <2>1, ChosenIs
<1>11. Depth \in Nat BY DirTreeAssumption
<1>12. f \in Seq(Seq(Paths)) /\ DOMAIN f = 1 .. Depth
  <2>1. f = [n \in 1 .. Depth |-> f[n]] BY <1>8
  <2> QED BY <1>10, <1>11, <2>1, SeqFrom
<1>13. /\ Saves(t) \in Seq(Paths)
       /\ \A p : p \in Range(Saves(t)) <=> \E n \in DOMAIN f : p \in Range(f[n])
  BY <1>9, <1>12, FlattenRange
<1>14. ASSUME NEW p \in Range(R) PROVE \E n \in 1 .. Depth : p \in level[n]
  <2>1. p \in Net(t) /\ p \in DOMAIN t /\ t[p].new.kind = "base" BY <1>3, <1>4, <1>6, <1>14
  <2>2. t[p].new \in Sides /\ t[p].new # Nil BY <1>1, <2>1 DEF Net
  <2>3. t[p].new.path \in Paths BY <2>1, <2>2, SideIs
  <2>4. Len(t[p].new.path) \in 1 .. Depth BY <2>3, PathsAre
  <2>5. PICK n \in 1 .. Depth : n = Depth + 1 - Len(t[p].new.path)
    <3>1. Depth + 1 - Len(t[p].new.path) \in 1 .. Depth BY <1>11, <2>4
    <3> QED BY <3>1
  <2>6. Len(t[p].new.path) = Depth + 1 - n BY <1>11, <2>4, <2>5
  <2> QED BY <1>7, <1>14, <2>6
<1>15. Range(Saves(t)) = Range(R)
  <2>1. \A p \in Range(Saves(t)) : p \in Range(R) BY <1>10, <1>12, <1>13
  <2>2. \A p \in Range(R) : p \in Range(Saves(t)) BY <1>10, <1>12, <1>13, <1>14
  <2> QED BY <2>1, <2>2
<1> QED BY <1>3, <1>4, <1>5, <1>6, <1>13, <1>15

LEMMA TempIs ==
  ASSUME NEW t, IsTree(t), NEW p \in Range(Renames(t))
  PROVE  \E n \in DOMAIN Saves(t) : TempOf(t, p) = Temp(n) /\ Saves(t)[n] = p /\ n \in Nat \ {0}
<1>1. p \in Range(Saves(t)) /\ Saves(t) \in Seq(Paths) BY RenamesSaved
<1>2. DOMAIN Saves(t) = 1 .. Len(Saves(t)) /\ Len(Saves(t)) \in Nat BY <1>1, LenProperties
<1>3. \E n \in DOMAIN Saves(t) : Saves(t)[n] = p BY <1>1 DEF Range
<1>4. PICK n : n = CHOOSE m \in DOMAIN Saves(t) : Saves(t)[m] = p OBVIOUS
<1>5. n \in DOMAIN Saves(t) /\ Saves(t)[n] = p BY <1>3, <1>4
<1>6. n \in Nat \ {0} BY <1>2, <1>5
<1>7. TempOf(t, p) = Temp(n) BY <1>4 DEF TempOf
<1> QED BY <1>5, <1>6, <1>7

LEMMA PlanOps ==
  ASSUME NEW t, IsTree(t), nextIno \in Nat
  PROVE  IntoPlan(t) \in Seq(Ops)
<1>1. PICK S, R, W : S = Saves(t) /\ R = Renames(t) /\ W = Writes(t) OBVIOUS
<1>2. /\ S \in Seq(Paths) /\ R \in Seq(Paths) /\ W \in Seq(Paths)
      /\ Range(R) = {p \in InPlan(t) : t[p].new.kind = "base"}
      /\ Range(W) = {p \in InPlan(t) : t[p].new.kind # "base"} /\ Range(S) = Range(R)
  BY <1>1, RenamesSaved
<1>3. \A p \in InPlan(t) : p \in Paths /\ t[p].new \in Sides /\ t[p].new # Nil
  BY DEF InPlan, Net, IsTree
<1>4. PICK a, b, c :
        /\ a = [n \in DOMAIN S |-> Move(Temp(n), t[S[n]].new.path)]
        /\ b = [n \in DOMAIN R |-> Move(R[n], TempOf(t, R[n]))]
        /\ c = [n \in DOMAIN W |-> IF t[W[n]].new = Gone THEN Delete(W[n])
                                   ELSE Stage(W[n], t[W[n]].new.ino)]
  OBVIOUS
<1>5. IntoPlan(t) = a \o b \o c BY <1>1, <1>4, PlanIs
<1>6. a \in Seq(Ops)
  <2>1. PICK k \in Nat : k = Len(S) /\ DOMAIN S = 1 .. k BY <1>2, LenProperties
  <2>2. ASSUME NEW n \in 1 .. k PROVE a[n] \in Ops
    <3>1. S[n] \in Range(S) BY <2>1 DEF Range
    <3>2. t[S[n]].new.path \in Paths BY <1>2, <1>3, <3>1, SideIs
    <3> QED BY <1>4, <2>1, <3>2 DEF Ops
  <2>3. a = [n \in 1 .. k |-> a[n]] BY <1>4, <2>1
  <2> QED BY <2>2, <2>3, SeqFrom
<1>7. b \in Seq(Ops)
  <2>1. PICK k \in Nat : k = Len(R) /\ DOMAIN R = 1 .. k BY <1>2, LenProperties
  <2>2. ASSUME NEW n \in 1 .. k PROVE b[n] \in Ops
    <3>1. R[n] \in Range(R) /\ R[n] \in Paths BY <1>2, <2>1, ElementOfSeq DEF Range
    <3>2. PICK m \in Nat : TempOf(t, R[n]) = Temp(m) BY <1>1, <3>1, TempIs
    <3> QED BY <1>4, <2>1, <3>1, <3>2 DEF Ops
  <2>3. b = [n \in 1 .. k |-> b[n]] BY <1>4, <2>1
  <2> QED BY <2>2, <2>3, SeqFrom
<1>8. c \in Seq(Ops)
  <2>1. PICK k \in Nat : k = Len(W) /\ DOMAIN W = 1 .. k BY <1>2, LenProperties
  <2>2. ASSUME NEW n \in 1 .. k PROVE c[n] \in Ops
    <3>1. W[n] \in Range(W) /\ W[n] \in Paths BY <1>2, <2>1, ElementOfSeq DEF Range
    <3>2. t[W[n]].new # Gone => t[W[n]].new.ino \in Nat BY <1>2, <1>3, <3>1, SideIs
    <3> QED BY <1>4, <2>1, <3>1, <3>2 DEF Ops
  <2>3. c = [n \in 1 .. k |-> c[n]] BY <1>4, <2>1
  <2> QED BY <2>2, <2>3, SeqFrom
<1> QED BY <1>5, <1>6, <1>7, <1>8, ConcatProperties

-----------------------------------------------------------------------------
(* Trees of directories.                                                   *)

\* What a move carries along.
LEMMA CarriedIs ==
  ASSUME NEW S, NEW f, DOMAIN f \subseteq Seq(S), NEW src \in Seq(S), NEW dst \in Seq(S)
  PROVE  /\ DOMAIN Carried(f, src, dst) \subseteq Seq(S)
         /\ \A q \in Seq(S) : q \in DOMAIN Carried(f, src, dst) <=>
                                IsStrictPrefix(dst, q) /\ Rebase(q, dst, src) \in DOMAIN f
         /\ \A q \in DOMAIN Carried(f, src, dst) :
              /\ IsStrictPrefix(dst, q) /\ IsStrictPrefix(src, Rebase(q, dst, src))
              /\ Rebase(q, dst, src) \in DOMAIN f
              /\ Carried(f, src, dst)[q] = f[Rebase(q, dst, src)]
<1>1. DOMAIN Carried(f, src, dst) = {Rebase(r, src, dst) : r \in BelowIn(f, src)}
  BY DEF Carried
<1>2. ASSUME NEW q \in DOMAIN Carried(f, src, dst)
      PROVE  /\ q \in Seq(S) /\ IsStrictPrefix(dst, q) /\ Rebase(q, dst, src) \in DOMAIN f
             /\ IsStrictPrefix(src, Rebase(q, dst, src))
             /\ Carried(f, src, dst)[q] = f[Rebase(q, dst, src)]
  <2>1. PICK r \in BelowIn(f, src) : q = Rebase(r, src, dst) BY <1>1
  <2>2. r \in Seq(S) /\ r \in DOMAIN f /\ IsPrefix(src, r) /\ src # r BY <2>1 DEF BelowIn, IsStrictPrefix
  <2>3. /\ q \in Seq(S) /\ IsPrefix(dst, q) /\ Rebase(q, dst, src) = r /\ q # dst
    BY <2>1, <2>2, RebaseBack
  <2> QED BY <1>1, <2>2, <2>3 DEF Carried, IsStrictPrefix
<1>3. ASSUME NEW q \in Seq(S), IsStrictPrefix(dst, q), Rebase(q, dst, src) \in DOMAIN f
      PROVE  q \in DOMAIN Carried(f, src, dst)
  <2>1. PICK r : r = Rebase(q, dst, src) OBVIOUS
  <2>2. IsPrefix(dst, q) /\ dst # q BY <1>3 DEF IsStrictPrefix
  <2>3. r \in Seq(S) /\ IsPrefix(src, r) /\ Rebase(r, src, dst) = q /\ r # src
    BY <2>1, <2>2, RebaseBack
  <2>4. r \in BelowIn(f, src) BY <1>3, <2>1, <2>3 DEF BelowIn, IsStrictPrefix
  <2> QED BY <1>1, <2>3, <2>4
<1> QED BY <1>2, <1>3

\* Every path has a directory above it.
DirsOver(d, S) == DOMAIN d \subseteq Seq(S) \ {<< >>} /\ \A p \in DOMAIN d : HasParent(d, p)

LEMMA WithoutDirs ==
  ASSUME NEW S, NEW d, DirsOver(d, S), NEW p \in Seq(S)
  PROVE  DirsOver(Without(d, p), S)
<1>1. PICK e : e = Without(d, p) OBVIOUS
<1>2. DOMAIN e = {q \in DOMAIN d : ~IsPrefix(p, q)} /\ \A q \in DOMAIN e : e[q] = d[q]
  BY <1>1 DEF Without, Restrict
<1>3. ASSUME NEW q \in DOMAIN e PROVE HasParent(e, q)
  <2>1. q \in Seq(S) /\ q # << >> /\ HasParent(d, q) BY <1>2 DEF DirsOver
  <2>2. ~IsPrefix(p, Front(q)) BY <1>2, <2>1, PrefixFront
  <2> QED BY <1>2, <2>1, <2>2 DEF HasParent
<1> QED BY <1>1, <1>2, <1>3 DEF DirsOver

\* A path put in with nothing below it, or a directory.
LEMMA PutDirs ==
  ASSUME NEW S, NEW d, DirsOver(d, S), NEW p \in Seq(S) \ {<< >>}, HasParent(d, p), NEW e,
         e.dir \/ \A q \in DOMAIN d : ~IsStrictPrefix(p, q)
  PROVE  DirsOver(Put(d, p, e), S)
<1>1. PICK f : f = Put(d, p, e) OBVIOUS
<1>2. DOMAIN f = DOMAIN d \cup {p} /\ f[p] = e /\ \A q \in DOMAIN d : q # p => f[q] = d[q]
  BY <1>1 DEF Put
<1>3. ASSUME NEW q \in DOMAIN f PROVE HasParent(f, q)
  <2>1. q \in Seq(S) /\ q # << >> /\ HasParent(d, q) BY <1>2 DEF DirsOver
  <2>2. CASE Front(q) = p /\ Len(q) # 1
    <3>1. IsStrictPrefix(p, q) BY <2>1, <2>2, PrefixFront, PrefixSelf
    <3>2. q \in DOMAIN d BY <1>2, <3>1 DEF IsStrictPrefix
    <3> QED BY <1>2, <2>2, <3>1, <3>2 DEF HasParent
  <2>3. CASE Front(q) # p \/ Len(q) = 1 BY <1>2, <2>1, <2>3 DEF HasParent
  <2> QED BY <2>2, <2>3
<1> QED BY <1>1, <1>2, <1>3 DEF DirsOver

\* The parents of p made where they are missing.
LEMMA ParentsDirs ==
  ASSUME NEW S, NEW d, DirsOver(d, S), NEW p \in Seq(S),
         \A q \in Ancestors(p) \cap DOMAIN d : d[q].dir
  PROVE  DirsOver(Over(d, [q \in Ancestors(p) |-> Entry(TRUE, Gone)]), S)
<1>1. PICK g : g = [q \in Ancestors(p) |-> Entry(TRUE, Gone)] OBVIOUS
<1>2. PICK f : f = Over(d, g) OBVIOUS
<1>3. /\ DOMAIN f = DOMAIN d \cup Ancestors(p) /\ \A q \in DOMAIN d : f[q] = d[q]
      /\ \A q \in Ancestors(p) : q \notin DOMAIN d => f[q].dir
  BY <1>1, <1>2 DEF Over, Entry
<1>4. Ancestors(p) \subseteq Seq(S) \ {<< >>} BY AncestorsAre
<1>5. ASSUME NEW q \in Ancestors(p) PROVE HasParent(f, q)
  <2>1. q \in Seq(S) /\ q # << >> /\ IsStrictPrefix(q, p) BY AncestorsAre
  <2>2. CASE Len(q) = 1 BY <2>2 DEF HasParent
  <2>3. CASE Len(q) # 1
    <3>1. /\ Front(q) \in Seq(S) /\ Len(Front(q)) = Len(q) - 1 /\ Len(q) \in Nat \ {0}
          /\ IsPrefix(Front(q), q) /\ Front(q) # q
      BY <2>1, FrontIs, PrefixFront
    <3>2. Front(q) # << >> BY <2>3, <3>1, EmptySeq
    <3>3. IsPrefix(Front(q), p) BY <2>1, <3>1, PrefixTrans DEF IsStrictPrefix
    <3>4. Front(q) # p
      <4>1. Len(q) <= Len(p) BY <2>1, PrefixIs DEF IsStrictPrefix
      <4>2. Len(p) \in Nat BY LenProperties
      <4> QED BY <3>1, <4>1, <4>2
    <3>5. Front(q) \in Ancestors(p) BY <3>1, <3>2, <3>3, <3>4, AncestorsAre DEF IsStrictPrefix
    <3> QED BY <1>3, <3>5 DEF HasParent
  <2> QED BY <2>2, <2>3
<1>6. ASSUME NEW q \in DOMAIN d PROVE HasParent(f, q)
  BY <1>3 DEF DirsOver, HasParent
<1> QED BY <1>1, <1>2, <1>3, <1>4, <1>5, <1>6 DEF DirsOver

\* A move to a name with nothing at it, from one that is not above it.
LEMMA MovedDirs ==
  ASSUME NEW S, NEW d, DirsOver(d, S), NEW src \in DOMAIN d, NEW dst \in Seq(S) \ {<< >>},
         HasParent(d, dst), ~IsPrefix(src, dst), ~IsPrefix(dst, src),
         \A q \in DOMAIN d : ~IsPrefix(dst, q)
  PROVE  DirsOver(Moved(d, dst, src), S)
<1>1. PICK c, r, f : /\ c = Carried(d, src, dst) /\ r = Without(Without(d, dst), src)
                     /\ f = Moved(d, dst, src)
  OBVIOUS
<1>2. src \in Seq(S) /\ src # << >> /\ DOMAIN d \subseteq Seq(S) BY DEF DirsOver
<1>3. /\ DOMAIN c \subseteq Seq(S)
      /\ \A q \in Seq(S) : q \in DOMAIN c <=> IsStrictPrefix(dst, q) /\ Rebase(q, dst, src) \in DOMAIN d
      /\ \A q \in DOMAIN c : /\ IsStrictPrefix(dst, q) /\ IsStrictPrefix(src, Rebase(q, dst, src))
                             /\ Rebase(q, dst, src) \in DOMAIN d
                             /\ c[q] = d[Rebase(q, dst, src)]
  BY <1>1, <1>2, CarriedIs
<1>4. DOMAIN r = {q \in DOMAIN d : ~IsPrefix(src, q)} /\ \A q \in DOMAIN r : r[q] = d[q]
  BY <1>1 DEF Without, Restrict
<1>5. /\ DOMAIN f = DOMAIN c \cup DOMAIN r \cup {dst}
      /\ \A q \in DOMAIN c : f[q] = c[q]
      /\ \A q \in DOMAIN r : q \notin DOMAIN c /\ q # dst => f[q] = r[q]
      /\ dst \notin DOMAIN c => f[dst] = d[src]
  BY <1>1 DEF Moved, Over, Put
<1>6. dst \notin DOMAIN c BY <1>3 DEF IsStrictPrefix
<1>7. \A q \in DOMAIN r : q \notin DOMAIN c /\ q # dst
  <2> TAKE q \in DOMAIN r
  <2>1. ~IsPrefix(dst, q) BY <1>4
  <2> QED BY <1>3, <2>1, PrefixSelf DEF IsStrictPrefix
<1>8. ASSUME NEW q \in DOMAIN r PROVE HasParent(f, q)
  <2>1. q \in Seq(S) /\ q # << >> /\ HasParent(d, q) /\ ~IsPrefix(src, q)
    BY <1>4 DEF DirsOver
  <2>2. ~IsPrefix(src, Front(q)) BY <1>2, <2>1, PrefixFront
  <2> QED BY <1>4, <1>5, <1>7, <2>1, <2>2 DEF HasParent
<1>9. HasParent(f, dst)
  <2>1. ~IsPrefix(src, Front(dst)) BY <1>2, PrefixFront
  <2> QED BY <1>4, <1>5, <1>7, <2>1 DEF HasParent
<1>10. ASSUME NEW q \in DOMAIN c PROVE HasParent(f, q)
  <2>1. q \in Seq(S) /\ IsStrictPrefix(dst, q) BY <1>3
  <2>2. PICK o : o = Rebase(q, dst, src) OBVIOUS
  <2>3. o \in DOMAIN d /\ IsStrictPrefix(src, o) /\ o \in Seq(S) /\ o # << >> /\ HasParent(d, o)
    BY <1>3, <2>2 DEF DirsOver
  <2>4. q # << >> /\ Front(o) = Rebase(Front(q), dst, src) BY <1>2, <2>1, <2>2, RebaseFront
  <2>5. IsPrefix(dst, Front(q)) /\ Front(q) \in Seq(S) BY <2>1, <2>4, PrefixFront
  <2>6. IsPrefix(src, Front(o)) /\ Front(o) \in Seq(S) BY <1>2, <2>3, PrefixFront
  <2>7. Len(o) # 1
    <3>1. Len(src) \in Nat \ {0} BY <1>2, EmptySeq
    <3>2. Len(src) <= Len(Front(o)) /\ Len(Front(o)) = Len(o) - 1 /\ Len(o) \in Nat
      BY <1>2, <2>3, <2>6, PrefixIs, FrontIs
    <3> QED BY <3>1, <3>2
  <2>8. Front(o) \in DOMAIN d /\ d[Front(o)].dir BY <2>3, <2>7 DEF HasParent
  <2>9. CASE Front(q) = dst
    <3>1. Front(o) = src BY <1>2, <2>4, <2>9, PrefixSelf, RebaseBack
    <3> QED BY <1>5, <1>6, <2>8, <2>9, <3>1 DEF HasParent
  <2>10. CASE Front(q) # dst
    <3>1. IsStrictPrefix(dst, Front(q)) BY <2>5, <2>10 DEF IsStrictPrefix
    <3>2. Front(q) \in DOMAIN c BY <1>3, <2>4, <2>5, <2>8, <3>1
    <3>3. f[Front(q)] = d[Front(o)] BY <1>3, <1>5, <2>4, <3>2
    <3> QED BY <1>5, <2>8, <3>2, <3>3 DEF HasParent
  <2> QED BY <2>9, <2>10
<1>11. DOMAIN f \subseteq Seq(S) \ {<< >>}
  <2>1. << >> \notin DOMAIN c
    <3>1. Rebase(<< >>, dst, src) \in DOMAIN d /\ IsStrictPrefix(dst, << >>) => << >> # << >>
      BY <1>2, RebaseFront, EmptySeq
    <3> QED BY <1>3, <3>1
  <2> QED BY <1>3, <1>4, <1>5, <2>1 DEF DirsOver
<1> QED BY <1>1, <1>5, <1>8, <1>9, <1>10, <1>11 DEF DirsOver

-----------------------------------------------------------------------------
(* The paths of a disk.                                                    *)

U == N \cup {".yolofs"} \cup Nat

DiskPath(p) ==
  /\ p \in Seq(U) /\ Len(p) \in Nat \ {0}
  /\ p[1] \in N => \A i \in 1 .. Len(p) : p[i] \in N
  /\ p[1] \notin N => /\ p[1] = ".yolofs" /\ (Len(p) > 1 => p[2] \in Nat)
                      /\ \A i \in 3 .. Len(p) : p[i] \in N

LEMMA NoScratchName == ".yolofs" \notin N
<1>1. \A i \in DOMAIN Names : Names[i] # ".yolofs"
  BY DirTreeAssumption, LenProperties, ElementOfSeq
<1> QED BY <1>1 DEF N, Range

LEMMA TempIsPath ==
  ASSUME NEW n \in Nat
  PROVE  /\ Temp(n) \in Seq(U) /\ Len(Temp(n)) = 2 /\ Temp(n)[1] = ".yolofs" /\ Temp(n)[2] = n
         /\ Scratch \in Seq(U) /\ Len(Scratch) = 1 /\ Scratch[1] = ".yolofs"
<1>1. n \in U /\ ".yolofs" \in U BY DEF U
<1> QED BY <1>1 DEF Temp, Scratch

LEMMA OnDiskIs ==
  ASSUME NEW p
  PROVE  OnDisk(p) <=> DiskPath(p)
<1>1. ASSUME p \in Seq(N) \ {<< >>} PROVE DiskPath(p)
  <2>1. Len(p) \in Nat \ {0} /\ \A i \in 1 .. Len(p) : p[i] \in N
    BY <1>1, LenProperties, ElementOfSeq, EmptySeq
  <2>2. p \in Seq(U) BY <1>1, LenProperties, ElementOfSeq, IsASeq DEF U
  <2> QED BY <2>1, <2>2 DEF DiskPath
<1>2. ASSUME p = Scratch PROVE DiskPath(p)
  BY <1>2, TempIsPath, NoScratchName DEF DiskPath
<1>3. ASSUME NEW n \in Nat, NEW s \in Seq(N), p = Temp(n) \o s PROVE DiskPath(p)
  <2>1. Len(s) \in Nat /\ (\A i \in 1 .. Len(s) : s[i] \in N) /\ s \in Seq(U)
    BY LenProperties, ElementOfSeq, IsASeq DEF U
  <2>2. /\ p \in Seq(U) /\ Len(p) = 2 + Len(s)
        /\ \A i \in 1 .. 2 + Len(s) : p[i] = IF i <= 2 THEN Temp(n)[i] ELSE s[i - 2]
    <3>1. PICK w : w = Temp(n) OBVIOUS
    <3>2. w \in Seq(U) /\ Len(w) = 2 BY <3>1, TempIsPath
    <3>3. /\ w \o s \in Seq(U) /\ Len(w \o s) = Len(w) + Len(s)
          /\ \A i \in 1 .. Len(w) + Len(s) : (w \o s)[i] = IF i <= Len(w) THEN w[i] ELSE s[i - Len(w)]
      BY <2>1, <3>2, ConcatProperties
    <3>4. p = w \o s BY <1>3, <3>1
    <3> QED BY <3>1, <3>2, <3>3, <3>4
  <2>3. p[1] = ".yolofs" /\ p[2] = n BY <2>1, <2>2, TempIsPath
  <2>4. ASSUME NEW i \in 3 .. Len(p) PROVE p[i] \in N
    <3>1. i - 2 \in 1 .. Len(s) /\ ~(i <= 2) /\ i \in 1 .. 2 + Len(s) BY <2>1, <2>2
    <3> QED BY <2>1, <2>2, <3>1
  <2> QED BY <2>1, <2>2, <2>3, <2>4, NoScratchName DEF DiskPath
<1>4. ASSUME DiskPath(p), p[1] \in N PROVE OnDisk(p)
  <2>1. p \in Seq(N) \ {<< >>} BY <1>4, IsASeq, LenProperties, EmptySeq DEF DiskPath
  <2> QED BY <2>1 DEF OnDisk, Anywhere, N
<1>5. ASSUME DiskPath(p), p[1] \notin N PROVE OnDisk(p)
  <2>1. p \in Seq(U) /\ Len(p) \in Nat \ {0} /\ p[1] = ".yolofs" BY <1>5 DEF DiskPath
  <2>2. CASE Len(p) = 1
    <3>1. p = Scratch BY <2>1, <2>2, TempIsPath, SeqEqual
    <3> QED BY <3>1 DEF OnDisk, Anywhere
  <2>3. CASE Len(p) > 1
    <3>1. PICK s : s = SubSeq(p, 3, Len(p)) OBVIOUS
    <3>2. p[2] \in Nat /\ \A i \in 3 .. Len(p) : p[i] \in N BY <1>5, <2>3 DEF DiskPath
    <3>3. /\ s \in Seq(N) /\ Len(s) = Len(p) - 2
          /\ \A i \in 1 .. Len(s) : s[i] = p[2 + i]
      <4>1. /\ s \in Seq(N) /\ Len(s) = IF 3 <= Len(p) THEN Len(p) - 3 + 1 ELSE 0
            /\ \A i \in 1 .. Len(p) - 3 + 1 : s[i] = p[3 + i - 1]
        <5>1. 3 \in Int /\ Len(p) \in Int BY <2>1
        <5> QED BY <3>1, <3>2, <5>1, SubSeqProperties
      <4>2. PICK k \in Nat : k = Len(p) /\ k > 1 BY <2>1, <2>3
      <4>3. /\ Len(s) = k - 2
            /\ \A i \in 1 .. k - 2 : i \in 1 .. k - 3 + 1 /\ 3 + i - 1 = 2 + i
        BY <4>1, <4>2
      <4> QED BY <4>1, <4>2, <4>3
    <3>4. s \in Seq(U)
      <4>1. N \subseteq U BY DEF U
      <4> QED BY <3>3, <4>1, SeqMonotonic
    <3>5. PICK q : q = Temp(p[2]) \o s OBVIOUS
    <3>6. /\ q \in Seq(U) /\ Len(q) = 2 + Len(s)
          /\ \A i \in 1 .. 2 + Len(s) : q[i] = IF i <= 2 THEN Temp(p[2])[i] ELSE s[i - 2]
      <4>1. PICK w : w = Temp(p[2]) OBVIOUS
      <4>2. w \in Seq(U) /\ Len(w) = 2 BY <3>2, <4>1, TempIsPath
      <4>3. /\ w \o s \in Seq(U) /\ Len(w \o s) = Len(w) + Len(s)
            /\ \A i \in 1 .. Len(w) + Len(s) : (w \o s)[i] = IF i <= Len(w) THEN w[i] ELSE s[i - Len(w)]
        BY <3>4, <4>2, ConcatProperties
      <4> QED BY <3>5, <4>1, <4>2, <4>3
    <3>7. ASSUME NEW i \in 1 .. Len(p) PROVE p[i] = q[i]
      <4>1. CASE i <= 2
        <5>1. q[i] = Temp(p[2])[i] /\ i \in {1, 2} BY <2>1, <3>3, <3>6, <4>1
        <5> QED BY <2>1, <3>2, <5>1, TempIsPath
      <4>2. CASE i > 2
        <5>1. i - 2 \in 1 .. Len(s) /\ ~(i <= 2) /\ i \in 1 .. 2 + Len(s) /\ 2 + (i - 2) = i
          BY <2>1, <3>3, <4>2
        <5> QED BY <3>3, <3>6, <5>1
      <4> QED BY <2>1, <4>1, <4>2
    <3>8. p = q BY <2>1, <3>3, <3>6, <3>7, SeqEqual
    <3>9. s \in Seq(Range(Names)) /\ p = Temp(p[2]) \o s BY <3>3, <3>5, <3>8 DEF N
    <3>10. SubSeq(p, 3, Len(p)) \in Seq(Range(Names)) /\ p = Temp(p[2]) \o SubSeq(p, 3, Len(p))
      BY <3>1, <3>9
    <3> QED BY <2>3, <3>2, <3>10, Zenon DEF OnDisk, Anywhere
  <2>4. PICK k \in Nat \ {0} : k = Len(p) BY <2>1
  <2>5. k = 1 \/ k > 1 BY <2>4
  <2> QED BY <2>2, <2>3, <2>4, <2>5
<1>6. OnDisk(p) => \/ p \in Seq(N) \ {<< >>} \/ p = Scratch
                   \/ \E n \in Nat, s \in Seq(N) : p = Temp(n) \o s
  BY DEF OnDisk, Anywhere, N
<1> QED BY <1>1, <1>2, <1>3, <1>4, <1>5, <1>6

\* The places of a plan: a path and a scratch file, neither above the other.
IsPlace(p) == p \in Paths \/ \E n \in Nat : p = Temp(n)
Across(p, q) == \/ p \in Paths /\ \E n \in Nat : q = Temp(n)
                \/ q \in Paths /\ \E n \in Nat : p = Temp(n)

LEMMA PathOnDisk ==
  ASSUME NEW p \in Paths
  PROVE  /\ DiskPath(p) /\ p \in Seq(U) \ {<< >>} /\ p[1] \in N /\ p \in Seq(N)
         /\ \A i \in 1 .. Len(p) : p[i] \in N
<1>1. p \in Seq(N) \ {<< >>} /\ Len(p) \in Nat \ {0} BY PathsAre, EmptySeq, FrontPath
<1>2. \A i \in 1 .. Len(p) : p[i] \in N BY <1>1, ElementOfSeq
<1>3. 1 \in 1 .. Len(p) BY <1>1
<1>4. p[1] \in N BY <1>2, <1>3
<1>5. p \in Seq(U)
  <2>1. N \subseteq U BY DEF U
  <2> QED BY <1>1, <2>1, SeqMonotonic
<1> QED BY <1>1, <1>2, <1>4, <1>5 DEF DiskPath

LEMMA PlaceIs ==
  ASSUME NEW p, IsPlace(p)
  PROVE  /\ DiskPath(p) /\ p \in Seq(U) \ {<< >>}
         /\ \A a \in Ancestors(p) : DiskPath(a)
<1>1. CASE p \in Paths
  <2>1. ASSUME NEW a \in Ancestors(p) PROVE DiskPath(a)
    <3>1. a \in Seq(N) \ {<< >>} BY <1>1, PathOnDisk, AncestorsAre
    <3>2. OnDisk(a) BY <3>1 DEF OnDisk, Anywhere, N
    <3> QED BY <3>2, OnDiskIs
  <2> QED BY <1>1, <2>1, PathOnDisk
<1>2. CASE \E n \in Nat : p = Temp(n)
  <2>1. PICK n \in Nat : p = Temp(n) BY <1>2
  <2>2. p \in Seq(U) /\ Len(p) = 2 /\ p[1] = ".yolofs" /\ p[2] = n BY <2>1, TempIsPath
  <2>3. DiskPath(p) BY <2>2, NoScratchName DEF DiskPath
  <2>4. p # << >> BY <2>2, EmptySeq
  <2>5. ASSUME NEW a \in Ancestors(p) PROVE DiskPath(a)
    <3>1. a \in Seq(U) /\ a # << >> /\ IsPrefix(a, p) /\ a # p
      BY <2>2, AncestorsAre DEF IsStrictPrefix
    <3>2. Len(a) \in Nat \ {0} BY <3>1, EmptySeq
    <3>3. Len(a) <= 2 /\ \A i \in 1 .. Len(a) : a[i] = p[i] BY <2>2, <3>1, PrefixIs
    <3>4. Len(a) # 2 BY <2>2, <3>1, <3>3, SeqEqual
    <3>5. Len(a) = 1
      <4>1. PICK k \in Nat \ {0} : k = Len(a) BY <3>2
      <4>2. k <= 2 /\ k # 2 BY <3>3, <3>4, <4>1
      <4> QED BY <4>1, <4>2
    <3>6. a[1] = ".yolofs" BY <2>2, <3>3, <3>5
    <3> QED BY <3>1, <3>5, <3>6, NoScratchName DEF DiskPath
  <2> QED BY <2>2, <2>3, <2>4, <2>5
<1> QED BY <1>1, <1>2 DEF IsPlace

LEMMA Apart ==
  ASSUME NEW p, NEW q, Across(p, q)
  PROVE  ~IsPrefix(p, q) /\ ~IsPrefix(q, p) /\ IsPlace(p) /\ IsPlace(q)
<1>1. ASSUME NEW a \in Paths, NEW n \in Nat PROVE ~IsPrefix(a, Temp(n)) /\ ~IsPrefix(Temp(n), a)
  <2>1. PICK b : b = Temp(n) OBVIOUS
  <2>2. b \in Seq(U) /\ Len(b) = 2 /\ b[1] = ".yolofs" BY <2>1, TempIsPath
  <2>3. a \in Seq(U) /\ a[1] \in N /\ Len(a) \in Nat \ {0} BY PathOnDisk DEF DiskPath
  <2>4. a[1] # b[1] BY <2>2, <2>3, NoScratchName
  <2>5. 1 \in 1 .. Len(a) /\ 1 \in 1 .. Len(b) BY <2>2, <2>3
  <2>6. ~IsPrefix(a, b) BY <2>2, <2>3, <2>4, <2>5, PrefixIs
  <2>7. ~IsPrefix(b, a)
    <3>1. IsPrefix(b, a) => \A i \in 1 .. Len(b) : b[i] = a[i] BY <2>2, <2>3, PrefixIs
    <3> QED BY <2>4, <2>5, <3>1
  <2> QED BY <2>1, <2>6, <2>7
<1> QED BY <1>1 DEF Across, IsPlace

\* What is moved with a name or a scratch file lies within bounds of its kind.
LEMMA RebaseOnDisk ==
  ASSUME NEW src, NEW dst, Across(src, dst), NEW q, DiskPath(q), IsPrefix(src, q)
  PROVE  DiskPath(Rebase(q, src, dst))
<1>1. DiskPath(src) /\ DiskPath(dst) /\ src \in Seq(U) /\ dst \in Seq(U) /\ q \in Seq(U)
  BY Apart, PlaceIs DEF DiskPath
<1>2. PICK R : R = Rebase(q, src, dst) OBVIOUS
<1>3. /\ R \in Seq(U) /\ Len(R) = Len(dst) + (Len(q) - Len(src))
      /\ Len(q) - Len(src) \in Nat /\ Len(dst) \in Nat /\ Len(src) \in Nat /\ Len(q) \in Nat
      /\ \A i \in 1 .. Len(dst) : R[i] = dst[i]
      /\ \A i \in 1 .. Len(q) - Len(src) : R[Len(dst) + i] = q[Len(src) + i]
  <2>1. IsRebase(R, q, src, dst, U) BY <1>1, <1>2, RebaseIs
  <2> QED BY <2>1 DEF IsRebase
<1>4. Len(src) <= Len(q) /\ \A i \in 1 .. Len(src) : src[i] = q[i] BY <1>1, PrefixIs
<1>5. CASE src \in Paths /\ \E n \in Nat : dst = Temp(n)
  <2>1. PICK n \in Nat : dst = Temp(n) BY <1>5
  <2>2. Len(dst) = 2 /\ dst[1] = ".yolofs" /\ dst[2] = n BY <2>1, TempIsPath
  <2>3. src[1] \in N /\ Len(src) \in Nat \ {0} BY <1>5, PathOnDisk DEF DiskPath
  <2>4. 1 \in 1 .. Len(src) BY <2>3
  <2>5. q[1] \in N BY <1>4, <2>3, <2>4
  <2>6. \A i \in 1 .. Len(q) : q[i] \in N BY <2>5 DEF DiskPath
  <2>7. R[1] = ".yolofs" /\ R[2] = n BY <1>3, <2>2
  <2>8. ASSUME NEW i \in 3 .. Len(R) PROVE R[i] \in N
    <3>1. PICK j : j = i - 2 OBVIOUS
    <3>2. j \in 1 .. Len(q) - Len(src) /\ Len(dst) + j = i /\ Len(src) + j \in 1 .. Len(q)
      BY <1>3, <2>2, <2>3, <3>1
    <3> QED BY <1>3, <2>6, <3>2
  <2>9. Len(R) \in Nat \ {0} BY <1>3, <2>2
  <2> QED BY <1>2, <1>3, <2>7, <2>8, <2>9, NoScratchName DEF DiskPath
<1>6. CASE dst \in Paths /\ \E n \in Nat : src = Temp(n)
  <2>1. PICK n \in Nat : src = Temp(n) BY <1>6
  <2>2. Len(src) = 2 /\ src[1] = ".yolofs" BY <2>1, TempIsPath
  <2>3. Len(dst) \in Nat \ {0} /\ \A i \in 1 .. Len(dst) : dst[i] \in N
    BY <1>6, PathOnDisk DEF DiskPath
  <2>4. q[1] = ".yolofs" BY <1>4, <2>2
  <2>5. \A i \in 3 .. Len(q) : q[i] \in N BY <2>4, NoScratchName DEF DiskPath
  <2>6. ASSUME NEW i \in 1 .. Len(R) PROVE R[i] \in N
    <3>1. CASE i <= Len(dst)
      <4>1. i \in 1 .. Len(dst) BY <1>3, <2>3, <3>1
      <4> QED BY <1>3, <2>3, <4>1
    <3>2. CASE ~(i <= Len(dst))
      <4>1. PICK j : j = i - Len(dst) OBVIOUS
      <4>2. j \in 1 .. Len(q) - Len(src) /\ Len(dst) + j = i /\ Len(src) + j \in 3 .. Len(q)
        BY <1>3, <2>2, <2>3, <3>2, <4>1
      <4> QED BY <1>3, <2>5, <4>2
    <3> QED BY <3>1, <3>2
  <2>7. Len(R) \in Nat \ {0} BY <1>3, <2>3
  <2>8. 1 \in 1 .. Len(R) BY <2>7
  <2> QED BY <1>2, <1>3, <2>6, <2>7, <2>8 DEF DiskPath
<1> QED BY <1>5, <1>6 DEF Across

\* A tree of directories of such paths.
DiskOK(d) == DirsOver(d, U) /\ \A p \in DOMAIN d : OnDisk(p)

LEMMA DiskIs ==
  ASSUME NEW d
  PROVE  DiskOK(d) <=> \A p \in DOMAIN d : OnDisk(p) /\ HasParent(d, p)
<1>1. ASSUME NEW p, OnDisk(p) PROVE p \in Seq(U) \ {<< >>}
  <2>1. DiskPath(p) BY <1>1, OnDiskIs
  <2> QED BY <2>1, EmptySeq DEF DiskPath
<1> QED BY <1>1 DEF DiskOK, DirsOver

LEMMA WithoutOK ==
  ASSUME NEW d, DiskOK(d), NEW p, IsPlace(p)
  PROVE  DiskOK(Without(d, p))
<1>1. p \in Seq(U) BY PlaceIs
<1>2. DirsOver(Without(d, p), U) BY <1>1, WithoutDirs DEF DiskOK
<1>3. DOMAIN Without(d, p) \subseteq DOMAIN d BY DEF Without, Restrict
<1> QED BY <1>2, <1>3 DEF DiskOK

LEMMA ParentsOK ==
  ASSUME DiskOK(disk), NEW p, IsPlace(p), ~(Front(p) \notin ensured /\ Blocked(p))
  PROVE  DiskOK(WithParents(p))
<1>1. CASE Front(p) \in ensured BY <1>1 DEF WithParents
<1>2. CASE Front(p) \notin ensured
  <2>1. p \in Seq(U) /\ \A a \in Ancestors(p) : OnDisk(a) BY PlaceIs, OnDiskIs
  <2>2. \A q \in Ancestors(p) \cap DOMAIN disk : disk[q].dir BY <1>2 DEF Blocked
  <2>3. PICK f : f = Over(disk, [q \in Ancestors(p) |-> Entry(TRUE, Gone)]) OBVIOUS
  <2>4. DirsOver(f, U) BY <2>1, <2>2, <2>3, ParentsDirs DEF DiskOK
  <2>5. DOMAIN f = DOMAIN disk \cup Ancestors(p) BY <2>3 DEF Over
  <2>6. DiskOK(f) BY <2>1, <2>4, <2>5 DEF DiskOK
  <2> QED BY <1>2, <2>3, <2>6 DEF WithParents
<1> QED BY <1>1, <1>2

LEMMA MovedOK ==
  ASSUME NEW d, DiskOK(d), NEW src \in DOMAIN d, NEW dst, Across(src, dst), HasParent(d, dst),
         \A q \in DOMAIN d : ~IsPrefix(dst, q)
  PROVE  DiskOK(Moved(d, dst, src))
<1>1. /\ src \in Seq(U) /\ dst \in Seq(U) \ {<< >>} /\ OnDisk(dst) /\ Across(dst, src)
      /\ ~IsPrefix(src, dst) /\ ~IsPrefix(dst, src)
  BY Apart, PlaceIs, OnDiskIs DEF Across
<1>2. DirsOver(Moved(d, dst, src), U) BY <1>1, MovedDirs DEF DiskOK
<1>3. PICK c : c = Carried(d, src, dst) OBVIOUS
<1>4. DOMAIN d \subseteq Seq(U) BY DEF DiskOK, DirsOver
<1>5. ASSUME NEW q \in DOMAIN c PROVE OnDisk(q)
  <2>1. PICK r \in BelowIn(d, src) : q = Rebase(r, src, dst) BY <1>3 DEF Carried
  <2>2. r \in DOMAIN d /\ IsPrefix(src, r) BY <2>1 DEF BelowIn, IsStrictPrefix
  <2>3. DiskPath(r) BY <2>2, OnDiskIs DEF DiskOK
  <2> QED BY <2>1, <2>2, <2>3, RebaseOnDisk, OnDiskIs
<1>6. DOMAIN Moved(d, dst, src) \subseteq DOMAIN c \cup DOMAIN d \cup {dst}
  BY <1>3 DEF Moved, Over, Put, Without, Restrict
<1> QED BY <1>1, <1>2, <1>5, <1>6 DEF DiskOK

\* A place with nothing below it but what the new directory keeps.
LEMMA PlacedOK ==
  ASSUME NEW d, DiskOK(d), NEW p, IsPlace(p), HasParent(d, p), NEW e
  PROVE  DiskOK(Put(Without(d, p), p, e))
<1>1. PICK w : w = Without(d, p) OBVIOUS
<1>2. DiskOK(w) BY <1>1, WithoutOK
<1>3. p \in Seq(U) \ {<< >>} /\ OnDisk(p) BY PlaceIs, OnDiskIs
<1>4. \A q \in DOMAIN w : ~IsPrefix(p, q) BY <1>1 DEF Without, Restrict
<1>5. HasParent(w, p)
  <2>1. ~IsPrefix(p, Front(p)) BY <1>3, PrefixFront, PrefixAnti, FrontIs
  <2> QED BY <1>1, <2>1 DEF HasParent, Without, Restrict
<1>6. \A q \in DOMAIN w : ~IsStrictPrefix(p, q) BY <1>4 DEF IsStrictPrefix
<1>7. DirsOver(Put(w, p, e), U) BY <1>2, <1>3, <1>5, <1>6, PutDirs DEF DiskOK
<1>8. DOMAIN Put(w, p, e) = DOMAIN w \cup {p} BY DEF Put
<1> QED BY <1>1, <1>2, <1>3, <1>7, <1>8 DEF DiskOK

LEMMA OpIs ==
  ASSUME NEW op \in Ops
  PROVE  /\ op.op = "move" => Across(op.src, op.dst)
         /\ op.op # "move" => IsPlace(op.dst)
<1>1. CASE \E n \in Nat, p \in Paths : op = Move(Temp(n), p) BY <1>1 DEF Move, Across
<1>2. CASE \E n \in Nat, p \in Paths : op = Move(p, Temp(n)) BY <1>2 DEF Move, Across
<1>3. CASE \E p \in Paths : op = Delete(p) BY <1>3 DEF Delete, IsPlace
<1>4. CASE \E i \in Nat, p \in Paths : op = Stage(p, i) BY <1>4 DEF Stage, IsPlace
<1> QED BY <1>1, <1>2, <1>3, <1>4 DEF Ops

\* An operation of a plan keeps the disk a tree, whether it is done or fails.
Sound(d, st, td, p) ==
  /\ DiskOK(d) /\ td \in Seq(Ops) /\ p \in {"apply", "stuck"}
  /\ DOMAIN st \subseteq DOMAIN store /\ \A i \in DOMAIN st : st[i] = store[i]

LEMMA DoneOK ==
  ASSUME NEW d, DiskOK(d), NEW st, Planned, todo # << >>, pc = "apply", Done(d, st),
         DOMAIN st \subseteq DOMAIN store, \A i \in DOMAIN st : st[i] = store[i]
  PROVE  Sound(disk', store', todo', pc')
<1>1. Tail(todo) \in Seq(Ops) BY HeadTailProperties DEF Planned
<1> QED BY <1>1 DEF Done, Sound

LEMMA FailsOK ==
  ASSUME NEW d, DiskOK(d), Fails(d)
  PROVE  Sound(disk', store', todo', pc')
<1>1. << >> \in Seq(Ops) BY EmptySeq
<1> QED BY <1>1 DEF Fails, Sound

LEMMA ApplyOpOK ==
  ASSUME DiskOK(disk), Planned, ApplyOp
  PROVE  Sound(disk', store', todo', pc')
<1>1. PICK op : op = Head(todo) OBVIOUS
<1>2. todo # << >> /\ pc = "apply" BY DEF ApplyOp
<1>3. op \in Ops BY <1>1, <1>2, HeadTailProperties DEF Planned
<1>4. CASE op.op = "move"
  <2>1. PICK src, dst : src = op.src /\ dst = op.dst OBVIOUS
  <2>2. ApplyMove(dst, src) BY <1>1, <1>4, <2>1 DEF ApplyOp
  <2>3. Across(src, dst) /\ IsPlace(dst) BY <1>3, <1>4, <2>1, OpIs, Apart
  <2>4. CASE Front(dst) \notin ensured /\ Blocked(dst)
    <3>1. Fails(disk) BY <2>2, <2>4 DEF ApplyMove
    <3> QED BY <3>1, FailsOK
  <2>5. CASE ~(Front(dst) \notin ensured /\ Blocked(dst))
    <3>1. PICK d : d = Without(WithParents(dst), dst) OBVIOUS
    <3>2. DiskOK(d) BY <2>3, <2>5, <3>1, ParentsOK, WithoutOK
    <3>3. IF src \in DOMAIN d /\ HasParent(d, dst) THEN Done(Moved(d, dst, src), store) ELSE Fails(d)
      BY <2>2, <2>5, <3>1 DEF ApplyMove
    <3>4. \A q \in DOMAIN d : ~IsPrefix(dst, q) BY <3>1 DEF Without, Restrict
    <3>5. ASSUME src \in DOMAIN d, HasParent(d, dst) PROVE DiskOK(Moved(d, dst, src))
      BY <2>3, <3>2, <3>4, <3>5, MovedOK
    <3> QED BY <1>2, <3>2, <3>3, <3>5, DoneOK, FailsOK
  <2> QED BY <2>4, <2>5
<1>5. CASE op.op = "stage"
  <2>1. PICK p, i : p = op.dst /\ i = op.ino OBVIOUS
  <2>2. ApplyStage(p, i) BY <1>1, <1>5, <2>1 DEF ApplyOp
  <2>3. IsPlace(p) BY <1>3, <1>5, <2>1, OpIs
  <2>4. CASE i \notin DOMAIN store \/ (Front(p) \notin ensured /\ Blocked(p))
    <3>1. Fails(disk) BY <2>2, <2>4 DEF ApplyStage
    <3> QED BY <3>1, FailsOK
  <2>5. CASE ~(i \notin DOMAIN store \/ (Front(p) \notin ensured /\ Blocked(p)))
    <3>1. PICK d, f, g, rest :
            /\ d = WithParents(p)
            /\ f = Put(Without(d, p), p, Entry(FALSE, Staged(i)))
            /\ g = Put(Without(d, p), p, Entry(TRUE, Gone))
            /\ rest = Restrict(store, DOMAIN store \ {i})
      OBVIOUS
    <3>2. DiskOK(d) BY <2>3, <2>5, <3>1, ParentsOK
    <3>3. IF ~HasParent(d, p) THEN Fails(d)
          ELSE Done(f, rest) \/ Done(d, store) \/ Done(g, store)
      BY <2>2, <2>5, <3>1 DEF ApplyStage
    <3>4. HasParent(d, p) => DiskOK(f) /\ DiskOK(g) BY <2>3, <3>1, <3>2, PlacedOK
    <3>5. DOMAIN rest \subseteq DOMAIN store /\ \A j \in DOMAIN rest : rest[j] = store[j]
      BY <3>1 DEF Restrict
    <3> QED BY <1>2, <3>2, <3>3, <3>4, <3>5, DoneOK, FailsOK
  <2> QED BY <2>4, <2>5
<1>6. CASE op.op # "move" /\ op.op # "stage"
  <2>1. ApplyDelete(op.dst) BY <1>1, <1>6 DEF ApplyOp
  <2>2. DiskOK(Without(disk, op.dst)) BY <1>3, <1>6, OpIs, WithoutOK
  <2>3. Tail(todo) \in Seq(Ops) BY <1>2, HeadTailProperties DEF Planned
  <2> QED BY <1>2, <2>1, <2>2, <2>3 DEF ApplyDelete, Sound
<1> QED BY <1>4, <1>5, <1>6

-----------------------------------------------------------------------------
(* The lines an operation writes.                                          *)

\* A line of the tag and its fields.
IsLine(l, F, tag, fs) ==
  /\ l \in Seq(F) /\ Len(l) = Len(fs) + 1 /\ Len(fs) \in Nat /\ l[1] = Field("tag", tag)
  /\ \A i \in 1 .. Len(fs) : l[i + 1] = fs[i]

LEMMA LineIs ==
  ASSUME NEW F, NEW tag, Field("tag", tag) \in F, NEW fs \in Seq(F)
  PROVE  IsLine(Line(tag, fs), F, tag, fs)
<1>1. PICK h : h = << Field("tag", tag) >> OBVIOUS
<1>2. h \in Seq(F) /\ Len(h) = 1 /\ h[1] = Field("tag", tag) BY <1>1
<1>3. /\ h \o fs \in Seq(F) /\ Len(h \o fs) = Len(h) + Len(fs) /\ Len(fs) \in Nat
      /\ \A i \in 1 .. Len(h) + Len(fs) : (h \o fs)[i] = IF i <= Len(h) THEN h[i] ELSE fs[i - Len(h)]
  BY <1>2, ConcatProperties, LenProperties
<1>4. PICK l : l = h \o fs OBVIOUS
<1>5. l[1] = Field("tag", tag) BY <1>2, <1>3, <1>4
<1>6. ASSUME NEW i \in 1 .. Len(fs) PROVE l[i + 1] = fs[i]
  <2>1. i + 1 \in 1 .. 1 + Len(fs) /\ ~(i + 1 <= 1) /\ (i + 1) - 1 = i BY <1>3
  <2> QED BY <1>2, <1>3, <1>4, <2>1
<1>7. l \in Seq(F) /\ Len(l) = Len(fs) + 1 BY <1>2, <1>3, <1>4
<1>8. IsLine(l, F, tag, fs) BY <1>3, <1>5, <1>6, <1>7 DEF IsLine
<1>9. l = Line(tag, fs) BY <1>1, <1>4 DEF Line
<1> QED BY <1>8, <1>9

\* The fragment a tear leaves is no record.
LEMMA TornIs ==
  ASSUME NEW F, NEW l \in Seq(F), Len(l) > 2, NEW tag \in {"S", "D", "R"}, l[1] = Field("tag", tag)
  PROVE  ~WellFormed(SubSeq(l, 1, 2))
<1>1. Len(l) \in Nat /\ \A i \in 1 .. Len(l) : l[i] \in F BY LenProperties, ElementOfSeq
<1>2. \A i \in 1 .. 2 : l[i] \in F BY <1>1
<1>3. PICK s : s = SubSeq(l, 1, 2) OBVIOUS
<1>4. Len(s) = 2 /\ s[1] = l[1]
  <2>1. SubSeqIs(l, 2, F) BY <1>2, InitialIs
  <2> QED BY <1>3, <2>1 DEF SubSeqIs
<1>5. s[1].value = tag BY <1>4 DEF Field
<1>6. Len(Schema[tag]) >= 2 BY DEF Schema
<1> QED BY <1>3, <1>4, <1>5, <1>6 DEF WellFormed

\* A line with every field its tag needs.
LEMMA Written ==
  ASSUME NEW F, NEW tag \in {"S", "D", "R"}, Field("tag", tag) \in F, NEW fs \in Seq(F),
         Len(fs) = Len(Schema[tag]), \A k \in 1 .. Len(fs) : fs[k].type = Schema[tag][k]
  PROVE  /\ WellFormed(Line(tag, fs)) /\ ~WellFormed(SubSeq(Line(tag, fs), 1, 2))
         /\ Line(tag, fs)[1].value = tag
         /\ \A k \in 1 .. Len(fs) : Line(tag, fs)[k + 1].value = fs[k].value
<1>1. PICK l : l = Line(tag, fs) OBVIOUS
<1>2. /\ l \in Seq(F) /\ Len(l) = Len(fs) + 1 /\ Len(fs) \in Nat /\ l[1] = Field("tag", tag)
      /\ \A k \in 1 .. Len(fs) : l[k + 1] = fs[k]
  <2>1. IsLine(Line(tag, fs), F, tag, fs) BY LineIs
  <2> QED BY <1>1, <2>1 DEF IsLine
<1>3. l[1].type = "tag" /\ l[1].value = tag BY <1>2 DEF Field
<1>4. tag \in DOMAIN Schema /\ DOMAIN Schema[tag] = 1 .. Len(Schema[tag]) /\ Len(Schema[tag]) >= 2
  BY DEF Schema
<1>5. \A k \in DOMAIN Schema[tag] : l[k + 1].type = Schema[tag][k] BY <1>2, <1>4
<1>6. l # << >>
  <2>1. Len(<< >>) = 0 BY EmptySeq
  <2> QED BY <1>2, <2>1
<1>7. Len(l) > Len(Schema[tag]) /\ Len(l) > 2 BY <1>2, <1>4
<1>8. WellFormed(l) BY <1>3, <1>4, <1>5, <1>6, <1>7 DEF WellFormed
<1>9. ~WellFormed(SubSeq(l, 1, 2)) BY <1>2, <1>7, TornIs
<1> QED BY <1>1, <1>2, <1>3, <1>8, <1>9

LEMMA StageLineIs ==
  ASSUME NEW p, NEW i, NEW pre
  PROVE  /\ \A t : Apply(t, StageLine(p, i, pre)) = Touch(t, p, pre, Staged(i))
         /\ ~WellFormed(SubSeq(StageLine(p, i, pre), 1, 2))
<1>1. PICK a, b, c : a = Field("text", p) /\ b = Field("ino", i) /\ c = Field("pre", pre) OBVIOUS
<1>2. PICK F, fs : F = {Field("tag", "S"), a, b, c} /\ fs = << a, b, c >> OBVIOUS
<1>3. fs \in Seq(F) /\ Len(fs) = 3 /\ fs[1] = a /\ fs[2] = b /\ fs[3] = c BY <1>2
<1>4. a.type = "text" /\ b.type = "ino" /\ c.type = "pre" BY <1>1 DEF Field
<1>5. Len(Schema["S"]) = 3 /\ \A k \in 1 .. 3 : fs[k].type = Schema["S"][k]
  <2>1. \A k \in 1 .. 3 : k = 1 \/ k = 2 \/ k = 3 OBVIOUS
  <2> QED BY <1>3, <1>4, <2>1 DEF Schema
<1>6. PICK l : l = Line("S", fs) OBVIOUS
<1>7. /\ WellFormed(l) /\ ~WellFormed(SubSeq(l, 1, 2)) /\ l[1].value = "S"
      /\ \A k \in 1 .. 3 : l[k + 1].value = fs[k].value
  <2>1. Field("tag", "S") \in F BY <1>2
  <2>2. /\ fs \in Seq(F) /\ Len(fs) = Len(Schema["S"])
        /\ \A k \in 1 .. Len(fs) : fs[k].type = Schema["S"][k]
    BY <1>3, <1>5
  <2>3. /\ WellFormed(Line("S", fs)) /\ ~WellFormed(SubSeq(Line("S", fs), 1, 2))
        /\ Line("S", fs)[1].value = "S"
        /\ \A k \in 1 .. Len(fs) : Line("S", fs)[k + 1].value = fs[k].value
    BY <2>1, <2>2, Written
  <2> QED BY <1>3, <1>6, <2>3
<1>8. l[1 + 1].value = p /\ l[2 + 1].value = i /\ l[3 + 1].value = pre
  BY <1>1, <1>3, <1>7 DEF Field
<1>9. \A t : Apply(t, l) = Touch(t, p, pre, Staged(i)) BY <1>7, <1>8 DEF Apply
<1>10. l = StageLine(p, i, pre) BY <1>1, <1>2, <1>6 DEF StageLine
<1> QED BY <1>7, <1>9, <1>10

LEMMA DeleteLineIs ==
  ASSUME NEW p, NEW pre
  PROVE  /\ \A t : Apply(t, DeleteLine(p, pre)) = Touch(t, p, pre, Gone)
         /\ ~WellFormed(SubSeq(DeleteLine(p, pre), 1, 2))
<1>1. PICK a, c : a = Field("text", p) /\ c = Field("pre", pre) OBVIOUS
<1>2. PICK F, fs : F = {Field("tag", "D"), a, c} /\ fs = << a, c >> OBVIOUS
<1>3. fs \in Seq(F) /\ Len(fs) = 2 /\ fs[1] = a /\ fs[2] = c BY <1>2
<1>4. a.type = "text" /\ c.type = "pre" BY <1>1 DEF Field
<1>5. Len(Schema["D"]) = 2 /\ \A k \in 1 .. 2 : fs[k].type = Schema["D"][k]
  <2>1. \A k \in 1 .. 2 : k = 1 \/ k = 2 OBVIOUS
  <2> QED BY <1>3, <1>4, <2>1 DEF Schema
<1>6. PICK l : l = Line("D", fs) OBVIOUS
<1>7. /\ WellFormed(l) /\ ~WellFormed(SubSeq(l, 1, 2)) /\ l[1].value = "D"
      /\ \A k \in 1 .. 2 : l[k + 1].value = fs[k].value
  <2>1. Field("tag", "D") \in F BY <1>2
  <2>2. /\ fs \in Seq(F) /\ Len(fs) = Len(Schema["D"])
        /\ \A k \in 1 .. Len(fs) : fs[k].type = Schema["D"][k]
    BY <1>3, <1>5
  <2>3. /\ WellFormed(Line("D", fs)) /\ ~WellFormed(SubSeq(Line("D", fs), 1, 2))
        /\ Line("D", fs)[1].value = "D"
        /\ \A k \in 1 .. Len(fs) : Line("D", fs)[k + 1].value = fs[k].value
    BY <2>1, <2>2, Written
  <2> QED BY <1>3, <1>6, <2>3
<1>8. l[1 + 1].value = p /\ l[2 + 1].value = pre BY <1>1, <1>3, <1>7 DEF Field
<1>9. \A t : Apply(t, l) = Touch(t, p, pre, Gone) BY <1>7, <1>8 DEF Apply
<1>10. l = DeleteLine(p, pre) BY <1>1, <1>2, <1>6 DEF DeleteLine
<1> QED BY <1>7, <1>9, <1>10

LEMMA RenameLineIs ==
  ASSUME NEW dst, NEW src, src # dst, NEW srcPre, NEW dstPre
  PROVE  /\ \A t : Apply(t, RenameLine(dst, src, srcPre, dstPre))
                     = ApplyRename(t, dst, src, srcPre, dstPre)
         /\ ~WellFormed(SubSeq(RenameLine(dst, src, srcPre, dstPre), 1, 2))
<1>1. PICK a, b, c, d : /\ a = Field("text", dst) /\ b = Field("text", src)
                        /\ c = Field("pre", srcPre) /\ d = Field("pre", dstPre)
  OBVIOUS
<1>2. PICK F, fs : F = {Field("tag", "R"), a, b, c, d} /\ fs = << a, b, c, d >> OBVIOUS
<1>3. fs \in Seq(F) /\ Len(fs) = 4 /\ fs[1] = a /\ fs[2] = b /\ fs[3] = c /\ fs[4] = d BY <1>2
<1>4. a.type = "text" /\ b.type = "text" /\ c.type = "pre" /\ d.type = "pre" BY <1>1 DEF Field
<1>5. Len(Schema["R"]) = 4 /\ \A k \in 1 .. 4 : fs[k].type = Schema["R"][k]
  <2>1. \A k \in 1 .. 4 : k = 1 \/ k = 2 \/ k = 3 \/ k = 4 OBVIOUS
  <2> QED BY <1>3, <1>4, <2>1 DEF Schema
<1>6. PICK l : l = Line("R", fs) OBVIOUS
<1>7. /\ WellFormed(l) /\ ~WellFormed(SubSeq(l, 1, 2)) /\ l[1].value = "R"
      /\ \A k \in 1 .. 4 : l[k + 1].value = fs[k].value
  <2>1. Field("tag", "R") \in F BY <1>2
  <2>2. /\ fs \in Seq(F) /\ Len(fs) = Len(Schema["R"])
        /\ \A k \in 1 .. Len(fs) : fs[k].type = Schema["R"][k]
    BY <1>3, <1>5
  <2>3. /\ WellFormed(Line("R", fs)) /\ ~WellFormed(SubSeq(Line("R", fs), 1, 2))
        /\ Line("R", fs)[1].value = "R"
        /\ \A k \in 1 .. Len(fs) : Line("R", fs)[k + 1].value = fs[k].value
    BY <2>1, <2>2, Written
  <2> QED BY <1>3, <1>6, <2>3
<1>8. /\ l[1 + 1].value = dst /\ l[2 + 1].value = src
      /\ l[3 + 1].value = srcPre /\ l[4 + 1].value = dstPre
  BY <1>1, <1>3, <1>7 DEF Field
<1>9. \A t : Apply(t, l) = ApplyRename(t, dst, src, srcPre, dstPre) BY <1>7, <1>8 DEF Apply
<1>10. l = RenameLine(dst, src, srcPre, dstPre) BY <1>1, <1>2, <1>6 DEF RenameLine
<1> QED BY <1>7, <1>9, <1>10

-----------------------------------------------------------------------------
(* What a line makes of a tree.                                            *)

\* The sides of a tree when n inodes were taken.
SidesTo(n)   == {Nil, Gone} \cup {Base(p) : p \in Paths} \cup {Staged(i) : i \in 1 .. n}
TreeTo(t, n) == DOMAIN t \subseteq Paths /\ \A p \in DOMAIN t : t[p].old \in SidesTo(n) /\ t[p].new \in SidesTo(n)

LEMMA TreesAre ==
  /\ Sides = SidesTo(nextIno) /\ \A t : IsTree(t) <=> TreeTo(t, nextIno)
  /\ \A m, n \in Nat : m <= n => SidesTo(m) \subseteq SidesTo(n)
  /\ \A m, n \in Nat : \A t : m <= n /\ TreeTo(t, m) => TreeTo(t, n)
<1>1. Sides = SidesTo(nextIno) BY DEF Sides, Unstaged, SidesTo
<1>2. ASSUME NEW m \in Nat, NEW n \in Nat, m <= n PROVE SidesTo(m) \subseteq SidesTo(n)
  <2>1. 1 .. m \subseteq 1 .. n BY <1>2
  <2> QED BY <2>1 DEF SidesTo
<1>3. ASSUME NEW m \in Nat, NEW n \in Nat, NEW t, m <= n, TreeTo(t, m) PROVE TreeTo(t, n)
  <2>1. SidesTo(m) \subseteq SidesTo(n) BY <1>2, <1>3
  <2> QED BY <1>3, <2>1 DEF TreeTo
<1>4. \A t : IsTree(t) <=> TreeTo(t, nextIno) BY <1>1 DEF IsTree, TreeTo
<1> QED BY <1>1, <1>2, <1>3, <1>4

LEMMA AncestorPaths ==
  ASSUME NEW p \in Paths
  PROVE  Ancestors(p) \subseteq Paths /\ p \notin Ancestors(p)
<1>1. p \in Seq(N) /\ Len(p) \in 1 .. Depth /\ Depth \in Nat BY FrontPath
<1>2. ASSUME NEW a \in Ancestors(p) PROVE a \in Paths
  <2>1. a \in Seq(N) /\ a # << >> /\ IsPrefix(a, p) BY <1>1, AncestorsAre DEF IsStrictPrefix
  <2>2. Len(a) \in Nat \ {0} BY <2>1, EmptySeq
  <2>3. Len(a) <= Len(p) BY <1>1, <2>1, PrefixIs
  <2>4. Len(a) \in 1 .. Depth BY <1>1, <2>2, <2>3
  <2> QED BY <2>1, <2>4, PathsAre
<1>3. p \notin Ancestors(p) BY <1>1, AncestorsAre DEF IsStrictPrefix
<1> QED BY <1>2, <1>3

\* A node missing has no side, and the folds give sides they were given.
LEMMA AtIs ==
  ASSUME NEW t, NEW n, TreeTo(t, n), NEW p
  PROVE  /\ At(t, p).old \in SidesTo(n) /\ At(t, p).new \in SidesTo(n)
         /\ p \notin DOMAIN t => At(t, p) = Scaffold /\ At(t, p).new = Nil /\ At(t, p).old = Nil
         /\ \A a, b \in SidesTo(n) : FirstOf(a, b) \in SidesTo(n)
<1>1. Scaffold.old = Nil /\ Scaffold.new = Nil BY DEF Scaffold, Node
<1>2. Nil \in SidesTo(n) BY DEF SidesTo
<1> QED BY <1>1, <1>2 DEF At, TreeTo, FirstOf

\* The net sides of u are those of t, with s at p.
NewIs(u, t, p, s) == \A q : At(u, q).new = IF q = p THEN s ELSE At(t, q).new

LEMMA TouchIs ==
  ASSUME NEW t, NEW n, TreeTo(t, n), NEW p \in Paths, NEW pre \in SidesTo(n), NEW s \in SidesTo(n)
  PROVE  /\ TreeTo(Touch(t, p, pre, s), n)
         /\ DOMAIN Touch(t, p, pre, s) = DOMAIN t \cup Ancestors(p) \cup {p}
         /\ NewIs(Touch(t, p, pre, s), t, p, s)
<1>1. PICK T, o : T = Touch(t, p, pre, s) /\ o = FirstOf(At(t, p).old, pre) OBVIOUS
<1>2. o \in SidesTo(n) BY <1>1, AtIs
<1>3. /\ DOMAIN T = DOMAIN t \cup Ancestors(p) \cup {p} /\ T[p] = Node(o, s)
      /\ \A q \in DOMAIN t : q # p => T[q] = t[q]
      /\ \A q \in Ancestors(p) : q # p /\ q \notin DOMAIN t => T[q] = Scaffold
  BY <1>1 DEF Touch, WithAncestors, Over, Put
<1>4. Node(o, s).old = o /\ Node(o, s).new = s /\ Scaffold.old = Nil /\ Scaffold.new = Nil
  BY DEF Node, Scaffold
<1>5. Nil \in SidesTo(n) BY DEF SidesTo
<1>6. TreeTo(T, n)
  <2>1. DOMAIN T \subseteq Paths BY <1>3, AncestorPaths DEF TreeTo
  <2>2. ASSUME NEW q \in DOMAIN T PROVE T[q].old \in SidesTo(n) /\ T[q].new \in SidesTo(n)
    BY <1>2, <1>3, <1>4, <1>5 DEF TreeTo
  <2> QED BY <2>1, <2>2 DEF TreeTo
<1>7. ASSUME NEW q PROVE At(T, q).new = IF q = p THEN s ELSE At(t, q).new
  BY <1>3, <1>4 DEF At
<1> QED BY <1>1, <1>3, <1>6, <1>7 DEF NewIs

\* The nodes a rename leaves besides what it moves and dst.
Rest(t, dst, src, q) ==
  \/ /\ ~IsPrefix(dst, q)
     /\ (q \in DOMAIN t /\ ~IsPrefix(src, q)) \/ q \in Ancestors(src) \/ q = src
  \/ q \in Ancestors(dst)

DropsDst(t, dst, src, srcPre) == IsSelfRedirect(srcPre, dst) /\ DOMAIN Carried(t, src, dst) = {}

RenamedTo(T, t, dst, src, srcPre, o, e) ==
  /\ \A q : q \in DOMAIN T <=> \/ q \in DOMAIN Carried(t, src, dst) \/ Rest(t, dst, src, q)
                               \/ q = dst /\ ~DropsDst(t, dst, src, srcPre)
  /\ \A q \in DOMAIN Carried(t, src, dst) : T[q] = Carried(t, src, dst)[q]
  /\ \A q : q \notin DOMAIN Carried(t, src, dst) /\ q # dst /\ q \in DOMAIN T =>
              T[q] = IF q \in DOMAIN t /\ ~IsPrefix(src, q) /\ ~IsPrefix(dst, q) THEN t[q]
                     ELSE IF q = src /\ ~IsPrefix(dst, src) THEN Node(o, Gone) ELSE Scaffold
  /\ dst \notin DOMAIN Carried(t, src, dst) /\ dst \in DOMAIN T =>
       T[dst] = IF IsSelfRedirect(srcPre, dst) THEN Scaffold ELSE Node(e, srcPre)

LEMMA ApplyRenameIs ==
  ASSUME NEW t, NEW n, TreeTo(t, n), NEW src \in Paths, NEW dst \in Paths,
         NEW srcPre \in SidesTo(n), NEW dstPre \in SidesTo(n), src # dst
  PROVE  \E o, e \in SidesTo(n) :
           /\ RenamedTo(ApplyRename(t, dst, src, srcPre, dstPre), t, dst, src, srcPre, o, e)
           /\ o = FirstOf(At(t, src).old, srcPre)
           /\ ~IsPrefix(src, dst) => e = FirstOf(FirstOf(At(t, src).old, At(t, dst).old), dstPre)
<1>1. PICK m, V, W, R, o, e :
        /\ m = Carried(t, src, dst)
        /\ W = WithAncestors(Without(t, src), src)
        /\ V = Put(W, src, Node(FirstOf(At(t, src).old, srcPre), Gone))
        /\ R = WithAncestors(Without(V, dst), dst)
        /\ o = FirstOf(At(t, src).old, srcPre)
        /\ e = FirstOf(FirstOf(At(t, src).old, At(V, dst).old), dstPre)
  OBVIOUS
<1>2. PICK T : T = ApplyRename(t, dst, src, srcPre, dstPre) OBVIOUS
<1>3. T = IF ~IsSelfRedirect(srcPre, dst) THEN Over(m, Put(R, dst, Node(e, srcPre)))
          ELSE IF DOMAIN m = {} THEN R ELSE Over(m, Put(R, dst, Scaffold))
  BY <1>1, <1>2, Zenon DEF ApplyRename
<1>4. src \notin Ancestors(src) /\ dst \notin Ancestors(dst) BY AncestorPaths
<1>5. /\ src \in Seq(N) /\ dst \in Seq(N) /\ IsPrefix(src, src) /\ IsPrefix(dst, dst)
      /\ \A q \in Ancestors(src) : ~IsPrefix(src, q)
      /\ \A q \in Ancestors(dst) : ~IsPrefix(dst, q)
  <2>1. src \in Seq(N) /\ dst \in Seq(N) BY FrontPath
  <2>2. ASSUME NEW p \in Seq(N), NEW q \in Ancestors(p) PROVE ~IsPrefix(p, q)
    <3>1. q \in Seq(N) /\ IsPrefix(q, p) /\ q # p BY AncestorsAre DEF IsStrictPrefix
    <3>2. IsPrefix(p, q) => Len(p) <= Len(q) BY <3>1, PrefixIs
    <3> QED BY <3>1, <3>2, PrefixAnti
  <2> QED BY <2>1, <2>2, PrefixSelf
<1>6. /\ \A q : q \in DOMAIN W <=> (q \in DOMAIN t /\ ~IsPrefix(src, q)) \/ q \in Ancestors(src)
      /\ \A q \in DOMAIN W : W[q] = IF q \in DOMAIN t /\ ~IsPrefix(src, q) THEN t[q] ELSE Scaffold
  BY <1>1 DEF WithAncestors, Over, Without, Restrict
<1>7. /\ \A q : q \in DOMAIN V <=> q \in DOMAIN W \/ q = src
      /\ \A q \in DOMAIN V : V[q] = IF q = src THEN Node(o, Gone) ELSE W[q]
  BY <1>1 DEF Put
<1>8. /\ \A q : q \in DOMAIN R <=> (q \in DOMAIN V /\ ~IsPrefix(dst, q)) \/ q \in Ancestors(dst)
      /\ \A q \in DOMAIN R : R[q] = IF q \in DOMAIN V /\ ~IsPrefix(dst, q) THEN V[q] ELSE Scaffold
  BY <1>1 DEF WithAncestors, Over, Without, Restrict
<1>9. \A q : q \in DOMAIN R <=> Rest(t, dst, src, q)
  BY <1>6, <1>7, <1>8 DEF Rest
<1>10. ASSUME NEW q, q \in DOMAIN R
       PROVE  R[q] = IF q \in DOMAIN t /\ ~IsPrefix(src, q) /\ ~IsPrefix(dst, q) THEN t[q]
                     ELSE IF q = src /\ ~IsPrefix(dst, src) THEN Node(o, Gone) ELSE Scaffold
  <2>1. CASE q \in DOMAIN V /\ ~IsPrefix(dst, q) BY <1>5, <1>6, <1>7, <1>8, <1>10, <2>1
  <2>2. CASE ~(q \in DOMAIN V /\ ~IsPrefix(dst, q))
    <3>1. R[q] = Scaffold BY <1>8, <1>10, <2>2
    <3>2. ~(q \in DOMAIN t /\ ~IsPrefix(src, q) /\ ~IsPrefix(dst, q)) BY <1>6, <1>7, <2>2
    <3>3. ~(q = src /\ ~IsPrefix(dst, src)) BY <1>7, <2>2
    <3> QED BY <3>1, <3>2, <3>3
  <2> QED BY <2>1, <2>2
<1>11. /\ Node(o, Gone).old = o /\ Scaffold.old = Nil BY DEF Node, Scaffold
<1>12. o \in SidesTo(n) /\ e \in SidesTo(n)
  <2>1. o \in SidesTo(n) BY <1>1, AtIs
  <2>2. Nil \in SidesTo(n) BY DEF SidesTo
  <2>3. At(V, dst).old \in SidesTo(n) BY <1>6, <1>7, <1>11, <2>1, <2>2 DEF At, TreeTo
  <2> QED BY <1>1, <2>1, <2>3, AtIs
<1>13. dst \notin DOMAIN R BY <1>4, <1>5, <1>8
<1>14. /\ \A q : q \in DOMAIN T <=> \/ q \in DOMAIN m \/ q \in DOMAIN R
                                    \/ q = dst /\ ~(IsSelfRedirect(srcPre, dst) /\ DOMAIN m = {})
       /\ \A q \in DOMAIN m : T[q] = m[q]
       /\ \A q : q \notin DOMAIN m /\ q # dst /\ q \in DOMAIN T => T[q] = R[q] /\ q \in DOMAIN R
       /\ dst \notin DOMAIN m /\ dst \in DOMAIN T =>
            T[dst] = IF IsSelfRedirect(srcPre, dst) THEN Scaffold ELSE Node(e, srcPre)
  <2>1. CASE ~IsSelfRedirect(srcPre, dst) BY <1>3, <2>1 DEF Over, Put
  <2>2. CASE IsSelfRedirect(srcPre, dst) /\ DOMAIN m = {} BY <1>3, <1>13, <2>2
  <2>3. CASE IsSelfRedirect(srcPre, dst) /\ DOMAIN m # {} BY <1>3, <2>3 DEF Over, Put
  <2> QED BY <2>1, <2>2, <2>3
<1>15. RenamedTo(T, t, dst, src, srcPre, o, e)
  BY <1>1, <1>9, <1>10, <1>14 DEF RenamedTo, DropsDst
<1>16. ASSUME ~IsPrefix(src, dst) PROVE At(V, dst).old = At(t, dst).old
  BY <1>6, <1>7, <1>11, <1>16 DEF At
<1>17. ~IsPrefix(src, dst) => e = FirstOf(FirstOf(At(t, src).old, At(t, dst).old), dstPre)
  BY <1>1, <1>16
<1> QED BY <1>1, <1>2, <1>12, <1>15, <1>17

\* What is moved stays within the bounds.
Fitting(f, src, dst) == \A q \in BelowIn(f, src) : Len(Rebase(q, src, dst)) <= Depth

LEMMA CarriedPaths ==
  ASSUME NEW f, DOMAIN f \subseteq Paths, NEW src \in Paths, NEW dst \in Paths, Fitting(f, src, dst)
  PROVE  DOMAIN Carried(f, src, dst) \subseteq Paths
<1>1. src \in Seq(N) /\ dst \in Seq(N) /\ dst # << >> /\ DOMAIN f \subseteq Seq(N) /\ Depth \in Nat
  BY FrontPath
<1>2. ASSUME NEW r \in BelowIn(f, src) PROVE Rebase(r, src, dst) \in Paths
  <2>1. r \in Seq(N) /\ IsPrefix(src, r) BY <1>1 DEF BelowIn, IsStrictPrefix
  <2>2. PICK R : R = Rebase(r, src, dst) OBVIOUS
  <2>3. R \in Seq(N) /\ IsPrefix(dst, R) BY <1>1, <2>1, <2>2, RebaseBack
  <2>4. Len(dst) \in Nat \ {0} /\ Len(dst) <= Len(R) /\ Len(R) \in Nat
    BY <1>1, <2>3, EmptySeq, PrefixIs, LenProperties
  <2>5. Len(R) <= Depth BY <2>2 DEF Fitting
  <2>6. Len(R) \in 1 .. Depth BY <1>1, <2>4, <2>5
  <2> QED BY <2>2, <2>3, <2>6, PathsAre
<1> QED BY <1>2 DEF Carried

LEMMA RestPaths ==
  ASSUME NEW t, DOMAIN t \subseteq Paths, NEW src \in Paths, NEW dst \in Paths, NEW q, Rest(t, dst, src, q)
  PROVE  q \in Paths
BY AncestorPaths DEF Rest

LEMMA RenameTree ==
  ASSUME NEW t, NEW n, TreeTo(t, n), NEW src \in Paths, NEW dst \in Paths, Fitting(t, src, dst),
         NEW srcPre \in SidesTo(n), NEW dstPre \in SidesTo(n), src # dst
  PROVE  TreeTo(ApplyRename(t, dst, src, srcPre, dstPre), n)
<1>1. PICK T : T = ApplyRename(t, dst, src, srcPre, dstPre) OBVIOUS
<1>2. PICK o \in SidesTo(n), e \in SidesTo(n) : RenamedTo(T, t, dst, src, srcPre, o, e)
  BY <1>1, ApplyRenameIs
<1>3. DOMAIN t \subseteq Paths BY DEF TreeTo
<1>4. PICK m : m = Carried(t, src, dst) OBVIOUS
<1>5. DOMAIN m \subseteq Paths BY <1>3, <1>4, CarriedPaths
<1>6. DOMAIN T \subseteq Paths BY <1>2, <1>3, <1>4, <1>5, RestPaths DEF RenamedTo
<1>7. \A q \in DOMAIN m : m[q].old \in SidesTo(n) /\ m[q].new \in SidesTo(n)
  <2>1. DOMAIN t \subseteq Seq(N) /\ src \in Seq(N) /\ dst \in Seq(N) BY <1>3, FrontPath
  <2>2. \A q \in DOMAIN m : Rebase(q, dst, src) \in DOMAIN t /\ m[q] = t[Rebase(q, dst, src)]
    BY <1>4, <2>1, CarriedIs
  <2> QED BY <2>2 DEF TreeTo
<1>8. Nil \in SidesTo(n) /\ Gone \in SidesTo(n) BY DEF SidesTo
<1>9. /\ Node(o, Gone).old = o /\ Node(o, Gone).new = Gone
      /\ Node(e, srcPre).old = e /\ Node(e, srcPre).new = srcPre
      /\ Scaffold.old = Nil /\ Scaffold.new = Nil
  BY DEF Node, Scaffold
<1>10. ASSUME NEW q \in DOMAIN T PROVE T[q].old \in SidesTo(n) /\ T[q].new \in SidesTo(n)
  <2>1. CASE q \in DOMAIN m BY <1>2, <1>4, <1>7, <2>1 DEF RenamedTo
  <2>2. CASE q \notin DOMAIN m /\ q = dst
    <3>1. T[q] = Scaffold \/ T[q] = Node(e, srcPre) BY <1>2, <1>4, <2>2 DEF RenamedTo
    <3> QED BY <1>8, <1>9, <3>1
  <2>3. CASE q \notin DOMAIN m /\ q # dst
    <3>1. \/ q \in DOMAIN t /\ T[q] = t[q]
          \/ T[q] = Node(o, Gone) \/ T[q] = Scaffold
      BY <1>2, <1>4, <2>3 DEF RenamedTo
    <3> QED BY <1>8, <1>9, <3>1 DEF TreeTo
  <2> QED BY <2>1, <2>2, <2>3
<1> QED BY <1>1, <1>6, <1>10 DEF TreeTo

\* A rename leaves no node in a segment that it does not leave in the whole.
LEMMA RenameWithin ==
  ASSUME NEW s, NEW t, NEW n, TreeTo(s, n), TreeTo(t, n), DOMAIN s \subseteq DOMAIN t,
         NEW src \in Paths, NEW dst \in Paths, src # dst,
         NEW srcPre \in SidesTo(n), NEW dstPre \in SidesTo(n)
  PROVE  DOMAIN ApplyRename(s, dst, src, srcPre, dstPre)
           \subseteq DOMAIN ApplyRename(t, dst, src, srcPre, dstPre)
<1>1. PICK P, Q : /\ P = ApplyRename(s, dst, src, srcPre, dstPre)
                  /\ Q = ApplyRename(t, dst, src, srcPre, dstPre)
  OBVIOUS
<1>2. PICK o, e : RenamedTo(P, s, dst, src, srcPre, o, e) BY <1>1, ApplyRenameIs
<1>3. PICK w, x : RenamedTo(Q, t, dst, src, srcPre, w, x) BY <1>1, ApplyRenameIs
<1>4. DOMAIN Carried(s, src, dst) \subseteq DOMAIN Carried(t, src, dst) BY DEF Carried, BelowIn
<1>5. \A q : Rest(s, dst, src, q) => Rest(t, dst, src, q) BY DEF Rest
<1>6. DropsDst(t, dst, src, srcPre) => DropsDst(s, dst, src, srcPre) BY <1>4 DEF DropsDst
<1>7. \A q : q \in DOMAIN P => q \in DOMAIN Q BY <1>2, <1>3, <1>4, <1>5, <1>6 DEF RenamedTo
<1> QED BY <1>1, <1>7

\* The net sides after a rename between places neither of which is above the other.
LEMMA RenameNew ==
  ASSUME NEW t, NEW n, TreeTo(t, n), NEW src \in Paths, NEW dst \in Paths,
         ~IsPrefix(src, dst), ~IsPrefix(dst, src),
         NEW srcPre \in SidesTo(n), NEW dstPre \in SidesTo(n), NEW T,
         T = ApplyRename(t, dst, src, srcPre, dstPre), NEW q \in Paths
  PROVE  At(T, q).new = IF IsStrictPrefix(dst, q) THEN At(t, Rebase(q, dst, src)).new
                        ELSE IF q = dst THEN IF IsSelfRedirect(srcPre, dst) THEN Nil ELSE srcPre
                        ELSE IF q = src THEN Gone
                        ELSE IF IsPrefix(src, q) THEN Nil ELSE At(t, q).new
<1>1. src \in Seq(N) /\ dst \in Seq(N) /\ q \in Seq(N) /\ DOMAIN t \subseteq Seq(N)
  BY FrontPath DEF TreeTo
<1>2. IsPrefix(src, src) /\ IsPrefix(dst, dst) /\ src # dst BY <1>1, PrefixSelf
<1>3. PICK o, e : RenamedTo(T, t, dst, src, srcPre, o, e) BY <1>2, ApplyRenameIs
<1>4. PICK m : m = Carried(t, src, dst) OBVIOUS
<1>5. /\ q \in DOMAIN m <=> IsStrictPrefix(dst, q) /\ Rebase(q, dst, src) \in DOMAIN t
      /\ q \in DOMAIN m => m[q] = t[Rebase(q, dst, src)]
  BY <1>1, <1>4, CarriedIs
<1>6. /\ Node(o, Gone).new = Gone /\ Node(e, srcPre).new = srcPre /\ Scaffold.new = Nil
  BY DEF Node, Scaffold
<1>7. CASE q \in DOMAIN m
  <2>1. q \in DOMAIN T /\ T[q] = m[q] BY <1>3, <1>4, <1>7 DEF RenamedTo
  <2> QED BY <1>5, <1>7, <2>1 DEF At
<1>8. CASE q \notin DOMAIN m /\ IsStrictPrefix(dst, q)
  <2>1. q # dst /\ IsPrefix(dst, q) BY <1>8 DEF IsStrictPrefix
  <2>2. ~(q \in DOMAIN t /\ ~IsPrefix(src, q) /\ ~IsPrefix(dst, q)) BY <2>1
  <2>3. q # src BY <2>1
  <2>4. At(T, q).new = Nil BY <1>3, <1>4, <1>6, <1>8, <2>1, <2>2, <2>3 DEF RenamedTo, At
  <2>5. At(t, Rebase(q, dst, src)).new = Nil BY <1>5, <1>6, <1>8 DEF At
  <2> QED BY <1>8, <2>4, <2>5
<1>9. CASE q = dst
  <2>1. q \notin DOMAIN m BY <1>5, <1>9 DEF IsStrictPrefix
  <2>2. q \in DOMAIN T => T[q] = IF IsSelfRedirect(srcPre, dst) THEN Scaffold ELSE Node(e, srcPre)
    BY <1>3, <1>4, <1>9, <2>1 DEF RenamedTo
  <2>3. ~IsSelfRedirect(srcPre, dst) => q \in DOMAIN T BY <1>3, <1>9 DEF RenamedTo, DropsDst
  <2>4. ~IsStrictPrefix(dst, q) BY <1>9 DEF IsStrictPrefix
  <2> QED BY <1>6, <1>9, <2>2, <2>3, <2>4 DEF At
<1>10. CASE q = src
  <2>1. q \notin DOMAIN m /\ ~IsStrictPrefix(dst, q) BY <1>5, <1>10 DEF IsStrictPrefix
  <2>2. Rest(t, dst, src, q) BY <1>10 DEF Rest
  <2>3. q \in DOMAIN T BY <1>3, <2>2 DEF RenamedTo
  <2>4. T[q] = Node(o, Gone) BY <1>2, <1>3, <1>4, <1>10, <2>1, <2>3 DEF RenamedTo
  <2> QED BY <1>2, <1>6, <1>10, <2>1, <2>3, <2>4 DEF At
<1>11. CASE ~IsPrefix(dst, q) /\ q # src
  <2>1. q \notin DOMAIN m /\ ~IsStrictPrefix(dst, q) /\ q # dst
    BY <1>2, <1>5, <1>11 DEF IsStrictPrefix
  <2>2. q \in DOMAIN T =>
          T[q] = IF q \in DOMAIN t /\ ~IsPrefix(src, q) THEN t[q] ELSE Scaffold
    BY <1>3, <1>4, <1>11, <2>1 DEF RenamedTo
  <2>3. q \in DOMAIN t /\ ~IsPrefix(src, q) => q \in DOMAIN T
    <3>1. q \in DOMAIN t /\ ~IsPrefix(src, q) => Rest(t, dst, src, q) BY <1>11 DEF Rest
    <3> QED BY <1>3, <3>1 DEF RenamedTo
  <2> QED BY <1>6, <1>11, <2>1, <2>2, <2>3 DEF At
<1>12. IsPrefix(dst, q) => q = dst \/ IsStrictPrefix(dst, q) BY DEF IsStrictPrefix
<1> QED BY <1>7, <1>8, <1>9, <1>10, <1>11, <1>12

-----------------------------------------------------------------------------
(* The view follows the tree through every operation.                      *)

LEMMA BacksAre ==
  ASSUME NEW b \in Backs
  PROVE  /\ b # Gone /\ b # Nil /\ Present(b) /\ Gone # Nil
         /\ b.kind = "base" => b.path \in Paths /\ b = Base(b.path)
         /\ b.kind # "base" => b.ino \in Nat /\ b = Staged(b.ino) /\ b.kind = "staged"
<1>1. Gone \in Sides BY DEF Sides, Unstaged
<1>2. /\ Gone # Nil /\ (\A p \in Paths : Base(p) # Nil) /\ (\A i \in Nat : Staged(i) # Nil)
  BY <1>1, SideIs
<1>3. CASE \E p \in Paths : b = Base(p)
  <2>1. PICK p \in Paths : b = Base(p) BY <1>3
  <2> QED BY <1>2, <2>1, Backings DEF Present
<1>4. CASE \E i \in Nat : b = Staged(i)
  <2>1. PICK i \in Nat : b = Staged(i) BY <1>4
  <2> QED BY <1>2, <2>1, Backings DEF Present
<1> QED BY <1>3, <1>4 DEF Backs

\* Everything above a visible path is a visible directory.
LEMMA AllAbove ==
  ASSUME NEW v, NEW d, NEW st, IsView(v), Tidy(v, d, st),
         NEW q \in DOMAIN v, NEW a \in Paths, IsStrictPrefix(a, q)
  PROVE  a \in DOMAIN v /\ DirIn(v, d, st, a)
<1> DEFINE Fine(k) == \A p \in DOMAIN v : Len(p) <= k /\ IsStrictPrefix(a, p)
                                             => a \in DOMAIN v /\ DirIn(v, d, st, a)
           T == {k \in Nat : Fine(k)}
<1>1. a \in Seq(N) /\ a # << >> /\ << >> \notin DOMAIN v /\ Depth \in Nat
  BY FrontPath DEF IsView
<1>2. 0 \in T
  <2>1. \A p \in DOMAIN v : Len(p) \in 1 .. Depth BY FrontPath DEF IsView
  <2>2. \A p \in DOMAIN v : ~(Len(p) <= 0) BY <2>1
  <2> QED BY <2>2
<1>3. ASSUME NEW k \in 0 .. Depth - 1, k \in T PROVE k + 1 \in T
  <2>1. ASSUME NEW p \in DOMAIN v, Len(p) <= k + 1, IsStrictPrefix(a, p)
        PROVE  a \in DOMAIN v /\ DirIn(v, d, st, a)
    <3>1. /\ p # << >> /\ p \in Seq(N) /\ Len(Front(p)) = Len(p) - 1 /\ Len(p) \in 1 .. Depth
      BY FrontPath DEF IsView
    <3>2. IsPrefix(a, Front(p)) BY <1>1, <2>1, <3>1, PrefixFront
    <3>3. DirIn(v, d, st, Front(p)) BY DEF Tidy
    <3>4. CASE a = Front(p) BY <1>1, <3>3, <3>4 DEF DirIn
    <3>5. CASE a # Front(p)
      <4>1. IsStrictPrefix(a, Front(p)) BY <3>2, <3>5 DEF IsStrictPrefix
      <4>2. Front(p) # << >>
        <5>1. Len(a) <= Len(Front(p)) BY <1>1, <3>1, <3>2, PrefixIs, PrefixFront
        <5>2. Len(a) \in Nat \ {0} /\ Len(<< >>) = 0 BY <1>1, EmptySeq
        <5> QED BY <5>1, <5>2
      <4>3. Front(p) \in DOMAIN v BY <3>3, <4>2 DEF DirIn
      <4>4. Len(Front(p)) <= k
        <5>1. PICK n \in Nat : n = Len(p) BY <3>1
        <5>2. n - 1 <= k BY <2>1, <5>1
        <5> QED BY <3>1, <5>1, <5>2
      <4> QED BY <1>3, <4>1, <4>3, <4>4
    <3> QED BY <3>4, <3>5
  <2>2. k + 1 \in Nat OBVIOUS
  <2> QED BY <2>1, <2>2
<1>4. Depth \in T
  <2>1. 0 .. Depth \subseteq T
    <3> HIDE DEF T
    <3> QED BY <1>1, <1>2, <1>3, UpTo
  <2> QED BY <1>1, <2>1
<1>5. Len(q) <= Depth BY FrontPath DEF IsView
<1> QED BY <1>4, <1>5

\* A path is given a backing of the store, or is deleted with what is below it.
LEMMA TouchedFollows ==
  ASSUME NEW v, NEW t, NEW d, Follows(v, t, d), NEW p \in Paths, Up(v, p) # Gone,
         NEW s, s # Nil, s.kind # "base", NEW w, NEW u,
         \A q \in Paths : ViewAt(w, q) = IF q = p THEN s ELSE IF IsPrefix(p, q) THEN Gone ELSE ViewAt(v, q),
         \A q \in Paths : At(u, q).new = IF q = p THEN s ELSE At(t, q).new,
         \A q \in Paths : Len(q) # 1 /\ Front(q) = p => s = Gone \/ ~Present(At(t, q).new)
  PROVE  Follows(w, u, d)
<1>1. p \in Seq(N) /\ p # << >> /\ p # Front(p) /\ ~IsPrefix(p, Front(p)) /\ IsPrefix(p, p)
  <2>1. /\ p \in Seq(N) /\ p # << >> /\ Front(p) \in Seq(N)
        /\ Len(Front(p)) = Len(p) - 1 /\ Len(p) \in 1 .. Depth /\ Depth \in Nat
    BY FrontPath
  <2>2. ~(Len(p) <= Len(Front(p))) BY <2>1
  <2> QED BY <2>1, <2>2, PrefixIs, PrefixSelf
<1>2. ASSUME NEW q \in Paths PROVE ViewAt(w, q) = Resolve(u, d, q, Up(w, q))
  <2>1. /\ Front(q) \in Paths \cup {<< >>} /\ (Len(q) = 1 <=> Front(q) = << >>)
        /\ q \in Seq(N) /\ q # << >> /\ Front(q) \in Seq(N)
    BY FrontPath
  <2>2. CASE q = p
    <3>1. Up(w, q) # Gone BY <1>1, <2>1, <2>2 DEF Up
    <3>2. ViewAt(w, q) = s /\ At(u, q).new = s BY <2>2
    <3> QED BY <3>1, <3>2 DEF Resolve
  <2>3. CASE ~IsPrefix(p, q)
    <3>1. ~IsPrefix(p, Front(q)) BY <1>1, <2>1, <2>3, PrefixFront
    <3>2. Up(w, q) = Up(v, q) BY <1>1, <2>1, <3>1 DEF Up
    <3>3. ViewAt(w, q) = ViewAt(v, q) /\ At(u, q).new = At(t, q).new BY <1>1, <2>3
    <3> QED BY <3>2, <3>3 DEF Follows, Resolve
  <2>4. CASE q # p /\ IsPrefix(p, q)
    <3>1. IsPrefix(p, Front(q)) BY <1>1, <2>1, <2>4, PrefixFront
    <3>2. Len(q) # 1
      <4>1. Len(p) \in Nat \ {0} /\ Len(p) <= Len(Front(q)) /\ Len(<< >>) = 0
        BY <1>1, <2>1, <3>1, EmptySeq, PrefixIs
      <4> QED BY <2>1, <4>1
    <3>3. ViewAt(w, q) = Gone /\ At(u, q).new = At(t, q).new BY <2>4
    <3>4. CASE Front(q) = p
      <4>1. Up(w, q) = s BY <2>1, <3>2, <3>4 DEF Up
      <4>2. s = Gone \/ At(u, q).new = Nil \/ At(u, q).new = Gone BY <3>2, <3>3, <3>4 DEF Present
      <4> QED BY <3>3, <4>1, <4>2 DEF Resolve
    <3>5. CASE Front(q) # p
      <4>1. Up(w, q) = Gone BY <2>1, <3>1, <3>2, <3>5 DEF Up
      <4> QED BY <3>3, <4>1, Backings DEF Resolve
    <3> QED BY <3>4, <3>5
  <2> QED BY <2>2, <2>3, <2>4
<1> QED BY <1>2 DEF Follows

\* Neither a visible path nor anything above it has a tombstone.
LEMMA NoneGone ==
  ASSUME NEW v, NEW t, NEW d, NEW st, Shows(v, t, d, st), NEW p \in DOMAIN v
  PROVE  At(t, p).new # Gone /\ \A a \in Ancestors(p) : At(t, a).new # Gone
<1>1. IsView(v) /\ Tidy(v, d, st) /\ Follows(v, t, d) /\ p \in Paths BY DEF Shows, IsView
<1>2. ASSUME NEW a \in DOMAIN v PROVE At(t, a).new # Gone
  <2>1. a \in Paths /\ v[a] # Gone BY <1>1, BacksAre DEF IsView, Shows
  <2>2. v[a] = Resolve(t, d, a, Up(v, a)) BY <1>1, <2>1 DEF Follows, ViewAt
  <2>3. Gone # Nil
    <3>1. Gone \in Sides BY DEF Sides, Unstaged
    <3> QED BY <3>1, SideIs
  <2> QED BY <2>1, <2>2, <2>3 DEF Resolve
<1>3. ASSUME NEW a \in Ancestors(p) PROVE a \in DOMAIN v
  <2>1. a \in Paths /\ IsStrictPrefix(a, p) BY <1>1, FrontPath, AncestorPaths, AncestorsAre
  <2> QED BY <1>1, <2>1, AllAbove
<1> QED BY <1>2, <1>3

\* st and everything more in st2.
Extends(st2, st) == DOMAIN st \subseteq DOMAIN st2 /\ \A i \in DOMAIN st : st2[i] = st[i]

LEMMA ExtendsShows ==
  ASSUME NEW v, NEW t, NEW d, NEW st, Shows(v, t, d, st), NEW st2, Extends(st2, st)
  PROVE  Shows(v, t, d, st2)
<1>1. ASSUME NEW p, DirIn(v, d, st, p) PROVE DirIn(v, d, st2, p)
  BY <1>1 DEF DirIn, Shows, Backed, Extends
<1>2. Tidy(v, d, st2) BY <1>1 DEF Shows, Tidy
<1>3. Backed(v, d, st2) BY DEF Shows, Backed, Extends
<1> QED BY <1>2, <1>3 DEF Shows

\* v with p given the backing s, or none, and nothing below it.
Given(w, v, p, s) ==
  /\ w = [q \in DOMAIN w |-> w[q]]
  /\ \A q : q \in DOMAIN w <=> (q \in DOMAIN v /\ ~IsPrefix(p, q)) \/ (q = p /\ s # Gone)
  /\ \A q \in DOMAIN w : w[q] = IF q = p THEN s ELSE v[q]

\* Whatever t still has below p is below a tombstone.
Still(t, p) ==
  \A q \in BelowIn(t, p) : Present(t[q].new) => \E a \in Ancestors(q) : IsStrictPrefix(p, a) /\ At(t, a).new = Gone

LEMMA StillChild ==
  ASSUME NEW t, NEW p \in Paths, Still(t, p), NEW q \in Paths, Len(q) # 1, Front(q) = p
  PROVE  ~Present(At(t, q).new)
<1>1. /\ p \in Seq(N) /\ q \in Seq(N) /\ q # << >> /\ Front(q) \in Seq(N)
  BY FrontPath
<1>2. SUFFICES ASSUME Present(At(t, q).new) PROVE FALSE OBVIOUS
<1>3. q \in DOMAIN t /\ t[q] = At(t, q) BY <1>2 DEF At, Scaffold, Node, Present
<1>4. IsStrictPrefix(p, q) BY <1>1, PrefixFront DEF IsStrictPrefix
<1>5. PICK a \in Ancestors(q) : IsStrictPrefix(p, a) BY <1>2, <1>3, <1>4 DEF Still, BelowIn
<1>6. a \in Seq(N) /\ IsStrictPrefix(a, q) BY <1>1, AncestorsAre
<1>7. IsPrefix(a, p) BY <1>1, <1>6, PrefixFront DEF IsStrictPrefix
<1> QED BY <1>1, <1>5, <1>6, <1>7, PrefixTrans, PrefixSame DEF IsStrictPrefix

LEMMA TouchedShows ==
  ASSUME NEW v, NEW t, NEW d, NEW st, Shows(v, t, d, st), NEW n, TreeTo(t, n),
         NEW p \in Paths, DirIn(v, d, st, Front(p)),
         NEW pre \in SidesTo(n), NEW s \in SidesTo(n), s = Gone \/ (s \in Backs /\ s.kind = "staged" /\ s.ino \in DOMAIN st),
         s # Gone => Still(t, p), NEW w, Given(w, v, p, s)
  PROVE  Shows(w, Touch(t, p, pre, s), d, st)
<1>1. PICK u : u = Touch(t, p, pre, s) OBVIOUS
<1>2. TreeTo(u, n) /\ (\A q : At(u, q).new = IF q = p THEN s ELSE At(t, q).new)
  <2>1. TreeTo(Touch(t, p, pre, s), n) /\ NewIs(Touch(t, p, pre, s), t, p, s) BY TouchIs
  <2> QED BY <1>1, <2>1 DEF NewIs
<1>3. IsView(v) /\ (\A q \in DOMAIN v : v[q] \in Backs) /\ Follows(v, t, d)
      /\ Tidy(v, d, st) /\ Dormant(v, t) /\ Backed(v, d, st) /\ DOMAIN v \subseteq Paths
  BY DEF Shows, IsView
<1>4. s # Nil /\ s.kind # "base" /\ (s # Gone => s \in Backs)
  <2>1. Gone # Nil
    <3>1. Gone \in Sides BY DEF Sides, Unstaged
    <3> QED BY <3>1, SideIs
  <2>2. CASE s = Gone BY <2>1, <2>2, Backings
  <2>3. CASE s # Gone BY <2>3, BacksAre
  <2> QED BY <2>2, <2>3
<1>5. \A q \in DOMAIN v : v[q] # Gone /\ v[q] # Nil BY <1>3, BacksAre
<1>6. p \in Seq(N) /\ IsPrefix(p, p) /\ ~IsPrefix(p, Front(p))
  <2>1. /\ p \in Seq(N) /\ Front(p) \in Seq(N)
        /\ Len(Front(p)) = Len(p) - 1 /\ Len(p) \in 1 .. Depth /\ Depth \in Nat
    BY FrontPath
  <2>2. ~(Len(p) <= Len(Front(p))) BY <2>1
  <2> QED BY <2>1, <2>2, PrefixIs, PrefixSelf
<1>7. DOMAIN w \subseteq Paths /\ (\A q \in DOMAIN w : w[q] \in Backs) BY <1>3, <1>4, <1>6 DEF Given
<1>8. \A q : ViewAt(w, q) = IF q = p THEN s ELSE IF IsPrefix(p, q) THEN Gone ELSE ViewAt(v, q)
  BY <1>6 DEF ViewAt, Given
<1>9. Up(v, p) # Gone
  <2>1. Len(p) = 1 <=> Front(p) = << >> BY FrontPath
  <2>2. CASE Len(p) = 1 BY <2>2, Backings DEF Up
  <2>3. CASE Len(p) # 1 BY <1>5, <2>1, <2>3 DEF Up, ViewAt, DirIn
  <2> QED BY <2>2, <2>3
<1>10. Follows(w, u, d)
  <2>1. \A q \in Paths :
          ViewAt(w, q) = IF q = p THEN s ELSE IF IsPrefix(p, q) THEN Gone ELSE ViewAt(v, q)
    BY <1>8
  <2>2. \A q \in Paths : At(u, q).new = IF q = p THEN s ELSE At(t, q).new BY <1>2
  <2>3. \A q \in Paths : Len(q) # 1 /\ Front(q) = p => s = Gone \/ ~Present(At(t, q).new)
    BY StillChild
  <2> QED BY <1>3, <1>4, <1>9, <2>1, <2>2, <2>3, TouchedFollows
<1>11. Tidy(w, d, st)
  <2>1. ASSUME NEW q \in DOMAIN w PROVE DirIn(w, d, st, Front(q))
    <3>1. q \in Paths /\ q \in Seq(N) /\ q # << >> /\ Front(q) \in Seq(N) BY <1>7, FrontPath
    <3>2. DirIn(v, d, st, Front(q)) /\ ~IsPrefix(p, Front(q))
      <4>1. CASE q = p BY <1>6, <4>1
      <4>2. CASE q # p
        <5>1. q \in DOMAIN v /\ ~IsPrefix(p, q) BY <4>2 DEF Given
        <5> QED BY <1>3, <1>6, <3>1, <5>1, PrefixFront DEF Tidy
      <4> QED BY <4>1, <4>2
    <3>3. Front(q) \in DOMAIN v => Front(q) \in DOMAIN w /\ w[Front(q)] = v[Front(q)]
      BY <1>6, <3>2 DEF Given
    <3> QED BY <3>2, <3>3 DEF DirIn
  <2> QED BY <2>1 DEF Tidy
<1>12. Dormant(w, u)
  <2>1. SUFFICES ASSUME NEW q \in InPlan(u), u[q].new # Gone PROVE q \in DOMAIN w BY DEF Dormant
  <2>2. /\ q \in DOMAIN u /\ u[q].new # Nil /\ At(u, q).new = u[q].new /\ q \in Paths /\ q \in Seq(N)
        /\ \A a \in Ancestors(q) : At(u, a).new # Gone
    <3>1. q \in DOMAIN u BY <2>1 DEF InPlan, Net
    <3>2. q \in Paths BY <1>2, <3>1 DEF TreeTo
    <3> QED BY <2>1, <3>1, <3>2, FrontPath DEF InPlan, Net, At
  <2>3. CASE q = p BY <1>2, <2>1, <2>2, <2>3 DEF Given
  <2>4. ASSUME q # p PROVE q \in DOMAIN t /\ t[q].new = u[q].new /\ t[q].new # Nil
    <3>1. At(t, q).new = u[q].new BY <1>2, <2>2, <2>4
    <3> QED BY <2>2, <3>1 DEF At, Scaffold, Node
  <2>5. CASE q # p /\ IsPrefix(p, q)
    <3>1. IsStrictPrefix(p, q) /\ p # << >> BY <2>5, FrontPath DEF IsStrictPrefix
    <3>2. p \in Ancestors(q) BY <1>6, <2>2, <3>1, AncestorsAre
    <3>3. s # Gone BY <1>2, <2>2, <3>2
    <3>4. q \in BelowIn(t, p) /\ Present(t[q].new) BY <2>1, <2>4, <2>5, <3>1 DEF BelowIn, Present
    <3>5. PICK a \in Ancestors(q) : IsStrictPrefix(p, a) /\ At(t, a).new = Gone
      BY <3>3, <3>4 DEF Still
    <3>6. a # p BY <3>5 DEF IsStrictPrefix
    <3> QED BY <1>2, <2>2, <3>5, <3>6
  <2>6. CASE ~IsPrefix(p, q)
    <3>1. q # p BY <1>6, <2>6
    <3>2. ASSUME NEW a \in Ancestors(q) PROVE At(t, a).new # Gone
      <4>1. IsPrefix(a, q) BY <2>2, AncestorsAre DEF IsStrictPrefix
      <4>2. a # p BY <2>6, <4>1
      <4> QED BY <1>2, <2>2, <4>2
    <3>3. q \in InPlan(t) /\ t[q].new # Gone BY <2>1, <2>4, <3>1, <3>2 DEF InPlan, Net
    <3>4. q \in DOMAIN v BY <1>3, <3>3 DEF Dormant
    <3> QED BY <2>6, <3>4 DEF Given
  <2> QED BY <2>3, <2>5, <2>6
<1>13. Backed(w, d, st)
  <2>1. ASSUME NEW q \in DOMAIN w
        PROVE  IF w[q].kind = "base" THEN w[q].path \in DOMAIN d ELSE w[q].ino \in DOMAIN st
    <3>1. CASE q = p BY <1>4, <1>6, <3>1 DEF Given
    <3>2. CASE q # p BY <1>3, <3>2 DEF Backed, Given
    <3> QED BY <3>1, <3>2
  <2> QED BY <2>1 DEF Backed
<1> QED BY <1>1, <1>7, <1>10, <1>11, <1>12, <1>13 DEF Shows, IsView, Given

\* What is shown below dst was shown below src, with its parent.
LEMMA BelowFront ==
  ASSUME NEW src \in Paths, NEW dst \in Paths, NEW q \in Paths, IsStrictPrefix(dst, q),
         NEW o, o = Rebase(q, dst, src)
  PROVE  /\ o \in Seq(N) /\ o # << >> /\ Len(o) \in Nat \ {0, 1} /\ IsStrictPrefix(src, o)
         /\ Front(o) = Rebase(Front(q), dst, src) /\ Last(o) = Last(q)
         /\ Len(q) # 1 /\ Front(q) \in Paths /\ IsPrefix(dst, Front(q))
         /\ Front(o) \in Seq(N) /\ Len(Front(o)) = Len(o) - 1 /\ IsPrefix(src, Front(o))
         /\ Front(q) = dst => Front(o) = src
<1>1. src \in Seq(N) /\ dst \in Seq(N) /\ q \in Seq(N) /\ dst # << >> /\ src # << >> /\ q # << >>
  BY FrontPath
<1>2. IsPrefix(dst, q) /\ dst # q BY DEF IsStrictPrefix
<1>3. o \in Seq(N) /\ IsPrefix(src, o) /\ o # src BY <1>1, <1>2, RebaseBack
<1>4. o # << >> /\ Front(o) = Rebase(Front(q), dst, src) /\ Last(o) = Last(q)
  BY <1>1, RebaseFront
<1>5. Front(o) \in Seq(N) /\ Len(Front(o)) = Len(o) - 1 /\ Len(o) \in Nat \ {0}
  BY <1>3, <1>4, FrontIs
<1>6. IsPrefix(src, Front(o)) /\ IsPrefix(dst, Front(q)) BY <1>1, <1>2, <1>3, <1>4, PrefixFront
<1>7. Len(src) \in Nat \ {0} /\ Len(src) <= Len(Front(o)) BY <1>1, <1>5, <1>6, EmptySeq, PrefixIs
<1>8. Len(o) # 1 BY <1>5, <1>7
<1>9. Front(q) \in Paths /\ Len(q) # 1
  <2>1. Front(q) \in Seq(N) /\ Front(q) \in Paths \cup {<< >>} /\ (Len(q) = 1 <=> Front(q) = << >>)
    BY FrontPath
  <2>2. Len(dst) \in Nat \ {0} /\ Len(dst) <= Len(Front(q)) /\ Len(<< >>) = 0
    BY <1>1, <1>6, <2>1, EmptySeq, PrefixIs
  <2> QED BY <2>1, <2>2
<1>10. Front(q) = dst => Front(o) = src BY <1>1, <1>4, PrefixSelf, RebaseBack
<1> QED BY <1>3, <1>4, <1>5, <1>6, <1>8, <1>9, <1>10 DEF IsStrictPrefix

\* w shows below dst what v shows below src, and nothing at src.
Shifted(w, v, src, dst) ==
  /\ IsView(w)
  /\ \A q \in Paths : IsStrictPrefix(dst, q) =>
       /\ q \in DOMAIN w <=> Rebase(q, dst, src) \in DOMAIN v
       /\ q \in DOMAIN w => w[q] = v[Rebase(q, dst, src)]
  /\ dst \in DOMAIN w /\ w[dst] = v[src]
  /\ \A q \in Paths : ~IsPrefix(dst, q) =>
       /\ q \in DOMAIN w <=> q \in DOMAIN v /\ ~IsPrefix(src, q)
       /\ q \in DOMAIN w => w[q] = v[q]

LEMMA ShiftedIs ==
  ASSUME NEW v, IsView(v), NEW src \in DOMAIN v, NEW dst \in Paths, Fitting(v, src, dst),
         NEW w, w = Over(Carried(v, src, dst), Put(Without(Without(v, dst), src), dst, v[src]))
  PROVE  Shifted(w, v, src, dst)
<1>1. DOMAIN v \subseteq Paths /\ src \in Paths BY DEF IsView
<1>2. DOMAIN v \subseteq Seq(N) /\ src \in Seq(N) /\ dst \in Seq(N) BY <1>1, FrontPath
<1>3. PICK c, r : c = Carried(v, src, dst) /\ r = Put(Without(Without(v, dst), src), dst, v[src])
  OBVIOUS
<1>4. DOMAIN c \subseteq Paths BY <1>1, <1>3, CarriedPaths
<1>5. /\ \A q \in Seq(N) : q \in DOMAIN c <=> IsStrictPrefix(dst, q) /\ Rebase(q, dst, src) \in DOMAIN v
      /\ \A q \in DOMAIN c : IsStrictPrefix(dst, q) /\ c[q] = v[Rebase(q, dst, src)]
  BY <1>2, <1>3, CarriedIs
<1>6. /\ \A q : q \in DOMAIN r <=> q = dst \/ (q \in DOMAIN v /\ ~IsPrefix(dst, q) /\ ~IsPrefix(src, q))
      /\ r[dst] = v[src] /\ \A q \in DOMAIN r : q # dst => r[q] = v[q]
  BY <1>3 DEF Put, Without, Restrict
<1>7. /\ w = [q \in DOMAIN w |-> w[q]] /\ DOMAIN w = DOMAIN c \cup DOMAIN r
      /\ \A q \in DOMAIN c : w[q] = c[q]
      /\ \A q \in DOMAIN r : q \notin DOMAIN c => w[q] = r[q]
  BY <1>3 DEF Over
<1>8. IsPrefix(dst, dst) /\ dst \notin DOMAIN c BY <1>2, <1>5, PrefixSelf DEF IsStrictPrefix
<1>9. IsView(w) BY <1>1, <1>4, <1>6, <1>7 DEF IsView
<1>10. ASSUME NEW q \in Paths, IsStrictPrefix(dst, q)
       PROVE  /\ q \in DOMAIN w <=> Rebase(q, dst, src) \in DOMAIN v
              /\ q \in DOMAIN w => w[q] = v[Rebase(q, dst, src)]
  <2>1. q \in Seq(N) /\ q # dst /\ IsPrefix(dst, q) BY <1>10, FrontPath DEF IsStrictPrefix
  <2> QED BY <1>5, <1>6, <1>7, <1>10, <2>1
<1>11. dst \in DOMAIN w /\ w[dst] = v[src] BY <1>6, <1>7, <1>8
<1>12. ASSUME NEW q \in Paths, ~IsPrefix(dst, q)
       PROVE  /\ q \in DOMAIN w <=> q \in DOMAIN v /\ ~IsPrefix(src, q)
              /\ q \in DOMAIN w => w[q] = v[q]
  <2>1. q \notin DOMAIN c /\ q # dst BY <1>5, <1>8, <1>12 DEF IsStrictPrefix
  <2> QED BY <1>6, <1>7, <1>12, <2>1
<1> QED BY <1>9, <1>10, <1>11, <1>12 DEF Shifted

\* The net sides of u are those of t as a rename leaves them.
NewShifted(u, t, src, dst, srcPre) ==
  /\ \A q \in Paths : IsStrictPrefix(dst, q) => At(u, q).new = At(t, Rebase(q, dst, src)).new
  /\ At(u, dst).new = IF IsSelfRedirect(srcPre, dst) THEN Nil ELSE srcPre
  /\ At(u, src).new = Gone
  /\ \A q \in Paths : ~IsPrefix(dst, q) /\ q # src =>
       At(u, q).new = IF IsPrefix(src, q) THEN Nil ELSE At(t, q).new

LEMMA NewShiftedIs ==
  ASSUME NEW t, NEW n, TreeTo(t, n), NEW src \in Paths, NEW dst \in Paths,
         ~IsPrefix(src, dst), ~IsPrefix(dst, src),
         NEW srcPre \in SidesTo(n), NEW dstPre \in SidesTo(n), NEW u,
         u = ApplyRename(t, dst, src, srcPre, dstPre)
  PROVE  NewShifted(u, t, src, dst, srcPre)
<1>1. IsPrefix(src, src) /\ IsPrefix(dst, dst) BY FrontPath, PrefixSelf
<1>2. \A q \in Paths :
        At(u, q).new = IF IsStrictPrefix(dst, q) THEN At(t, Rebase(q, dst, src)).new
                       ELSE IF q = dst THEN IF IsSelfRedirect(srcPre, dst) THEN Nil ELSE srcPre
                       ELSE IF q = src THEN Gone
                       ELSE IF IsPrefix(src, q) THEN Nil ELSE At(t, q).new
  BY RenameNew
<1>3. ~IsStrictPrefix(dst, dst) /\ ~IsStrictPrefix(dst, src) /\ src # dst BY <1>1 DEF IsStrictPrefix
<1>4. \A q \in Paths : ~IsPrefix(dst, q) => ~IsStrictPrefix(dst, q) /\ q # dst
  BY <1>1 DEF IsStrictPrefix
<1>5. At(u, dst).new = IF IsSelfRedirect(srcPre, dst) THEN Nil ELSE srcPre BY <1>2, <1>3
<1>6. At(u, src).new = Gone BY <1>2, <1>3
<1>7. \A q \in Paths : ~IsPrefix(dst, q) /\ q # src =>
        At(u, q).new = IF IsPrefix(src, q) THEN Nil ELSE At(t, q).new
  BY <1>2, <1>4
<1> QED BY <1>2, <1>5, <1>6, <1>7 DEF NewShifted

\* What a rename may do: dst is below a directory, nothing out of bounds comes
\* into them, and a way home leads below the base directory.
Movable(v, d, st, src, dst) ==
  /\ src \in DOMAIN v /\ dst \in Paths /\ ~IsPrefix(src, dst) /\ ~IsPrefix(dst, src)
  /\ DirIn(v, d, st, Front(dst))
  /\ \A q \in {src} \cup BelowIn(v, src) :
       Len(q) = Depth /\ v[q].kind = "base" => BelowIn(d, v[q].path) = {}
  /\ v[src] = Base(dst) => Len(dst) = 1 \/ v[Front(dst)] = Base(Front(dst))

\* Below dst.
LEMMA FollowsBelow ==
  ASSUME NEW v, NEW t, NEW d, NEW st, Shows(v, t, d, st), DOMAIN t \subseteq Paths,
         NEW src \in Paths, NEW dst, Movable(v, d, st, src, dst),
         NEW w, Shifted(w, v, src, dst), NEW u, NewShifted(u, t, src, dst, v[src]),
         NEW q \in Paths, IsStrictPrefix(dst, q)
  PROVE  ViewAt(w, q) = Resolve(u, d, q, Up(w, q))
<1>1. dst \in Paths /\ src \in DOMAIN v BY DEF Movable
<1>2. PICK o : o = Rebase(q, dst, src) OBVIOUS
<1>3. /\ o \in Seq(N) /\ o # << >> /\ Len(o) \in Nat \ {0, 1} /\ IsStrictPrefix(src, o)
      /\ Front(o) = Rebase(Front(q), dst, src) /\ Last(o) = Last(q)
      /\ Len(q) # 1 /\ Front(q) \in Paths /\ IsPrefix(dst, Front(q))
      /\ Front(o) \in Seq(N) /\ Len(Front(o)) = Len(o) - 1 /\ IsPrefix(src, Front(o))
      /\ Front(q) = dst => Front(o) = src
  BY <1>1, <1>2, BelowFront
<1>4. ViewAt(w, q) = ViewAt(v, o) BY <1>2 DEF Shifted, ViewAt
<1>5. ViewAt(w, Front(q)) = ViewAt(v, Front(o))
  <2>1. CASE Front(q) = dst BY <1>1, <1>3, <2>1 DEF Shifted, ViewAt
  <2>2. CASE Front(q) # dst
    <3>1. IsStrictPrefix(dst, Front(q)) BY <1>3, <2>2 DEF IsStrictPrefix
    <3> QED BY <1>3, <3>1 DEF Shifted, ViewAt
  <2> QED BY <2>1, <2>2
<1>6. Up(w, q) = ViewAt(v, Front(o)) BY <1>3, <1>5 DEF Up
<1>7. At(u, q).new = At(t, o).new BY <1>2 DEF NewShifted
<1>8. CASE o \in Paths
  <2>1. ViewAt(v, o) = Resolve(t, d, o, Up(v, o)) BY <1>8 DEF Shows, Follows
  <2>2. Up(v, o) = Up(w, q) BY <1>3, <1>6 DEF Up
  <2> QED BY <1>3, <1>4, <1>7, <2>1, <2>2 DEF Resolve
<1>9. CASE o \notin Paths
  <2>1. o \notin DOMAIN v /\ o \notin DOMAIN t BY <1>9 DEF Shows, IsView
  <2>2. ViewAt(w, q) = Gone BY <1>4, <2>1 DEF ViewAt
  <2>3. At(u, q).new = Nil BY <1>7, <2>1 DEF At, Scaffold, Node
  <2>4. PICK up : up = ViewAt(v, Front(o)) OBVIOUS
  <2>5. ASSUME up.kind = "base", Append(up.path, Last(q)) \in DOMAIN d PROVE FALSE
    <3>1. Front(o) \in DOMAIN v /\ up = v[Front(o)] BY <2>4, <2>5, Backings DEF ViewAt
    <3>2. up \in Backs /\ Front(o) \in Paths BY <3>1 DEF Shows, IsView
    <3>3. up.path \in Paths BY <2>5, <3>2, BacksAre
    <3>4. Len(Front(o)) = Depth
      <4>1. Len(Front(o)) \in 1 .. Depth /\ Depth \in Nat BY <3>2, FrontPath
      <4>2. Len(o) \notin 1 .. Depth BY <1>3, <1>9, PathsAre
      <4>3. PICK k \in Nat \ {0, 1} : k = Len(o) BY <1>3
      <4>4. k - 1 <= Depth /\ ~(k <= Depth) BY <1>3, <4>1, <4>2, <4>3
      <4> QED BY <1>3, <4>1, <4>3, <4>4
    <3>5. Front(o) \in {src} \cup BelowIn(v, src) BY <1>3, <3>1 DEF BelowIn, IsStrictPrefix
    <3>6. BelowIn(d, up.path) = {} BY <2>5, <3>1, <3>4, <3>5 DEF Movable
    <3>7. IsStrictPrefix(up.path, Append(up.path, Last(q)))
      <4>1. up.path \in Seq(N) /\ Last(q) \in N BY <3>3, FrontPath
      <4>2. PICK z : z = Append(up.path, Last(q)) OBVIOUS
      <4>3. /\ z \in Seq(N) /\ Len(z) = Len(up.path) + 1 /\ Len(up.path) \in Nat
            /\ \A i \in 1 .. Len(up.path) : z[i] = up.path[i]
        BY <4>1, <4>2, AppendProperties, LenProperties
      <4>4. Len(up.path) <= Len(z) /\ z # up.path BY <4>3
      <4>5. IsPrefix(up.path, z) BY <4>1, <4>3, <4>4, PrefixIs
      <4> QED BY <4>2, <4>4, <4>5 DEF IsStrictPrefix
    <3> QED BY <2>5, <3>6, <3>7 DEF BelowIn
  <2> QED BY <1>6, <2>2, <2>3, <2>4, <2>5 DEF Resolve
<1> QED BY <1>8, <1>9

\* At dst itself.
LEMMA FollowsAt ==
  ASSUME NEW v, NEW t, NEW d, NEW st, Shows(v, t, d, st),
         NEW src \in Paths, NEW dst, Movable(v, d, st, src, dst),
         NEW w, Shifted(w, v, src, dst), NEW u, NewShifted(u, t, src, dst, v[src])
  PROVE  ViewAt(w, dst) = Resolve(u, d, dst, Up(w, dst))
<1>1. dst \in Paths /\ src \in DOMAIN v /\ DirIn(v, d, st, Front(dst)) BY DEF Movable
<1>2. v[src] \in Backs /\ v[src] # Gone /\ v[src] # Nil BY <1>1, BacksAre DEF Shows
<1>3. ViewAt(w, dst) = v[src] BY DEF Shifted, ViewAt
<1>4. /\ (Len(dst) = 1 <=> Front(dst) = << >>) /\ Front(dst) \in Paths \cup {<< >>}
      /\ Append(Front(dst), Last(dst)) = dst
  BY <1>1, FrontPath
<1>5. Len(dst) # 1 => Up(w, dst) = v[Front(dst)] /\ Front(dst) \in DOMAIN v
  <2>1. ASSUME Len(dst) # 1 PROVE ~IsPrefix(dst, Front(dst)) /\ ~IsPrefix(src, Front(dst))
    <3>1. src \in Seq(N) /\ dst \in Seq(N) /\ dst # << >> BY <1>1, FrontPath
    <3>2. IsPrefix(Front(dst), dst) /\ Front(dst) # dst /\ Front(dst) \in Seq(N)
      BY <3>1, PrefixFront
    <3>3. ~IsPrefix(dst, Front(dst))
      <4>1. Len(Front(dst)) = Len(dst) - 1 /\ Len(dst) \in Nat BY <3>1, FrontIs
      <4>2. ~(Len(dst) <= Len(Front(dst))) BY <4>1
      <4> QED BY <3>1, <3>2, <4>2, PrefixIs
    <3>4. ~IsPrefix(src, Front(dst)) BY <3>1, PrefixFront DEF Movable
    <3> QED BY <3>3, <3>4
  <2>2. ASSUME Len(dst) # 1 PROVE Front(dst) \in Paths /\ Front(dst) \in DOMAIN v
    BY <1>1, <1>4, <2>2 DEF DirIn
  <2>3. ASSUME Len(dst) # 1 PROVE Front(dst) \in DOMAIN w /\ w[Front(dst)] = v[Front(dst)]
    BY <2>1, <2>2, <2>3 DEF Shifted
  <2> QED BY <2>2, <2>3 DEF Up, ViewAt
<1>6. Up(w, dst) # Gone
  <2>1. CASE Len(dst) = 1 BY <2>1, Backings DEF Up
  <2>2. CASE Len(dst) # 1 BY <1>5, <2>2, BacksAre DEF Shows
  <2> QED BY <2>1, <2>2
<1>7. CASE ~IsSelfRedirect(v[src], dst)
  <2>1. At(u, dst).new = v[src] BY <1>7 DEF NewShifted
  <2> QED BY <1>2, <1>3, <1>6, <2>1 DEF Resolve
<1>8. CASE IsSelfRedirect(v[src], dst)
  <2>1. v[src] = Base(dst) /\ v[src].kind = "base" /\ v[src].path = dst
    BY <1>8, Backings DEF IsSelfRedirect
  <2>2. At(u, dst).new = Nil BY <1>8 DEF NewShifted
  <2>3. Up(w, dst) = Base(Front(dst))
    <3>1. CASE Len(dst) = 1 BY <1>4, <3>1 DEF Up
    <3>2. CASE Len(dst) # 1 BY <1>5, <2>1, <3>2 DEF Movable
    <3> QED BY <3>1, <3>2
  <2>4. dst \in DOMAIN d BY <1>1, <2>1 DEF Shows, Backed
  <2>5. Append(Up(w, dst).path, Last(dst)) = dst /\ Up(w, dst).kind = "base"
    BY <1>4, <2>3, Backings
  <2> QED BY <1>3, <2>1, <2>2, <2>4, <2>5 DEF Resolve
<1> QED BY <1>7, <1>8

\* Elsewhere.
LEMMA FollowsElse ==
  ASSUME NEW v, NEW t, NEW d, NEW st, Shows(v, t, d, st),
         NEW src \in Paths, NEW dst, Movable(v, d, st, src, dst),
         NEW w, Shifted(w, v, src, dst), NEW u, NewShifted(u, t, src, dst, v[src]),
         NEW q \in Paths, ~IsPrefix(dst, q)
  PROVE  ViewAt(w, q) = Resolve(u, d, q, Up(w, q))
<1>1. /\ q # << >> /\ q \in Seq(N) /\ src \in Seq(N) /\ dst \in Seq(N) /\ dst \in Paths
      /\ Front(q) \in Paths \cup {<< >>} /\ (Len(q) = 1 <=> Front(q) = << >>)
  BY FrontPath DEF Movable
<1>2. ~IsPrefix(dst, Front(q)) /\ (IsPrefix(src, q) <=> q = src \/ IsPrefix(src, Front(q)))
  BY <1>1, PrefixFront
<1>3. ViewAt(w, q) = IF IsPrefix(src, q) THEN Gone ELSE ViewAt(v, q) BY DEF Shifted, ViewAt
<1>4. Len(q) # 1 => Up(w, q) = IF IsPrefix(src, Front(q)) THEN Gone ELSE ViewAt(v, Front(q))
  BY <1>1, <1>2 DEF Shifted, ViewAt, Up
<1>5. CASE q = src
  <2>1. IsPrefix(src, q) /\ At(u, q).new = Gone BY <1>1, <1>5, PrefixSelf DEF NewShifted
  <2>2. Gone # Nil
    <3>1. src \in DOMAIN v BY DEF Movable
    <3> QED BY <3>1, BacksAre DEF Shows
  <2> QED BY <1>3, <2>1, <2>2 DEF Resolve
<1>6. CASE q # src /\ IsPrefix(src, q)
  <2>1. IsPrefix(src, Front(q)) BY <1>2, <1>6
  <2>2. Len(q) # 1
    <3>1. Len(src) \in Nat \ {0} /\ Len(src) <= Len(Front(q)) /\ Len(<< >>) = 0
      <4>1. src # << >> /\ Front(q) \in Seq(N) BY <1>1, FrontPath
      <4> QED BY <1>1, <2>1, <4>1, EmptySeq, PrefixIs
    <3> QED BY <1>1, <3>1
  <2>3. Up(w, q) = Gone BY <1>4, <2>1, <2>2
  <2> QED BY <1>3, <1>6, <2>3, Backings DEF Resolve
<1>7. CASE ~IsPrefix(src, q)
  <2>1. q # src BY <1>1, <1>7, PrefixSelf
  <2>2. At(u, q).new = At(t, q).new BY <1>7, <2>1 DEF NewShifted
  <2>3. Up(w, q) = Up(v, q) BY <1>2, <1>4, <1>7 DEF Up
  <2>4. ViewAt(v, q) = Resolve(t, d, q, Up(v, q)) BY DEF Shows, Follows
  <2> QED BY <1>3, <1>7, <2>2, <2>3, <2>4 DEF Resolve
<1> QED BY <1>5, <1>6, <1>7

LEMMA ShiftedTidy ==
  ASSUME NEW v, NEW t, NEW d, NEW st, Shows(v, t, d, st),
         NEW src \in Paths, NEW dst, Movable(v, d, st, src, dst), NEW w, Shifted(w, v, src, dst)
  PROVE  Tidy(w, d, st)
<1>1. dst \in Paths /\ dst \in Seq(N) /\ src \in Seq(N) BY FrontPath DEF Movable
<1>2. ASSUME NEW q \in Paths, ~IsPrefix(dst, q), ~IsPrefix(src, q), DirIn(v, d, st, Front(q))
      PROVE  DirIn(w, d, st, Front(q))
  <2>1. /\ q # << >> /\ q \in Seq(N) /\ Front(q) \in Paths \cup {<< >>} BY FrontPath
  <2>2. ~IsPrefix(dst, Front(q)) /\ ~IsPrefix(src, Front(q)) BY <1>1, <1>2, <2>1, PrefixFront
  <2>3. Front(q) # << >> => Front(q) \in DOMAIN w /\ w[Front(q)] = v[Front(q)]
    BY <1>2, <2>1, <2>2 DEF DirIn, Shifted
  <2> QED BY <1>2, <2>3 DEF DirIn
<1>3. ASSUME NEW q \in DOMAIN w PROVE DirIn(w, d, st, Front(q))
  <2>1. q \in Paths BY DEF Shifted, IsView
  <2>2. CASE IsStrictPrefix(dst, q)
    <3>1. PICK o : o = Rebase(q, dst, src) OBVIOUS
    <3>2. Front(q) \in Paths /\ IsPrefix(dst, Front(q)) /\ Front(o) = Rebase(Front(q), dst, src)
          /\ (Front(q) = dst => Front(o) = src) /\ o # << >> /\ IsPrefix(src, Front(o))
      BY <1>1, <2>1, <2>2, <3>1, BelowFront
    <3>3. o \in DOMAIN v BY <2>1, <2>2, <3>1 DEF Shifted
    <3>4. DirIn(v, d, st, Front(o)) BY <3>3 DEF Shows, Tidy
    <3>5. Front(o) # << >>
      <4>1. src # << >> /\ Front(o) \in Seq(N) BY <3>2, <3>3, FrontPath DEF Shows, IsView
      <4>2. Len(src) \in Nat \ {0} /\ Len(src) <= Len(Front(o)) /\ Len(<< >>) = 0
        BY <1>1, <3>2, <4>1, EmptySeq, PrefixIs
      <4> QED BY <4>2
    <3>6. Front(o) \in DOMAIN v BY <3>4, <3>5 DEF DirIn
    <3>7. Front(q) \in DOMAIN w /\ w[Front(q)] = v[Front(o)]
      <4>1. CASE Front(q) = dst BY <3>2, <4>1 DEF Shifted
      <4>2. CASE Front(q) # dst
        <5>1. IsStrictPrefix(dst, Front(q)) BY <3>2, <4>2 DEF IsStrictPrefix
        <5> QED BY <3>2, <3>6, <5>1 DEF Shifted
      <4> QED BY <4>1, <4>2
    <3> QED BY <3>4, <3>5, <3>7 DEF DirIn
  <2>3. CASE q = dst
    <3>1. DirIn(v, d, st, Front(dst)) BY DEF Movable
    <3>2. ~IsPrefix(dst, Front(dst)) /\ ~IsPrefix(src, Front(dst)) /\ Front(dst) \in Paths \cup {<< >>}
      <4>1. /\ dst # << >> /\ Front(dst) \in Seq(N) /\ Len(Front(dst)) = Len(dst) - 1
            /\ Len(dst) \in Nat /\ Front(dst) \in Paths \cup {<< >>}
        BY <1>1, FrontPath, LenProperties
      <4>2. ~(Len(dst) <= Len(Front(dst))) BY <4>1
      <4>3. ~IsPrefix(dst, Front(dst)) BY <1>1, <4>1, <4>2, PrefixIs
      <4>4. ~IsPrefix(src, Front(dst)) BY <1>1, <4>1, PrefixFront DEF Movable
      <4> QED BY <4>1, <4>3, <4>4
    <3>3. Front(dst) # << >> => Front(dst) \in DOMAIN w /\ w[Front(dst)] = v[Front(dst)]
      BY <3>1, <3>2 DEF DirIn, Shifted
    <3> QED BY <2>3, <3>1, <3>3 DEF DirIn
  <2>4. CASE ~IsPrefix(dst, q)
    <3>1. q \in DOMAIN v /\ ~IsPrefix(src, q) BY <2>1, <2>4 DEF Shifted
    <3>2. DirIn(v, d, st, Front(q)) BY <3>1 DEF Shows, Tidy
    <3> QED BY <1>2, <2>1, <2>4, <3>1, <3>2
  <2> QED BY <2>2, <2>3, <2>4 DEF IsStrictPrefix
<1> QED BY <1>3 DEF Tidy

LEMMA ShiftedShows ==
  ASSUME NEW v, NEW t, NEW d, NEW st, Shows(v, t, d, st), DOMAIN t \subseteq Paths,
         NEW src \in Paths, NEW dst, Movable(v, d, st, src, dst),
         NEW w, Shifted(w, v, src, dst), NEW u, NewShifted(u, t, src, dst, v[src]), DOMAIN u \subseteq Paths
  PROVE  Shows(w, u, d, st)
<1>1. dst \in Paths /\ dst \in Seq(N) /\ src \in Seq(N) /\ src \in DOMAIN v BY FrontPath DEF Movable
<1>2. \A q \in Paths : IsPrefix(dst, q) => q = dst \/ IsStrictPrefix(dst, q) BY DEF IsStrictPrefix
<1>3. Follows(w, u, d)
  <2>1. \A q \in Paths : IsStrictPrefix(dst, q) => ViewAt(w, q) = Resolve(u, d, q, Up(w, q))
    BY FollowsBelow
  <2>2. ViewAt(w, dst) = Resolve(u, d, dst, Up(w, dst)) BY FollowsAt
  <2>3. \A q \in Paths : ~IsPrefix(dst, q) => ViewAt(w, q) = Resolve(u, d, q, Up(w, q))
    BY FollowsElse
  <2> QED BY <1>2, <2>1, <2>2, <2>3 DEF Follows
<1>4. \A q \in DOMAIN w : q \in Paths /\ \E r \in DOMAIN v : w[q] = v[r]
  <2>1. ASSUME NEW q \in DOMAIN w PROVE q \in Paths /\ \E r \in DOMAIN v : w[q] = v[r]
    <3>1. q \in Paths BY DEF Shifted, IsView
    <3>2. CASE IsStrictPrefix(dst, q) BY <3>1, <3>2 DEF Shifted
    <3>3. CASE q = dst BY <1>1, <3>1, <3>3 DEF Shifted
    <3>4. CASE ~IsPrefix(dst, q) BY <3>1, <3>4 DEF Shifted
    <3> QED BY <1>2, <3>1, <3>2, <3>3, <3>4
  <2> QED BY <2>1
<1>5. \A q \in DOMAIN w : w[q] \in Backs BY <1>4 DEF Shows
<1>6. Backed(w, d, st) BY <1>4 DEF Shows, Backed
<1>7. Tidy(w, d, st) BY ShiftedTidy
<1>8. Dormant(w, u)
  <2>1. SUFFICES ASSUME NEW q \in InPlan(u), u[q].new # Gone PROVE q \in DOMAIN w BY DEF Dormant
  <2>2. /\ q \in Paths /\ q \in Seq(N) /\ At(u, q).new # Nil /\ At(u, q).new # Gone
        /\ \A a \in Ancestors(q) : At(u, a).new # Gone
    <3>1. q \in DOMAIN u BY <2>1 DEF InPlan, Net
    <3> QED BY <2>1, <3>1, FrontPath DEF InPlan, Net, At
  <2>3. ASSUME NEW o, At(t, o).new = At(u, q).new, \A a \in Ancestors(o) : At(t, a).new # Gone
        PROVE  o \in DOMAIN v
    <3>1. o \in DOMAIN t /\ t[o].new # Nil /\ t[o].new # Gone
      BY <2>2, <2>3 DEF At, Scaffold, Node
    <3> QED BY <2>3, <3>1 DEF InPlan, Net, Shows, Dormant
  <2>4. CASE IsStrictPrefix(dst, q)
    <3>1. PICK o : o = Rebase(q, dst, src) OBVIOUS
    <3>2. /\ o \in Seq(N) /\ IsPrefix(src, o) /\ Rebase(o, src, dst) = q /\ IsPrefix(dst, q)
          /\ src # << >>
      BY <1>1, <2>2, <2>4, <3>1, RebaseBack, FrontPath DEF IsStrictPrefix
    <3>3. At(t, o).new = At(u, q).new BY <2>2, <2>4, <3>1 DEF NewShifted
    <3>4. ASSUME NEW b \in Ancestors(o) PROVE At(t, b).new # Gone
      <4>1. b \in Seq(N) /\ b # << >> /\ IsPrefix(b, o) /\ b # o BY <3>2, AncestorsAre DEF IsStrictPrefix
      <4>2. CASE b = src BY <1>1, <4>2, NoneGone
      <4>3. CASE b # src /\ IsPrefix(b, src)
        <5>1. b \in Ancestors(src) BY <1>1, <4>1, <4>3, AncestorsAre DEF IsStrictPrefix
        <5> QED BY <1>1, <5>1, NoneGone
      <4>4. CASE b # src /\ IsPrefix(src, b)
        <5>1. PICK a : a = Rebase(b, src, dst) OBVIOUS
        <5>2. a \in Seq(N) /\ IsPrefix(dst, a) /\ Rebase(a, dst, src) = b /\ a # dst
          BY <1>1, <4>1, <4>4, <5>1, RebaseBack
        <5>3. IsPrefix(a, q) /\ a # q BY <1>1, <3>1, <3>2, <4>1, <4>4, <5>1, <5>2, RebaseBoth
        <5>4. a # << >> BY <1>1, <5>2, PrefixAnti, EmptySeq, PrefixIs
        <5>5. a \in Ancestors(q) BY <2>2, <5>2, <5>3, <5>4, AncestorsAre DEF IsStrictPrefix
        <5>6. a \in Paths BY <2>2, <5>5, AncestorPaths
        <5>7. At(u, a).new = At(t, b).new BY <5>2, <5>6 DEF NewShifted, IsStrictPrefix
        <5> QED BY <2>2, <5>5, <5>7
      <4>5. IsPrefix(b, src) \/ IsPrefix(src, b) BY <1>1, <3>2, <4>1, PrefixEither
      <4> QED BY <4>2, <4>3, <4>4, <4>5
    <3>5. o \in DOMAIN v BY <2>3, <3>3, <3>4
    <3> QED BY <2>2, <2>4, <3>1, <3>5 DEF Shifted
  <2>5. CASE q = dst BY <2>5 DEF Shifted
  <2>6. CASE ~IsPrefix(dst, q)
    <3>1. q # src BY <2>2 DEF NewShifted
    <3>2. ~IsPrefix(src, q) /\ At(t, q).new = At(u, q).new BY <2>2, <2>6, <3>1 DEF NewShifted
    <3>3. ASSUME NEW a \in Ancestors(q) PROVE At(t, a).new # Gone
      <4>1. a \in Paths /\ a \in Seq(N) /\ IsPrefix(a, q)
        BY <2>2, AncestorPaths, AncestorsAre DEF IsStrictPrefix
      <4>2. ~IsPrefix(dst, a) /\ ~IsPrefix(src, a) BY <1>1, <2>2, <2>6, <3>2, <4>1, PrefixTrans
      <4>3. a # src BY <1>1, <4>2, PrefixSelf
      <4>4. At(u, a).new = At(t, a).new BY <4>1, <4>2, <4>3 DEF NewShifted
      <4> QED BY <2>2, <4>4
    <3>4. q \in DOMAIN v BY <2>3, <3>2, <3>3
    <3> QED BY <2>2, <2>6, <3>2, <3>4 DEF Shifted
  <2> QED BY <1>2, <2>2, <2>4, <2>5, <2>6
<1> QED BY <1>3, <1>5, <1>6, <1>7, <1>8 DEF Shows, Shifted

-----------------------------------------------------------------------------
(* Types.                                                                  *)

StoreOK(st, n) == DOMAIN st \subseteq 1 .. n /\ \A i \in DOMAIN st : st[i] \in BOOLEAN
ViewOK(v, n)   == DOMAIN v \subseteq Paths /\ \A p \in DOMAIN v : v[p] \in SidesTo(n) \ {Nil, Gone}
PCs == {"live", "read", "reread", "apply", "clear", "truncate", "failed", "stuck"}

Typed(n, floor, st, v, t, s, p, d) ==
  /\ n \in 0 .. MaxIno /\ floor \in 0 .. n /\ StoreOK(st, n) /\ ViewOK(v, n)
  /\ TreeTo(t, n) /\ TreeTo(s, n) /\ p \in PCs /\ DiskOK(d)

LEMMA TypesAre == TypeOK <=> Typed(nextIno, cowFloor, store, view, tree, seg, pc, disk)
<1>1. Sides = SidesTo(nextIno) BY TreesAre
<1>2. IsTree(tree) <=> TreeTo(tree, nextIno) BY TreesAre
<1>3. IsTree(seg) <=> TreeTo(seg, nextIno) BY TreesAre
<1>4. DiskOK(disk) <=> \A p \in DOMAIN disk : OnDisk(p) /\ HasParent(disk, p) BY DiskIs
<1> QED BY <1>1, <1>2, <1>3, <1>4 DEF TypeOK, Typed, StoreOK, ViewOK, PCs

LEMMA TypesNext == TypeOK' <=> Typed(nextIno', cowFloor', store', view', tree', seg', pc', disk')
<1>1. Sides' = SidesTo(nextIno') BY DEF Sides, Unstaged, SidesTo
<1>2. IsTree(tree)' <=> TreeTo(tree', nextIno') BY <1>1 DEF IsTree, TreeTo
<1>3. IsTree(seg)' <=> TreeTo(seg', nextIno') BY <1>1 DEF IsTree, TreeTo
<1>4. DiskOK(disk') <=> \A p \in DOMAIN disk' : OnDisk(p) /\ HasParent(disk', p) BY DiskIs
<1> QED BY <1>1, <1>2, <1>3, <1>4 DEF TypeOK, Typed, StoreOK, ViewOK, PCs

\* An operation through the view, with the line it logs or tears.
LEMMA LoggedTypes ==
  ASSUME TypeInv, "glue" \notin Env, MayWork, NEW line, NEW v, NEW st, Logged(line, v, st),
         nextIno' \in nextIno .. MaxIno, StoreOK(store', nextIno'), ViewOK(v, nextIno'),
         TreeTo(Apply(tree, line), nextIno'), TreeTo(Apply(seg, line), nextIno'),
         DOMAIN Apply(seg, line) \subseteq DOMAIN Apply(tree, line),
         ~WellFormed(SubSeq(line, 1, 2))
  PROVE  TypeInv'
<1>1. Typed(nextIno, cowFloor, store, view, tree, seg, pc, disk) BY TypesAre DEF TypeInv
<1>2. torn = << >> /\ \A l : Glue(torn, l) = l BY DEF MayWork, Glue
<1>3. Tears(line) = {2} BY DEF Tears
<1>4. disk' = disk /\ cowFloor' = cowFloor /\ pc' = pc /\ todo' = todo BY DEF Logged, cli
<1>5. nextIno \in Nat /\ nextIno' \in 0 .. MaxIno /\ nextIno <= nextIno' /\ MaxIno \in Nat
  BY <1>1, CommitAssumption DEF Typed
<1>6. cowFloor' \in 0 .. nextIno' BY <1>1, <1>4, <1>5 DEF Typed
<1>7. CASE tree' = Apply(tree, line) /\ seg' = Apply(seg, line) /\ torn' = << >> /\ view' = v
  <2>1. Typed(nextIno', cowFloor', store', view', tree', seg', pc', disk')
    BY <1>1, <1>4, <1>5, <1>6, <1>7 DEF Typed
  <2>2. ~WellFormed(torn') BY <1>7 DEF WellFormed
  <2> QED BY <1>4, <1>7, <2>1, <2>2, TypesNext DEF TypeInv, Planned, Torn, SegIn
<1>8. CASE torn' = SubSeq(line, 1, 2) /\ tree' = tree /\ seg' = seg /\ view' = view
  <2>1. TreeTo(tree, nextIno') /\ TreeTo(seg, nextIno') BY <1>1, <1>5, TreesAre DEF Typed
  <2>2. ViewOK(view, nextIno')
    <3>1. SidesTo(nextIno) \subseteq SidesTo(nextIno') BY <1>5, TreesAre
    <3> QED BY <1>1, <3>1 DEF Typed, ViewOK
  <2>3. Typed(nextIno', cowFloor', store', view', tree', seg', pc', disk')
    BY <1>1, <1>4, <1>5, <1>6, <1>8, <2>1, <2>2 DEF Typed
  <2> QED BY <1>4, <1>8, <2>3, TypesNext DEF TypeInv, Planned, Torn, SegIn
<1>9. \/ tree' = Apply(tree, line) /\ seg' = Apply(seg, line) /\ torn' = << >> /\ view' = v
      \/ torn' = SubSeq(line, 1, 2) /\ tree' = tree /\ seg' = seg /\ view' = view
  <2>1. \A k \in Tears(line) : k = 2 BY <1>3
  <2> QED BY <1>2, <2>1 DEF Logged
<1> QED BY <1>7, <1>8, <1>9

LEMMA LoggedLive ==
  ASSUME Live, MayWork, "glue" \notin Env, NEW line, NEW v, NEW st, Logged(line, v, st),
         Extends(store', store), Shows(v, Apply(tree, line), disk, store')
  PROVE  Live'
<1>1. torn = << >> /\ \A l : Glue(torn, l) = l BY DEF MayWork, Glue
<1>2. disk' = disk /\ pc' = pc BY DEF Logged, cli
<1>3. Shows(view, tree, disk, store) BY DEF Live, MayWork
<1>4. \/ tree' = Apply(tree, line) /\ view' = v
      \/ tree' = tree /\ view' = view
  BY <1>1 DEF Logged
<1>5. CASE tree' = Apply(tree, line) /\ view' = v BY <1>2, <1>5 DEF Live
<1>6. CASE tree' = tree /\ view' = view
  <2>1. Shows(view, tree, disk, store') BY <1>3, ExtendsShows
  <2> QED BY <1>2, <1>6, <2>1 DEF Live
<1> QED BY <1>4, <1>5, <1>6

\* An operation that gives one path a backing.
LEMMA TouchingTypes ==
  ASSUME TypeInv, "glue" \notin Env, MayWork, NEW line, NEW v, NEW st, Logged(line, v, st),
         nextIno' \in nextIno .. MaxIno, StoreOK(store', nextIno'), ViewOK(v, nextIno'),
         NEW p \in Paths, NEW pre \in SidesTo(nextIno'), NEW s \in SidesTo(nextIno'),
         \A t : Apply(t, line) = Touch(t, p, pre, s), ~WellFormed(SubSeq(line, 1, 2))
  PROVE  TypeInv'
<1>1. Typed(nextIno, cowFloor, store, view, tree, seg, pc, disk) BY TypesAre DEF TypeInv
<1>2. nextIno \in Nat /\ nextIno' \in Nat /\ nextIno <= nextIno'
  BY <1>1, CommitAssumption DEF Typed
<1>3. PICK n : n = nextIno' OBVIOUS
<1>4. TreeTo(tree, n) /\ TreeTo(seg, n) BY <1>1, <1>2, <1>3, TreesAre DEF Typed
<1>5. PICK T, S : T = Touch(tree, p, pre, s) /\ S = Touch(seg, p, pre, s) OBVIOUS
<1>6. pre \in SidesTo(n) /\ s \in SidesTo(n) BY <1>3
<1>7. TreeTo(T, n) /\ DOMAIN T = DOMAIN tree \cup Ancestors(p) \cup {p} BY <1>4, <1>5, <1>6, TouchIs
<1>8. TreeTo(S, n) /\ DOMAIN S = DOMAIN seg \cup Ancestors(p) \cup {p} BY <1>4, <1>5, <1>6, TouchIs
<1>9. DOMAIN S \subseteq DOMAIN T BY <1>7, <1>8 DEF TypeInv, SegIn
<1> QED BY <1>3, <1>5, <1>7, <1>8, <1>9, LoggedTypes

\* The inode a create or a copy takes.
LEMMA TakenIs ==
  ASSUME TypeInv, nextIno < MaxIno, nextIno' = nextIno + 1, NEW dir \in BOOLEAN,
         store' = Put(store, nextIno', dir), NEW p \in Paths
  PROVE  /\ nextIno' \in nextIno .. MaxIno /\ StoreOK(store', nextIno') /\ Extends(store', store)
         /\ Staged(nextIno') \in SidesTo(nextIno') \ {Nil, Gone} /\ nextIno' \in DOMAIN store'
         /\ Staged(nextIno') \in Backs /\ nextIno' \in Nat
         /\ ViewOK(Put(view, p, Staged(nextIno')), nextIno')
         /\ \A q \in DOMAIN view : view[q] \in SidesTo(nextIno')
<1>1. Typed(nextIno, cowFloor, store, view, tree, seg, pc, disk) BY TypesAre DEF TypeInv
<1>2. PICK n : n = nextIno' OBVIOUS
<1>3. nextIno \in Nat /\ n \in Nat /\ n = nextIno + 1 /\ nextIno <= n /\ n \in nextIno .. MaxIno
  BY <1>1, <1>2, CommitAssumption DEF Typed
<1>4. DOMAIN store \subseteq 1 .. nextIno BY <1>1 DEF Typed, StoreOK
<1>5. n \notin DOMAIN store /\ n \in 1 .. n /\ 1 .. nextIno \subseteq 1 .. n BY <1>3, <1>4
<1>6. StoreOK(store', n) BY <1>1, <1>2, <1>4, <1>5 DEF Typed, StoreOK, Put
<1>7. Extends(store', store) /\ n \in DOMAIN store' BY <1>2, <1>5 DEF Extends, Put
<1>8. Staged(n) \in SidesTo(n) /\ Staged(n) \in Backs BY <1>3, <1>5 DEF SidesTo, Backs
<1>9. Staged(n) # Nil /\ Staged(n) # Gone BY <1>8, BacksAre
<1>10. SidesTo(nextIno) \subseteq SidesTo(n) BY <1>3, TreesAre
<1>11. \A q \in DOMAIN view : view[q] \in SidesTo(n) \ {Nil, Gone} BY <1>1, <1>10 DEF Typed, ViewOK
<1>12. ViewOK(Put(view, p, Staged(n)), n)
  BY <1>1, <1>8, <1>9, <1>11 DEF Typed, ViewOK, Put
<1> QED BY <1>2, <1>3, <1>6, <1>7, <1>8, <1>9, <1>11, <1>12

LEMMA CreateTypes ==
  ASSUME TypeInv, "glue" \notin Env, NEW p \in Paths, NEW dir \in BOOLEAN, MayWork, Create(p, dir)
  PROVE  TypeInv'
<1>1. /\ MayWork /\ nextIno < MaxIno /\ nextIno' = nextIno + 1 /\ store' = Put(store, nextIno', dir)
      /\ Logged(StageLine(p, nextIno', Gone), Put(view, p, Staged(nextIno')), store')
  BY DEF Create
<1>2. PICK n, line, v : /\ n = nextIno' /\ line = StageLine(p, n, Gone)
                        /\ v = Put(view, p, Staged(n))
  OBVIOUS
<1>3. /\ n \in nextIno .. MaxIno /\ StoreOK(store', n) /\ ViewOK(v, n) /\ Staged(n) \in SidesTo(n)
  BY <1>1, <1>2, TakenIs
<1>4. Gone \in SidesTo(n) BY DEF SidesTo
<1>5. (\A t : Apply(t, line) = Touch(t, p, Gone, Staged(n))) /\ ~WellFormed(SubSeq(line, 1, 2))
  BY <1>2, StageLineIs
<1>6. Logged(line, v, store') BY <1>1, <1>2
<1> QED BY <1>1, <1>2, <1>3, <1>4, <1>5, <1>6, TouchingTypes

LEMMA CopyTypes ==
  ASSUME TypeInv, "glue" \notin Env, NEW p \in Paths, MayWork, Copy(p)
  PROVE  TypeInv'
<1>1. /\ MayWork /\ nextIno < MaxIno /\ nextIno' = nextIno + 1 /\ store' = Put(store, nextIno', FALSE)
      /\ Logged(StageLine(p, nextIno', view[p]), Put(view, p, Staged(nextIno')), store')
      /\ p \in DOMAIN view
  BY DEF Copy
<1>2. PICK n, line, v, pre : /\ n = nextIno' /\ line = StageLine(p, n, pre) /\ pre = view[p]
                             /\ v = Put(view, p, Staged(n))
  OBVIOUS
<1>3. /\ n \in nextIno .. MaxIno /\ StoreOK(store', n) /\ ViewOK(v, n) /\ Staged(n) \in SidesTo(n)
      /\ pre \in SidesTo(n)
  BY <1>1, <1>2, TakenIs
<1>4. (\A t : Apply(t, line) = Touch(t, p, pre, Staged(n))) /\ ~WellFormed(SubSeq(line, 1, 2))
  BY <1>2, StageLineIs
<1>5. Logged(line, v, store') BY <1>1, <1>2
<1>6. PICK s : s = Staged(n) OBVIOUS
<1>7. /\ nextIno' \in nextIno .. MaxIno /\ StoreOK(store', nextIno') /\ ViewOK(v, nextIno')
      /\ s \in SidesTo(nextIno') /\ pre \in SidesTo(nextIno')
  BY <1>2, <1>3, <1>6
<1>8. \A t : Apply(t, line) = Touch(t, p, pre, s) BY <1>4, <1>6
<1> QED BY <1>1, <1>4, <1>5, <1>7, <1>8, TouchingTypes

LEMMA DeleteTypes ==
  ASSUME TypeInv, "glue" \notin Env, NEW p \in Paths, MayWork, DeleteEntry(p)
  PROVE  TypeInv'
<1>1. /\ MayWork /\ p \in DOMAIN view /\ nextIno' = nextIno /\ store' = store
      /\ Logged(DeleteLine(p, view[p]), Without(view, p), store)
  BY DEF DeleteEntry
<1>2. Typed(nextIno, cowFloor, store, view, tree, seg, pc, disk) BY TypesAre DEF TypeInv
<1>3. PICK line, v : line = DeleteLine(p, view[p]) /\ v = Without(view, p) OBVIOUS
<1>4. nextIno' \in nextIno .. MaxIno BY <1>1, <1>2, CommitAssumption DEF Typed
<1>5. ViewOK(v, nextIno) BY <1>2, <1>3 DEF Typed, ViewOK, Without, Restrict
<1>6. view[p] \in SidesTo(nextIno) /\ Gone \in SidesTo(nextIno)
  BY <1>1, <1>2 DEF Typed, ViewOK, SidesTo
<1>7. (\A t : Apply(t, line) = Touch(t, p, view[p], Gone)) /\ ~WellFormed(SubSeq(line, 1, 2))
  BY <1>3, DeleteLineIs
<1>8. Logged(line, v, store) /\ StoreOK(store', nextIno') BY <1>1, <1>2, <1>3 DEF Typed
<1> QED BY <1>1, <1>4, <1>5, <1>6, <1>7, <1>8, TouchingTypes

\* A move leaves the backings of a view and stays within the bounds.
LEMMA MovedView ==
  ASSUME NEW v, NEW n, ViewOK(v, n), NEW src \in DOMAIN v, NEW dst \in Paths, Fitting(v, src, dst),
         NEW w, w = Over(Carried(v, src, dst), Put(Without(Without(v, dst), src), dst, v[src]))
  PROVE  ViewOK(w, n)
<1>1. DOMAIN v \subseteq Paths /\ src \in Paths /\ \A q \in DOMAIN v : v[q] \in SidesTo(n) \ {Nil, Gone}
  BY DEF ViewOK
<1>2. PICK c, rest : c = Carried(v, src, dst) /\ rest = Put(Without(Without(v, dst), src), dst, v[src])
  OBVIOUS
<1>3. DOMAIN c \subseteq Paths BY <1>1, <1>2, CarriedPaths
<1>4. \A q \in DOMAIN c : \E r \in DOMAIN v : c[q] = v[r]
  <2>1. DOMAIN v \subseteq Seq(N) /\ src \in Seq(N) /\ dst \in Seq(N) BY <1>1, FrontPath
  <2>2. \A q \in DOMAIN c : Rebase(q, dst, src) \in DOMAIN v /\ c[q] = v[Rebase(q, dst, src)]
    BY <1>2, <2>1, CarriedIs
  <2> QED BY <2>2
<1>5. /\ DOMAIN rest \subseteq Paths
      /\ \A q \in DOMAIN rest : \E r \in DOMAIN v : rest[q] = v[r]
  BY <1>1, <1>2 DEF Put, Without, Restrict
<1>6. /\ DOMAIN w = DOMAIN c \cup DOMAIN rest
      /\ \A q \in DOMAIN w : w[q] = IF q \in DOMAIN c THEN c[q] ELSE rest[q]
  BY <1>2 DEF Over
<1>7. \A q \in DOMAIN w : \E r \in DOMAIN v : w[q] = v[r] BY <1>4, <1>5, <1>6
<1> QED BY <1>1, <1>3, <1>5, <1>6, <1>7 DEF ViewOK

LEMMA RenameApart == ASSUME NEW p \in Paths PROVE \A q : ~IsPrefix(p, q) => p # q
BY FrontPath, PrefixSelf

LEMMA RenameTypes ==
  ASSUME TypeInv, "glue" \notin Env, NEW src \in Paths, NEW dst \in Paths, MayWork, Rename(src, dst)
  PROVE  TypeInv'
<1>1. PICK dstPre, rest, v, line :
        /\ dstPre = IF dst \in DOMAIN view THEN view[dst] ELSE Gone
        /\ rest = Put(Without(Without(view, dst), src), dst, view[src])
        /\ v = Over(Carried(view, src, dst), rest)
        /\ line = RenameLine(dst, src, view[src], dstPre)
  OBVIOUS
<1>2. /\ MayWork /\ src # dst /\ src \in DOMAIN view /\ ~IsPrefix(src, dst) /\ Fits(src, dst)
      /\ Logged(line, v, store) /\ store' = store /\ nextIno' = nextIno
  BY <1>1, RenameApart DEF Rename
<1>3. Typed(nextIno, cowFloor, store, view, tree, seg, pc, disk) BY TypesAre DEF TypeInv
<1>4. PICK n, pre : n = nextIno /\ pre = view[src] OBVIOUS
<1>5. n \in Nat /\ n \in nextIno .. MaxIno BY <1>3, <1>4, CommitAssumption DEF Typed
<1>6. /\ TreeTo(tree, n) /\ TreeTo(seg, n) /\ DOMAIN view \subseteq Paths /\ pre \in SidesTo(n)
      /\ dstPre \in SidesTo(n)
      /\ \A q \in DOMAIN view : view[q] \in SidesTo(n) \ {Nil, Gone}
  BY <1>1, <1>2, <1>3, <1>4 DEF Typed, ViewOK, SidesTo
<1>7. Fitting(view, src, dst) /\ Fitting(tree, src, dst) BY <1>2 DEF Fits, Fitting
<1>8. Fitting(seg, src, dst) BY <1>7 DEF TypeInv, SegIn, Fitting, BelowIn
<1>9. (\A t : Apply(t, line) = ApplyRename(t, dst, src, pre, dstPre))
      /\ ~WellFormed(SubSeq(line, 1, 2))
  BY <1>1, <1>2, <1>4, RenameLineIs
<1>10. PICK T, S : /\ T = ApplyRename(tree, dst, src, pre, dstPre)
                   /\ S = ApplyRename(seg, dst, src, pre, dstPre)
  OBVIOUS
<1>11. TreeTo(T, n) BY <1>2, <1>6, <1>7, <1>10, RenameTree
<1>12. TreeTo(S, n) BY <1>2, <1>6, <1>8, <1>10, RenameTree
<1>13. DOMAIN S \subseteq DOMAIN T
  <2>1. DOMAIN seg \subseteq DOMAIN tree BY DEF TypeInv, SegIn
  <2> QED BY <1>2, <1>6, <1>10, <2>1, RenameWithin
<1>14. ViewOK(v, n)
  <2>1. PICK w : w = view OBVIOUS
  <2>2. ViewOK(w, n) /\ src \in DOMAIN w /\ Fitting(w, src, dst) BY <1>2, <1>3, <1>4, <1>7, <2>1 DEF Typed
  <2>3. v = Over(Carried(w, src, dst), Put(Without(Without(w, dst), src), dst, w[src])) BY <1>1, <2>1
  <2> QED BY <2>2, <2>3, MovedView
<1>15. Apply(tree, line) = T /\ Apply(seg, line) = S BY <1>9, <1>10
<1>16. StoreOK(store', n) /\ nextIno' = n BY <1>2, <1>3, <1>4 DEF Typed
<1> QED BY <1>2, <1>5, <1>9, <1>11, <1>12, <1>13, <1>14, <1>15, <1>16, LoggedTypes

LEMMA BareTypes ==
  ASSUME NEW d, NEW v, v = Restored(Empty, d), NEW n
  PROVE  ViewOK(v, n)
<1>1. IsView(v) /\ \A p \in DOMAIN v : v[p] # Gone BY RestoredFollows
<1>2. \A p \in DOMAIN v : v[p] = Base(p) BY BareView
<1>3. \A p \in Paths : Base(p) \in SidesTo(n) /\ Base(p) \in Backs BY DEF SidesTo, Backs
<1>4. \A p \in Paths : Base(p) # Nil /\ Base(p) # Gone BY <1>3, BacksAre
<1> QED BY <1>1, <1>2, <1>3, <1>4 DEF ViewOK, IsView

LEMMA EmptyTree == \A n : TreeTo(Empty, n) /\ DOMAIN Empty = {}
<1>1. DOMAIN Empty = {} BY DEF Empty
<1> QED BY <1>1 DEF TreeTo

LEMMA ReadTreeIs == ASSUME Torn PROVE ReadTree = tree
BY DEF Torn, ReadTree, Apply

LEMMA LeaveTypes ==
  ASSUME TypeInv, LeaveView, disk' = disk, store' = store, nextIno' = nextIno, pc' \in PCs,
         todo' \in Seq(Ops), torn' = torn \/ torn' = << >>, tree' = tree \/ tree' = Empty
  PROVE  TypeInv'
<1>1. Typed(nextIno, cowFloor, store, view, tree, seg, pc, disk) BY TypesAre DEF TypeInv
<1>2. view' = Restored(Empty, disk) /\ seg' = Empty /\ cowFloor' = 0 BY DEF LeaveView
<1>3. ViewOK(view', nextIno') BY <1>2, BareTypes
<1>4. cowFloor' \in 0 .. nextIno' BY <1>1, <1>2, CommitAssumption DEF Typed
<1>5. TreeTo(tree', nextIno') /\ TreeTo(seg', nextIno') BY <1>1, <1>2, EmptyTree DEF Typed
<1>6. Typed(nextIno', cowFloor', store', view', tree', seg', pc', disk')
  BY <1>1, <1>3, <1>4, <1>5 DEF Typed
<1>7. ~WellFormed(torn') BY DEF TypeInv, Torn, WellFormed
<1>8. DOMAIN seg' \subseteq DOMAIN tree' BY <1>2, EmptyTree
<1> QED BY <1>6, <1>7, <1>8, TypesNext DEF TypeInv, Planned, Torn, SegIn

\* A step of the CLI that leaves the view and the journal.
LEMMA KeptTypes ==
  ASSUME TypeInv, DiskOK(disk'), DOMAIN store' \subseteq DOMAIN store,
         \A i \in DOMAIN store' : store'[i] = store[i], nextIno' = nextIno,
         cowFloor' \in 0 .. nextIno, view' = view, tree' = tree, torn' = torn,
         seg' = seg \/ seg' = Empty, pc' \in PCs, todo' \in Seq(Ops)
  PROVE  TypeInv'
<1>1. Typed(nextIno, cowFloor, store, view, tree, seg, pc, disk) BY TypesAre DEF TypeInv
<1>2. StoreOK(store', nextIno') BY <1>1 DEF Typed, StoreOK
<1>3. TreeTo(seg', nextIno') BY <1>1, EmptyTree DEF Typed
<1>4. Typed(nextIno', cowFloor', store', view', tree', seg', pc', disk')
  BY <1>1, <1>2, <1>3 DEF Typed
<1>5. DOMAIN seg' \subseteq DOMAIN tree' BY EmptyTree DEF TypeInv, SegIn
<1> QED BY <1>4, <1>5, TypesNext DEF TypeInv, Planned, Torn, SegIn

LEMMA InitTypes == Init => TypeInv
<1> SUFFICES ASSUME Init PROVE TypeInv OBVIOUS
<1>1. PICK base \in Bases : disk = DiskOf(base) BY DEF Init
<1>2. /\ DOMAIN base \subseteq Paths
      /\ \A p \in DOMAIN base : Len(p) = 1 \/ (Front(p) \in DOMAIN base /\ base[Front(p)])
  BY CommitAssumption
<1>3. DiskOK(disk)
  <2>1. /\ DOMAIN disk = DOMAIN base \cup {Scratch}
        /\ \A p \in DOMAIN base : p # Scratch => disk[p] = Entry(base[p], Base(p))
        /\ disk[Scratch] = Entry(TRUE, Gone)
    BY <1>1 DEF DiskOf, Put
  <2>2. ASSUME NEW p \in DOMAIN base PROVE OnDisk(p) /\ HasParent(disk, p)
    <3>1. p \in Paths BY <1>2
    <3>2. OnDisk(p) BY <3>1, PathOnDisk, OnDiskIs
    <3>3. CASE Len(p) = 1 BY <3>2, <3>3 DEF HasParent
    <3>4. CASE Len(p) # 1
      <4>1. Front(p) \in DOMAIN base /\ base[Front(p)] BY <1>2, <3>4
      <4>2. disk[Front(p)].dir BY <2>1, <4>1 DEF Entry
      <4> QED BY <2>1, <3>2, <4>1, <4>2 DEF HasParent
    <3> QED BY <3>3, <3>4
  <2>3. OnDisk(Scratch) /\ HasParent(disk, Scratch)
    <3>1. Len(Scratch) = 1 BY DEF Scratch
    <3> QED BY <3>1 DEF OnDisk, Anywhere, HasParent
  <2> QED BY <2>1, <2>2, <2>3, DiskIs
<1>4. /\ store = Empty /\ view = Restored(Empty, disk) /\ tree = Empty /\ seg = Empty
      /\ torn = << >> /\ nextIno = 0 /\ cowFloor = 0 /\ pc = "live" /\ todo = << >>
  BY DEF Init
<1>5. StoreOK(store, nextIno) BY <1>4, EmptyTree DEF StoreOK
<1>6. ViewOK(view, nextIno) BY <1>4, BareTypes
<1>7. nextIno \in 0 .. MaxIno /\ cowFloor \in 0 .. nextIno /\ pc \in PCs
  BY <1>4, CommitAssumption DEF PCs
<1>8. TypeOK BY <1>3, <1>4, <1>5, <1>6, <1>7, EmptyTree, TypesAre DEF Typed
<1>9. << >> \in Seq(Ops) BY EmptySeq
<1> QED BY <1>4, <1>8, <1>9, EmptyTree DEF TypeInv, Planned, Torn, SegIn, WellFormed

LEMMA WorkTypes ==
  ASSUME TypeInv, "glue" \notin Env, Work
  PROVE  TypeInv'
<1>1. ASSUME NEW p \in Paths, MayWork, Create(p, TRUE) \/ Create(p, FALSE) PROVE TypeInv'
  <2>1. TRUE \in BOOLEAN /\ FALSE \in BOOLEAN OBVIOUS
  <2> QED BY <1>1, <2>1, CreateTypes
<1> QED BY <1>1, CopyTypes, DeleteTypes, RenameTypes DEF Work

\* The types and what they rest on hold through every step.
LEMMA StepTypes ==
  ASSUME TypeInv, "glue" \notin Env, [Next]_vars
  PROVE  TypeInv'
<1>1. Typed(nextIno, cowFloor, store, view, tree, seg, pc, disk) BY TypesAre DEF TypeInv
<1>2. DiskOK(disk) /\ cowFloor \in 0 .. nextIno /\ nextIno \in 0 .. nextIno /\ pc \in PCs
  BY <1>1, CommitAssumption DEF Typed
<1>3. << >> \in Seq(Ops) /\ todo \in Seq(Ops) BY EmptySeq DEF TypeInv, Planned
<1>4. CASE Work BY <1>4, WorkTypes
<1>5. CASE Snapshot BY <1>2, <1>3, <1>5, KeptTypes DEF Snapshot, cli
<1>6. CASE CommitRead
  <2>1. IntoPlan(ReadTree) \in Seq(Ops)
    <3>1. IsTree(tree) /\ nextIno \in Nat BY <1>1, TreesAre, CommitAssumption DEF Typed
    <3> QED BY <3>1, PlanOps, ReadTreeIs DEF TypeInv
  <2>2. pc' \in PCs BY <1>6 DEF CommitRead, PCs
  <2> QED BY <1>2, <1>6, <2>1, <2>2, KeptTypes DEF CommitRead, journal
<1>7. CASE CommitRestore
  <2>1. /\ disk' = disk /\ store' = store /\ tree' = tree /\ torn' = torn /\ nextIno' = nextIno
        /\ pc' \in PCs /\ todo' \in Seq(Ops)
    BY <1>3, <1>7 DEF CommitRestore, PCs
  <2>2. LeaveView \/ (view' = view /\ seg' = seg /\ cowFloor' = cowFloor) BY <1>7 DEF CommitRestore
  <2> QED BY <1>2, <2>1, <2>2, LeaveTypes, KeptTypes
<1>8. CASE ApplyOp
  <2>1. Sound(disk', store', todo', pc') BY <1>2, <1>8, ApplyOpOK DEF TypeInv
  <2>2. /\ nextIno' = nextIno /\ cowFloor' = cowFloor /\ view' = view
        /\ tree' = tree /\ torn' = torn /\ seg' = seg
    BY <1>8 DEF ApplyOp, journal
  <2>3. pc' \in PCs BY <2>1 DEF Sound, PCs
  <2> QED BY <1>2, <2>1, <2>2, <2>3, KeptTypes DEF Sound
<1>9. CASE Interrupt
  <2>1. pc' \in PCs BY <1>9 DEF Interrupt, PCs
  <2> QED BY <1>2, <1>3, <1>9, <2>1, KeptTypes DEF Interrupt, journal
<1>10. CASE CommitDone
  <2>1. pc' \in PCs BY <1>10 DEF CommitDone, PCs
  <2> QED BY <1>2, <1>3, <1>10, <2>1, KeptTypes DEF CommitDone, journal
<1>11. CASE ClearStore
  <2>1. pc' \in PCs /\ store' = Empty BY <1>11 DEF ClearStore, PCs
  <2>2. DOMAIN store' \subseteq DOMAIN store /\ \A i \in DOMAIN store' : store'[i] = store[i]
    BY <2>1, EmptyTree
  <2> QED BY <1>2, <1>3, <1>11, <2>1, <2>2, KeptTypes DEF ClearStore, journal
<1>12. CASE Truncate
  <2>1. pc' \in PCs BY <1>12 DEF Truncate, PCs
  <2> QED BY <1>3, <1>12, <2>1, LeaveTypes DEF Truncate
<1>13. CASE Abort
  <2>1. pc' \in PCs BY <1>13 DEF Abort, PCs
  <2> QED BY <1>3, <1>13, <2>1, LeaveTypes DEF Abort
<1>14. CASE UNCHANGED vars BY <1>2, <1>3, <1>14, KeptTypes DEF vars, journal, cli
<1> QED BY <1>4, <1>5, <1>6, <1>7, <1>8, <1>9, <1>10, <1>11, <1>12, <1>13, <1>14 DEF Next

-----------------------------------------------------------------------------
(* The view stays the replay of the journal.                               *)

LEMMA BareShows ==
  ASSUME NEW d, DiskOK(d), NEW v, v = Restored(Empty, d), NEW st
  PROVE  Shows(v, Empty, d, st)
<1>1. IsView(v) /\ Follows(v, Empty, d) BY RestoredFollows
<1>2. \A p \in DOMAIN v : /\ v[p] = Base(p) /\ p \in DOMAIN d
                          /\ Len(p) = 1 \/ Front(p) \in DOMAIN v
  BY BareView
<1>3. \A p \in DOMAIN v : v[p].kind = "base" /\ v[p].path = p BY <1>2, Backings
<1>4. \A p \in DOMAIN v : v[p] \in Backs BY <1>1, <1>2 DEF Backs, IsView
<1>5. Backed(v, d, st) BY <1>2, <1>3 DEF Backed
<1>6. ASSUME NEW p \in DOMAIN v PROVE DirIn(v, d, st, Front(p))
  <2>1. Len(p) = 1 <=> Front(p) = << >> BY <1>1, FrontPath DEF IsView
  <2>2. CASE Len(p) = 1 BY <2>1, <2>2 DEF DirIn
  <2>3. CASE Len(p) # 1
    <3>1. Front(p) \in DOMAIN v BY <1>2, <2>3
    <3>2. d[Front(p)].dir BY <1>2, <2>3 DEF DiskOK, DirsOver, HasParent
    <3> QED BY <1>3, <3>1, <3>2 DEF DirIn
  <2> QED BY <2>2, <2>3
<1>7. Dormant(v, Empty) BY EmptyTree DEF Dormant, InPlan, Net
<1> QED BY <1>1, <1>4, <1>5, <1>6, <1>7 DEF Shows, Tidy

LEMMA IsDirIs == \A p : IsDir(p) <=> DirIn(view, disk, store, p)
BY DEF IsDir, DirIn, EntryOf, Entry

LEMMA StillIs == \A p : ~Wakes(p) <=> Still(tree, p)
BY DEF Wakes, Still

\* One path is given a backing, or is deleted with what is below it.
LEMMA TouchingLive ==
  ASSUME TypeInv, Live, "glue" \notin Env, MayWork, NEW line, NEW v, NEW st, Logged(line, v, st),
         nextIno' \in nextIno .. MaxIno, Extends(store', store),
         NEW p \in Paths, NEW pre \in SidesTo(nextIno'), NEW s \in SidesTo(nextIno'),
         \A t : Apply(t, line) = Touch(t, p, pre, s), IsDir(Front(p)),
         s # Gone => Still(tree, p), Given(v, view, p, s),
         s = Gone \/ (s \in Backs /\ s.kind = "staged" /\ s.ino \in DOMAIN store')
  PROVE  Live'
<1>1. Typed(nextIno, cowFloor, store, view, tree, seg, pc, disk) BY TypesAre DEF TypeInv
<1>2. PICK n, w, t, d, r : n = nextIno' /\ w = view /\ t = tree /\ d = disk /\ r = store' OBVIOUS
<1>3. nextIno \in Nat /\ n \in Nat /\ nextIno <= n BY <1>1, <1>2, CommitAssumption DEF Typed
<1>4. TreeTo(t, n) BY <1>1, <1>2, <1>3, TreesAre DEF Typed
<1>5. Shows(view, tree, disk, store) BY DEF Live, MayWork
<1>6. Shows(w, t, d, r) BY <1>2, <1>5, ExtendsShows
<1>7. DirIn(w, d, r, Front(p))
  <2>1. DirIn(view, disk, store, Front(p)) BY IsDirIs
  <2> QED BY <1>2, <1>5, <2>1 DEF DirIn, Shows, Backed, Extends
<1>8. Given(v, w, p, s) /\ pre \in SidesTo(n) /\ s \in SidesTo(n) BY <1>2
<1>9. s # Gone => Still(t, p) BY <1>2
<1>10. s = Gone \/ (s \in Backs /\ s.kind = "staged" /\ s.ino \in DOMAIN r) BY <1>2
<1>11. Shows(v, Touch(t, p, pre, s), d, r)
  BY <1>4, <1>6, <1>7, <1>8, <1>9, <1>10, TouchedShows
<1>12. Shows(v, Apply(tree, line), disk, store') BY <1>2, <1>11
<1> QED BY <1>12, LoggedLive

LEMMA PutGiven ==
  ASSUME NEW v, NEW p, NEW s, s # Gone, \A q \in DOMAIN v : ~IsStrictPrefix(p, q)
  PROVE  Given(Put(v, p, s), v, p, s)
BY DEF Given, Put, IsStrictPrefix

LEMMA WithoutGiven ==
  ASSUME NEW v, NEW p \in Paths
  PROVE  Given(Without(v, p), v, p, Gone)
<1>1. IsPrefix(p, p) BY FrontPath, PrefixSelf
<1> QED BY <1>1 DEF Given, Without, Restrict

\* Below what is created, and below a file, nothing is visible.
LEMMA CreateBare ==
  ASSUME Live, MayWork, NEW p \in Paths, p \notin DOMAIN view \/ ~IsDir(p)
  PROVE  \A q \in DOMAIN view : ~IsStrictPrefix(p, q)
<1>1. SUFFICES ASSUME NEW q \in DOMAIN view, IsStrictPrefix(p, q) PROVE FALSE OBVIOUS
<1>2. IsView(view) /\ Tidy(view, disk, store) BY DEF Live, MayWork, Shows
<1>3. p \in DOMAIN view /\ DirIn(view, disk, store, p) BY <1>1, <1>2, AllAbove
<1> QED BY <1>3, IsDirIs

LEMMA CreateLive ==
  ASSUME TypeInv, Live, {"glue", "revive"} \cap Env = {}, NEW p \in Paths, NEW dir \in BOOLEAN, MayWork, Create(p, dir)
  PROVE  Live'
<1>1. /\ MayWork /\ nextIno < MaxIno /\ nextIno' = nextIno + 1 /\ store' = Put(store, nextIno', dir)
      /\ Logged(StageLine(p, nextIno', Gone), Put(view, p, Staged(nextIno')), store')
      /\ p \notin DOMAIN view /\ IsDir(Front(p)) /\ ~Wakes(p)
  BY DEF Create
<1>2. PICK n, line, v, s : /\ n = nextIno' /\ line = StageLine(p, n, Gone) /\ s = Staged(n)
                           /\ v = Put(view, p, s)
  OBVIOUS
<1>3. /\ nextIno' \in nextIno .. MaxIno /\ Extends(store', store) /\ s \in SidesTo(nextIno')
      /\ n \in DOMAIN store' /\ s \in Backs
  BY <1>1, <1>2, TakenIs
<1>4. Gone \in SidesTo(nextIno') BY DEF SidesTo
<1>5. \A t : Apply(t, line) = Touch(t, p, Gone, s) BY <1>2, StageLineIs
<1>6. Logged(line, v, store') BY <1>1, <1>2
<1>7. s # Gone /\ s.kind = "staged" /\ s.ino = n BY <1>2, Backings
<1>8. Given(v, view, p, s) BY <1>1, <1>2, <1>7, CreateBare, PutGiven
<1>9. Still(tree, p) /\ "glue" \notin Env BY <1>1, StillIs
<1> QED BY <1>1, <1>3, <1>4, <1>5, <1>6, <1>7, <1>8, <1>9, TouchingLive

\* Below a file the tree has nothing but what is below tombstones.
LEMMA CopyStill ==
  ASSUME TypeInv, Live, MayWork, NEW p \in Paths, p \in DOMAIN view, ~IsDir(p)
  PROVE  Still(tree, p)
<1>1. Shows(view, tree, disk, store) BY DEF Live, MayWork
<1>2. SUFFICES ASSUME NEW q \in BelowIn(tree, p), Present(tree[q].new),
                      \A a \in Ancestors(q) : IsStrictPrefix(p, a) => At(tree, a).new # Gone
               PROVE  FALSE
  BY DEF Still
<1>3. q \in DOMAIN tree /\ IsStrictPrefix(p, q) /\ tree[q].new # Nil /\ tree[q].new # Gone
  BY <1>2 DEF BelowIn, Present
<1>4. q \in Seq(N) /\ p \in Seq(N)
  BY <1>3, TypesAre, FrontPath DEF TypeInv, Typed, TreeTo
<1>5. ASSUME NEW a \in Ancestors(q) PROVE At(tree, a).new # Gone
  <2>1. a \in Seq(N) /\ a # << >> /\ IsPrefix(a, q) BY <1>4, AncestorsAre DEF IsStrictPrefix
  <2>2. CASE a = p BY <1>1, <2>2, NoneGone
  <2>3. CASE a # p /\ IsPrefix(p, a) BY <1>2, <2>3 DEF IsStrictPrefix
  <2>4. CASE a # p /\ IsPrefix(a, p)
    <3>1. a \in Ancestors(p) BY <1>4, <2>1, <2>4, AncestorsAre DEF IsStrictPrefix
    <3> QED BY <1>1, <3>1, NoneGone
  <2> QED BY <1>3, <1>4, <2>1, <2>2, <2>3, <2>4, PrefixEither DEF IsStrictPrefix
<1>6. q \in DOMAIN view BY <1>1, <1>3, <1>5 DEF InPlan, Net, Shows, Dormant
<1> QED BY <1>3, <1>6, CreateBare

LEMMA CopyLive ==
  ASSUME TypeInv, Live, "glue" \notin Env, NEW p \in Paths, MayWork, Copy(p)
  PROVE  Live'
<1>1. /\ MayWork /\ nextIno < MaxIno /\ nextIno' = nextIno + 1 /\ store' = Put(store, nextIno', FALSE)
      /\ Logged(StageLine(p, nextIno', view[p]), Put(view, p, Staged(nextIno')), store')
      /\ p \in DOMAIN view /\ ~IsDir(p)
  BY DEF Copy
<1>2. PICK n, line, v, s, pre : /\ n = nextIno' /\ line = StageLine(p, n, pre) /\ s = Staged(n)
                                /\ v = Put(view, p, s) /\ pre = view[p]
  OBVIOUS
<1>3. /\ nextIno' \in nextIno .. MaxIno /\ Extends(store', store) /\ s \in SidesTo(nextIno')
      /\ n \in DOMAIN store' /\ s \in Backs /\ pre \in SidesTo(nextIno')
  BY <1>1, <1>2, TakenIs
<1>4. \A t : Apply(t, line) = Touch(t, p, pre, s) BY <1>2, StageLineIs
<1>5. Logged(line, v, store') BY <1>1, <1>2
<1>6. s # Gone /\ s.kind = "staged" /\ s.ino = n BY <1>2, Backings
<1>7. Given(v, view, p, s) BY <1>1, <1>2, <1>6, CreateBare, PutGiven
<1>8. IsView(view) /\ Tidy(view, disk, store) BY <1>1 DEF Live, MayWork, Shows
<1>9. Still(tree, p) BY <1>1, CopyStill
<1>10. IsDir(Front(p)) BY <1>1, <1>8, IsDirIs DEF Tidy
<1> QED BY <1>1, <1>3, <1>4, <1>5, <1>6, <1>7, <1>9, <1>10, TouchingLive

LEMMA DeleteLive ==
  ASSUME TypeInv, Live, "glue" \notin Env, NEW p \in Paths, MayWork, DeleteEntry(p)
  PROVE  Live'
<1>1. /\ MayWork /\ p \in DOMAIN view /\ nextIno' = nextIno /\ store' = store
      /\ Logged(DeleteLine(p, view[p]), Without(view, p), store)
  BY DEF DeleteEntry
<1>2. Typed(nextIno, cowFloor, store, view, tree, seg, pc, disk) BY TypesAre DEF TypeInv
<1>3. PICK line, v, pre : line = DeleteLine(p, pre) /\ v = Without(view, p) /\ pre = view[p] OBVIOUS
<1>4. nextIno' \in nextIno .. MaxIno BY <1>1, <1>2, CommitAssumption DEF Typed
<1>5. pre \in SidesTo(nextIno') /\ Gone \in SidesTo(nextIno')
  BY <1>1, <1>2, <1>3 DEF Typed, ViewOK, SidesTo
<1>6. \A t : Apply(t, line) = Touch(t, p, pre, Gone) BY <1>3, DeleteLineIs
<1>7. Logged(line, v, store) /\ Extends(store', store) BY <1>1, <1>3 DEF Extends
<1>8. Given(v, view, p, Gone) BY <1>3, WithoutGiven
<1>9. IsDir(Front(p))
  <2>1. Tidy(view, disk, store) BY <1>1 DEF Live, MayWork, Shows
  <2> QED BY <1>1, <2>1, IsDirIs DEF Tidy
<1> QED BY <1>1, <1>4, <1>5, <1>6, <1>7, <1>8, <1>9, TouchingLive

LEMMA RenameLive ==
  ASSUME TypeInv, Live, {"glue", "home"} \cap Env = {},
         NEW src \in Paths, NEW dst \in Paths, MayWork, Rename(src, dst)
  PROVE  Live'
<1>1. PICK dstPre, rest, v, line :
        /\ dstPre = IF dst \in DOMAIN view THEN view[dst] ELSE Gone
        /\ rest = Put(Without(Without(view, dst), src), dst, view[src])
        /\ v = Over(Carried(view, src, dst), rest)
        /\ line = RenameLine(dst, src, view[src], dstPre)
  OBVIOUS
<1>2. /\ MayWork /\ src \in DOMAIN view /\ ~IsPrefix(src, dst) /\ ~IsPrefix(dst, src) /\ Fits(src, dst)
      /\ Logged(line, v, store) /\ store' = store /\ IsDir(Front(dst)) /\ ~Home(src, dst)
      /\ src # dst
  BY <1>1, RenameApart DEF Rename
<1>3. Typed(nextIno, cowFloor, store, view, tree, seg, pc, disk) BY TypesAre DEF TypeInv
<1>4. Shows(view, tree, disk, store) BY <1>2 DEF Live, MayWork
<1>5. PICK n, w, t, d, st, pre :
        n = nextIno /\ w = view /\ t = tree /\ d = disk /\ st = store /\ pre = w[src]
  OBVIOUS
<1>6. TreeTo(t, n) /\ pre \in SidesTo(n) /\ dstPre \in SidesTo(n) /\ DOMAIN t \subseteq Paths
  BY <1>1, <1>2, <1>3, <1>5 DEF Typed, ViewOK, SidesTo, TreeTo
<1>7. Shows(w, t, d, st) /\ src \in DOMAIN w BY <1>2, <1>4, <1>5
<1>8. Movable(w, d, st, src, dst)
  <2>1. ~IsPrefix(dst, src) BY <1>2
  <2>2. DirIn(w, d, st, Front(dst)) BY <1>2, <1>5, IsDirIs
  <2>3. \A q \in {src} \cup BelowIn(w, src) :
          Len(q) = Depth /\ w[q].kind = "base" => BelowIn(d, w[q].path) = {}
    BY <1>2, <1>5 DEF Fits
  <2>4. w[src] = Base(dst) => Len(dst) = 1 \/ w[Front(dst)] = Base(Front(dst))
    <3>1. Len(dst) \in Nat \ {0} BY FrontPath
    <3>2. PICK k \in Nat \ {0} : k = Len(dst) BY <3>1
    <3>3. k = 1 \/ k > 1 BY <3>2
    <3> QED BY <1>2, <1>5, <3>2, <3>3 DEF Home
  <2> QED BY <1>2, <1>7, <2>1, <2>2, <2>3, <2>4 DEF Movable
<1>9. Fitting(w, src, dst) /\ Fitting(t, src, dst) BY <1>2, <1>5 DEF Fits, Fitting
<1>10. Shifted(v, w, src, dst)
  <2>1. IsView(w) BY <1>7 DEF Shows
  <2>2. v = Over(Carried(w, src, dst), Put(Without(Without(w, dst), src), dst, w[src]))
    BY <1>1, <1>5
  <2> QED BY <1>7, <1>9, <2>1, <2>2, ShiftedIs
<1>11. PICK u : u = ApplyRename(t, dst, src, pre, dstPre) OBVIOUS
<1>12. NewShifted(u, t, src, dst, w[src])
  <2>1. ~IsPrefix(dst, src) BY <1>8 DEF Movable
  <2> QED BY <1>2, <1>5, <1>6, <1>11, <2>1, NewShiftedIs
<1>13. DOMAIN u \subseteq Paths
  <2>1. TreeTo(u, n) BY <1>2, <1>6, <1>9, <1>11, RenameTree
  <2> QED BY <2>1 DEF TreeTo
<1>14. Shows(v, u, d, st) BY <1>6, <1>7, <1>8, <1>10, <1>12, <1>13, ShiftedShows
<1>15. Apply(tree, line) = u BY <1>1, <1>2, <1>5, <1>11, RenameLineIs
<1>16. Shows(v, Apply(tree, line), disk, store') BY <1>2, <1>5, <1>14, <1>15
<1>17. Extends(store', store) BY <1>2 DEF Extends
<1> QED BY <1>2, <1>16, <1>17, LoggedLive

\* While the commands are at rest the view is the replay of the journal.
LEMMA StepLive ==
  ASSUME TypeInv, Live, {"glue", "home", "revive"} \cap Env = {}, [Next]_vars
  PROVE  Live'
<1>1. Typed(nextIno, cowFloor, store, view, tree, seg, pc, disk) BY TypesAre DEF TypeInv
<1>2. ASSUME NEW p \in Paths, MayWork, Create(p, TRUE) \/ Create(p, FALSE) PROVE Live'
  <2>1. TRUE \in BOOLEAN /\ FALSE \in BOOLEAN OBVIOUS
  <2> QED BY <1>2, <2>1, CreateLive
<1>3. CASE Work BY <1>2, <1>3, CopyLive, DeleteLive, RenameLive DEF Work
<1>4. CASE \/ UNCHANGED <<disk, store, view, tree>> /\ (pc' \in {"live", "read"} => pc \in {"live", "read"})
  BY <1>4 DEF Live
<1>5. CASE Snapshot BY <1>4, <1>5 DEF Snapshot, cli
<1>6. CASE CommitRead BY <1>4, <1>6 DEF CommitRead, journal
<1>7. CASE CommitRestore
  <2>1. pc' = "apply" \/ (pc' = (IF pc = "read" THEN "live" ELSE "failed") /\ view' = view)
    BY <1>7 DEF CommitRestore
  <2>2. CASE pc' = "apply" BY <2>2 DEF Live
  <2>3. CASE pc' = (IF pc = "read" THEN "live" ELSE "failed") /\ view' = view
    BY <1>4, <1>7, <2>3 DEF CommitRestore
  <2> QED BY <2>1, <2>2, <2>3
<1>8. CASE ApplyOp
  <2>1. DiskOK(disk) BY <1>1 DEF Typed
  <2>2. pc' \in {"apply", "stuck"} BY <1>8, <2>1, ApplyOpOK DEF TypeInv, Sound
  <2> QED BY <2>2 DEF Live
<1>9. CASE Interrupt BY <1>9 DEF Interrupt, Live
<1>10. CASE CommitDone BY <1>10 DEF CommitDone, Live
<1>11. CASE ClearStore BY <1>11 DEF ClearStore, Live
<1>12. CASE Truncate
  <2>1. view' = Restored(Empty, disk) /\ tree' = Empty /\ disk' = disk
    BY <1>12 DEF Truncate, LeaveView
  <2>2. DiskOK(disk) BY <1>1 DEF Typed
  <2>3. Shows(view', Empty, disk, store') BY <2>1, <2>2, BareShows
  <2> QED BY <2>1, <2>3 DEF Live
<1>13. CASE Abort BY <1>13 DEF Abort, Live
<1>14. CASE UNCHANGED vars BY <1>4, <1>14 DEF vars, journal, cli
<1> QED BY <1>3, <1>5, <1>6, <1>7, <1>8, <1>9, <1>10, <1>11, <1>12, <1>13, <1>14 DEF Next

LEMMA InitLive == Init => Live
<1> SUFFICES ASSUME Init PROVE Live OBVIOUS
<1>1. DiskOK(disk) BY InitTypes, TypesAre DEF TypeInv, Typed
<1>2. view = Restored(Empty, disk) /\ tree = Empty BY DEF Init
<1> QED BY <1>1, <1>2, BareShows DEF Live

-----------------------------------------------------------------------------
(* What a segment tells of the difference to its start.                    *)

\* Where s had p's name, in the directory that p is in in v.
WasIn(v, s, p) ==
  IF Len(p) = 1 THEN {p} ELSE {Append(o, Last(p)) : o \in {q \in DOMAIN s : s[q] = ViewAt(v, Front(p))}}

\* A node tells what is there now, if its directory is, and, if it has a net
\* state, what was there at the start; a path without one shows what it showed
\* at the start, wherever its directory was then.
Held(v, p) == Len(p) = 1 \/ ViewAt(v, Front(p)) # Gone
Told(v, s, g, p) ==
  /\ At(g, p).old = Nil <=> At(g, p).new = Nil
  /\ At(g, p).new # Nil /\ Held(v, p) => ViewAt(v, p) = At(g, p).new
  /\ At(g, p).new # Nil => \A h \in WasIn(v, s, p) : h \in DOMAIN s => At(g, p).old = s[h]
  /\ At(g, p).new = Nil => \A h \in WasIn(v, s, p) : ViewAt(v, p) = ViewAt(s, h)
  /\ At(g, p).new = Nil /\ WasIn(v, s, p) = {} => ViewAt(v, p) = Gone

Everywhere  == Seq(N) \ {<< >>}
Once(v)     == \A p, q \in DOMAIN v : v[p] = v[q] => p = q
Grounded(s) == \A p \in DOMAIN s : Len(p) = 1 \/ Front(p) \in DOMAIN s

Since(v, s, g) == Once(v) /\ Once(s) /\ Grounded(s) /\ \A p \in Everywhere : Told(v, s, g, p)

\* What the segment says is now, the whole journal says.
SegSays(g, t) == \A p \in Paths : At(g, p).new # Nil => At(t, p).new = At(g, p).new

\* While a review can be asked for.
Reviewed == pc \in {"live", "read"} => Since(view, start, seg) /\ ViewOK(start, nextIno) /\ SegSays(seg, tree)

LEMMA WasSame ==
  ASSUME NEW v, NEW w, NEW s, NEW q, NEW r, Last(q) = Last(r),
         (Len(q) = 1 /\ r = q) \/ (Len(q) # 1 /\ Len(r) # 1 /\ ViewAt(w, Front(q)) = ViewAt(v, Front(r)))
  PROVE  WasIn(w, s, q) = WasIn(v, s, r) /\ (Held(w, q) <=> Held(v, r))
BY DEF WasIn, Held

LEMMA ToldMoves ==
  ASSUME NEW v, NEW w, NEW s, NEW g, NEW u, NEW q, NEW r, Told(v, s, g, r),
         At(u, q) = At(g, r), ViewAt(w, q) = ViewAt(v, r), WasIn(w, s, q) = WasIn(v, s, r),
         Held(w, q) <=> Held(v, r)
  PROVE  Told(w, s, u, q)
BY DEF Told

\* A path below one that is gone, or that the start did not show.
LEMMA ToldBelow ==
  ASSUME NEW v, NEW w, NEW s, NEW g, NEW u, NEW q, Told(v, s, g, q), At(u, q) = At(g, q),
         ViewAt(w, q) = Gone, WasIn(w, s, q) = {}, Held(w, q) => ~Present(At(g, q).new)
  PROVE  Told(w, s, u, q)
BY DEF Told, Present

\* The places of a path in a view that is its own start.
LEMMA WasHere ==
  ASSUME NEW v, NEW n, ViewOK(v, n), Once(v), Grounded(v), NEW p \in Everywhere
  PROVE  /\ \A h \in WasIn(v, v, p) : h = p
         /\ WasIn(v, v, p) = {} => p \notin DOMAIN v
<1>1. p \in Seq(N) /\ p # << >> BY DEF Everywhere
<1>2. Append(Front(p), Last(p)) = p BY <1>1, FrontIs
<1>3. CASE Len(p) = 1 BY <1>3 DEF WasIn
<1>4. CASE Len(p) # 1
  <2>1. CASE Front(p) \in DOMAIN v
    <3>1. ViewAt(v, Front(p)) = v[Front(p)] BY <2>1 DEF ViewAt
    <3>2. \A q \in DOMAIN v : v[q] = ViewAt(v, Front(p)) => q = Front(p) BY <2>1, <3>1 DEF Once
    <3> QED BY <1>2, <1>4, <2>1, <3>1, <3>2 DEF WasIn
  <2>2. CASE Front(p) \notin DOMAIN v
    <3>1. ViewAt(v, Front(p)) = Gone BY <2>2 DEF ViewAt
    <3>2. \A q \in DOMAIN v : v[q] # Gone BY DEF ViewOK
    <3>3. WasIn(v, v, p) = {} BY <1>4, <3>1, <3>2 DEF WasIn
    <3> QED BY <1>4, <2>2, <3>3 DEF Grounded
  <2> QED BY <2>1, <2>2
<1> QED BY <1>3, <1>4

\* A segment begins with nothing to tell.
LEMMA SinceStart ==
  ASSUME NEW v, NEW n, ViewOK(v, n), Once(v), Grounded(v)
  PROVE  Since(v, v, Empty)
<1>1. SUFFICES ASSUME NEW p \in Everywhere PROVE Told(v, v, Empty, p) BY DEF Since
<1>2. At(Empty, p).old = Nil /\ At(Empty, p).new = Nil BY DEF At, Empty, Scaffold, Node
<1>3. /\ \A h \in WasIn(v, v, p) : h = p
      /\ WasIn(v, v, p) = {} => p \notin DOMAIN v
  BY WasHere
<1>4. \A h \in WasIn(v, v, p) : ViewAt(v, p) = ViewAt(v, h) BY <1>3
<1>5. WasIn(v, v, p) = {} => ViewAt(v, p) = Gone BY <1>3 DEF ViewAt
<1> QED BY <1>2, <1>4, <1>5 DEF Told

LEMMA GroundedIs ==
  ASSUME NEW v, NEW d, NEW st, Tidy(v, d, st), DOMAIN v \subseteq Paths
  PROVE  Grounded(v)
<1> SUFFICES ASSUME NEW p \in DOMAIN v PROVE Len(p) = 1 \/ Front(p) \in DOMAIN v BY DEF Grounded
<1>1. DirIn(v, d, st, Front(p)) BY DEF Tidy
<1>2. Len(p) = 1 <=> Front(p) = << >> BY FrontPath
<1> QED BY <1>1, <1>2 DEF DirIn

\* One path gets a backing no other has or had, or none.
LEMMA TouchedSince ==
  ASSUME NEW v, NEW s, NEW g, NEW n, Since(v, s, g), ViewOK(v, n), ViewOK(s, n), TreeTo(g, n),
         NEW p \in Paths, NEW x, x # Nil,
         x # Gone => \A q \in DOMAIN g : Len(q) # 1 /\ Front(q) = p => ~Present(g[q].new),
         \A q \in DOMAIN s : s[q] # x, \A q \in DOMAIN v : v[q] # x,
         NEW w, Given(w, v, p, x), NEW pre, pre = ViewAt(v, p), NEW u, u = Touch(g, p, pre, x)
  PROVE  Since(w, s, u)
<1>1. PICK o : o = FirstOf(At(g, p).old, pre) OBVIOUS
<1>2. p \in Seq(N) /\ p # << >> /\ p \notin Ancestors(p) /\ Len(Front(p)) = Len(p) - 1 /\ Len(p) \in Nat
  BY FrontPath, AncestorPaths
<1>3. u = Put(WithAncestors(g, p), p, Node(o, x)) BY <1>1 DEF Touch
<1>4. At(u, p).old = o /\ At(u, p).new = x BY <1>3 DEF At, Put, Node
<1>5. ASSUME NEW q, q # p PROVE At(u, q) = At(g, q)
  BY <1>3, <1>5 DEF At, Put, WithAncestors, Over
<1>6. \A q : ViewAt(w, q) = IF q = p THEN x ELSE IF IsPrefix(p, q) THEN Gone ELSE ViewAt(v, q)
  <2>1. IsPrefix(p, p) BY <1>2, PrefixSelf
  <2> QED BY <2>1 DEF ViewAt, Given
<1>7. Once(v) /\ Once(s) /\ Grounded(s) /\ \A q \in Everywhere : Told(v, s, g, q) BY DEF Since
<1>8. Once(w)
  <2>1. \A q \in DOMAIN w : w[q] = IF q = p THEN x ELSE v[q] BY DEF Given
  <2>2. \A q \in DOMAIN w : q # p => q \in DOMAIN v BY DEF Given
  <2> QED BY <1>7, <2>1, <2>2 DEF Once
<1>9. Told(w, s, u, p)
  <2>1. Told(v, s, g, p) BY <1>2, <1>7 DEF Everywhere
  <2>2. pre # Nil
    <3>1. Gone # Nil
      <4>1. Gone \in Sides BY DEF Sides, Unstaged
      <4> QED BY <4>1, SideIs
    <3> QED BY <3>1 DEF ViewAt, ViewOK
  <2>3. ViewAt(w, p) = x BY <1>6
  <2>4. WasIn(w, s, p) = WasIn(v, s, p)
    <3>1. Front(p) # p /\ ~IsPrefix(p, Front(p))
      <4>1. Front(p) \in Seq(N) /\ ~(Len(p) <= Len(Front(p))) BY <1>2, FrontIs
      <4> QED BY <1>2, <4>1, PrefixIs
    <3>2. ViewAt(w, Front(p)) = ViewAt(v, Front(p)) BY <1>6, <3>1
    <3> QED BY <3>2, WasSame
  <2>5. o # Nil BY <1>1, <2>2 DEF FirstOf
  <2>6. ASSUME NEW h \in WasIn(w, s, p), h \in DOMAIN s PROVE o = s[h]
    <3>1. CASE At(g, p).old # Nil
      <4>1. At(g, p).old = s[h] BY <2>1, <2>4, <2>6, <3>1 DEF Told
      <4> QED BY <1>1, <3>1, <4>1 DEF FirstOf
    <3>2. CASE At(g, p).old = Nil
      <4>1. ViewAt(v, p) = ViewAt(s, h) BY <2>1, <2>4, <2>6, <3>2 DEF Told
      <4> QED BY <1>1, <2>6, <3>2, <4>1 DEF FirstOf, ViewAt
    <3> QED BY <3>1, <3>2
  <2> QED BY <1>4, <2>3, <2>5, <2>6 DEF Told
<1>10. ASSUME NEW q \in Everywhere, q # p PROVE Told(w, s, u, q)
  <2>1. /\ Told(v, s, g, q) /\ At(u, q) = At(g, q) /\ q \in Seq(N) /\ q # << >>
        /\ Front(q) \in Seq(N) /\ (IsPrefix(p, q) <=> IsPrefix(p, Front(q)))
    BY <1>2, <1>5, <1>7, <1>10, PrefixFront DEF Everywhere
  <2>2. CASE IsPrefix(p, q)
    <3>1. Len(q) # 1
      <4>1. Len(p) \in Nat \ {0} /\ Len(Front(q)) = Len(q) - 1 /\ Len(q) \in Nat \ {0}
        BY <1>2, <2>1, FrontIs, EmptySeq
      <4>2. Len(p) <= Len(Front(q)) BY <1>2, <2>1, <2>2, PrefixIs
      <4> QED BY <4>1, <4>2
    <3>2. ViewAt(w, Front(q)) = (IF Front(q) = p THEN x ELSE Gone) /\ ViewAt(w, q) = Gone
      BY <1>6, <1>10, <2>1, <2>2
    <3>3. \A h \in DOMAIN s : s[h] # x /\ s[h] # Gone BY DEF ViewOK
    <3>4. WasIn(w, s, q) = {} BY <3>1, <3>2, <3>3 DEF WasIn
    <3>5. ASSUME Held(w, q), Present(At(g, q).new) PROVE FALSE
      <4>1. Front(q) = p /\ x # Gone BY <3>1, <3>2, <3>5 DEF Held
      <4>2. q \in DOMAIN g /\ g[q] = At(g, q) BY <3>5 DEF At, Scaffold, Node, Present
      <4> QED BY <3>1, <3>5, <4>1, <4>2
    <3> QED BY <2>1, <3>2, <3>4, <3>5, ToldBelow
  <2>3. CASE ~IsPrefix(p, q)
    <3>1. p # Front(q) BY <1>2, <2>1, <2>3, PrefixSelf
    <3>2. ViewAt(w, Front(q)) = ViewAt(v, Front(q)) /\ ViewAt(w, q) = ViewAt(v, q)
      BY <1>6, <1>10, <2>1, <2>3, <3>1
    <3>3. WasIn(w, s, q) = WasIn(v, s, q) /\ (Held(w, q) <=> Held(v, q)) BY <3>2, WasSame
    <3> QED BY <2>1, <3>2, <3>3, ToldMoves
  <2> QED BY <2>2, <2>3
<1> QED BY <1>7, <1>8, <1>9, <1>10 DEF Since

\* w is v with what is at src and below it at dst and below it.
Carries(w, v, src, dst) ==
  /\ \A q \in Seq(N) : IsStrictPrefix(dst, q) => ViewAt(w, q) = ViewAt(v, Rebase(q, dst, src))
  /\ dst \in DOMAIN w /\ w[dst] = v[src]
  /\ \A q \in Seq(N) : ~IsPrefix(dst, q) => ViewAt(w, q) = IF IsPrefix(src, q) THEN Gone ELSE ViewAt(v, q)

LEMMA CarriesIs ==
  ASSUME NEW v, DOMAIN v \subseteq Seq(N), NEW src \in Seq(N), NEW dst \in Seq(N),
         NEW w, w = Over(Carried(v, src, dst), Put(Without(Without(v, dst), src), dst, v[src]))
  PROVE  Carries(w, v, src, dst)
<1>1. PICK c, r : c = Carried(v, src, dst) /\ r = Put(Without(Without(v, dst), src), dst, v[src])
  OBVIOUS
<1>2. /\ \A q \in Seq(N) : q \in DOMAIN c <=> IsStrictPrefix(dst, q) /\ Rebase(q, dst, src) \in DOMAIN v
      /\ \A q \in DOMAIN c : IsStrictPrefix(dst, q) /\ c[q] = v[Rebase(q, dst, src)]
  BY <1>1, CarriedIs
<1>3. /\ \A q : q \in DOMAIN r <=> q = dst \/ (q \in DOMAIN v /\ ~IsPrefix(dst, q) /\ ~IsPrefix(src, q))
      /\ r[dst] = v[src] /\ \A q \in DOMAIN r : q # dst => r[q] = v[q]
  BY <1>1 DEF Put, Without, Restrict
<1>4. /\ DOMAIN w = DOMAIN c \cup DOMAIN r
      /\ \A q \in DOMAIN c : w[q] = c[q]
      /\ \A q \in DOMAIN r : q \notin DOMAIN c => w[q] = r[q]
  BY <1>1 DEF Over
<1>5. IsPrefix(dst, dst) /\ dst \notin DOMAIN c BY <1>2, PrefixSelf DEF IsStrictPrefix
<1>6. ASSUME NEW q \in Seq(N), IsStrictPrefix(dst, q)
      PROVE  ViewAt(w, q) = ViewAt(v, Rebase(q, dst, src))
  <2>1. q # dst /\ IsPrefix(dst, q) BY <1>6 DEF IsStrictPrefix
  <2> QED BY <1>2, <1>3, <1>4, <1>6, <2>1 DEF ViewAt
<1>7. dst \in DOMAIN w /\ w[dst] = v[src] BY <1>3, <1>4, <1>5
<1>8. ASSUME NEW q \in Seq(N), ~IsPrefix(dst, q)
      PROVE  ViewAt(w, q) = IF IsPrefix(src, q) THEN Gone ELSE ViewAt(v, q)
  <2>1. q \notin DOMAIN c /\ q # dst BY <1>2, <1>5, <1>8 DEF IsStrictPrefix
  <2> QED BY <1>3, <1>4, <1>8, <2>1 DEF ViewAt
<1> QED BY <1>6, <1>7, <1>8 DEF Carries

\* The nodes a rename leaves.
Retold(u, g, src, dst, o, top) ==
  /\ \A q \in Seq(N) : IsStrictPrefix(dst, q) => At(u, q) = At(g, Rebase(q, dst, src))
  /\ At(u, dst) = top /\ At(u, src) = Node(o, Gone)
  /\ \A q \in Seq(N) : ~IsPrefix(dst, q) /\ q # src =>
       At(u, q) = IF IsPrefix(src, q) THEN Scaffold ELSE At(g, q)

LEMMA RetoldIs ==
  ASSUME NEW t, NEW n, TreeTo(t, n), NEW src \in Paths, NEW dst \in Paths,
         ~IsPrefix(src, dst), ~IsPrefix(dst, src),
         NEW srcPre \in SidesTo(n), NEW dstPre \in SidesTo(n), NEW T,
         T = ApplyRename(t, dst, src, srcPre, dstPre)
  PROVE  Retold(T, t, src, dst, FirstOf(At(t, src).old, srcPre),
                IF IsSelfRedirect(srcPre, dst) THEN Scaffold
                ELSE Node(FirstOf(FirstOf(At(t, src).old, At(t, dst).old), dstPre), srcPre))
<1>1. src \in Seq(N) /\ dst \in Seq(N) /\ DOMAIN t \subseteq Seq(N)
  BY FrontPath DEF TreeTo
<1>2. IsPrefix(src, src) /\ IsPrefix(dst, dst) /\ src # dst BY <1>1, PrefixSelf
<1>3. PICK o, e : /\ RenamedTo(T, t, dst, src, srcPre, o, e) /\ o = FirstOf(At(t, src).old, srcPre)
                  /\ e = FirstOf(FirstOf(At(t, src).old, At(t, dst).old), dstPre)
  BY <1>2, ApplyRenameIs
<1>4. PICK m : m = Carried(t, src, dst) OBVIOUS
<1>5. \A q \in Seq(N) :
        /\ q \in DOMAIN m <=> IsStrictPrefix(dst, q) /\ Rebase(q, dst, src) \in DOMAIN t
        /\ q \in DOMAIN m => m[q] = t[Rebase(q, dst, src)]
  BY <1>1, <1>4, CarriedIs
<1>6. ASSUME NEW q \in Seq(N), IsStrictPrefix(dst, q) PROVE At(T, q) = At(t, Rebase(q, dst, src))
  <2>1. q # dst /\ IsPrefix(dst, q) /\ q # src BY <1>6 DEF IsStrictPrefix
  <2>2. CASE q \in DOMAIN m
    <3>1. q \in DOMAIN T /\ T[q] = m[q] BY <1>3, <1>4, <2>2 DEF RenamedTo
    <3> QED BY <1>5, <2>2, <3>1 DEF At
  <2>3. CASE q \notin DOMAIN m
    <3>1. At(T, q) = Scaffold BY <1>3, <1>4, <2>1, <2>3 DEF RenamedTo, At
    <3>2. At(t, Rebase(q, dst, src)) = Scaffold BY <1>5, <1>6, <2>3 DEF At
    <3> QED BY <3>1, <3>2
  <2> QED BY <2>2, <2>3
<1>7. At(T, dst) = IF IsSelfRedirect(srcPre, dst) THEN Scaffold ELSE Node(e, srcPre)
  <2>1. dst \notin DOMAIN m BY <1>1, <1>5 DEF IsStrictPrefix
  <2>2. dst \in DOMAIN T => T[dst] = IF IsSelfRedirect(srcPre, dst) THEN Scaffold ELSE Node(e, srcPre)
    BY <1>3, <1>4, <2>1 DEF RenamedTo
  <2>3. ~IsSelfRedirect(srcPre, dst) => dst \in DOMAIN T BY <1>3 DEF RenamedTo, DropsDst
  <2> QED BY <2>2, <2>3 DEF At
<1>8. At(T, src) = Node(o, Gone)
  <2>1. src \notin DOMAIN m BY <1>1, <1>5 DEF IsStrictPrefix
  <2>2. Rest(t, dst, src, src) BY DEF Rest
  <2>3. src \in DOMAIN T BY <1>3, <2>2 DEF RenamedTo
  <2>4. T[src] = Node(o, Gone) BY <1>2, <1>3, <1>4, <2>1, <2>3 DEF RenamedTo
  <2> QED BY <2>3, <2>4 DEF At
<1>9. ASSUME NEW q \in Seq(N), ~IsPrefix(dst, q), q # src
      PROVE  At(T, q) = IF IsPrefix(src, q) THEN Scaffold ELSE At(t, q)
  <2>1. q \notin DOMAIN m /\ q # dst BY <1>2, <1>5, <1>9 DEF IsStrictPrefix
  <2>2. q \in DOMAIN T => T[q] = IF q \in DOMAIN t /\ ~IsPrefix(src, q) THEN t[q] ELSE Scaffold
    BY <1>3, <1>4, <1>9, <2>1 DEF RenamedTo
  <2>3. q \in DOMAIN t /\ ~IsPrefix(src, q) => q \in DOMAIN T
    <3>1. q \in DOMAIN t /\ ~IsPrefix(src, q) => Rest(t, dst, src, q) BY <1>9 DEF Rest
    <3> QED BY <1>3, <3>1 DEF RenamedTo
  <2> QED BY <2>2, <2>3 DEF At
<1> QED BY <1>3, <1>6, <1>7, <1>8, <1>9 DEF Retold

\* A rename carries what the segment tells, when neither the drop of a node
\* come home nor the old side it carries hides what was at dst.
LEMMA CarriedSince ==
  ASSUME NEW v, NEW s, NEW g, NEW n, Since(v, s, g), ViewOK(v, n), ViewOK(s, n), TreeTo(g, n),
         NEW src \in DOMAIN v, NEW dst \in Paths, ~IsPrefix(src, dst), ~IsPrefix(dst, src),
         NEW dstPre, dstPre = ViewAt(v, dst),
         v[src] = Base(dst) => \E h \in WasIn(v, s, dst) : ViewAt(s, h) = Base(dst),
         v[src] # Base(dst) /\ At(g, src).old # Nil => WasIn(v, s, dst) \cap DOMAIN s = {},
         NEW w, Carries(w, v, src, dst), NEW u,
         Retold(u, g, src, dst, FirstOf(At(g, src).old, v[src]),
                IF IsSelfRedirect(v[src], dst) THEN Scaffold
                ELSE Node(FirstOf(FirstOf(At(g, src).old, At(g, dst).old), dstPre), v[src]))
  PROVE  \A p \in Everywhere : Told(w, s, u, p)
<1>1. /\ src \in Paths /\ src \in Seq(N) /\ dst \in Seq(N) /\ src # << >> /\ dst # << >>
      /\ IsPrefix(src, src) /\ IsPrefix(dst, dst) /\ src # dst
  BY FrontPath, PrefixSelf DEF ViewOK
<1>2. /\ Once(v) /\ Once(s) /\ Told(v, s, g, src) /\ Told(v, s, g, dst)
      /\ \A q \in Everywhere : Told(v, s, g, q)
  BY <1>1 DEF Since, Everywhere
<1>3. Gone # Nil /\ v[src] # Nil /\ v[src] # Gone /\ dstPre # Nil
  <2>1. Gone # Nil
    <3>1. Gone \in Sides BY DEF Sides, Unstaged
    <3> QED BY <3>1, SideIs
  <2> QED BY <2>1 DEF ViewAt, ViewOK
<1>4. Scaffold.old = Nil /\ Scaffold.new = Nil /\ \A a, b : Node(a, b).old = a /\ Node(a, b).new = b
  BY DEF Scaffold, Node
<1>5. \A q \in Everywhere : q \in Seq(N) /\ q # << >> BY DEF Everywhere
\* A path that neither end is above has its directory where it was.
<1>6. ASSUME NEW q \in Everywhere, ~IsPrefix(dst, q) \/ q = dst, ~IsPrefix(src, q) \/ q = src
      PROVE  WasIn(w, s, q) = WasIn(v, s, q) /\ (Held(w, q) <=> Held(v, q))
  <2>1. CASE Len(q) = 1 BY <2>1, WasSame
  <2>2. CASE Len(q) # 1
    <3>1. q \in Seq(N) /\ q # << >> /\ Front(q) \in Seq(N) BY <1>5, FrontIs
    <3>2. ~IsPrefix(dst, Front(q)) /\ ~IsPrefix(src, Front(q))
      <4>1. ASSUME NEW a \in Seq(N), IsPrefix(a, Front(q)) PROVE IsPrefix(a, q) /\ a # q
        BY <3>1, <4>1, PrefixFront DEF IsStrictPrefix
      <4> QED BY <1>1, <1>6, <4>1
    <3>3. ViewAt(w, Front(q)) = ViewAt(v, Front(q)) BY <3>1, <3>2 DEF Carries
    <3> QED BY <2>2, <3>3, WasSame
  <2> QED BY <2>1, <2>2
<1>7. ASSUME NEW q \in Everywhere, IsStrictPrefix(dst, q) PROVE Told(w, s, u, q)
  <2>1. PICK r : r = Rebase(q, dst, src) OBVIOUS
  <2>2. q \in Seq(N) /\ q # << >> BY <1>5
  <2>3. r # << >> /\ r \in Seq(N) /\ Front(r) = Rebase(Front(q), dst, src) /\ Last(r) = Last(q)
    BY <1>1, <1>7, <2>1, <2>2, RebaseFront, RebaseBack DEF IsStrictPrefix
  <2>4. IsStrictPrefix(src, r)
    BY <1>1, <1>7, <2>1, <2>2, RebaseBack DEF IsStrictPrefix
  <2>5. Told(v, s, g, r) BY <1>2, <2>3 DEF Everywhere
  <2>6. At(u, q) = At(g, r) BY <1>7, <2>1, <2>2 DEF Retold
  <2>7. ViewAt(w, q) = ViewAt(v, r) BY <1>7, <2>1, <2>2 DEF Carries
  <2>8. IsPrefix(dst, Front(q)) /\ Front(q) \in Seq(N) /\ IsPrefix(src, Front(r)) /\ Front(r) \in Seq(N)
    BY <1>1, <1>7, <2>2, <2>3, <2>4, PrefixFront
  <2>9. Len(q) # 1 /\ Len(r) # 1
    <3>1. ASSUME NEW a \in Seq(N), a # << >>, NEW b \in Seq(N), b # << >>, IsPrefix(a, Front(b))
          PROVE  Len(b) # 1
      <4>1. Len(a) \in Nat \ {0} /\ Front(b) \in Seq(N) /\ Len(Front(b)) = Len(b) - 1 /\ Len(b) \in Nat \ {0}
        BY <3>1, FrontIs, EmptySeq
      <4>2. Len(a) <= Len(Front(b)) BY <3>1, <4>1, PrefixIs
      <4> QED BY <4>1, <4>2
    <3> QED BY <1>1, <2>2, <2>3, <2>8, <3>1
  <2>10. ViewAt(w, Front(q)) = ViewAt(v, Front(r))
    <3>1. CASE Front(q) = dst
      <4>1. Front(r) = src BY <1>1, <2>3, <3>1, RebaseBack
      <4> QED BY <3>1, <4>1 DEF Carries, ViewAt
    <3>2. CASE Front(q) # dst
      <4>1. IsStrictPrefix(dst, Front(q)) BY <2>8, <3>2 DEF IsStrictPrefix
      <4> QED BY <2>3, <2>8, <4>1 DEF Carries
    <3> QED BY <3>1, <3>2
  <2>11. WasIn(w, s, q) = WasIn(v, s, r) /\ (Held(w, q) <=> Held(v, r)) BY <2>3, <2>9, <2>10, WasSame
  <2> QED BY <2>5, <2>6, <2>7, <2>11, ToldMoves
<1>8. Told(w, s, u, dst)
  <2>1. WasIn(w, s, dst) = WasIn(v, s, dst) BY <1>1, <1>6 DEF Everywhere
  <2>2. ViewAt(w, dst) = v[src] BY DEF Carries, ViewAt
  <2>3. CASE IsSelfRedirect(v[src], dst)
    <3>1. At(u, dst) = Scaffold BY <2>3 DEF Retold
    <3>2. PICK h \in WasIn(v, s, dst) : ViewAt(s, h) = v[src]
      BY <2>3 DEF IsSelfRedirect
    <3>3. \A k \in WasIn(v, s, dst) : k = h
      <4>1. \A p, q \in DOMAIN s : s[p] = s[q] => p = q BY <1>2 DEF Once
      <4> QED BY <3>2, <4>1 DEF WasIn
    <3> QED BY <1>4, <2>1, <2>2, <3>1, <3>2, <3>3 DEF Told
  <2>4. CASE ~IsSelfRedirect(v[src], dst)
    <3>1. PICK e : e = FirstOf(FirstOf(At(g, src).old, At(g, dst).old), dstPre) OBVIOUS
    <3>2. At(u, dst) = Node(e, v[src]) BY <2>4, <3>1 DEF Retold
    <3>3. e # Nil BY <1>3, <3>1 DEF FirstOf
    <3>4. ASSUME NEW h \in WasIn(v, s, dst), h \in DOMAIN s PROVE e = s[h]
      <4>1. At(g, src).old = Nil BY <2>4, <3>4 DEF IsSelfRedirect
      <4>2. CASE At(g, dst).old # Nil
        <5>1. At(g, dst).old = s[h] BY <1>2, <3>4, <4>2 DEF Told
        <5> QED BY <3>1, <4>1, <4>2, <5>1 DEF FirstOf
      <4>3. CASE At(g, dst).old = Nil
        <5>1. dstPre = ViewAt(s, h) BY <1>2, <3>4, <4>3 DEF Told
        <5> QED BY <3>1, <3>4, <4>1, <4>3, <5>1 DEF FirstOf, ViewAt
      <4> QED BY <4>2, <4>3
    <3> QED BY <1>3, <1>4, <2>1, <2>2, <3>2, <3>3, <3>4 DEF Told
  <2> QED BY <2>3, <2>4
<1>9. Told(w, s, u, src)
  <2>1. WasIn(w, s, src) = WasIn(v, s, src) BY <1>1, <1>6 DEF Everywhere
  <2>2. ViewAt(w, src) = Gone BY <1>1 DEF Carries
  <2>3. PICK o : o = FirstOf(At(g, src).old, v[src]) OBVIOUS
  <2>4. At(u, src) = Node(o, Gone) BY <2>3 DEF Retold
  <2>5. o # Nil BY <1>3, <2>3 DEF FirstOf
  <2>6. ASSUME NEW h \in WasIn(v, s, src), h \in DOMAIN s PROVE o = s[h]
    <3>1. CASE At(g, src).old # Nil
      <4>1. At(g, src).old = s[h] BY <1>2, <2>6, <3>1 DEF Told
      <4> QED BY <2>3, <3>1, <4>1 DEF FirstOf
    <3>2. CASE At(g, src).old = Nil
      <4>1. ViewAt(v, src) = ViewAt(s, h) BY <1>2, <2>6, <3>2 DEF Told
      <4> QED BY <2>3, <2>6, <3>2, <4>1 DEF FirstOf, ViewAt
    <3> QED BY <3>1, <3>2
  <2> QED BY <1>3, <1>4, <2>1, <2>2, <2>4, <2>5, <2>6 DEF Told
<1>10. ASSUME NEW q \in Everywhere, ~IsPrefix(dst, q), q # src, IsPrefix(src, q) PROVE Told(w, s, u, q)
  <2>1. q \in Seq(N) /\ q # << >> BY <1>5
  <2>2. At(u, q) = Scaffold BY <1>10, <2>1 DEF Retold
  <2>3. ViewAt(w, q) = Gone BY <1>10, <2>1 DEF Carries
  <2>4. IsPrefix(src, Front(q)) /\ Front(q) \in Seq(N) BY <1>1, <1>10, <2>1, PrefixFront
  <2>5. ~IsPrefix(dst, Front(q))
    BY <1>1, <1>10, <2>1, PrefixFront DEF IsStrictPrefix
  <2>6. ViewAt(w, Front(q)) = Gone BY <2>4, <2>5 DEF Carries
  <2>7. Len(q) # 1
    <3>1. Len(src) \in Nat \ {0} /\ Len(Front(q)) = Len(q) - 1 /\ Len(q) \in Nat \ {0}
      BY <1>1, <2>1, FrontIs, EmptySeq
    <3>2. Len(src) <= Len(Front(q)) BY <1>1, <2>4, PrefixIs
    <3> QED BY <3>1, <3>2
  <2>8. WasIn(w, s, q) = {} BY <2>6, <2>7 DEF WasIn, ViewOK
  <2> QED BY <1>4, <2>2, <2>3, <2>8 DEF Told
<1>11. ASSUME NEW q \in Everywhere, ~IsPrefix(dst, q), ~IsPrefix(src, q) PROVE Told(w, s, u, q)
  <2>1. q \in Seq(N) /\ q # src BY <1>1, <1>5, <1>11
  <2>2. At(u, q) = At(g, q) BY <1>11, <2>1 DEF Retold
  <2>3. ViewAt(w, q) = ViewAt(v, q) BY <1>11, <2>1 DEF Carries
  <2>4. WasIn(w, s, q) = WasIn(v, s, q) /\ (Held(w, q) <=> Held(v, q)) BY <1>6, <1>11
  <2> QED BY <1>2, <2>2, <2>3, <2>4, ToldMoves
<1>12. \A q : IsPrefix(dst, q) => q = dst \/ IsStrictPrefix(dst, q) BY DEF IsStrictPrefix
<1> QED BY <1>7, <1>8, <1>9, <1>10, <1>11, <1>12

LEMMA CarriedOnce ==
  ASSUME NEW v, NEW n, ViewOK(v, n), Once(v), NEW src \in DOMAIN v, NEW dst \in Paths,
         NEW w, ViewOK(w, n), Carries(w, v, src, dst)
  PROVE  Once(w)
<1>1. /\ DOMAIN v \subseteq Seq(N) /\ DOMAIN w \subseteq Seq(N) /\ src \in Seq(N) /\ dst \in Seq(N)
      /\ IsPrefix(dst, dst)
  BY FrontPath, PrefixSelf DEF ViewOK
<1>2. /\ \A q \in DOMAIN w : w[q] # Gone /\ ViewAt(w, q) = w[q]
      /\ \A q : ViewAt(v, q) # Gone => q \in DOMAIN v /\ ViewAt(v, q) = v[q]
  BY DEF ViewOK, ViewAt
<1>3. Rebase(dst, dst, src) = src BY <1>1, RebaseBack
<1>4. ASSUME NEW q \in DOMAIN w, IsPrefix(dst, q)
      PROVE  /\ Rebase(q, dst, src) \in DOMAIN v /\ w[q] = v[Rebase(q, dst, src)]
             /\ IsPrefix(src, Rebase(q, dst, src)) /\ Rebase(Rebase(q, dst, src), src, dst) = q
  <2>1. q \in Seq(N) BY <1>1
  <2>2. IsPrefix(src, Rebase(q, dst, src)) /\ Rebase(Rebase(q, dst, src), src, dst) = q
    BY <1>1, <1>4, <2>1, RebaseBack
  <2>3. CASE q = dst BY <1>3, <2>2, <2>3 DEF Carries
  <2>4. CASE q # dst
    <3>1. IsStrictPrefix(dst, q) BY <1>4, <2>4 DEF IsStrictPrefix
    <3>2. ViewAt(w, q) = ViewAt(v, Rebase(q, dst, src)) BY <2>1, <3>1 DEF Carries
    <3> QED BY <1>2, <2>2, <3>2
  <2> QED BY <2>3, <2>4
<1>5. ASSUME NEW q \in DOMAIN w, ~IsPrefix(dst, q) PROVE q \in DOMAIN v /\ w[q] = v[q] /\ ~IsPrefix(src, q)
  <2>1. q \in Seq(N) BY <1>1
  <2>2. ViewAt(w, q) = IF IsPrefix(src, q) THEN Gone ELSE ViewAt(v, q) BY <1>5, <2>1 DEF Carries
  <2> QED BY <1>2, <2>2
<1>6. \A x, y \in DOMAIN v : v[x] = v[y] => x = y BY DEF Once
<1>7. SUFFICES ASSUME NEW p \in DOMAIN w, NEW q \in DOMAIN w, w[p] = w[q] PROVE p = q BY DEF Once
<1>8. CASE IsPrefix(dst, p) /\ IsPrefix(dst, q)
  <2>1. Rebase(p, dst, src) = Rebase(q, dst, src) BY <1>4, <1>6, <1>7, <1>8
  <2> QED BY <1>4, <1>8, <2>1
<1>9. CASE IsPrefix(dst, p) /\ ~IsPrefix(dst, q)
  <2>1. Rebase(p, dst, src) = q BY <1>4, <1>5, <1>6, <1>7, <1>9
  <2> QED BY <1>4, <1>5, <1>9, <2>1
<1>10. CASE ~IsPrefix(dst, p) /\ IsPrefix(dst, q)
  <2>1. Rebase(q, dst, src) = p BY <1>4, <1>5, <1>6, <1>7, <1>10
  <2> QED BY <1>4, <1>5, <1>10, <2>1
<1>11. CASE ~IsPrefix(dst, p) /\ ~IsPrefix(dst, q) BY <1>5, <1>6, <1>7, <1>11
<1> QED BY <1>8, <1>9, <1>10, <1>11

\* Everything above a path of the start was there.
LEMMA GroundedAbove ==
  ASSUME NEW s, Grounded(s), DOMAIN s \subseteq Paths, NEW p \in DOMAIN s, NEW k \in 1 .. Len(p)
  PROVE  SubSeq(p, 1, k) \in DOMAIN s
<1> DEFINE T == {j \in Nat : j < Len(p) => SubSeq(p, 1, Len(p) - j) \in DOMAIN s}
<1>1. p \in Seq(N) /\ Len(p) \in Nat /\ \A i \in 1 .. Len(p) : p[i] \in N
  BY FrontPath, LenProperties, ElementOfSeq
<1>2. 0 \in T
  <2>1. SubSeq(p, 1, Len(p)) = p BY <1>1, SubSeqFull
  <2>2. Len(p) - 0 = Len(p) BY <1>1
  <2>3. SubSeq(p, 1, Len(p) - 0) \in DOMAIN s BY <2>1, <2>2
  <2> QED BY <2>3
<1>3. ASSUME NEW m \in 0 .. Len(p) - 1, m \in T PROVE m + 1 \in T
  <2>1. SUFFICES ASSUME m + 1 < Len(p) PROVE SubSeq(p, 1, Len(p) - (m + 1)) \in DOMAIN s OBVIOUS
  <2>2. PICK a : a = SubSeq(p, 1, Len(p) - m) OBVIOUS
  <2>3. a \in DOMAIN s BY <1>1, <1>3, <2>1, <2>2
  <2>4. PICK l \in Nat : l = Len(p) - m /\ l > 1 /\ l <= Len(p) /\ l - 1 = Len(p) - (m + 1) /\ l - 1 \in Nat
    <3>1. PICK e \in Nat : e = Len(p) BY <1>1
    <3>2. m \in Nat /\ m <= e - 1 /\ m + 1 < e BY <1>3, <2>1, <3>1
    <3>3. e - m \in Nat /\ e - m > 1 /\ e - m <= e /\ e - m - 1 = e - (m + 1) /\ e - m - 1 \in Nat
      BY <3>1, <3>2
    <3> QED BY <3>1, <3>3
  <2>5. SubSeqIs(p, l, N) /\ SubSeqIs(p, l - 1, N) BY <1>1, <2>4, InitialIs
  <2>6. a \in Seq(N) /\ Len(a) = l /\ \A i \in 1 .. l : a[i] = p[i] BY <2>2, <2>4, <2>5 DEF SubSeqIs
  <2>7. Front(a) = SubSeq(p, 1, l - 1)
    <3>1. a # << >> BY <2>4, <2>6
    <3>2. PICK f : f = SubSeq(p, 1, l - 1) OBVIOUS
    <3>3. f \in Seq(N) /\ Len(f) = l - 1 /\ \A i \in 1 .. l - 1 : f[i] = p[i]
      BY <2>5, <3>2 DEF SubSeqIs
    <3>4. Front(a) \in Seq(N) /\ Len(Front(a)) = l - 1 /\ \A i \in 1 .. l - 1 : Front(a)[i] = a[i]
      BY <2>6, <3>1, FrontIs
    <3>5. \A i \in 1 .. l - 1 : Front(a)[i] = f[i] BY <2>4, <2>6, <3>3, <3>4
    <3>6. Front(a) = f BY <3>3, <3>4, <3>5, SeqEqual
    <3> QED BY <3>2, <3>6
  <2>8. Front(a) \in DOMAIN s BY <2>3, <2>4, <2>6 DEF Grounded
  <2> QED BY <2>4, <2>7, <2>8
<1> HIDE DEF T
<1>4. 0 .. Len(p) \subseteq T BY <1>1, <1>2, <1>3, UpTo
<1>5. Len(p) - k \in 0 .. Len(p) /\ Len(p) - k < Len(p) /\ Len(p) - (Len(p) - k) = k BY <1>1
<1> QED BY <1>4, <1>5 DEF T

\* Of the paths from the root to one that differs, the first with anything to
\* tell has a net state: a line of the review names it, or where it went.
LEMMA Accounted ==
  ASSUME NEW v, NEW s, NEW g, NEW n, NEW d, NEW st, Since(v, s, g), ViewOK(v, n), ViewOK(s, n),
         TreeTo(g, n), IsView(v), Tidy(v, d, st), NEW p \in Paths, ViewAt(s, p) # ViewAt(v, p)
  PROVE  \E c \in Changes(g) : \/ IsPrefix(c, p)
                               \/ /\ g[c].new.kind = "base"
                                  /\ \E q \in Prefixes(p) : ViewAt(s, q) = g[c].new
<1>1. p \in Seq(N) /\ Len(p) \in Nat \ {0} /\ \A i \in 1 .. Len(p) : p[i] \in N
  BY FrontPath, EmptySeq, ElementOfSeq
<1> DEFINE T == {k \in 1 .. Len(p) : \/ At(g, SubSeq(p, 1, k)).new # Nil
                                     \/ ViewAt(s, SubSeq(p, 1, k)) # ViewAt(v, SubSeq(p, 1, k))}
<1>2. Len(p) \in T
  <2>1. SubSeq(p, 1, Len(p)) = p BY <1>1, SubSeqFull
  <2>2. ViewAt(s, SubSeq(p, 1, Len(p))) # ViewAt(v, SubSeq(p, 1, Len(p))) BY <2>1
  <2>3. Len(p) \in 1 .. Len(p) BY <1>1
  <2> QED BY <2>2, <2>3
<1>3. T \in SUBSET Nat /\ T # {} BY <1>2
<1>4. PICK k \in T : \A j \in T : k <= j BY <1>3, LeastOf
<1>5. k \in 1 .. Len(p) /\ k \in Nat \ {0} /\ k <= Len(p) BY <1>1
<1>6. PICK a : a = SubSeq(p, 1, k) OBVIOUS
<1>7. /\ a \in Seq(N) /\ Len(a) = k /\ \A i \in 1 .. k : a[i] = p[i]
      /\ a # << >> /\ IsPrefix(a, p) /\ a \in Everywhere
  <2>1. SubSeqIs(p, k, N) BY <1>1, <1>5, InitialIs
  <2>2. a \in Seq(N) /\ Len(a) = k /\ \A i \in 1 .. k : a[i] = p[i] BY <1>6, <2>1 DEF SubSeqIs
  <2>3. IsPrefix(a, p) BY <1>1, <1>5, <2>2, PrefixIs
  <2>4. a # << >> BY <1>5, <2>2
  <2> QED BY <2>2, <2>3, <2>4 DEF Everywhere
<1>8. Told(v, s, g, a) BY <1>7 DEF Since
<1>9. Len(a) # 1 => ViewAt(s, Front(a)) = ViewAt(v, Front(a))
  <2>1. SUFFICES ASSUME k # 1 PROVE ViewAt(s, Front(a)) = ViewAt(v, Front(a)) BY <1>7
  <2>2. k - 1 \in Nat \ {0} /\ k - 1 \in 1 .. Len(p) /\ ~(k <= k - 1) BY <1>1, <1>5, <2>1
  <2>3. k - 1 \notin T BY <1>4, <2>2
  <2>4. PICK f : f = SubSeq(p, 1, k - 1) OBVIOUS
  <2>5. ViewAt(s, f) = ViewAt(v, f) BY <2>2, <2>3, <2>4
  <2>6. Front(a) = f
    <3>1. SubSeqIs(p, k - 1, N) BY <1>1, <1>5, <2>2, InitialIs
    <3>2. f \in Seq(N) /\ Len(f) = k - 1 /\ \A i \in 1 .. k - 1 : f[i] = p[i]
      BY <2>4, <3>1 DEF SubSeqIs
    <3>3. Front(a) \in Seq(N) /\ Len(Front(a)) = k - 1 /\ \A i \in 1 .. k - 1 : Front(a)[i] = a[i]
      BY <1>7, FrontIs
    <3>4. \A i \in 1 .. k - 1 : Front(a)[i] = f[i] BY <1>5, <1>7, <3>2, <3>3
    <3> QED BY <3>2, <3>3, <3>4, SeqEqual
  <2> QED BY <2>5, <2>6
\* The place of a at the start is a itself, or there was none.
<1>10. Append(Front(a), Last(a)) = a BY <1>7, FrontIs
<1>11. Len(a) = 1 \/ Front(a) \in DOMAIN s => a \in WasIn(v, s, a)
  <2>1. CASE Len(a) = 1 BY <2>1 DEF WasIn
  <2>2. CASE Len(a) # 1 /\ Front(a) \in DOMAIN s
    <3>1. s[Front(a)] = ViewAt(v, Front(a)) BY <1>9, <2>2 DEF ViewAt
    <3>2. Append(Front(a), Last(a)) \in WasIn(v, s, a) BY <2>2, <3>1 DEF WasIn
    <3> QED BY <1>10, <3>2
  <2> QED BY <2>1, <2>2
<1>12. Len(a) # 1 /\ Front(a) \notin DOMAIN s => WasIn(v, s, a) = {} /\ a \notin DOMAIN s
  <2>1. \A q \in DOMAIN s : s[q] # Gone BY DEF ViewOK
  <2>2. Front(a) \notin DOMAIN s => ViewAt(s, Front(a)) = Gone BY DEF ViewAt
  <2>3. Grounded(s) BY DEF Since
  <2> QED BY <1>9, <2>1, <2>2, <2>3 DEF WasIn, Grounded
<1>13. At(g, a).new # Nil
  <2>1. SUFFICES ASSUME At(g, a).new = Nil PROVE FALSE OBVIOUS
  <2>2. ViewAt(s, a) # ViewAt(v, a) BY <1>6, <2>1
  <2>3. CASE Len(a) = 1 \/ Front(a) \in DOMAIN s BY <1>8, <1>11, <2>1, <2>2, <2>3 DEF Told
  <2>4. CASE ~(Len(a) = 1 \/ Front(a) \in DOMAIN s)
    <3>1. ViewAt(v, a) = Gone /\ ViewAt(s, a) = Gone BY <1>8, <1>12, <2>1, <2>4 DEF Told, ViewAt
    <3> QED BY <2>2, <3>1
  <2> QED BY <2>3, <2>4
<1>14. a \in DOMAIN g /\ At(g, a) = g[a]
  <2>1. Scaffold.new = Nil BY DEF Scaffold, Node
  <2> QED BY <1>13, <2>1 DEF At
<1>15. CASE g[a].new # Gone
  <2>1. Present(g[a].new) BY <1>13, <1>14, <1>15 DEF Present
  <2>2. Kind(g[a]) # "none" BY <2>1 DEF Kind
  <2>3. ~Vacated(g, a) BY <1>15 DEF Vacated
  <2>4. a \in Changes(g) BY <1>14, <2>2, <2>3 DEF Changes
  <2> QED BY <1>7, <2>4
<1>16. CASE g[a].new = Gone
  <2>1. ViewAt(v, a) = Gone /\ a \notin DOMAIN v
    <3>1. CASE Held(v, a)
      <4>1. ViewAt(v, a) = Gone BY <1>8, <1>13, <1>14, <1>16, <3>1 DEF Told
      <4> QED BY <4>1 DEF ViewAt, ViewOK
    <3>2. CASE ~Held(v, a)
      <4>1. Len(a) # 1 /\ Front(a) \notin DOMAIN v BY <3>2 DEF Held, ViewAt, ViewOK
      <4>2. Grounded(v) BY GroundedIs DEF IsView
      <4> QED BY <4>1, <4>2 DEF Grounded, ViewAt
    <3> QED BY <3>1, <3>2
  <2>2. p \notin DOMAIN v
    <3>1. SUFFICES ASSUME p \in DOMAIN v PROVE FALSE OBVIOUS
    <3>2. IsStrictPrefix(a, p) BY <1>7, <2>1, <3>1 DEF IsStrictPrefix
    <3>3. a \in Paths BY <1>14 DEF TreeTo
    <3>4. a \in DOMAIN v BY <3>1, <3>2, <3>3, AllAbove
    <3> QED BY <2>1, <3>4
  <2>3. p \in DOMAIN s BY <2>2 DEF ViewAt
  <2>4. a \in DOMAIN s
    <3>1. Grounded(s) /\ DOMAIN s \subseteq Paths BY DEF Since, ViewOK
    <3> QED BY <1>5, <1>6, <2>3, <3>1, GroundedAbove
  <2>5. g[a].old = s[a] /\ s[a] # Nil /\ s[a] # Gone
    <3>1. a \in WasIn(v, s, a) BY <1>11, <1>12, <2>4
    <3> QED BY <1>8, <1>13, <1>14, <2>4, <3>1 DEF Told, ViewOK
  <2>6. Kind(g[a]) # "none" BY <1>16, <2>5 DEF Kind, Present
  <2>7. CASE ~Vacated(g, a)
    <3>1. a \in Changes(g) BY <1>14, <2>6, <2>7 DEF Changes
    <3> QED BY <1>7, <3>1
  <2>8. CASE Vacated(g, a)
    <3>1. g[a].old.kind = "base" /\ g[a].old.path \in Redirects(g) BY <2>8 DEF Vacated
    <3>2. PICK c \in Net(g) : g[c].new.kind = "base" /\ g[c].new.path = g[a].old.path
      BY <3>1 DEF Redirects
    <3>3. c \in DOMAIN g /\ g[c].new # Nil BY <3>2 DEF Net
    <3>4. g[c].new = g[a].old
      <4>1. \A b \in SidesTo(n) : b # Nil /\ b.kind = "base" => b = Base(b.path)
        BY Backings DEF SidesTo
      <4>2. g[c].new \in SidesTo(n) /\ g[a].old \in SidesTo(n) BY <1>14, <3>3 DEF TreeTo
      <4> QED BY <2>5, <3>1, <3>2, <3>3, <4>1, <4>2
    <3>5. g[c].new # Gone BY <3>2, Backings
    <3>6. Kind(g[c]) # "none" /\ ~Vacated(g, c) BY <3>3, <3>5 DEF Kind, Present, Vacated
    <3>7. c \in Changes(g) BY <3>3, <3>6 DEF Changes
    <3>8. a \in Prefixes(p) /\ ViewAt(s, a) = g[c].new
      <4>1. k \in 0 .. Len(p) BY <1>5
      <4>2. a \in Prefixes(p) BY <1>6, <4>1 DEF Prefixes
      <4> QED BY <2>4, <2>5, <3>4, <4>2 DEF ViewAt
    <3> QED BY <3>2, <3>7, <3>8
  <2> QED BY <2>7, <2>8
<1> QED BY <1>15, <1>16

\* An operation of the live view, or the tear of its record.
LEMMA LoggedReviewed ==
  ASSUME Reviewed, TypeInv, MayWork, "glue" \notin Env, NEW line, NEW v, NEW st, Logged(line, v, st),
         nextIno' \in nextIno .. MaxIno, Since(v, start, Apply(seg, line)),
         SegSays(Apply(seg, line), Apply(tree, line))
  PROVE  Reviewed'
<1>1. torn = << >> /\ \A l : Glue(torn, l) = l BY DEF MayWork, Glue
<1>2. pc' = pc /\ start' = start BY DEF Logged, cli
<1>3. Since(view, start, seg) /\ ViewOK(start, nextIno) /\ SegSays(seg, tree) BY DEF Reviewed, MayWork
<1>4. ViewOK(start, nextIno')
  <2>1. Typed(nextIno, cowFloor, store, view, tree, seg, pc, disk) BY TypesAre DEF TypeInv
  <2>2. nextIno \in Nat /\ nextIno' \in Nat /\ nextIno <= nextIno' BY <2>1, CommitAssumption DEF Typed
  <2>3. SidesTo(nextIno) \subseteq SidesTo(nextIno') BY <2>2, TreesAre
  <2> QED BY <1>3, <2>3 DEF ViewOK
<1>5. \/ seg' = Apply(seg, line) /\ tree' = Apply(tree, line) /\ view' = v
      \/ seg' = seg /\ tree' = tree /\ view' = view
  BY <1>1 DEF Logged
<1>6. CASE seg' = Apply(seg, line) /\ tree' = Apply(tree, line) /\ view' = v BY <1>2, <1>4, <1>6 DEF Reviewed
<1>7. CASE seg' = seg /\ tree' = tree /\ view' = view BY <1>2, <1>3, <1>4, <1>7 DEF Reviewed
<1> QED BY <1>5, <1>6, <1>7

\* An inode just taken was neither in the view nor at the start.
LEMMA FreshIs ==
  ASSUME TypeInv, nextIno' = nextIno + 1, NEW v, ViewOK(v, nextIno)
  PROVE  \A q \in DOMAIN v : v[q] # Staged(nextIno')
<1>1. Typed(nextIno, cowFloor, store, view, tree, seg, pc, disk) BY TypesAre DEF TypeInv
<1>2. nextIno \in Nat BY <1>1, CommitAssumption DEF Typed
<1>3. PICK m, n : m = nextIno /\ n = nextIno' OBVIOUS
<1>4. n \notin 1 .. m BY <1>2, <1>3
<1>5. \A i : Staged(i).ino = i /\ Staged(i).kind = "staged" BY Backings
<1>6. \A p : Base(p).kind = "base" BY Backings
<1>7. \A q \in DOMAIN v : /\ v[q] # Gone /\ v[q] # Nil
                          /\ (\E p \in Paths : v[q] = Base(p)) \/ (\E i \in 1 .. m : v[q] = Staged(i))
  BY <1>3 DEF ViewOK, SidesTo
<1> QED BY <1>3, <1>4, <1>5, <1>6, <1>7

\* One path is given a backing, or is deleted with what is below it.
LEMMA TouchingReviewed ==
  ASSUME TypeInv, Reviewed, "glue" \notin Env, MayWork, NEW line, NEW v, NEW st, Logged(line, v, st),
         nextIno' \in nextIno .. MaxIno,
         NEW p \in Paths, NEW pre, pre = ViewAt(view, p), pre \in SidesTo(nextIno'),
         NEW x \in SidesTo(nextIno'), x # Nil,
         \A t : Apply(t, line) = Touch(t, p, pre, x),
         x # Gone => Still(tree, p), Given(v, view, p, x),
         \A q \in DOMAIN start : start[q] # x, \A q \in DOMAIN view : view[q] # x
  PROVE  Reviewed'
<1>1. Typed(nextIno, cowFloor, store, view, tree, seg, pc, disk) BY TypesAre DEF TypeInv
<1>2. PICK n, w, s, g, u : n = nextIno /\ w = view /\ s = start /\ g = seg /\ u = Touch(g, p, pre, x)
  OBVIOUS
<1>3. ViewOK(w, n) /\ TreeTo(g, n) BY <1>1, <1>2 DEF Typed
<1>4. Since(w, s, g) /\ ViewOK(s, n) /\ SegSays(g, tree) BY <1>2 DEF Reviewed, MayWork
<1>5. ASSUME x # Gone, NEW q \in DOMAIN g, Len(q) # 1, Front(q) = p PROVE ~Present(g[q].new)
  <2>1. q \in Paths /\ ~Present(At(tree, q).new) BY <1>3, <1>5, StillChild DEF TreeTo
  <2> QED BY <1>4, <1>5, <2>1 DEF SegSays, At, Present
<1>6. (\A q \in DOMAIN s : s[q] # x) /\ (\A q \in DOMAIN w : w[q] # x) BY <1>2
<1>7. Given(v, w, p, x) /\ pre = ViewAt(w, p) BY <1>2
<1>8. Since(v, s, u) BY <1>2, <1>3, <1>4, <1>5, <1>6, <1>7, TouchedSince
<1>9. Since(v, start, Apply(seg, line)) BY <1>2, <1>8
<1>10. SegSays(Apply(seg, line), Apply(tree, line))
  <2>1. PICK m, t : m = nextIno' /\ t = tree OBVIOUS
  <2>2. nextIno \in Nat /\ m \in Nat /\ nextIno <= m BY <1>1, <2>1, CommitAssumption DEF Typed
  <2>3. TreeTo(t, m) /\ TreeTo(g, m) BY <1>1, <1>2, <2>1, <2>2, TreesAre DEF Typed
  <2>4. pre \in SidesTo(m) /\ x \in SidesTo(m) BY <2>1
  <2>5. NewIs(Touch(t, p, pre, x), t, p, x) /\ NewIs(Touch(g, p, pre, x), g, p, x) BY <2>3, <2>4, TouchIs
  <2>6. SegSays(g, t) BY <1>4, <2>1
  <2>7. SegSays(Touch(g, p, pre, x), Touch(t, p, pre, x)) BY <2>5, <2>6 DEF SegSays, NewIs
  <2> QED BY <1>2, <2>1, <2>7
<1> QED BY <1>9, <1>10, LoggedReviewed

LEMMA CreateReviewed ==
  ASSUME TypeInv, Live, Reviewed, {"glue", "revive"} \cap Env = {}, NEW p \in Paths, NEW dir \in BOOLEAN, MayWork,
         Create(p, dir)
  PROVE  Reviewed'
<1>1. /\ nextIno < MaxIno /\ nextIno' = nextIno + 1 /\ store' = Put(store, nextIno', dir)
      /\ Logged(StageLine(p, nextIno', Gone), Put(view, p, Staged(nextIno')), store')
      /\ p \notin DOMAIN view /\ ~Wakes(p)
  BY DEF Create
<1>2. PICK n, line, v, x : /\ n = nextIno' /\ line = StageLine(p, n, Gone) /\ x = Staged(n)
                           /\ v = Put(view, p, x)
  OBVIOUS
<1>3. nextIno' \in nextIno .. MaxIno /\ x # Nil /\ x \in SidesTo(nextIno') BY <1>1, <1>2, TakenIs
<1>4. \A t : Apply(t, line) = Touch(t, p, Gone, x) BY <1>2, StageLineIs
<1>5. Logged(line, v, store') BY <1>1, <1>2
<1>6. Given(v, view, p, x) BY <1>1, <1>2, CreateBare, PutGiven, Backings
<1>7. Gone = ViewAt(view, p) /\ Gone \in SidesTo(nextIno') BY <1>1 DEF ViewAt, SidesTo
<1>8. Still(tree, p) /\ "glue" \notin Env BY <1>1, StillIs
<1>9. (\A q \in DOMAIN start : start[q] # x) /\ (\A q \in DOMAIN view : view[q] # x)
  <2>1. ViewOK(view, nextIno) BY TypesAre DEF TypeInv, Typed
  <2>2. ViewOK(start, nextIno) BY DEF Reviewed, MayWork
  <2> QED BY <1>1, <1>2, <2>1, <2>2, FreshIs
<1> QED BY <1>3, <1>4, <1>5, <1>6, <1>7, <1>8, <1>9, TouchingReviewed

LEMMA CopyReviewed ==
  ASSUME TypeInv, Live, Reviewed, "glue" \notin Env, NEW p \in Paths, MayWork, Copy(p)
  PROVE  Reviewed'
<1>1. /\ nextIno < MaxIno /\ nextIno' = nextIno + 1 /\ store' = Put(store, nextIno', FALSE)
      /\ Logged(StageLine(p, nextIno', view[p]), Put(view, p, Staged(nextIno')), store')
      /\ p \in DOMAIN view /\ ~IsDir(p)
  BY DEF Copy
<1>2. PICK n, line, v, x, pre : /\ n = nextIno' /\ line = StageLine(p, n, pre) /\ x = Staged(n)
                                /\ v = Put(view, p, x) /\ pre = view[p]
  OBVIOUS
<1>3. nextIno' \in nextIno .. MaxIno /\ x # Nil /\ x \in SidesTo(nextIno') /\ pre \in SidesTo(nextIno') BY <1>1, <1>2, TakenIs
<1>4. \A t : Apply(t, line) = Touch(t, p, pre, x) BY <1>2, StageLineIs
<1>5. Logged(line, v, store') BY <1>1, <1>2
<1>6. Given(v, view, p, x) BY <1>1, <1>2, CreateBare, PutGiven, Backings
<1>7. pre = ViewAt(view, p) BY <1>1, <1>2 DEF ViewAt
<1>8. Still(tree, p) BY <1>1, CopyStill
<1>9. (\A q \in DOMAIN start : start[q] # x) /\ (\A q \in DOMAIN view : view[q] # x)
  <2>1. ViewOK(view, nextIno) BY TypesAre DEF TypeInv, Typed
  <2>2. ViewOK(start, nextIno) BY DEF Reviewed, MayWork
  <2> QED BY <1>1, <1>2, <2>1, <2>2, FreshIs
<1> QED BY <1>3, <1>4, <1>5, <1>6, <1>7, <1>8, <1>9, TouchingReviewed

LEMMA DeleteReviewed ==
  ASSUME TypeInv, Live, Reviewed, "glue" \notin Env, NEW p \in Paths, MayWork, DeleteEntry(p)
  PROVE  Reviewed'
<1>1. /\ p \in DOMAIN view /\ nextIno' = nextIno
      /\ Logged(DeleteLine(p, view[p]), Without(view, p), store)
  BY DEF DeleteEntry
<1>2. Typed(nextIno, cowFloor, store, view, tree, seg, pc, disk) BY TypesAre DEF TypeInv
<1>3. PICK line, v, pre : line = DeleteLine(p, pre) /\ v = Without(view, p) /\ pre = view[p] OBVIOUS
<1>4. nextIno' \in nextIno .. MaxIno BY <1>1, <1>2, CommitAssumption DEF Typed
<1>5. \A t : Apply(t, line) = Touch(t, p, pre, Gone) BY <1>3, DeleteLineIs
<1>6. Logged(line, v, store) BY <1>1, <1>3
<1>7. pre = ViewAt(view, p) BY <1>1, <1>3 DEF ViewAt
<1>8. pre \in SidesTo(nextIno') /\ Gone \in SidesTo(nextIno')
  BY <1>1, <1>2, <1>3 DEF Typed, ViewOK, SidesTo
<1>9. Given(v, view, p, Gone) BY <1>3, WithoutGiven
<1>10. Gone # Nil
  <2>1. Gone \in Sides BY DEF Sides, Unstaged
  <2> QED BY <2>1, SideIs
<1>11. (\A q \in DOMAIN start : start[q] # Gone) /\ (\A q \in DOMAIN view : view[q] # Gone)
  <2>1. ViewOK(view, nextIno) BY <1>2 DEF Typed
  <2>2. ViewOK(start, nextIno) BY DEF Reviewed, MayWork
  <2> QED BY <2>1, <2>2 DEF ViewOK
<1> QED BY <1>4, <1>5, <1>6, <1>7, <1>8, <1>9, <1>10, <1>11, TouchingReviewed

LEMMA RenameReviewed ==
  ASSUME TypeInv, Live, Reviewed, {"glue", "home", "replace"} \cap Env = {},
         NEW src \in Paths, NEW dst \in Paths, MayWork, Rename(src, dst)
  PROVE  Reviewed'
<1>1. PICK dstPre, rest, x, line :
        /\ dstPre = IF dst \in DOMAIN view THEN view[dst] ELSE Gone
        /\ rest = Put(Without(Without(view, dst), src), dst, view[src])
        /\ x = Over(Carried(view, src, dst), rest)
        /\ line = RenameLine(dst, src, view[src], dstPre)
  OBVIOUS
<1>2. /\ src # dst /\ src \in DOMAIN view /\ ~IsPrefix(src, dst) /\ ~IsPrefix(dst, src) /\ Fits(src, dst)
      /\ Logged(line, x, store) /\ nextIno' = nextIno /\ ~Home(src, dst) /\ ~Replaces(src, dst)
  BY <1>1, RenameApart DEF Rename
<1>3. Typed(nextIno, cowFloor, store, view, tree, seg, pc, disk) BY TypesAre DEF TypeInv
<1>4. PICK n, v, s, g, pre : n = nextIno /\ v = view /\ s = start /\ g = seg /\ pre = v[src] OBVIOUS
<1>5. ViewOK(v, n) /\ TreeTo(g, n) /\ nextIno' \in nextIno .. MaxIno
  BY <1>2, <1>3, <1>4, CommitAssumption DEF Typed
<1>6. Since(v, s, g) /\ ViewOK(s, n) /\ SegSays(g, tree) BY <1>4 DEF Reviewed, MayWork
<1>7. TreeTo(tree, n) BY <1>3, <1>4 DEF Typed
<1>8. ~IsPrefix(dst, src) BY <1>2
<1>9. x = Over(Carried(v, src, dst), Put(Without(Without(v, dst), src), dst, v[src])) /\ src \in DOMAIN v
  BY <1>1, <1>2, <1>4
<1>10. Carries(x, v, src, dst)
  <2>1. DOMAIN v \subseteq Seq(N) /\ src \in Seq(N) /\ dst \in Seq(N) BY <1>5, FrontPath DEF ViewOK
  <2> QED BY <1>9, <2>1, CarriesIs
<1>11. ViewOK(x, n)
  <2>1. Fitting(v, src, dst) BY <1>2, <1>4 DEF Fits, Fitting
  <2> QED BY <1>5, <1>9, <2>1, MovedView
<1>12. Once(x)
  <2>1. Once(v) BY <1>6 DEF Since
  <2> QED BY <1>5, <1>9, <1>10, <1>11, <2>1, CarriedOnce
<1>13. WasAt(dst) = WasIn(v, s, dst) BY <1>4 DEF WasAt, WasIn
<1>14. v[src] = Base(dst) => \E h \in WasIn(v, s, dst) : ViewAt(s, h) = Base(dst)
  BY <1>2, <1>4, <1>13 DEF Home
<1>15. v[src] # Base(dst) /\ At(g, src).old # Nil => WasIn(v, s, dst) \cap DOMAIN s = {}
  BY <1>2, <1>4, <1>13 DEF Replaces
<1>16. PICK u : u = ApplyRename(g, dst, src, pre, dstPre) OBVIOUS
<1>17. /\ \A t : Apply(t, line) = ApplyRename(t, dst, src, pre, dstPre)
       /\ dstPre = ViewAt(v, dst) /\ pre \in SidesTo(n) /\ dstPre \in SidesTo(n)
  BY <1>1, <1>2, <1>4, <1>5, RenameLineIs DEF ViewAt, ViewOK, SidesTo
<1>18. Retold(u, g, src, dst, FirstOf(At(g, src).old, v[src]),
              IF IsSelfRedirect(v[src], dst) THEN Scaffold
              ELSE Node(FirstOf(FirstOf(At(g, src).old, At(g, dst).old), dstPre), v[src]))
  BY <1>2, <1>4, <1>5, <1>8, <1>16, <1>17, RetoldIs
<1>19. \A p \in Everywhere : Told(x, s, u, p)
  BY <1>2, <1>5, <1>6, <1>8, <1>9, <1>10, <1>14, <1>15, <1>17, <1>18, CarriedSince
<1>20. Since(x, s, u) BY <1>6, <1>12, <1>19 DEF Since
<1>21. Since(x, start, Apply(seg, line)) BY <1>4, <1>16, <1>17, <1>20
<1>22. "glue" \notin Env OBVIOUS
<1>23. SegSays(Apply(seg, line), Apply(tree, line))
  <2>1. PICK t, z : t = tree /\ z = ApplyRename(t, dst, src, pre, dstPre) OBVIOUS
  <2>2. NewShifted(u, g, src, dst, pre)
    BY <1>2, <1>5, <1>8, <1>16, <1>17, NewShiftedIs
  <2>3. NewShifted(z, t, src, dst, pre)
    BY <1>2, <1>7, <1>8, <1>17, <2>1, NewShiftedIs
  <2>4. SegSays(g, t) /\ DOMAIN g \subseteq Paths BY <1>5, <1>6, <2>1 DEF TreeTo
  <2>5. \A q : At(g, q).new # Nil => At(t, q).new = At(g, q).new
    BY <2>4 DEF SegSays, At, Scaffold, Node
  <2>6. ASSUME NEW q \in Paths, At(u, q).new # Nil PROVE At(z, q).new = At(u, q).new
    <3>1. CASE IsStrictPrefix(dst, q) BY <2>2, <2>3, <2>5, <2>6, <3>1 DEF NewShifted
    <3>2. CASE q = dst BY <2>2, <2>3, <3>2 DEF NewShifted
    <3>3. CASE q = src BY <2>2, <2>3, <3>3 DEF NewShifted
    <3>4. CASE ~IsPrefix(dst, q) /\ q # src BY <2>2, <2>3, <2>5, <2>6, <3>4 DEF NewShifted
    <3> QED BY <3>1, <3>2, <3>3, <3>4 DEF IsStrictPrefix
  <2>7. SegSays(u, z) BY <2>6 DEF SegSays
  <2> QED BY <1>4, <1>16, <1>17, <2>1, <2>7
<1> QED BY <1>2, <1>5, <1>21, <1>22, <1>23, LoggedReviewed

\* The base view is a start.
LEMMA BareSince ==
  ASSUME NEW d, DiskOK(d), NEW v, v = Restored(Empty, d), NEW n
  PROVE  Since(v, v, Empty) /\ ViewOK(v, n)
<1>1. ViewOK(v, n) BY BareTypes
<1>2. \A p \in DOMAIN v : v[p] = Base(p) /\ (Len(p) = 1 \/ Front(p) \in DOMAIN v) BY BareView
<1>3. \A p, q \in DOMAIN v : v[p] = v[q] => p = q
  <2>1. \A p \in DOMAIN v : v[p].path = p BY <1>2, Backings
  <2> QED BY <2>1
<1>4. Once(v) /\ Grounded(v) BY <1>2, <1>3 DEF Once, Grounded
<1> QED BY <1>1, <1>4, SinceStart

LEMMA EmptySays == \A t : SegSays(Empty, t)
BY EmptyTree DEF SegSays, At, Scaffold, Node

LEMMA StepReviewed ==
  ASSUME TypeInv, Live, Reviewed, {"glue", "home", "replace", "revive"} \cap Env = {}, [Next]_vars
  PROVE  Reviewed'
<1>1. Typed(nextIno, cowFloor, store, view, tree, seg, pc, disk) BY TypesAre DEF TypeInv
<1>2. "glue" \notin Env /\ {"glue", "revive"} \cap Env = {} OBVIOUS
<1>3. ASSUME NEW p \in Paths, MayWork, Create(p, TRUE) \/ Create(p, FALSE) PROVE Reviewed'
  <2>1. TRUE \in BOOLEAN /\ FALSE \in BOOLEAN OBVIOUS
  <2> QED BY <1>2, <1>3, <2>1, CreateReviewed
<1>4. CASE Work BY <1>2, <1>3, <1>4, CopyReviewed, DeleteReviewed, RenameReviewed DEF Work
<1>5. CASE UNCHANGED <<view, start, seg, tree, nextIno>> /\ (pc' \in {"live", "read"} => pc \in {"live", "read"})
  BY <1>5 DEF Reviewed
<1>6. CASE Snapshot
  <2>1. /\ pc = "live" /\ pc' = pc /\ seg' = Empty /\ start' = view /\ view' = view /\ nextIno' = nextIno
    BY <1>6 DEF Snapshot, cli
  <2>2. ViewOK(view, nextIno) /\ Tidy(view, disk, store) /\ Once(view)
    BY <1>1, <2>1 DEF Typed, Live, Shows, Reviewed, Since
  <2>3. Grounded(view) BY <2>2, GroundedIs DEF ViewOK
  <2>4. Since(view, view, Empty) /\ SegSays(Empty, tree') BY <2>2, <2>3, SinceStart, EmptySays
  <2> QED BY <2>1, <2>2, <2>4 DEF Reviewed
<1>7. CASE CommitRead BY <1>5, <1>7 DEF CommitRead, journal
<1>8. CASE CommitRestore
  <2>1. \/ pc' = "apply"
        \/ /\ pc' = (IF pc = "read" THEN "live" ELSE "failed")
           /\ UNCHANGED <<view, seg, start, tree, nextIno>>
    BY <1>8 DEF CommitRestore
  <2>2. CASE pc' = "apply" BY <2>2 DEF Reviewed
  <2>3. CASE pc' = (IF pc = "read" THEN "live" ELSE "failed") /\ UNCHANGED <<view, seg, start, tree, nextIno>>
    BY <1>5, <2>3
  <2> QED BY <2>1, <2>2, <2>3
<1>9. CASE ApplyOp
  <2>1. DiskOK(disk) BY <1>1 DEF Typed
  <2>2. pc' \in {"apply", "stuck"} BY <1>9, <2>1, ApplyOpOK DEF TypeInv, Sound
  <2> QED BY <2>2 DEF Reviewed
<1>10. CASE Interrupt BY <1>10 DEF Interrupt, Reviewed
<1>11. CASE CommitDone BY <1>11 DEF CommitDone, Reviewed
<1>12. CASE ClearStore BY <1>12 DEF ClearStore, Reviewed
<1>13. CASE Truncate
  <2>1. view' = Restored(Empty, disk) /\ seg' = Empty /\ start' = view'
    BY <1>13 DEF Truncate, LeaveView
  <2>2. DiskOK(disk) BY <1>1 DEF Typed
  <2>3. Since(view', view', Empty) /\ ViewOK(view', nextIno') /\ SegSays(Empty, tree')
    BY <2>1, <2>2, BareSince, EmptySays
  <2> QED BY <2>1, <2>3 DEF Reviewed
<1>14. CASE Abort BY <1>14 DEF Abort, Reviewed
<1>15. CASE UNCHANGED vars BY <1>5, <1>15 DEF vars, journal, cli
<1> QED BY <1>4, <1>6, <1>7, <1>8, <1>9, <1>10, <1>11, <1>12, <1>13, <1>14, <1>15 DEF Next

LEMMA InitReviewed == Init => Reviewed
<1> SUFFICES ASSUME Init PROVE Reviewed OBVIOUS
<1>1. DiskOK(disk) BY InitTypes, TypesAre DEF TypeInv, Typed
<1>2. view = Restored(Empty, disk) /\ seg = Empty /\ start = view BY DEF Init
<1> QED BY <1>1, <1>2, BareSince, EmptySays DEF Reviewed

-----------------------------------------------------------------------------
(* The order of a plan.                                                    *)

\* No two members in an order that is not allowed.
InOrder(s, Bad) == \A i, j \in DOMAIN s : i < j => <<s[i], s[j]>> \notin Bad

LEMMA ConcatOrdered ==
  ASSUME NEW S, NEW a \in Seq(S), NEW b \in Seq(S), NEW Bad, InOrder(a, Bad), InOrder(b, Bad),
         \A x \in Range(a), y \in Range(b) : <<x, y>> \notin Bad
  PROVE  InOrder(a \o b, Bad)
<1>1. Len(a) \in Nat /\ Len(b) \in Nat /\ DOMAIN a = 1 .. Len(a) /\ DOMAIN b = 1 .. Len(b)
  BY LenProperties
<1>2. PICK c : c = a \o b OBVIOUS
<1>3. /\ c \in Seq(S) /\ Len(c) = Len(a) + Len(b) /\ DOMAIN c = 1 .. Len(a) + Len(b)
      /\ \A i \in 1 .. Len(a) + Len(b) : c[i] = IF i <= Len(a) THEN a[i] ELSE b[i - Len(a)]
  BY <1>2, ConcatProperties, LenProperties
<1>4. ASSUME NEW i \in DOMAIN c, NEW j \in DOMAIN c, i < j PROVE <<c[i], c[j]>> \notin Bad
  <2>1. CASE j <= Len(a)
    <3>1. i \in DOMAIN a /\ j \in DOMAIN a /\ c[i] = a[i] /\ c[j] = a[j] BY <1>1, <1>3, <1>4, <2>1
    <3> QED BY <1>4, <3>1 DEF InOrder
  <2>2. CASE ~(i <= Len(a))
    <3>1. PICK k, l : k = i - Len(a) /\ l = j - Len(a) OBVIOUS
    <3>2. k \in DOMAIN b /\ l \in DOMAIN b /\ k < l /\ c[i] = b[k] /\ c[j] = b[l]
      BY <1>1, <1>3, <1>4, <2>2, <3>1
    <3> QED BY <3>2 DEF InOrder
  <2>3. CASE i <= Len(a) /\ ~(j <= Len(a))
    <3>1. PICK l : l = j - Len(a) OBVIOUS
    <3>2. i \in DOMAIN a /\ l \in DOMAIN b /\ c[i] = a[i] /\ c[j] = b[l] BY <1>1, <1>3, <2>3, <3>1
    <3> QED BY <3>2 DEF Range
  <2> QED BY <1>1, <1>3, <1>4, <2>1, <2>2, <2>3
<1> QED BY <1>2, <1>4 DEF InOrder

LEMMA FlattenOrdered ==
  ASSUME NEW S, NEW s \in Seq(Seq(S)), NEW Bad, \A i \in DOMAIN s : InOrder(s[i], Bad),
         \A i, j \in DOMAIN s : i < j => \A x \in Range(s[i]), y \in Range(s[j]) : <<x, y>> \notin Bad
  PROVE  InOrder(FlattenSeq(s), Bad)
<1>1. Len(s) \in Nat /\ DOMAIN s = 1 .. Len(s) /\ \A i \in 1 .. Len(s) : s[i] \in Seq(S)
  BY LenProperties, ElementOfSeq
<1>2. CASE Len(s) = 0
  <2>1. s = << >> BY <1>2, EmptySeq
  <2>2. FlattenSeq(s) = << >> BY <1>2, <2>1, FlattenIs
  <2> QED BY <2>2 DEF InOrder
<1>3. CASE Len(s) # 0
  <2>1. PICK F : F = Flat(s) OBVIOUS
  <2>2. F[1] = s[1] /\ \A i \in 2 .. Len(s) : F[i] = F[i - 1] \o s[i]
    BY <1>1, <1>3, <2>1, FlatEq
  <2> DEFINE Fine(n) == /\ F[n] \in Seq(S) /\ InOrder(F[n], Bad)
                        /\ \A x : x \in Range(F[n]) <=> \E i \in 1 .. n : x \in Range(s[i])
             T == {n \in Nat : n = 0 \/ Fine(n)}
  <2>3. 0 \in T OBVIOUS
  <2>4. ASSUME NEW m \in 0 .. Len(s) - 1, m \in T PROVE m + 1 \in T
    <3>1. s[m + 1] \in Seq(S) /\ m + 1 \in DOMAIN s /\ InOrder(s[m + 1], Bad)
      <4>1. m + 1 \in 1 .. Len(s) BY <1>1
      <4> QED BY <1>1, <4>1
    <3>2. CASE m = 0
      <4>1. F[1] = s[1] /\ 1 .. 1 = {1} BY <2>2
      <4>2. Fine(1) BY <3>1, <3>2, <4>1
      <4> HIDE DEF Fine
      <4> QED BY <3>2, <4>2
    <3>3. CASE m # 0
      <4>1. Fine(m) BY <2>4, <3>3
      <4>2. F[m + 1] = F[m] \o s[m + 1]
        <5>1. m + 1 \in 2 .. Len(s) /\ (m + 1) - 1 = m BY <1>1, <3>3
        <5> QED BY <2>2, <5>1
      <4>3. F[m + 1] \in Seq(S) /\ Range(F[m + 1]) = Range(F[m]) \cup Range(s[m + 1])
        BY <3>1, <4>1, <4>2, ConcatProperties, RangeConcatenation
      <4>4. 1 .. m + 1 = (1 .. m) \cup {m + 1} BY <1>1
      <4>5. \A x : x \in Range(F[m + 1]) <=> \E i \in 1 .. m + 1 : x \in Range(s[i])
        BY <4>1, <4>3, <4>4
      <4>6. \A x \in Range(F[m]), y \in Range(s[m + 1]) : <<x, y>> \notin Bad
        <5>1. \A i \in 1 .. m : i \in DOMAIN s /\ i < m + 1 BY <1>1
        <5> QED BY <3>1, <4>1, <5>1
      <4>7. InOrder(F[m + 1], Bad) BY <3>1, <4>1, <4>2, <4>6, ConcatOrdered
      <4>8. Fine(m + 1) BY <4>3, <4>5, <4>7
      <4> HIDE DEF Fine
      <4> QED BY <4>8
    <3> QED BY <3>2, <3>3
  <2>5. Fine(Len(s))
    <3> HIDE DEF Fine
    <3>1. 0 .. Len(s) \subseteq T
      <4> HIDE DEF T
      <4> QED BY <1>1, <2>3, <2>4, UpTo
    <3>2. Len(s) \in T BY <1>1, <3>1
    <3> QED BY <1>3, <3>2
  <2> QED BY <1>1, <1>3, <2>1, <2>5, FlattenIs
<1> QED BY <1>2, <1>3

LEMMA ChosenOrdered ==
  ASSUME NEW S, NEW s \in Seq(S), NEW T, NEW Bad, InOrder(s, Bad)
  PROVE  InOrder(Chosen(s, T), Bad)
<1>1. Len(s) \in Nat /\ DOMAIN s = 1 .. Len(s) /\ \A i \in 1 .. Len(s) : s[i] \in S
  BY LenProperties, ElementOfSeq
<1>2. PICK f : f = [i \in DOMAIN s |-> IF s[i] \in T THEN << s[i] >> ELSE << >>] OBVIOUS
<1>3. \A i \in 1 .. Len(s) : f[i] \in Seq(S) BY <1>1, <1>2
<1>4. f \in Seq(Seq(S)) /\ DOMAIN f = 1 .. Len(s) BY <1>1, <1>2, <1>3, SeqDef
<1>5. \A i \in DOMAIN f : InOrder(f[i], Bad)
  <2>1. InOrder(<< >>, Bad) /\ \A x : InOrder(<< x >>, Bad)
    <3>1. \A x : Len(<< x >>) = 1 /\ DOMAIN << x >> = {1} OBVIOUS
    <3> QED BY <3>1 DEF InOrder
  <2> QED BY <1>1, <1>2, <1>4, <2>1
<1>6. Range(<< >>) = {} /\ \A x : Range(<< x >>) = {x} BY DEF Range
<1>7. ASSUME NEW i \in DOMAIN f, NEW j \in DOMAIN f, i < j, NEW x \in Range(f[i]), NEW y \in Range(f[j])
      PROVE  <<x, y>> \notin Bad
  <2>1. x = s[i] /\ y = s[j] BY <1>1, <1>2, <1>4, <1>6, <1>7
  <2> QED BY <1>1, <1>4, <1>7, <2>1 DEF InOrder
<1>8. InOrder(FlattenSeq(f), Bad) BY <1>4, <1>5, <1>7, FlattenOrdered
<1> QED BY <1>2, <1>8 DEF Chosen

\* A path before one above it, or twice.
Above == {e \in Seq(N) \X Seq(N) : IsPrefix(e[2], e[1])}

LEMMA DeeperOrdered ==
  ASSUME NEW d \in Nat, NEW b \in Seq(Within(d)), InOrder(b, Above)
  PROVE  InOrder(Deeper(b), Above)
<1>1. /\ DOMAIN Names = 1 .. Len(Names) /\ Len(Names) \in Nat /\ \A i \in DOMAIN Names : Names[i] \in N
      /\ \A i, j \in DOMAIN Names : Names[i] = Names[j] => i = j
  BY DirTreeAssumption, LenProperties DEF N, Range
<1>2. /\ DOMAIN b = 1 .. Len(b) /\ Len(b) \in Nat
      /\ \A k \in DOMAIN b : b[k] \in Seq(N) /\ Len(b[k]) \in 1 .. d
  BY LenProperties, ElementOfSeq DEF Within
<1>3. ASSUME NEW x \in N, NEW p \in Seq(N)
      PROVE  /\ <<x>> \o p \in Seq(N) /\ Len(<<x>> \o p) = Len(p) + 1 /\ (<<x>> \o p)[1] = x
             /\ \A i \in 1 .. Len(p) : (<<x>> \o p)[i + 1] = p[i]
             /\ <<x>> \in Seq(N) /\ Len(<<x>>) = 1 /\ <<x>>[1] = x
  <2>1. <<x>> \in Seq(N) /\ Len(<<x>>) = 1 /\ <<x>>[1] = x OBVIOUS
  <2>2. Len(p) \in Nat BY LenProperties
  <2>3. PICK r : r = <<x>> \o p OBVIOUS
  <2>4. /\ r \in Seq(N) /\ Len(r) = 1 + Len(p)
        /\ \A i \in 1 .. 1 + Len(p) : r[i] = IF i <= 1 THEN <<x>>[i] ELSE p[i - 1]
    BY <2>1, <2>3, ConcatProperties
  <2>5. \A i \in 1 .. Len(p) : i + 1 \in 1 .. 1 + Len(p) /\ ~(i + 1 <= 1) /\ (i + 1) - 1 = i BY <2>2
  <2>6. 1 \in 1 .. 1 + Len(p) BY <2>2
  <2> QED BY <2>1, <2>2, <2>3, <2>4, <2>5, <2>6
<1>4. PICK f : f = [i \in DOMAIN Names |->
                      << <<Names[i]>> >> \o [k \in DOMAIN b |-> <<Names[i]>> \o b[k]]]
  OBVIOUS
<1>5. ASSUME NEW i \in DOMAIN Names
      PROVE  /\ f[i] \in Seq(Seq(N)) /\ InOrder(f[i], Above)
             /\ \A p \in Range(f[i]) : Len(p) \in Nat \ {0} /\ p[1] = Names[i] /\ p \in Seq(N)
  <2>1. PICK x \in N : x = Names[i] BY <1>1
  <2>2. PICK g : g = [k \in DOMAIN b |-> <<x>> \o b[k]] OBVIOUS
  <2>3. \A k \in DOMAIN b : g[k] \in Seq(N) /\ Len(g[k]) = Len(b[k]) + 1 /\ g[k][1] = x
    BY <1>2, <1>3, <2>2
  <2>4. g \in Seq(Seq(N)) /\ DOMAIN g = DOMAIN b
    <3>1. PICK n \in Nat : n = Len(b) BY <1>2
    <3>2. g = [k \in 1 .. n |-> g[k]] /\ \A k \in 1 .. n : g[k] \in Seq(N) BY <1>2, <2>2, <2>3, <3>1
    <3> QED BY <1>2, <3>1, <3>2, SeqFrom
  <2>5. ASSUME NEW k \in DOMAIN b, NEW l \in DOMAIN b, k < l PROVE <<g[k], g[l]>> \notin Above
    <3>1. SUFFICES ASSUME IsPrefix(g[l], g[k]) PROVE FALSE BY <2>3 DEF Above
    <3>2. g[k] = <<x>> \o b[k] /\ g[l] = <<x>> \o b[l] BY <2>2
    <3>3. /\ Len(b[l]) + 1 <= Len(b[k]) + 1
          /\ \A j \in 1 .. Len(b[l]) + 1 : g[l][j] = g[k][j]
      BY <2>3, <3>1, PrefixIs
    <3>4. Len(b[l]) \in Nat /\ Len(b[k]) \in Nat BY <1>2, LenProperties
    <3>5. ASSUME NEW j \in 1 .. Len(b[l]) PROVE b[l][j] = b[k][j]
      <4>1. j + 1 \in 1 .. Len(b[l]) + 1 /\ j \in 1 .. Len(b[k]) BY <3>3, <3>4
      <4>2. g[l][j + 1] = b[l][j] BY <1>2, <1>3, <3>2
      <4>3. g[k][j + 1] = b[k][j] BY <1>2, <1>3, <3>2, <4>1
      <4> QED BY <3>3, <4>1, <4>2, <4>3
    <3>6. IsPrefix(b[l], b[k]) BY <1>2, <3>3, <3>4, <3>5, PrefixIs
    <3>7. <<b[k], b[l]>> \in Above BY <1>2, <3>6 DEF Above
    <3> QED BY <2>5, <3>7 DEF InOrder
  <2>6. PICK h : h = << <<x>> >> OBVIOUS
  <2>7. /\ h \in Seq(Seq(N)) /\ Range(h) = {<<x>>} /\ DOMAIN h = {1}
    <3>1. <<x>> \in Seq(N) OBVIOUS
    <3> QED BY <2>6, <3>1 DEF Range
  <2>8. InOrder(h, Above) /\ InOrder(g, Above) BY <2>4, <2>5, <2>7 DEF InOrder
  <2>9. \A p \in Range(g) : \E k \in DOMAIN b : p = g[k] BY <2>2 DEF Range
  <2>10. ASSUME NEW p \in Range(h), NEW q \in Range(g) PROVE <<p, q>> \notin Above
    <3>1. PICK k \in DOMAIN b : q = g[k] BY <2>9
    <3>2. p = <<x>> /\ Len(q) = Len(b[k]) + 1 /\ q \in Seq(N) BY <2>3, <2>7, <3>1
    <3>3. Len(b[k]) \in 1 .. d /\ Len(p) = 1 /\ p \in Seq(N) BY <1>2, <3>2
    <3>4. ~(Len(q) <= Len(p)) BY <3>2, <3>3
    <3> QED BY <3>2, <3>3, <3>4, PrefixIs DEF Above
  <2>11. f[i] = h \o g BY <1>4, <2>1, <2>2, <2>6
  <2>12. InOrder(f[i], Above) BY <2>4, <2>7, <2>8, <2>10, <2>11, ConcatOrdered
  <2>13. f[i] \in Seq(Seq(N)) /\ Range(f[i]) = Range(h) \cup Range(g)
    BY <2>4, <2>7, <2>11, ConcatProperties, RangeConcatenation
  <2>14. ASSUME NEW p \in Range(f[i]) PROVE Len(p) \in Nat \ {0} /\ p[1] = Names[i] /\ p \in Seq(N)
    <3>1. CASE p \in Range(h)
      <4>1. p = <<x>> BY <2>7, <3>1
      <4>2. <<x>> \in Seq(N) /\ Len(<<x>>) = 1 /\ <<x>>[1] = x OBVIOUS
      <4> QED BY <2>1, <4>1, <4>2
    <3>2. CASE p \in Range(g)
      <4>1. PICK k \in DOMAIN b : p = g[k] BY <2>9, <3>2
      <4>2. Len(b[k]) \in Nat BY <1>2, LenProperties
      <4> QED BY <2>1, <2>3, <4>1, <4>2
    <3> QED BY <2>13, <3>1, <3>2
  <2> QED BY <2>12, <2>13, <2>14
<1>6. f \in Seq(Seq(Seq(N))) /\ DOMAIN f = DOMAIN Names
  <2>1. PICK n \in Nat : n = Len(Names) BY <1>1
  <2>2. f = [k \in 1 .. n |-> f[k]] /\ \A k \in 1 .. n : f[k] \in Seq(Seq(N)) BY <1>1, <1>4, <1>5, <2>1
  <2> QED BY <1>1, <2>1, <2>2, SeqFrom
<1>7. ASSUME NEW i \in DOMAIN f, NEW j \in DOMAIN f, i < j, NEW p \in Range(f[i]), NEW q \in Range(f[j])
      PROVE  <<p, q>> \notin Above
  <2>1. /\ Len(q) \in Nat \ {0} /\ p \in Seq(N) /\ q \in Seq(N)
        /\ p[1] = Names[i] /\ q[1] = Names[j]
    BY <1>5, <1>6
  <2>2. i # j BY <1>1, <1>6, <1>7
  <2>3. p[1] # q[1] BY <1>1, <1>6, <2>1, <2>2
  <2>4. 1 \in 1 .. Len(q) BY <2>1
  <2>5. ~IsPrefix(q, p) BY <2>1, <2>3, <2>4, PrefixIs
  <2> QED BY <2>5 DEF Above
<1>8. InOrder(FlattenSeq(f), Above) BY <1>5, <1>6, <1>7, FlattenOrdered
<1>9. Deeper(b) = FlattenSeq(f) BY <1>4 DEF Deeper
<1> QED BY <1>8, <1>9

LEMMA DfsOrdered == InOrder(DfsPaths, Above)
<1>1. Depth \in Nat BY DirTreeAssumption
<1> DEFINE Fine(d) == Walk[d] \in Seq(Within(d)) /\ Range(Walk[d]) = Within(d) /\ InOrder(Walk[d], Above)
           T == {d \in Nat : Fine(d)}
<1>2. 0 \in T
  <2>1. Within(0) = {} BY DEF Within
  <2>2. Range(<< >>) = {} /\ InOrder(<< >>, Above) BY DEF Range, InOrder
  <2> QED BY <2>1, <2>2, WalkEq, EmptySeq
<1>3. ASSUME NEW m \in 0 .. Depth - 1, m \in T PROVE m + 1 \in T
  <2>1. Fine(m) BY <1>3
  <2>2. m + 1 \in 1 .. Depth /\ (m + 1) - 1 = m BY <1>1
  <2>3. Walk[m + 1] = Deeper(Walk[m]) BY <2>2, WalkEq
  <2>4. Fine(m + 1) BY <1>1, <2>1, <2>3, DeeperIs, DeeperOrdered
  <2> HIDE DEF Fine
  <2> QED BY <2>4
<1>4. Depth \in T
  <2> HIDE DEF T
  <2>1. 0 .. Depth \subseteq T BY <1>1, <1>2, <1>3, UpTo
  <2> QED BY <1>1, <2>1
<1> QED BY <1>4, DfsIs

\* Parents before children in the places and the writes; in the saves the
\* deeper source first; no node twice.
Source(t, p) == t[p].new.path
Shallower(t) == {e \in Paths \X Paths : e[1] = e[2] \/ Len(Source(t, e[1])) < Len(Source(t, e[2]))}

LEMMA PlanOrdered ==
  ASSUME NEW t, IsTree(t)
  PROVE  /\ InOrder(Renames(t), Above) /\ InOrder(Writes(t), Above)
         /\ InOrder(Saves(t), Shallower(t))
<1>1. InOrder(Collected(t), Above) BY DfsPathsAre, DfsOrdered, ChosenOrdered DEF Collected
<1>2. Collected(t) \in Seq(Paths) BY CollectedIs DEF IsTree
<1>3. InOrder(Renames(t), Above) BY <1>1, <1>2, ChosenOrdered DEF Renames
<1>4. InOrder(Writes(t), Above) BY <1>1, <1>2, ChosenOrdered DEF Writes
<1>5. PICK R : R = Renames(t) OBVIOUS
<1>6. R \in Seq(Paths) BY <1>5, RenamesSaved
<1>7. PICK level : level = [n \in 1 .. Depth |-> {p \in Range(R) : Len(t[p].new.path) = Depth + 1 - n}]
  OBVIOUS
<1>8. PICK f : f = [n \in 1 .. Depth |-> Chosen(R, level[n])] OBVIOUS
<1>9. Saves(t) = FlattenSeq(f) BY <1>5, <1>7, <1>8 DEF Saves, SavesFirst
<1>10. Depth \in Nat BY DirTreeAssumption
<1>11. \A p \in Paths : <<p, p>> \in Above BY PathsAre, PrefixSelf DEF Above
<1>12. \A i, j \in DOMAIN R : i < j => R[i] # R[j]
  <2> SUFFICES ASSUME NEW i \in DOMAIN R, NEW j \in DOMAIN R, i < j PROVE R[i] # R[j]
    OBVIOUS
  <2>1. R[i] \in Paths BY <1>6, LenProperties, ElementOfSeq
  <2> QED BY <1>3, <1>5, <1>11, <2>1 DEF InOrder
<1>13. ASSUME NEW n \in 1 .. Depth
       PROVE  /\ f[n] \in Seq(Paths) /\ Range(f[n]) \subseteq level[n] /\ InOrder(f[n], {<<p, p>> : p \in Paths})
  <2>1. f[n] = Chosen(R, level[n]) BY <1>8
  <2>2. f[n] \in Seq(Paths) /\ Range(f[n]) \subseteq level[n] BY <1>6, <2>1, ChosenIs
  <2>3. InOrder(R, {<<p, p>> : p \in Paths}) BY <1>12 DEF InOrder
  <2> QED BY <1>6, <2>1, <2>2, <2>3, ChosenOrdered
<1>14. ASSUME NEW n \in 1 .. Depth PROVE InOrder(f[n], Shallower(t))
  <2> SUFFICES ASSUME NEW i \in DOMAIN f[n], NEW j \in DOMAIN f[n], i < j
               PROVE  <<f[n][i], f[n][j]>> \notin Shallower(t)
    BY DEF InOrder
  <2>1. f[n][i] \in Range(f[n]) /\ f[n][j] \in Range(f[n]) BY DEF Range
  <2>2. Len(t[f[n][i]].new.path) = Depth + 1 - n /\ Len(t[f[n][j]].new.path) = Depth + 1 - n
    BY <1>7, <1>13, <2>1
  <2>3. ~(Depth + 1 - n < Depth + 1 - n) BY <1>10
  <2>4. f[n][i] # f[n][j]
    <3>1. f[n][i] \in Paths BY <1>13, LenProperties, ElementOfSeq
    <3>2. <<f[n][i], f[n][j]>> \notin {<<p, p>> : p \in Paths} BY <1>13 DEF InOrder
    <3> QED BY <3>1, <3>2
  <2> QED BY <2>2, <2>3, <2>4 DEF Shallower, Source
<1>15. f \in Seq(Seq(Paths)) /\ DOMAIN f = 1 .. Depth
  <2>1. f = [n \in 1 .. Depth |-> f[n]] BY <1>8
  <2> QED BY <1>10, <1>13, <2>1, SeqFrom
<1>16. ASSUME NEW i \in 1 .. Depth, NEW j \in 1 .. Depth, i < j,
              NEW p \in Range(f[i]), NEW q \in Range(f[j])
       PROVE  <<p, q>> \notin Shallower(t)
  <2>1. Len(Source(t, p)) = Depth + 1 - i /\ Len(Source(t, q)) = Depth + 1 - j
    BY <1>7, <1>13 DEF Source
  <2>2. Depth + 1 - j < Depth + 1 - i BY <1>10, <1>16
  <2>3. Len(Source(t, q)) < Len(Source(t, p)) /\ Len(Source(t, p)) \in Int /\ Len(Source(t, q)) \in Int
    BY <1>10, <2>1, <2>2
  <2>4. ~(Len(Source(t, p)) < Len(Source(t, q))) /\ p # q BY <2>3
  <2> QED BY <2>4 DEF Shallower
<1>17. InOrder(Saves(t), Shallower(t)) BY <1>9, <1>14, <1>15, <1>16, FlattenOrdered
<1> QED BY <1>3, <1>4, <1>17

\* What is written at a node that is no rename.
WriteOf(t, p) == IF t[p].new = Gone THEN Delete(p) ELSE Stage(p, t[p].new.ino)

LEMMA PlanAt ==
  ASSUME NEW t, IsTree(t), nextIno \in Nat, NEW s, NEW r, NEW w,
         s = Saves(t), r = Renames(t), w = Writes(t)
  PROVE  /\ IntoPlan(t) \in Seq(Ops) /\ Len(IntoPlan(t)) = Len(s) + Len(r) + Len(w)
         /\ s \in Seq(Paths) /\ r \in Seq(Paths) /\ w \in Seq(Paths)
         /\ \A n \in 1 .. Len(s) : IntoPlan(t)[n] = Move(Temp(n), Source(t, s[n]))
         /\ \A n \in 1 .. Len(r) : IntoPlan(t)[Len(s) + n] = Move(r[n], TempOf(t, r[n]))
         /\ \A n \in 1 .. Len(w) : \A m : m = Len(s) + Len(r) + n => IntoPlan(t)[m] = WriteOf(t, w[n])
<1>1. s \in Seq(Paths) /\ r \in Seq(Paths) /\ w \in Seq(Paths) BY RenamesSaved
<1>2. PICK i, j, k : i = Len(s) /\ j = Len(r) /\ k = Len(w) OBVIOUS
<1>3. /\ i \in Nat /\ j \in Nat /\ k \in Nat
      /\ DOMAIN s = 1 .. i /\ DOMAIN r = 1 .. j /\ DOMAIN w = 1 .. k
  BY <1>1, <1>2, LenProperties
<1>4. PICK a, b, c :
        /\ a = [n \in 1 .. i |-> Move(Temp(n), Source(t, s[n]))]
        /\ b = [n \in 1 .. j |-> Move(r[n], TempOf(t, r[n]))]
        /\ c = [n \in 1 .. k |-> WriteOf(t, w[n])]
  OBVIOUS
<1>5. IntoPlan(t) = a \o b \o c BY <1>3, <1>4, PlanIs DEF Source, WriteOf
<1>6. PICK X : X = {a[n] : n \in 1 .. i} \cup {b[n] : n \in 1 .. j} \cup {c[n] : n \in 1 .. k} OBVIOUS
<1>7. a \in Seq(X) /\ Len(a) = i /\ b \in Seq(X) /\ Len(b) = j /\ c \in Seq(X) /\ Len(c) = k
  <2>1. a = [n \in 1 .. i |-> a[n]] /\ \A n \in 1 .. i : a[n] \in X BY <1>4, <1>6
  <2>2. b = [n \in 1 .. j |-> b[n]] /\ \A n \in 1 .. j : b[n] \in X BY <1>4, <1>6
  <2>3. c = [n \in 1 .. k |-> c[n]] /\ \A n \in 1 .. k : c[n] \in X BY <1>4, <1>6
  <2>4. a \in Seq(X) /\ Len(a) = i BY <1>3, <2>1, SeqFrom
  <2>5. b \in Seq(X) /\ Len(b) = j BY <1>3, <2>2, SeqFrom
  <2>6. c \in Seq(X) /\ Len(c) = k BY <1>3, <2>3, SeqFrom
  <2> QED BY <2>4, <2>5, <2>6
<1>8. PICK ab : ab = a \o b OBVIOUS
<1>9. /\ ab \in Seq(X) /\ Len(ab) = i + j
      /\ \A n \in 1 .. i + j : ab[n] = IF n <= i THEN a[n] ELSE b[n - i]
  BY <1>7, <1>8, ConcatProperties
<1>10. PICK P : P = ab \o c OBVIOUS
<1>11. /\ Len(P) = i + j + k
       /\ \A n \in 1 .. i + j + k : P[n] = IF n <= i + j THEN ab[n] ELSE c[n - (i + j)]
  BY <1>7, <1>9, <1>10, ConcatProperties
<1>12. P = IntoPlan(t) BY <1>5, <1>8, <1>10
<1>13. ASSUME NEW n \in 1 .. i PROVE P[n] = a[n]
  <2>1. n \in 1 .. i + j + k /\ n \in 1 .. i + j /\ n <= i + j /\ n <= i BY <1>3
  <2> QED BY <1>9, <1>11, <2>1
<1>14. ASSUME NEW n \in 1 .. j PROVE P[i + n] = b[n]
  <2>1. PICK m : m = i + n OBVIOUS
  <2>2. m \in 1 .. i + j + k /\ m \in 1 .. i + j /\ m <= i + j /\ ~(m <= i) /\ m - i = n
    BY <1>3, <2>1
  <2> QED BY <1>9, <1>11, <2>1, <2>2
<1>15. ASSUME NEW n \in 1 .. k PROVE P[i + j + n] = c[n]
  <2>1. PICK m : m = i + j + n OBVIOUS
  <2>2. m \in 1 .. i + j + k /\ ~(m <= i + j) /\ m - (i + j) = n BY <1>3, <2>1
  <2> QED BY <1>11, <2>1, <2>2
<1>16. IntoPlan(t) \in Seq(Ops) BY PlanOps
<1> QED BY <1>1, <1>2, <1>4, <1>11, <1>12, <1>13, <1>14, <1>15, <1>16

\* What is left of a plan after k operations.
Left(td, plan, k) ==
  /\ td \in Seq(Ops) /\ k \in Nat /\ Len(plan) = k + Len(td)
  /\ \A i \in 1 .. Len(td) : td[i] = plan[k + i]

LEMMA LeftTail ==
  ASSUME NEW td, NEW plan, NEW k, Left(td, plan, k)
  PROVE  /\ td # << >> => /\ Head(td) = plan[k + 1] /\ Left(Tail(td), plan, k + 1)
                          /\ k + 1 <= Len(plan)
         /\ td = << >> => k = Len(plan)
<1>1. td \in Seq(Ops) /\ k \in Nat /\ Len(plan) = k + Len(td) /\ Len(td) \in Nat
  BY LenProperties DEF Left
<1>2. ASSUME td = << >> PROVE k = Len(plan) BY <1>1, <1>2, EmptySeq
<1>3. ASSUME td # << >>
      PROVE  Head(td) = plan[k + 1] /\ Left(Tail(td), plan, k + 1) /\ k + 1 <= Len(plan)
  <2>1. PICK u : u = Tail(td) OBVIOUS
  <2>2. /\ Len(td) # 0 /\ Head(td) = td[1] /\ u \in Seq(Ops) /\ Len(u) = Len(td) - 1
        /\ \A i \in 1 .. Len(u) : u[i] = td[i + 1]
    BY <1>1, <1>3, <2>1, EmptySeq, HeadTailProperties
  <2>3. 1 \in 1 .. Len(td) /\ k + 1 \in Nat /\ Len(plan) = k + 1 + Len(u) /\ k + 1 <= Len(plan)
    BY <1>1, <2>2
  <2>4. Head(td) = plan[k + 1] BY <2>2, <2>3 DEF Left
  <2>5. ASSUME NEW i \in 1 .. Len(u) PROVE u[i] = plan[k + 1 + i]
    <3>1. i + 1 \in 1 .. Len(td) /\ k + (i + 1) = k + 1 + i
      <4>1. PICK m \in Nat : m = Len(td) BY <1>1
      <4>2. i \in 1 .. m - 1 BY <2>2, <4>1
      <4> QED BY <1>1, <4>1, <4>2
    <3>2. td[i + 1] = plan[k + (i + 1)] BY <3>1 DEF Left
    <3> QED BY <2>2, <3>1, <3>2
  <2>6. Left(u, plan, k + 1) BY <2>2, <2>3, <2>5 DEF Left
  <2> QED BY <2>1, <2>3, <2>4, <2>6
<1> QED BY <1>2, <1>3

-----------------------------------------------------------------------------
(* The disk after a move.                                                  *)

LEMMA RebaseTwice ==
  ASSUME NEW S, NEW p \in Seq(S), NEW q \in Seq(S), NEW r \in Seq(S), NEW w \in Seq(S), IsPrefix(p, q)
  PROVE  Rebase(Rebase(q, p, r), r, w) = Rebase(q, p, w)
<1>1. PICK a, b, c : a = Rebase(q, p, r) /\ b = Rebase(a, r, w) /\ c = Rebase(q, p, w) OBVIOUS
<1>2. a \in Seq(S) /\ IsPrefix(r, a) BY <1>1, RebaseBack
<1>3. IsRebase(a, q, p, r, S) /\ IsRebase(b, a, r, w, S) /\ IsRebase(c, q, p, w, S)
  BY <1>1, <1>2, RebaseIs
<1>4. PICK k \in Nat : k = Len(q) - Len(p) BY <1>3 DEF IsRebase
<1>5. Len(a) - Len(r) = k BY <1>3, <1>4 DEF IsRebase
<1>6. b \in Seq(S) /\ c \in Seq(S) /\ Len(w) \in Nat /\ Len(b) = Len(w) + k /\ Len(c) = Len(w) + k
  BY <1>3, <1>4, <1>5 DEF IsRebase
<1>7. \A i \in 1 .. k : a[Len(r) + i] = q[Len(p) + i] BY <1>3, <1>4 DEF IsRebase
<1>8. \A i \in 1 .. k : b[Len(w) + i] = a[Len(r) + i] BY <1>3, <1>5 DEF IsRebase
<1>9. \A i \in 1 .. k : c[Len(w) + i] = q[Len(p) + i] BY <1>3, <1>4 DEF IsRebase
<1>10. \A i \in 1 .. Len(w) : b[i] = c[i] BY <1>3 DEF IsRebase
<1>11. ASSUME NEW i \in 1 .. Len(b) PROVE b[i] = c[i]
  <2>1. CASE i \in 1 .. Len(w) BY <1>10, <2>1
  <2>2. CASE i \notin 1 .. Len(w)
    <3>1. PICK j : j = i - Len(w) OBVIOUS
    <3>2. j \in 1 .. k /\ i = Len(w) + j BY <1>6, <2>2, <3>1
    <3> QED BY <1>7, <1>8, <1>9, <3>2
  <2> QED BY <2>1, <2>2
<1>12. b = c BY <1>6, <1>11, SeqEqual
<1> QED BY <1>1, <1>12

LEMMA MovedAt ==
  ASSUME NEW S, NEW d, DOMAIN d \subseteq Seq(S), NEW src \in Seq(S), src \in DOMAIN d, NEW dst \in Seq(S),
         ~IsPrefix(src, dst), ~IsPrefix(dst, src), NEW q \in Seq(S),
         NEW f, f = Moved(Without(d, dst), dst, src)
  PROVE  /\ IsPrefix(dst, q) => /\ q \in DOMAIN f <=> Rebase(q, dst, src) \in DOMAIN d
                                /\ q \in DOMAIN f => f[q] = d[Rebase(q, dst, src)]
         /\ IsPrefix(src, q) => q \notin DOMAIN f
         /\ ~IsPrefix(src, q) /\ ~IsPrefix(dst, q) => /\ q \in DOMAIN f <=> q \in DOMAIN d
                                                      /\ q \in DOMAIN d => f[q] = d[q]
<1>1. PICK e : e = Without(d, dst) OBVIOUS
<1>2. /\ DOMAIN e = {x \in DOMAIN d : ~IsPrefix(dst, x)} /\ \A x \in DOMAIN e : e[x] = d[x]
      /\ DOMAIN e \subseteq Seq(S) /\ src \in DOMAIN e
  BY <1>1 DEF Without, Restrict
<1>3. PICK c, r : c = Carried(e, src, dst) /\ r = Without(Without(e, dst), src) OBVIOUS
<1>4. /\ DOMAIN c \subseteq Seq(S)
      /\ \A x \in Seq(S) : x \in DOMAIN c <=> IsStrictPrefix(dst, x) /\ Rebase(x, dst, src) \in DOMAIN e
      /\ \A x \in DOMAIN c : /\ IsStrictPrefix(dst, x) /\ IsStrictPrefix(src, Rebase(x, dst, src))
                             /\ Rebase(x, dst, src) \in DOMAIN e
                             /\ c[x] = e[Rebase(x, dst, src)]
  BY <1>2, <1>3, CarriedIs
<1>5. DOMAIN r = {x \in DOMAIN e : ~IsPrefix(dst, x) /\ ~IsPrefix(src, x)} /\ \A x \in DOMAIN r : r[x] = e[x]
  BY <1>3 DEF Without, Restrict
<1>6. /\ DOMAIN f = DOMAIN c \cup DOMAIN r \cup {dst}
      /\ \A x \in DOMAIN c : f[x] = c[x]
      /\ \A x \in DOMAIN r : x \notin DOMAIN c /\ x # dst => f[x] = r[x]
      /\ dst \notin DOMAIN c => f[dst] = e[src]
  BY <1>1, <1>3 DEF Moved, Over, Put
<1>7. dst \notin DOMAIN c BY <1>4 DEF IsStrictPrefix
<1>8. \A x \in DOMAIN r : x \notin DOMAIN c /\ x # dst BY <1>2, <1>4, <1>5, PrefixSelf DEF IsStrictPrefix
<1>9. ASSUME IsPrefix(dst, q)
      PROVE  /\ q \in DOMAIN f <=> Rebase(q, dst, src) \in DOMAIN d
             /\ q \in DOMAIN f => f[q] = d[Rebase(q, dst, src)]
             /\ ~IsPrefix(src, q)
  <2>1. q \notin DOMAIN r BY <1>5, <1>9
  <2>2. ~IsPrefix(src, q)
    <3>1. SUFFICES ASSUME IsPrefix(src, q) PROVE FALSE OBVIOUS
    <3>2. Len(src) \in Nat /\ Len(dst) \in Nat BY LenProperties
    <3>3. Len(src) <= Len(dst) \/ Len(dst) <= Len(src) BY <3>2
    <3> QED BY <1>9, <3>1, <3>3, PrefixChain
  <2>3. CASE q = dst
    <3>1. Rebase(q, dst, src) = src BY <2>3, PrefixSelf, RebaseBack
    <3> QED BY <1>2, <1>6, <1>7, <2>2, <2>3, <3>1
  <2>4. CASE q # dst
    <3>1. PICK y : y = Rebase(q, dst, src) OBVIOUS
    <3>2. y \in Seq(S) /\ IsPrefix(src, y) BY <1>9, <3>1, RebaseBack
    <3>3. ~IsPrefix(dst, y)
      <4>1. SUFFICES ASSUME IsPrefix(dst, y) PROVE FALSE OBVIOUS
      <4>2. Len(src) \in Nat /\ Len(dst) \in Nat BY LenProperties
      <4>3. Len(src) <= Len(dst) \/ Len(dst) <= Len(src) BY <4>2
      <4> QED BY <3>2, <4>1, <4>3, PrefixChain
    <3>4. y \in DOMAIN e <=> y \in DOMAIN d BY <1>2, <3>3
    <3>5. IsStrictPrefix(dst, q) BY <1>9, <2>4 DEF IsStrictPrefix
    <3>6. q \in DOMAIN c <=> y \in DOMAIN e BY <1>4, <3>1, <3>5
    <3>7. q \in DOMAIN c => f[q] = d[y] BY <1>2, <1>4, <1>6, <3>1
    <3> QED BY <1>6, <2>1, <2>2, <2>4, <3>1, <3>4, <3>6, <3>7
  <2> QED BY <2>3, <2>4
<1>10. ASSUME IsPrefix(src, q) PROVE q \notin DOMAIN f
  <2>1. q \notin DOMAIN r BY <1>5, <1>10
  <2>2. ~IsPrefix(dst, q) BY <1>9, <1>10
  <2>3. q # dst /\ q \notin DOMAIN c BY <1>4, <2>2, PrefixSelf DEF IsStrictPrefix
  <2> QED BY <1>6, <2>1, <2>3
<1>11. ASSUME ~IsPrefix(src, q), ~IsPrefix(dst, q)
       PROVE  (q \in DOMAIN f <=> q \in DOMAIN d) /\ (q \in DOMAIN d => f[q] = d[q])
  <2>1. q # dst /\ q \notin DOMAIN c BY <1>4, <1>11, PrefixSelf DEF IsStrictPrefix
  <2>2. q \in DOMAIN r <=> q \in DOMAIN d BY <1>2, <1>5, <1>11
  <2>3. q \in DOMAIN r => f[q] = d[q] BY <1>2, <1>5, <1>6, <1>8
  <2> QED BY <1>6, <2>1, <2>2, <2>3
<1> QED BY <1>9, <1>10, <1>11

-----------------------------------------------------------------------------
(* Where the renames put things.                                           *)

\* The renames of a plan, and what they take away.
Red(t)   == {p \in InPlan(t) : t[p].new.kind = "base"}
Taken(t) == {t[p].new.path : p \in Red(t)}

Lie(t, d, p, up) ==
  LET own   == At(t, p).new
      lower == Append(up.path, Last(p))
  IN  IF p \in InPlan(t) /\ own.kind = "base" THEN own
      ELSE IF up # Gone /\ lower \in DOMAIN d /\ lower \notin Taken(t)
           THEN Base(lower) ELSE Gone

Lies(t, d) ==
  CHOOSE f : f = [p \in Paths \cup {<< >>} |->
                    IF p = << >> THEN Base(p) ELSE Lie(t, d, p, f[Front(p)])]

LEMMA PlacedIs == ASSUME NEW t, NEW d PROVE Placed(t, d) = Lies(t, d)
BY Zenon DEF Placed, Lies, Lie, Taken, Red

LEMMA LiesEq ==
  ASSUME NEW t, NEW d
  PROVE  /\ Placed(t, d)[<< >>] = Base(<< >>)
         /\ \A p \in Paths : Placed(t, d)[p] = Lie(t, d, p, Placed(t, d)[Front(p)])
<1> DEFINE P(n) == {p \in Paths \cup {<< >>} : Len(p) <= n}
           Val(f, p) == IF p = << >> THEN Base(p) ELSE Lie(t, d, p, f[Front(p)])
           Good(f, n) == f = [p \in P(n) |-> Val(f, p)]
           Reached == {n \in 0 .. Depth : \E f : Good(f, n)}
<1>1. Depth \in Nat BY DirTreeAssumption
<1>2. 0 \in Reached
  <2>1. P(0) = {<< >>}
    <3>1. \A p \in Paths : ~(Len(p) <= 0) BY <1>1, PathsAre
    <3>2. Len(<< >>) = 0 BY EmptySeq
    <3> QED BY <3>1, <3>2
  <2>2. PICK g : g = [p \in P(0) |-> Base(p)] OBVIOUS
  <2>3. \A p \in P(0) : Base(p) = Val(g, p) BY <2>1
  <2>4. g = [p \in P(0) |-> Val(g, p)] BY <2>2, <2>3
  <2>5. Good(g, 0) BY <2>4
  <2>6. 0 \in 0 .. Depth BY <1>1
  <2> HIDE DEF Good
  <2> QED BY <2>5, <2>6
<1>3. ASSUME NEW n \in 0 .. Depth - 1, n \in Reached PROVE n + 1 \in Reached
  <2>1. PICK f : Good(f, n) BY <1>3
  <2>2. PICK g : g = [p \in P(n + 1) |-> IF p \in P(n) THEN f[p] ELSE Val(f, p)] OBVIOUS
  <2>3. ASSUME NEW p \in P(n + 1), p # << >> PROVE Front(p) \in P(n)
    <3>1. p \in Paths BY <2>3
    <3>2. Front(p) \in Paths \cup {<< >>} /\ Len(Front(p)) = Len(p) - 1 /\ Len(p) \in 1 .. Depth
      BY <3>1, FrontPath
    <3> QED BY <1>1, <2>3, <3>2
  <2>4. \A p \in P(n) : f[p] = Val(f, p) BY <2>1
  <2>5. P(n) \subseteq P(n + 1)
    <3> SUFFICES ASSUME NEW p \in P(n) PROVE Len(p) <= n + 1 OBVIOUS
    <3>1. Len(p) \in Nat BY FrontPath, EmptySeq
    <3> QED BY <1>1, <3>1
  <2>6. \A p \in P(n) : g[p] = f[p] BY <2>2, <2>5
  <2>7. ASSUME NEW p \in P(n + 1) PROVE g[p] = Val(g, p)
    <3>1. g[p] = Val(f, p) BY <2>2, <2>4
    <3>2. p # << >> => g[Front(p)] = f[Front(p)] BY <2>3, <2>6
    <3> QED BY <3>1, <3>2
  <2>8. g = [p \in P(n + 1) |-> Val(g, p)]
    <3>1. g = [p \in P(n + 1) |-> g[p]] BY <2>2
    <3>2. [p \in P(n + 1) |-> g[p]] = [p \in P(n + 1) |-> Val(g, p)] BY <2>7
    <3> QED BY <3>1, <3>2
  <2>9. Good(g, n + 1) BY <2>8
  <2>10. \E h : Good(h, n + 1) BY <2>9
  <2> QED BY <1>1, <2>10
<1>4. Depth \in Reached
  <2> HIDE DEF Reached
  <2>1. 0 .. Depth \subseteq Reached BY <1>1, <1>2, <1>3, UpTo
  <2> QED BY <1>1, <2>1
<1>5. PICK f : Good(f, Depth) BY <1>4
<1>6. P(Depth) = Paths \cup {<< >>}
  <2>1. \A p \in Paths : Len(p) <= Depth BY <1>1, PathsAre
  <2>2. Len(<< >>) <= Depth BY <1>1, EmptySeq
  <2> QED BY <2>1, <2>2
<1>7. f = [p \in Paths \cup {<< >>} |-> Val(f, p)] BY <1>5, <1>6
<1>8. \E h : h = [p \in Paths \cup {<< >>} |->
                    IF p = << >> THEN Base(p) ELSE Lie(t, d, p, h[Front(p)])]
  BY <1>7
<1>9. Lies(t, d) = [p \in Paths \cup {<< >>} |->
                    IF p = << >> THEN Base(p) ELSE Lie(t, d, p, Lies(t, d)[Front(p)])]
  BY <1>8, Zenon DEF Lies
<1>10. << >> \notin Paths BY FrontPath
<1>11. PICK L : L = Lies(t, d) OBVIOUS
<1>12. L = [p \in Paths \cup {<< >>} |->
              IF p = << >> THEN Base(p) ELSE Lie(t, d, p, L[Front(p)])]
  BY <1>9, <1>11
<1>13. L[<< >>] = Base(<< >>) BY <1>12
<1>14. \A p \in Paths : L[p] = Lie(t, d, p, L[Front(p)]) BY <1>10, <1>12
<1> QED BY <1>11, <1>13, <1>14, PlacedIs

\* The staged work as a commit finds it.
Ready(v, t, d, st) ==
  /\ Shows(v, t, d, st) /\ Once(v) /\ IsTree(t) /\ nextIno \in Nat
  /\ DiskOK(d) /\ Scratch \in DOMAIN d /\ d[Scratch].dir
  /\ ~Remade(t, d, st) /\ ~Retyped(t, d)
  /\ (\A i \in DOMAIN st : st[i] \in BOOLEAN) /\ \A p \in DOMAIN d : d[p].dir \in BOOLEAN

LEMMA ReadyAt ==
  ASSUME NEW v, NEW t, NEW d, NEW st, Ready(v, t, d, st), NEW p \in DOMAIN v
  PROVE  /\ p \in Paths /\ v[p] \in Backs /\ DirIn(v, d, st, Front(p))
         /\ At(t, p).new # Nil => v[p] = At(t, p).new
         /\ At(t, p).new = Nil => /\ Up(v, p).kind = "base"
                                  /\ Append(Up(v, p).path, Last(p)) \in DOMAIN d
                                  /\ v[p] = Base(Append(Up(v, p).path, Last(p)))
         /\ v[p].kind = "base" => v[p].path \in DOMAIN d
         /\ v[p].kind # "base" => v[p].ino \in DOMAIN st
<1>1. /\ IsView(v) /\ v[p] \in Backs /\ Follows(v, t, d) /\ Tidy(v, d, st) /\ Backed(v, d, st)
  BY DEF Ready, Shows
<1>2. p \in Paths BY <1>1 DEF IsView
<1>3. v[p] = Resolve(t, d, p, Up(v, p)) BY <1>1, <1>2 DEF Follows, ViewAt
<1>4. v[p] # Gone BY <1>1, BacksAre
<1> QED BY <1>1, <1>2, <1>3, <1>4 DEF Resolve, Tidy, Backed

LEMMA RenamesAre ==
  ASSUME NEW v, NEW t, NEW d, NEW st, Ready(v, t, d, st), NEW p \in Red(t)
  PROVE  /\ p \in Paths /\ p \in DOMAIN t /\ p \in DOMAIN v /\ v[p] = t[p].new /\ At(t, p).new = t[p].new
         /\ t[p].new = Base(Source(t, p)) /\ Source(t, p) \in Paths /\ Source(t, p) \in DOMAIN d
         /\ \A q \in Red(t) : Source(t, q) = Source(t, p) => q = p
<1>1. \A q \in Red(t) : /\ q \in Paths /\ q \in DOMAIN t /\ t[q].new # Nil /\ t[q].new \in Sides
                        /\ At(t, q).new = t[q].new
  BY DEF Red, InPlan, Net, Ready, IsTree, At
<1>2. \A q \in Red(t) : t[q].new = Base(Source(t, q)) /\ Source(t, q) \in Paths
  BY <1>1, SideIs DEF Red, Source
<1>3. Dormant(v, t) /\ Once(v) BY DEF Ready, Shows
<1>4. ASSUME NEW q \in Red(t) PROVE q \in DOMAIN v /\ v[q] = t[q].new
  <2>1. q \in InPlan(t) /\ t[q].new # Gone BY <1>2, Backings DEF Red
  <2>2. q \in DOMAIN v BY <1>3, <2>1 DEF Dormant
  <2> QED BY <1>1, <2>2, ReadyAt
<1>5. Source(t, p) \in DOMAIN d BY <1>2, <1>4, Backings, ReadyAt DEF Source
<1>6. \A q \in Red(t) : Source(t, q) = Source(t, p) => q = p BY <1>2, <1>3, <1>4 DEF Once
<1> QED BY <1>1, <1>2, <1>4, <1>5, <1>6

\* The nodes that write: a file or a directory of the store, or a tombstone.
Writers(t)       == {p \in InPlan(t) : t[p].new.kind # "base"}
Clears(t, st, p) == t[p].new = Gone \/ ~st[t[p].new.ino]

LEMMA WritersAre ==
  ASSUME NEW v, NEW t, NEW d, NEW st, Ready(v, t, d, st), NEW p \in Writers(t)
  PROVE  /\ p \in Paths /\ p \in DOMAIN t /\ At(t, p).new = t[p].new
         /\ t[p].new = Gone => p \notin DOMAIN v
         /\ t[p].new # Gone => /\ p \in DOMAIN v /\ v[p] = t[p].new /\ t[p].new = Staged(t[p].new.ino)
                               /\ t[p].new.ino \in DOMAIN st /\ t[p].new.kind = "staged"
<1>1. p \in Paths /\ p \in DOMAIN t /\ t[p].new # Nil /\ t[p].new \in Sides /\ At(t, p).new = t[p].new
  BY DEF Writers, InPlan, Net, Ready, IsTree, At
<1>2. ASSUME t[p].new = Gone PROVE p \notin DOMAIN v
  <2>1. SUFFICES ASSUME p \in DOMAIN v PROVE FALSE OBVIOUS
  <2>2. v[p] = Gone /\ v[p] \in Backs BY <1>1, <1>2, <2>1, ReadyAt
  <2> QED BY <2>2, BacksAre
<1>3. ASSUME t[p].new # Gone
      PROVE  /\ p \in DOMAIN v /\ v[p] = t[p].new /\ t[p].new = Staged(t[p].new.ino)
             /\ t[p].new.ino \in DOMAIN st /\ t[p].new.kind = "staged"
  <2>1. p \in InPlan(t) /\ t[p].new.kind # "base" BY DEF Writers
  <2>2. t[p].new = Staged(t[p].new.ino) BY <1>1, <1>3, <2>1, SideIs
  <2>3. p \in DOMAIN v BY <1>3, <2>1 DEF Ready, Shows, Dormant
  <2>4. v[p] = t[p].new BY <1>1, <2>3, ReadyAt
  <2> QED BY <2>1, <2>2, <2>3, <2>4, Backings, ReadyAt
<1> QED BY <1>1, <1>2, <1>3

LEMMA VisibleInPlan ==
  ASSUME NEW v, NEW t, NEW d, NEW st, Ready(v, t, d, st)
  PROVE  /\ \A p \in DOMAIN v : p \in Net(t) => p \in InPlan(t)
         /\ Range(Renames(t)) = Red(t) /\ Range(Writes(t)) = Writers(t)
<1>1. IsTree(t) /\ Shows(v, t, d, st) BY DEF Ready
<1>2. ASSUME NEW p \in DOMAIN v, p \in Net(t) PROVE p \in InPlan(t) BY <1>1, <1>2, NoneGone DEF InPlan
<1> QED BY <1>1, <1>2, RenamesSaved DEF Red, Writers

LEMMA LiesAt ==
  ASSUME NEW v, NEW t, NEW d, NEW st, Ready(v, t, d, st), NEW L, L = Placed(t, d), NEW q \in Paths
  PROVE  /\ q \in Red(t) => L[q] = t[q].new
         /\ q \notin Red(t) /\ L[Front(q)] = Gone => L[q] = Gone
         /\ q \notin Red(t) /\ L[Front(q)] # Gone =>
              LET y == Append(L[Front(q)].path, Last(q))
              IN  /\ y \in DOMAIN d /\ (\A m \in Red(t) : Source(t, m) # y) => L[q] = Base(y)
                  /\ ~(y \in DOMAIN d /\ \A m \in Red(t) : Source(t, m) # y) => L[q] = Gone
         /\ L[q] # Gone => L[q] = Base(L[q].path) /\ L[q].kind = "base" /\ L[q].path \in DOMAIN d
<1>1. PICK u : u = L[Front(q)] OBVIOUS
<1>2. PICK y : y = Append(u.path, Last(q)) OBVIOUS
<1>3. L[q] = Lie(t, d, q, u) BY <1>1, LiesEq
<1>4. q \in Red(t) <=> q \in InPlan(t) /\ At(t, q).new.kind = "base"
  BY DEF Red, InPlan, Net, At
<1>5. y \in Taken(t) <=> \E m \in Red(t) : Source(t, m) = y
  BY DEF Taken, Source
<1>6. q \in Red(t) => L[q] = t[q].new
  <2>1. q \in Red(t) => At(t, q).new = t[q].new BY RenamesAre
  <2> QED BY <1>3, <1>4, <2>1 DEF Lie
<1>7. q \notin Red(t) => L[q] = IF u # Gone /\ y \in DOMAIN d /\ y \notin Taken(t)
                                 THEN Base(y) ELSE Gone
  BY <1>2, <1>3, <1>4 DEF Lie
<1>8. L[q] # Gone => L[q] = Base(L[q].path) /\ L[q].kind = "base" /\ L[q].path \in DOMAIN d
  <2>1. CASE q \in Red(t)
    <3>1. L[q] = Base(Source(t, q)) /\ Source(t, q) \in DOMAIN d BY <1>6, <2>1, RenamesAre
    <3> QED BY <3>1, Backings
  <2>2. CASE q \notin Red(t) BY <1>7, <2>2, Backings
  <2> QED BY <2>1, <2>2
<1> QED BY <1>1, <1>2, <1>5, <1>6, <1>7, <1>8

\* What a rename takes along, or the root: less what other renames take.
Src(t, p)    == IF p = << >> THEN << >> ELSE Source(t, p)
Out(t, s, y) == \E m \in Red(t) : IsStrictPrefix(s, Source(t, m)) /\ IsPrefix(Source(t, m), y)

LEMMA SourcesAre ==
  ASSUME NEW v, NEW t, NEW d, NEW st, Ready(v, t, d, st), NEW p \in Red(t) \cup {<< >>}
  PROVE  /\ p \in Seq(N) /\ Src(t, p) \in Seq(N) /\ (p # << >> => Src(t, p) \in Paths /\ p \in Paths)
         /\ (p = << >> => Src(t, p) = << >>) /\ \A m \in Red(t) : Source(t, m) \in Seq(N)
         /\ ~Out(t, Src(t, p), Src(t, p))
<1>1. \A m \in Red(t) : m \in Paths /\ Source(t, m) \in Paths BY RenamesAre
<1>2. \A q \in Paths : q \in Seq(N) /\ q # << >> BY FrontPath
<1>3. << >> \in Seq(N) BY EmptySeq
<1>4. Src(t, p) \in Seq(N) BY <1>1, <1>2, <1>3 DEF Src
<1>5. ~Out(t, Src(t, p), Src(t, p))
  <2>1. SUFFICES ASSUME NEW m \in Red(t), IsStrictPrefix(Src(t, p), Source(t, m)),
                        IsPrefix(Source(t, m), Src(t, p))
                 PROVE  FALSE
    BY DEF Out
  <2>2. Source(t, m) \in Seq(N) BY <1>1, <1>2
  <2>3. Len(Source(t, m)) <= Len(Src(t, p)) BY <1>4, <2>1, <2>2, PrefixIs
  <2> QED BY <1>4, <2>1, <2>2, <2>3, PrefixAnti DEF IsStrictPrefix
<1> QED BY <1>1, <1>2, <1>3, <1>4, <1>5 DEF Src

LEMMA LiesBelow ==
  ASSUME NEW v, NEW t, NEW d, NEW st, Ready(v, t, d, st), NEW L, L = Placed(t, d),
         NEW p \in Red(t) \cup {<< >>}, NEW q \in Paths, IsPrefix(p, q),
         \A r \in Red(t) : ~(IsStrictPrefix(p, r) /\ IsPrefix(r, q))
  PROVE  LET y == Rebase(q, p, Src(t, p))
         IN  L[q] = IF y \in DOMAIN d /\ ~Out(t, Src(t, p), y) THEN Base(y) ELSE Gone
<1> DEFINE s == Src(t, p)
           Y(x) == Rebase(x, p, s)
           Fine(x) == IsPrefix(p, x) /\ (\A r \in Red(t) : ~(IsStrictPrefix(p, r) /\ IsPrefix(r, x)))
                        => L[x] = IF Y(x) \in DOMAIN d /\ ~Out(t, s, Y(x)) THEN Base(Y(x)) ELSE Gone
           T == {n \in Nat : \A x \in Paths : Len(x) <= n => Fine(x)}
<1>1. /\ Depth \in Nat /\ p \in Seq(N) /\ s \in Seq(N) /\ (p # << >> => s \in Paths /\ p \in Paths)
      /\ (p = << >> => s = << >>) /\ ~Out(t, s, s) /\ \A m \in Red(t) : Source(t, m) \in Seq(N)
  BY DirTreeAssumption, SourcesAre
<1>2. L[<< >>] = Base(<< >>) BY LiesEq
<1>3. 0 \in T
  <2>1. \A x \in Paths : ~(Len(x) <= 0) BY FrontPath
  <2> QED BY <2>1
<1>4. ASSUME NEW n \in 0 .. Depth - 1, n \in T PROVE n + 1 \in T
  <2>1. SUFFICES ASSUME NEW x \in Paths, Len(x) <= n + 1, IsPrefix(p, x),
                        \A r \in Red(t) : ~(IsStrictPrefix(p, r) /\ IsPrefix(r, x))
                 PROVE  L[x] = IF Y(x) \in DOMAIN d /\ ~Out(t, s, Y(x)) THEN Base(Y(x)) ELSE Gone
    OBVIOUS
  <2>2. /\ x \in Seq(N) /\ x # << >> /\ Front(x) \in Seq(N) /\ Len(Front(x)) = Len(x) - 1
        /\ Front(x) \in Paths \cup {<< >>} /\ Len(x) \in 1 .. Depth
    BY FrontPath
  <2>3. CASE x = p
    <3>1. Y(x) = s BY <1>1, <2>1, <2>2, <2>3, RebaseBack
    <3>2. p \in Red(t) /\ L[x] = t[p].new /\ t[p].new = Base(Source(t, p)) /\ Source(t, p) \in DOMAIN d
      BY <2>2, <2>3, LiesAt, RenamesAre
    <3> QED BY <1>1, <2>2, <2>3, <3>1, <3>2 DEF Src
  <2>4. CASE x # p
    <3>1. PICK f, y : f = Front(x) /\ y = Y(x) OBVIOUS
    <3>2. IsStrictPrefix(p, x) /\ IsPrefix(p, f) BY <1>1, <2>1, <2>2, <2>4, <3>1, PrefixFront DEF IsStrictPrefix
    <3>3. x \notin Red(t) BY <2>2, <3>2, PrefixSelf, <2>1
    <3>4. /\ y \in Seq(N) /\ IsPrefix(s, y) /\ y # s BY <1>1, <2>1, <2>2, <2>4, <3>1, RebaseBack
    <3>5. y # << >> /\ Front(y) = Y(f) /\ Last(y) = Last(x) BY <1>1, <2>2, <3>1, <3>2, RebaseFront
    <3>6. PICK z : z = Front(y) OBVIOUS
    <3>7. z \in Seq(N) /\ Append(z, Last(x)) = y BY <3>4, <3>5, <3>6, FrontIs
    <3>8. Out(t, s, y) <=> Out(t, s, z) \/ \E m \in Red(t) : Source(t, m) = y
      <4>1. \A m \in Red(t) : IsPrefix(Source(t, m), y) <=> Source(t, m) = y \/ IsPrefix(Source(t, m), z)
        BY <1>1, <3>4, <3>5, <3>6, PrefixFront
      <4>2. \A m \in Red(t) : Source(t, m) = y => IsStrictPrefix(s, Source(t, m))
        BY <3>4 DEF IsStrictPrefix
      <4> QED BY <4>1, <4>2 DEF Out
    <3>9. \A r \in Red(t) : ~(IsStrictPrefix(p, r) /\ IsPrefix(r, f))
      <4>1. \A r \in Red(t) : r \in Seq(N) BY SourcesAre
      <4> QED BY <2>1, <2>2, <3>1, <4>1, PrefixFront
    <3>10. L[f] # Gone => L[f] = Base(z) /\ ~Out(t, s, z)
      <4>1. CASE f = << >>
        <5>1. p = << >>
          <6>1. Len(p) <= Len(f) BY <1>1, <2>2, <3>1, <3>2, PrefixIs
          <6>2. Len(p) \in Nat /\ Len(<< >>) = 0 BY <1>1, LenProperties
          <6> QED BY <1>1, <4>1, <6>1, <6>2, EmptySeq
        <5>2. z = << >> BY <1>1, <3>5, <3>6, <4>1, <5>1, PrefixSelf, RebaseBack
        <5> QED BY <1>1, <1>2, <4>1, <5>1, <5>2
      <4>2. CASE f # << >>
        <5>1. f \in Paths /\ Len(f) <= n BY <2>1, <2>2, <3>1, <4>2
        <5>2. Fine(f) BY <1>4, <5>1
        <5> QED BY <3>2, <3>5, <3>6, <3>9, <5>2
      <4> QED BY <4>1, <4>2
    <3>11. y \in DOMAIN d /\ ~Out(t, s, z) => L[f] # Gone
      <4>1. CASE f = << >> BY <1>2, <4>1, Backings
      <4>2. CASE f # << >>
        <5>1. f \in Paths /\ Len(f) <= n BY <2>1, <2>2, <3>1, <4>2
        <5>2. Fine(f) BY <1>4, <5>1
        <5>3. ASSUME y \in DOMAIN d PROVE z \in DOMAIN d
          <6>1. HasParent(d, y) BY <5>3 DEF Ready, DiskOK, DirsOver
          <6>2. Len(y) # 1
            <7>1. /\ Len(y) = Len(s) + (Len(x) - Len(p)) /\ Len(s) \in Nat /\ Len(x) \in Nat /\ Len(p) \in Nat
                  /\ Len(x) - Len(p) \in Nat
              <8>1. IsRebase(y, x, p, s, N) BY <1>1, <2>1, <2>2, <3>1, RebaseIs
              <8> QED BY <8>1 DEF IsRebase
            <7>2. CASE p = << >>
              <8>1. Len(p) = 0 /\ Len(f) \in Nat \ {0} /\ Len(f) = Len(x) - 1
                BY <2>2, <3>1, <4>2, <7>2, EmptySeq
              <8> QED BY <7>1, <8>1
            <7>3. CASE p # << >>
              <8>1. Len(s) \in Nat \ {0} BY <1>1, <7>3, FrontPath
              <8>2. ~(Len(x) <= Len(p)) BY <1>1, <2>1, <2>2, <2>4, PrefixAnti
              <8> QED BY <7>1, <8>1, <8>2
            <7> QED BY <7>2, <7>3
          <6> QED BY <3>6, <6>1, <6>2 DEF HasParent
        <5>4. ASSUME y \in DOMAIN d, ~Out(t, s, z) PROVE L[f] # Gone
          <6>1. L[f] = Base(z) BY <3>2, <3>5, <3>6, <3>9, <5>2, <5>3, <5>4
          <6> QED BY <6>1, Backings
        <5> QED BY <5>4
      <4> QED BY <4>1, <4>2
    <3>12. L[f] = Gone => L[x] = Gone BY <3>1, <3>3, LiesAt
    <3>13. L[f] # Gone => L[x] = IF y \in DOMAIN d /\ \A m \in Red(t) : Source(t, m) # y
                                 THEN Base(y) ELSE Gone
      <4>1. ASSUME L[f] # Gone PROVE Append(L[f].path, Last(x)) = y BY <3>7, <3>10, <4>1, Backings
      <4>2. ASSUME L[f] # Gone
            PROVE  LET w == Append(L[f].path, Last(x))
                   IN  /\ w \in DOMAIN d /\ (\A m \in Red(t) : Source(t, m) # w) => L[x] = Base(w)
                       /\ ~(w \in DOMAIN d /\ \A m \in Red(t) : Source(t, m) # w) => L[x] = Gone
        BY <3>1, <3>3, <4>2, LiesAt
      <4> QED BY <4>1, <4>2
    <3> QED BY <3>1, <3>8, <3>10, <3>11, <3>12, <3>13
  <2> QED BY <2>3, <2>4
<1>5. Depth \in T
  <2> HIDE DEF T
  <2>1. 0 .. Depth \subseteq T BY <1>1, <1>3, <1>4, UpTo
  <2> QED BY <1>1, <2>1
<1>6. Fine(q)
  <2>1. Len(q) <= Depth BY FrontPath
  <2> QED BY <1>5, <2>1
<1> QED BY <1>6

\* A place at or above which the writes are but directories of the store,
\* and these above: there the view shows what the renames leave.
Bare(t, st, q) == \A a \in Writers(t) : IsPrefix(a, q) => a # q /\ ~Clears(t, st, a)

LEMMA ShortestAbove ==
  ASSUME NEW S, NEW q \in Seq(S), NEW X, X # {}, \A x \in X : x \in Seq(S) /\ IsPrefix(x, q)
  PROVE  \E x \in X : \A y \in X : IsPrefix(x, y)
<1>1. PICK T : T = {Len(x) : x \in X} OBVIOUS
<1>2. \A x \in X : Len(x) \in Nat BY LenProperties
<1>3. T \in SUBSET Nat /\ T # {} BY <1>1, <1>2
<1>4. PICK n \in T : \A m \in T : n <= m BY <1>3, LeastOf
<1>5. PICK x \in X : n = Len(x) BY <1>1
<1>6. \A y \in X : Len(x) <= Len(y) BY <1>1, <1>4, <1>5
<1> QED BY <1>6, PrefixChain

\* Over what a tombstone hides there is one in the plan.
LEMMA GoneAbove ==
  ASSUME NEW t, NEW q \in Paths, NEW a \in Ancestors(q), At(t, a).new = Gone
  PROVE  \E b \in Writers(t) : t[b].new = Gone /\ IsPrefix(b, q)
<1> DEFINE X == {b \in Ancestors(q) : At(t, b).new = Gone}
<1>1. q \in Seq(N) /\ \A b \in Ancestors(q) : b \in Seq(N) /\ IsStrictPrefix(b, q)
  BY FrontPath, AncestorsAre
<1>2. X # {} /\ \A b \in X : b \in Seq(N) /\ IsPrefix(b, q) BY <1>1 DEF IsStrictPrefix
<1>3. PICK b \in X : \A y \in X : IsPrefix(b, y)
  <2> HIDE DEF X
  <2> QED BY <1>1, <1>2, ShortestAbove
<1>4. b \in Seq(N) /\ IsStrictPrefix(b, q) BY <1>1
<1>5. ASSUME NEW y \in Ancestors(b), At(t, y).new = Gone PROVE FALSE
  <2>1. y \in Seq(N) /\ IsStrictPrefix(y, b) /\ y # << >> BY <1>4, AncestorsAre
  <2>2. IsPrefix(y, q) /\ y # q
    BY <1>1, <1>4, <2>1, PrefixTrans, PrefixAnti, PrefixIs DEF IsStrictPrefix
  <2>3. y \in Ancestors(q) BY <1>1, <2>1, <2>2, AncestorsAre DEF IsStrictPrefix
  <2>4. IsPrefix(b, y) BY <1>3, <1>5, <2>3
  <2> QED BY <1>4, <2>1, <2>4, PrefixSame DEF IsStrictPrefix
<1>6. Gone # Nil /\ Gone.kind # "base"
  <2>1. Gone \in Sides BY DEF Sides, Unstaged
  <2> QED BY <2>1, SideIs, Backings
<1>7. b \in DOMAIN t /\ t[b].new = Gone
  <2>1. At(t, b).new # Nil BY <1>6
  <2> QED BY <2>1 DEF At, Scaffold, Node
<1>8. b \in Writers(t) BY <1>5, <1>6, <1>7 DEF Writers, InPlan, Net
<1> QED BY <1>4, <1>7, <1>8 DEF IsStrictPrefix

LEMMA BareAt ==
  ASSUME NEW v, NEW t, NEW d, NEW st, Ready(v, t, d, st), NEW L, L = Placed(t, d),
         NEW q \in Paths, Bare(t, st, q)
  PROVE  ViewAt(v, q) = L[q]
<1> DEFINE T == {n \in Nat : \A x \in Paths : Len(x) <= n /\ Bare(t, st, x) => ViewAt(v, x) = L[x]}
<1>1. Depth \in Nat BY DirTreeAssumption
<1>2. 0 \in T
  <2>1. \A x \in Paths : ~(Len(x) <= 0) BY FrontPath
  <2> QED BY <2>1
<1>3. ASSUME NEW n \in 0 .. Depth - 1, n \in T PROVE n + 1 \in T
  <2>1. SUFFICES ASSUME NEW x \in Paths, Len(x) <= n + 1, Bare(t, st, x) PROVE ViewAt(v, x) = L[x]
    OBVIOUS
  <2>2. /\ x \in Seq(N) /\ x # << >> /\ Front(x) \in Seq(N) /\ Len(Front(x)) = Len(x) - 1
        /\ Front(x) \in Paths \cup {<< >>} /\ Len(x) \in 1 .. Depth /\ IsPrefix(x, x)
        /\ (Len(x) = 1 <=> Front(x) = << >>)
    BY FrontPath, PrefixSelf
  <2>3. CASE x \in Red(t) BY <2>3, RenamesAre, LiesAt DEF ViewAt
  <2>4. CASE x \notin Red(t)
    <3>1. At(t, x).new = Nil
      <4>1. x \notin Writers(t) BY <2>1, <2>2 DEF Bare
      <4>2. x \notin InPlan(t) BY <2>4, <4>1 DEF Writers, Red
      <4>3. ASSUME NEW a \in Ancestors(x), At(t, a).new = Gone PROVE FALSE
        <5>1. PICK b \in Writers(t) : t[b].new = Gone /\ IsPrefix(b, x) BY <4>3, GoneAbove
        <5> QED BY <2>1, <5>1 DEF Bare, Clears
      <4> QED BY <4>2, <4>3 DEF InPlan, Net, At, Scaffold, Node
    <3>2. PICK f, u : f = Front(x) /\ u = Up(v, x) OBVIOUS
    <3>3. ViewAt(v, x) = IF u.kind = "base" /\ Append(u.path, Last(x)) \in DOMAIN d
                         THEN Base(Append(u.path, Last(x))) ELSE Gone
      <4>1. ViewAt(v, x) = Resolve(t, d, x, u) BY <3>2 DEF Ready, Shows, Follows
      <4> QED BY <3>1, <4>1 DEF Resolve
    <3>4. CASE f \in Writers(t)
      <4>1. IsPrefix(f, x) BY <2>2, <3>2, PrefixFront
      <4>2. ~Clears(t, st, f) BY <2>1, <3>4, <4>1 DEF Bare
      <4>3. t[f].new # Gone /\ st[t[f].new.ino] BY <4>2 DEF Clears
      <4>4. /\ f \in Paths /\ f \in DOMAIN t /\ f \in DOMAIN v /\ v[f] = t[f].new
            /\ t[f].new.kind = "staged" /\ t[f].new # Nil
        BY <3>4, <4>3, WritersAre DEF Writers, InPlan, Net
      <4>5. u.kind # "base" BY <2>2, <3>2, <4>4, FrontPath DEF Up, ViewAt
      <4>6. L[x] = Gone BY <3>1, <3>2, <3>4, <4>3, <4>4 DEF Ready, Remade, Writers
      <4> QED BY <3>3, <4>5, <4>6
    <3>5. CASE f \notin Writers(t)
      <4>1. u = L[f]
        <5>1. CASE f = << >> BY <2>2, <3>2, <5>1, LiesEq DEF Up
        <5>2. CASE f # << >>
          <6>1. f \in Paths /\ Len(f) <= n BY <1>1, <2>1, <2>2, <3>2, <5>2
          <6>2. Bare(t, st, f)
            <7>1. \A a \in Writers(t) : a \in Seq(N) BY WritersAre, FrontPath
            <7>2. \A a \in Writers(t) : IsPrefix(a, f) => IsPrefix(a, x)
              BY <2>2, <3>2, <7>1, PrefixFront
            <7> QED BY <2>1, <3>5, <7>2 DEF Bare
          <6> QED BY <1>3, <2>2, <3>2, <5>2, <6>1, <6>2 DEF Up
        <5> QED BY <5>1, <5>2
      <4>2. CASE u = Gone
        <5>1. u.kind # "base" BY <4>2, Backings
        <5>2. L[Front(x)] = Gone BY <3>2, <4>1, <4>2
        <5>3. L[x] = Gone BY <2>4, <5>2, LiesAt
        <5> QED BY <3>3, <5>1, <5>3
      <4>3. CASE u # Gone
        <5>1. u.kind = "base"
          <6>1. CASE f = << >> BY <3>2, <4>1, <6>1, LiesEq, Backings
          <6>2. CASE f # << >> BY <2>2, <3>2, <4>1, <4>3, <6>2, LiesAt
          <6> QED BY <6>1, <6>2
        <5>2. PICK y : y = Append(u.path, Last(x)) OBVIOUS
        <5>3. ViewAt(v, x) = IF y \in DOMAIN d THEN Base(y) ELSE Gone BY <3>3, <5>1, <5>2
        <5>4. L[x] = IF y \in DOMAIN d /\ \A m \in Red(t) : Source(t, m) # y THEN Base(y) ELSE Gone
          BY <2>4, <3>2, <4>1, <4>3, <5>2, LiesAt
        <5>5. ASSUME y \in DOMAIN d, NEW m \in Red(t), Source(t, m) = y PROVE FALSE
          <6>1. m \in DOMAIN v /\ v[m] = Base(y) BY <5>5, RenamesAre
          <6>2. x \in DOMAIN v /\ v[x] = Base(y) BY <5>3, <5>5, Backings DEF ViewAt
          <6>3. m = x BY <6>1, <6>2 DEF Ready, Once
          <6> QED BY <2>4, <6>3
        <5> QED BY <5>3, <5>4, <5>5
      <4> QED BY <4>2, <4>3
    <3> QED BY <3>4, <3>5
  <2> QED BY <2>3, <2>4
<1>4. Depth \in T
  <2> HIDE DEF T
  <2>1. 0 .. Depth \subseteq T BY <1>1, <1>2, <1>3, UpTo
  <2> QED BY <1>1, <2>1
<1>5. Len(q) <= Depth BY FrontPath
<1> QED BY <1>4, <1>5

-----------------------------------------------------------------------------
(* The disk after one operation.                                           *)

\* Whatever is on a disk is in directories.
LEMMA DiskAbove ==
  ASSUME NEW d, DiskOK(d), NEW q \in DOMAIN d, NEW a \in Seq(U), a # << >>, IsStrictPrefix(a, q)
  PROVE  a \in DOMAIN d /\ d[a].dir
<1> DEFINE T == {n \in Nat : \A x \in DOMAIN d : Len(x) <= n /\ IsStrictPrefix(a, x)
                                                   => a \in DOMAIN d /\ d[a].dir}
<1>1. \A x \in DOMAIN d : x \in Seq(U) /\ x # << >> /\ HasParent(d, x) BY DEF DiskOK, DirsOver
<1>2. PICK k \in Nat : k = Len(q) BY <1>1, LenProperties
<1>3. 0 \in T
  <2>1. \A x \in DOMAIN d : Len(x) \in Nat \ {0} BY <1>1, FrontIs
  <2>2. \A x \in DOMAIN d : ~(Len(x) <= 0) BY <2>1
  <2> QED BY <2>2
<1>4. ASSUME NEW n \in 0 .. k - 1, n \in T PROVE n + 1 \in T
  <2>1. SUFFICES ASSUME NEW x \in DOMAIN d, Len(x) <= n + 1, IsStrictPrefix(a, x)
                 PROVE  a \in DOMAIN d /\ d[a].dir
    OBVIOUS
  <2>2. /\ IsPrefix(a, Front(x)) /\ Front(x) \in Seq(U) /\ Len(Front(x)) = Len(x) - 1 /\ Len(x) \in Nat \ {0}
    BY <1>1, <2>1, PrefixFront, FrontIs
  <2>3. Len(x) # 1
    <3>1. Len(a) <= Len(Front(x)) /\ Len(a) \in Nat \ {0} BY <2>2, PrefixIs, FrontIs
    <3> QED BY <2>2, <3>1
  <2>4. Front(x) \in DOMAIN d /\ d[Front(x)].dir BY <1>1, <2>3 DEF HasParent
  <2>5. CASE a = Front(x) BY <2>4, <2>5
  <2>6. CASE a # Front(x)
    <3>1. IsStrictPrefix(a, Front(x)) BY <2>2, <2>6 DEF IsStrictPrefix
    <3>2. Len(Front(x)) <= n BY <2>1, <2>2
    <3> QED BY <1>4, <2>4, <3>1, <3>2
  <2> QED BY <2>5, <2>6
<1>5. k \in T
  <2> HIDE DEF T
  <2>1. 0 .. k \subseteq T BY <1>2, <1>3, <1>4, UpTo
  <2> QED BY <1>2, <2>1
<1> QED BY <1>2, <1>5

\* Paths outside the scratch directory.
Main == {y \in Seq(U) : y # << >> /\ y[1] \in N}

LEMMA MainIs ==
  /\ \A y \in Paths : y \in Main
  /\ \A y \in Main, z \in Seq(U) : IsPrefix(y, z) => z \in Main
  /\ \A y \in Main, z \in Seq(U) : IsPrefix(z, y) /\ z # << >> => z \in Main
<1>1. \A y \in Paths : y \in Main BY PathOnDisk DEF Main
<1>2. ASSUME NEW y \in Seq(U), NEW z \in Seq(U), y # << >>, IsPrefix(y, z)
      PROVE  z # << >> /\ z[1] = y[1]
  <2>1. Len(y) \in Nat \ {0} /\ Len(z) \in Nat BY <1>2, FrontIs, LenProperties
  <2>2. Len(y) <= Len(z) /\ \A i \in 1 .. Len(y) : y[i] = z[i] BY <1>2, PrefixIs
  <2>3. 1 \in 1 .. Len(y) BY <2>1
  <2> QED BY <2>1, <2>2, <2>3, EmptySeq
<1> QED BY <1>1, <1>2 DEF Main

LEMMA TempsAre ==
  ASSUME NEW n \in Nat
  PROVE  /\ Temp(n) \in Seq(U) /\ Temp(n) # << >> /\ Front(Temp(n)) = Scratch
         /\ Ancestors(Temp(n)) = {Scratch} /\ Scratch \notin Main
         /\ \A z \in Seq(U) : IsPrefix(Temp(n), z) => z \notin Main /\ z # Scratch
         /\ \A z \in Seq(U), m \in Nat : IsPrefix(Temp(n), z) /\ IsPrefix(Temp(m), z) => m = n
<1>1. /\ Temp(n) \in Seq(U) /\ Len(Temp(n)) = 2 /\ Temp(n)[1] = ".yolofs" /\ Temp(n)[2] = n
      /\ Scratch \in Seq(U) /\ Len(Scratch) = 1 /\ Scratch[1] = ".yolofs"
  BY TempIsPath
<1>2. Scratch \notin Main BY <1>1, NoScratchName DEF Main
<1>3. Temp(n) # << >> /\ Scratch # << >> /\ Scratch # Temp(n)
  <2>1. PICK a, b : a = Temp(n) /\ b = Scratch OBVIOUS
  <2>2. Len(a) = 2 /\ Len(b) = 1 /\ Len(<< >>) = 0 BY <1>1, <2>1, EmptySeq
  <2> QED BY <2>1, <2>2
<1>4. ASSUME NEW z \in Seq(U), IsPrefix(Temp(n), z)
      PROVE  2 <= Len(z) /\ z[1] = ".yolofs" /\ z[2] = n /\ z \notin Main /\ z # Scratch
  <2>1. 2 <= Len(z) /\ \A i \in 1 .. 2 : Temp(n)[i] = z[i] BY <1>1, <1>4, PrefixIs
  <2>2. z[1] = ".yolofs" /\ z[2] = n BY <1>1, <2>1
  <2> QED BY <1>1, <2>1, <2>2, NoScratchName DEF Main
<1>5. ASSUME NEW z \in Seq(U), NEW m \in Nat, IsPrefix(Temp(n), z), IsPrefix(Temp(m), z)
      PROVE  m = n
  <2>1. PICK w : w = Temp(m) OBVIOUS
  <2>2. w \in Seq(U) /\ Len(w) = 2 /\ w[2] = m /\ IsPrefix(w, z) BY <1>5, <2>1, TempIsPath
  <2>3. \A i \in 1 .. Len(w) : w[i] = z[i] BY <2>2, PrefixIs
  <2>4. 2 \in 1 .. Len(w) BY <2>2
  <2> QED BY <1>4, <1>5, <2>2, <2>3, <2>4
<1>6. Front(Temp(n)) = Scratch
  <2>1. /\ Front(Temp(n)) \in Seq(U) /\ Len(Front(Temp(n))) = 1 /\ Front(Temp(n))[1] = ".yolofs"
    <3>1. 1 \in 1 .. 2 - 1 OBVIOUS
    <3> QED BY <1>1, <1>3, <3>1, FrontIs
  <2> QED BY <1>1, <2>1, SeqEqual
<1>7. Scratch \in Ancestors(Temp(n))
  <2>1. IsStrictPrefix(Scratch, Temp(n)) BY <1>1, <1>3, <1>6, PrefixFront, PrefixSelf
  <2> QED BY <1>1, <1>3, <2>1, AncestorsAre
<1>8. ASSUME NEW a \in Ancestors(Temp(n)) PROVE a = Scratch
  <2>1. a \in Seq(U) /\ a # << >> /\ IsStrictPrefix(a, Temp(n)) BY <1>1, <1>8, AncestorsAre
  <2>2. IsPrefix(a, Scratch) BY <1>1, <1>3, <1>6, <2>1, PrefixFront
  <2>3. Len(a) \in Nat \ {0} BY <2>1, FrontIs
  <2> QED BY <1>1, <2>1, <2>2, <2>3, PrefixAnti
<1> QED BY <1>1, <1>2, <1>3, <1>4, <1>5, <1>6, <1>7, <1>8

LEMMA ParentsAt ==
  ASSUME NEW p, NEW D, D = WithParents(p)
  PROVE  /\ DOMAIN disk \subseteq DOMAIN D /\ DOMAIN D \subseteq DOMAIN disk \cup Ancestors(p)
         /\ \A q \in DOMAIN disk : D[q] = disk[q]
         /\ \A q \in DOMAIN D : q \notin DOMAIN disk => D[q].dir
         /\ Front(p) \notin ensured => Ancestors(p) \subseteq DOMAIN D
<1>1. CASE Front(p) \in ensured BY <1>1 DEF WithParents
<1>2. CASE Front(p) \notin ensured
  <2>1. D = Over(disk, [q \in Ancestors(p) |-> Entry(TRUE, Gone)]) BY <1>2 DEF WithParents
  <2> QED BY <2>1 DEF Over, Entry
<1> QED BY <1>1, <1>2

\* The parent of a place whose parents are directories, or were made before.
LEMMA ParentMade ==
  ASSUME NEW p \in Seq(U), p # << >>, NEW D, D = WithParents(p),
         \A a \in Ancestors(p) \cap DOMAIN disk : disk[a].dir, Front(p) \in ensured => HasParent(disk, p)
  PROVE  HasParent(D, p)
<1>1. CASE Len(p) = 1 BY <1>1 DEF HasParent
<1>2. CASE Len(p) # 1
  <2>1. Front(p) \in Seq(U) /\ Len(Front(p)) = Len(p) - 1 /\ Len(p) \in Nat \ {0} BY FrontIs
  <2>2. Front(p) # << >> BY <1>2, <2>1, EmptySeq
  <2>3. Front(p) \in Ancestors(p) BY <2>1, <2>2, PrefixFront, AncestorsAre DEF IsStrictPrefix
  <2>4. CASE Front(p) \in ensured BY <1>2, <2>4, ParentsAt DEF HasParent
  <2>5. CASE Front(p) \notin ensured
    <3>1. Front(p) \in DOMAIN D BY <2>3, <2>5, ParentsAt
    <3>2. Front(p) \in DOMAIN disk => D[Front(p)] = disk[Front(p)] /\ disk[Front(p)].dir BY <2>3, ParentsAt
    <3>3. Front(p) \notin DOMAIN disk => D[Front(p)].dir BY <3>1, ParentsAt
    <3> QED BY <3>1, <3>2, <3>3 DEF HasParent
  <2> QED BY <2>4, <2>5
<1> QED BY <1>1, <1>2

\* A move to a place whose parents are directories or missing.
LEMMA MoveGoes ==
  ASSUME DiskOK(disk), NEW src, NEW dst, Across(src, dst), src \in DOMAIN disk,
         todo # << >>, Head(todo) = Move(dst, src), ApplyOp,
         \A a \in Ancestors(dst) \cap DOMAIN disk : disk[a].dir,
         Front(dst) \in ensured => HasParent(disk, dst)
  PROVE  /\ pc' = pc /\ goal' = goal /\ store' = store /\ todo' = Tail(todo)
         /\ ensured' = ensured \cup {Front(dst)} /\ HasParent(disk', dst)
         /\ \A q \in Seq(U) :
              /\ IsPrefix(dst, q) => /\ q \in DOMAIN disk' <=> Rebase(q, dst, src) \in DOMAIN disk
                                     /\ q \in DOMAIN disk' => disk'[q] = disk[Rebase(q, dst, src)]
              /\ IsPrefix(src, q) => q \notin DOMAIN disk'
              /\ ~IsPrefix(src, q) /\ ~IsPrefix(dst, q) =>
                   /\ q \in DOMAIN disk => q \in DOMAIN disk' /\ disk'[q] = disk[q]
                   /\ q \in DOMAIN disk' /\ q \notin DOMAIN disk => q \in Ancestors(dst) /\ disk'[q].dir
<1>1. ApplyMove(dst, src) BY DEF ApplyOp, Move
<1>2. ~IsPrefix(src, dst) /\ ~IsPrefix(dst, src) /\ IsPlace(src) /\ IsPlace(dst) BY Apart
<1>3. src \in Seq(U) /\ dst \in Seq(U) /\ dst # << >> BY <1>2, PlaceIs
<1>4. ~Blocked(dst) BY DEF Blocked
<1>5. PICK D, e : D = WithParents(dst) /\ e = Without(D, dst) OBVIOUS
<1>6. HasParent(D, dst) BY <1>3, <1>5, ParentMade
<1>7. /\ DOMAIN disk \subseteq DOMAIN D /\ DOMAIN D \subseteq DOMAIN disk \cup Ancestors(dst)
      /\ (\A q \in DOMAIN disk : D[q] = disk[q]) /\ \A q \in DOMAIN D : q \notin DOMAIN disk => D[q].dir
  BY <1>5, ParentsAt
<1>8. DOMAIN e = {q \in DOMAIN D : ~IsPrefix(dst, q)} /\ \A q \in DOMAIN e : e[q] = D[q]
  BY <1>5 DEF Without, Restrict
<1>9. src \in DOMAIN D /\ src \in DOMAIN e BY <1>2, <1>7, <1>8
<1>10. HasParent(e, dst)
  <2>1. ~IsPrefix(dst, Front(dst)) BY <1>3, PrefixFront, PrefixAnti, FrontIs
  <2> QED BY <1>6, <1>8, <2>1 DEF HasParent
<1>11. Done(Moved(e, dst, src), store) BY <1>1, <1>4, <1>5, <1>9, <1>10 DEF ApplyMove
<1>12. disk' = Moved(e, dst, src) /\ pc' = pc /\ goal' = goal /\ store' = store /\ todo' = Tail(todo)
       /\ ensured' = ensured \cup {Front(dst)}
  BY <1>11 DEF Done, Move
<1>13. DOMAIN D \subseteq Seq(U)
  <2>1. Ancestors(dst) \subseteq Seq(U) BY <1>3, AncestorsAre
  <2> QED BY <1>7, <2>1 DEF DiskOK, DirsOver
<1>14. ASSUME NEW q \in Seq(U)
       PROVE  /\ IsPrefix(dst, q) => /\ q \in DOMAIN disk' <=> Rebase(q, dst, src) \in DOMAIN D
                                     /\ q \in DOMAIN disk' => disk'[q] = D[Rebase(q, dst, src)]
              /\ IsPrefix(src, q) => q \notin DOMAIN disk'
              /\ ~IsPrefix(src, q) /\ ~IsPrefix(dst, q) => /\ q \in DOMAIN disk' <=> q \in DOMAIN D
                                                           /\ q \in DOMAIN D => disk'[q] = D[q]
  BY <1>2, <1>3, <1>5, <1>9, <1>12, <1>13, MovedAt
<1>15. ASSUME NEW q \in Seq(U), IsPrefix(dst, q) PROVE Rebase(q, dst, src) \notin Ancestors(dst)
  <2>1. PICK x : x = Rebase(q, dst, src) OBVIOUS
  <2>2. x \in Seq(U) /\ IsPrefix(src, x) BY <1>3, <1>15, <2>1, RebaseBack
  <2>3. x \in Ancestors(dst) => IsPrefix(x, dst) BY <1>3, AncestorsAre DEF IsStrictPrefix
  <2> QED BY <1>2, <1>3, <2>1, <2>2, <2>3, PrefixTrans
<1>16. HasParent(disk', dst)
  <2>1. Front(dst) \in Seq(U) /\ IsPrefix(Front(dst), dst) /\ ~IsPrefix(dst, Front(dst))
    BY <1>3, PrefixFront, PrefixAnti, FrontIs
  <2>2. ~IsPrefix(src, Front(dst)) BY <1>2, <1>3, <2>1, PrefixTrans
  <2> QED BY <1>6, <1>14, <2>1, <2>2 DEF HasParent
<1> QED BY <1>7, <1>12, <1>14, <1>15, <1>16

LEMMA HasAbove ==
  ASSUME NEW d, NEW p \in Seq(U), p # << >>, \A a \in Ancestors(p) : a \in DOMAIN d /\ d[a].dir
  PROVE  HasParent(d, p)
<1>1. CASE Len(p) = 1 BY <1>1 DEF HasParent
<1>2. CASE Len(p) # 1
  <2>1. Front(p) \in Seq(U) /\ Len(Front(p)) = Len(p) - 1 /\ Len(p) \in Nat \ {0} BY FrontIs
  <2>2. Front(p) # << >> BY <1>2, <2>1, EmptySeq
  <2>3. Front(p) \in Ancestors(p) BY <2>1, <2>2, PrefixFront, AncestorsAre DEF IsStrictPrefix
  <2> QED BY <2>3 DEF HasParent
<1> QED BY <1>1, <1>2

\* Nothing but p and what is below it changed.
Beside(e, d, p) == \A q \in Seq(U) : ~IsPrefix(p, q) =>
                      /\ q \in DOMAIN e <=> q \in DOMAIN d
                      /\ q \in DOMAIN d => e[q] = d[q]

\* A file or a directory of the store brought to a place in directories that
\* are there.
LEMMA StageGoes ==
  ASSUME DiskOK(disk), NEW p \in Paths, NEW i \in DOMAIN store,
         todo # << >>, Head(todo) = Stage(p, i), ApplyOp,
         \A a \in Ancestors(p) : a \in DOMAIN disk /\ disk[a].dir
  PROVE  /\ pc' = pc /\ goal' = goal /\ todo' = Tail(todo) /\ p \in DOMAIN disk'
         /\ Beside(disk', disk, p)
         /\ ~store[i] => /\ store' = Restrict(store, DOMAIN store \ {i})
                         /\ disk'[p] = Entry(FALSE, Staged(i))
                         /\ \A q \in Seq(U) : IsStrictPrefix(p, q) => q \notin DOMAIN disk'
         /\ store[i] => /\ store' = store /\ disk'[p].dir
                        /\ \A q \in Seq(U) : IsStrictPrefix(p, q) =>
                             /\ q \in DOMAIN disk' <=> q \in DOMAIN disk
                             /\ q \in DOMAIN disk => disk'[q] = disk[q]
<1>1. ApplyStage(p, i) BY DEF ApplyOp, Stage
<1>2. ~Blocked(p) BY DEF Blocked
<1>3. p \in Seq(U) /\ p # << >> BY PathOnDisk
<1>4. PICK D : D = WithParents(p) OBVIOUS
<1>5. DOMAIN D = DOMAIN disk /\ \A q \in DOMAIN disk : D[q] = disk[q]
  <2>1. DOMAIN disk \subseteq DOMAIN D /\ DOMAIN D \subseteq DOMAIN disk \cup Ancestors(p)
        /\ \A q \in DOMAIN disk : D[q] = disk[q]
    BY <1>4, ParentsAt
  <2> QED BY <2>1
<1>6. HasParent(D, p)
  <2>1. \A a \in Ancestors(p) : a \in DOMAIN D /\ D[a].dir BY <1>5
  <2> QED BY <1>3, <2>1, HasAbove
<1>7. PICK e : e = Without(D, p) OBVIOUS
<1>8. DOMAIN e = {q \in DOMAIN disk : ~IsPrefix(p, q)} /\ \A q \in DOMAIN e : e[q] = disk[q]
  BY <1>5, <1>7 DEF Without, Restrict
<1>9. IsPrefix(p, p) /\ \A q : IsStrictPrefix(p, q) => IsPrefix(p, q) /\ q # p
  BY <1>3, PrefixSelf DEF IsStrictPrefix
<1>10. ASSUME NEW x, NEW f, f = Put(e, p, x)
       PROVE  p \in DOMAIN f /\ f[p] = x /\ Beside(f, disk, p)
              /\ \A q \in Seq(U) : IsStrictPrefix(p, q) => q \notin DOMAIN f
  <2>1. DOMAIN f = DOMAIN e \cup {p} /\ \A q \in DOMAIN f : f[q] = IF q = p THEN x ELSE e[q]
    BY <1>10 DEF Put
  <2> QED BY <1>8, <1>9, <2>1 DEF Beside
<1>11. CASE ~store[i]
  <2>1. Done(Put(e, p, Entry(FALSE, Staged(i))), Restrict(store, DOMAIN store \ {i}))
    BY <1>1, <1>2, <1>4, <1>6, <1>7, <1>11 DEF ApplyStage
  <2>2. /\ disk' = Put(e, p, Entry(FALSE, Staged(i))) /\ store' = Restrict(store, DOMAIN store \ {i})
        /\ pc' = pc /\ goal' = goal /\ todo' = Tail(todo)
    BY <2>1 DEF Done
  <2> QED BY <1>10, <1>11, <2>2
<1>12. CASE store[i] /\ p \in DOMAIN D /\ D[p].dir
  <2>1. Done(D, store) BY <1>1, <1>2, <1>4, <1>6, <1>12 DEF ApplyStage
  <2>2. disk' = D /\ store' = store /\ pc' = pc /\ goal' = goal /\ todo' = Tail(todo)
    BY <2>1 DEF Done
  <2> QED BY <1>5, <1>12, <2>2 DEF Beside
<1>13. CASE store[i] /\ ~(p \in DOMAIN D /\ D[p].dir)
  <2>1. Done(Put(e, p, Entry(TRUE, Gone)), store)
    BY <1>1, <1>2, <1>4, <1>6, <1>7, <1>13 DEF ApplyStage
  <2>2. /\ disk' = Put(e, p, Entry(TRUE, Gone)) /\ store' = store
        /\ pc' = pc /\ goal' = goal /\ todo' = Tail(todo)
    BY <2>1 DEF Done
  <2>3. \A q \in Seq(U) : IsStrictPrefix(p, q) => q \notin DOMAIN disk
    BY <1>3, <1>5, <1>13, DiskAbove
  <2>4. p \in DOMAIN disk' /\ disk'[p] = Entry(TRUE, Gone) /\ Beside(disk', disk, p)
        /\ \A q \in Seq(U) : IsStrictPrefix(p, q) => q \notin DOMAIN disk'
    BY <1>10, <2>2
  <2>5. disk'[p].dir BY <2>4 DEF Entry
  <2> QED BY <1>13, <2>2, <2>3, <2>4, <2>5
<1> QED BY <1>11, <1>12, <1>13

LEMMA DeleteGoes ==
  ASSUME NEW p \in Paths, todo # << >>, Head(todo) = Delete(p), ApplyOp
  PROVE  /\ pc' = pc /\ goal' = goal /\ todo' = Tail(todo) /\ store' = store
         /\ Beside(disk', disk, p) /\ \A q : IsPrefix(p, q) => q \notin DOMAIN disk'
<1>1. disk' = Without(disk, p) /\ pc' = pc /\ goal' = goal /\ todo' = Tail(todo) /\ store' = store
  BY DEF ApplyOp, Delete, ApplyDelete
<1>2. DOMAIN disk' = {q \in DOMAIN disk : ~IsPrefix(p, q)} /\ \A q \in DOMAIN disk' : disk'[q] = disk[q]
  BY <1>1 DEF Without, Restrict
<1> QED BY <1>1, <1>2 DEF Beside

-----------------------------------------------------------------------------
(* Of the paths above one.                                                 *)

LEMMA LongestAbove ==
  ASSUME NEW S, NEW q \in Seq(S), NEW X, X # {}, \A x \in X : x \in Seq(S) /\ IsPrefix(x, q)
  PROVE  \E x \in X : \A y \in X : IsPrefix(y, x)
<1>1. PICK k \in Nat : k = Len(q) BY LenProperties
<1>2. PICK T : T = {k - Len(x) : x \in X} OBVIOUS
<1>3. \A x \in X : Len(x) \in Nat /\ Len(x) <= k BY <1>1, LenProperties, PrefixIs
<1>4. T \in SUBSET Nat /\ T # {} BY <1>2, <1>3
<1>5. PICK n \in T : \A m \in T : n <= m BY <1>4, LeastOf
<1>6. PICK x \in X : n = k - Len(x) BY <1>2
<1>7. ASSUME NEW y \in X PROVE Len(y) <= Len(x)
  <2>1. k - Len(x) <= k - Len(y) BY <1>2, <1>5, <1>6
  <2> QED BY <1>3, <2>1
<1> QED BY <1>7, PrefixChain

LEMMA RebaseRoot ==
  ASSUME NEW S, NEW q \in Seq(S)
  PROVE  IsPrefix(<< >>, q) /\ Rebase(q, << >>, << >>) = q
<1>1. << >> \in Seq(S) /\ Len(<< >>) = 0 /\ Len(q) \in Nat BY EmptySeq, LenProperties
<1>2. PICK e : e = << >> OBVIOUS
<1>3. e \in Seq(S) /\ Len(e) = 0 BY <1>1, <1>2
<1>4. IsPrefix(e, q)
  <2>1. Len(e) <= Len(q) /\ \A i \in 1 .. Len(e) : e[i] = q[i] BY <1>1, <1>3
  <2> QED BY <1>3, <2>1, PrefixIs
<1>5. PICK r : r = Rebase(q, e, e) OBVIOUS
<1>6. IsRebase(r, q, e, e, S) BY <1>3, <1>4, <1>5, RebaseIs
<1>7. r \in Seq(S) /\ Len(r) = Len(q) /\ \A i \in 1 .. Len(q) : r[i] = q[i] BY <1>1, <1>3, <1>6 DEF IsRebase
<1>8. r = q BY <1>7, SeqEqual
<1> QED BY <1>2, <1>4, <1>5, <1>8

-----------------------------------------------------------------------------
(* The first part of a plan: the sources of the renames are saved.         *)

\* The source of p in the n-th scratch file, less what was saved before.
Holds(d, t, d0, n, p) ==
  \A z \in Seq(U) : IsPrefix(Temp(n), z) =>
    LET y == Rebase(z, Temp(n), Source(t, p))
    IN  /\ z \in DOMAIN d <=> y \in DOMAIN d0 /\ ~Out(t, Source(t, p), y)
        /\ z \in DOMAIN d => d[z] = d0[y]

Saving(d, st, en, t, d0, st0, k) ==
  /\ k \in 0 .. Len(Saves(t)) /\ st = st0 /\ en \subseteq {Scratch}
  /\ Scratch \in DOMAIN d /\ d[Scratch].dir
  /\ \A y \in Main :
       /\ y \in DOMAIN d <=> y \in DOMAIN d0 /\ \A n \in 1 .. k : ~IsPrefix(Source(t, Saves(t)[n]), y)
       /\ y \in DOMAIN d => d[y] = d0[y]
  /\ \A n \in 1 .. k : Holds(d, t, d0, n, Saves(t)[n])

LEMMA SavesAre ==
  ASSUME NEW v, NEW t, NEW d, NEW st, Ready(v, t, d, st), NEW s, s = Saves(t)
  PROVE  /\ Len(s) \in Nat /\ DOMAIN s = 1 .. Len(s) /\ Range(s) = Red(t)
         /\ \A n \in 1 .. Len(s) :
              /\ s[n] \in Red(t) /\ Source(t, s[n]) \in Paths /\ Source(t, s[n]) \in Main
              /\ Source(t, s[n]) \in Seq(U) /\ Source(t, s[n]) \in DOMAIN d /\ s[n] \in Paths
         /\ \A i, j \in 1 .. Len(s) :
              i < j => s[i] # s[j] /\ ~IsPrefix(Source(t, s[i]), Source(t, s[j]))
<1>1. IsTree(t) BY DEF Ready
<1>2. s \in Seq(Paths) /\ Range(s) = Red(t) BY <1>1, RenamesSaved, VisibleInPlan
<1>3. Len(s) \in Nat /\ DOMAIN s = 1 .. Len(s) BY <1>2, LenProperties
<1>4. ASSUME NEW n \in 1 .. Len(s)
      PROVE  /\ s[n] \in Red(t) /\ Source(t, s[n]) \in Paths /\ Source(t, s[n]) \in Main
             /\ Source(t, s[n]) \in Seq(U) /\ Source(t, s[n]) \in DOMAIN d /\ s[n] \in Paths
  <2>1. s[n] \in Red(t) BY <1>2, <1>3 DEF Range
  <2>2. Source(t, s[n]) \in Paths /\ Source(t, s[n]) \in DOMAIN d /\ s[n] \in Paths BY <2>1, RenamesAre
  <2> QED BY <2>1, <2>2, MainIs, PathOnDisk
<1>5. InOrder(s, Shallower(t)) BY <1>1, PlanOrdered
<1>6. ASSUME NEW i \in 1 .. Len(s), NEW j \in 1 .. Len(s), i < j
      PROVE  s[i] # s[j] /\ ~IsPrefix(Source(t, s[i]), Source(t, s[j]))
  <2>1. <<s[i], s[j]>> \notin Shallower(t) BY <1>3, <1>5, <1>6 DEF InOrder
  <2>2. PICK a, b : a = Source(t, s[i]) /\ b = Source(t, s[j]) OBVIOUS
  <2>3. a \in Seq(U) /\ b \in Seq(U) /\ s[i] \in Paths /\ s[j] \in Paths BY <1>4, <2>2
  <2>4. s[i] # s[j] /\ ~(Len(a) < Len(b)) BY <2>1, <2>2, <2>3 DEF Shallower
  <2>5. a # b BY <1>4, <2>2, <2>4, RenamesAre
  <2>6. Len(a) \in Nat /\ Len(b) \in Nat BY <2>3, LenProperties
  <2>7. Len(b) <= Len(a) BY <2>4, <2>6
  <2>8. ~IsPrefix(a, b) BY <2>3, <2>5, <2>7, PrefixAnti
  <2> QED BY <2>2, <2>4, <2>8
<1> QED BY <1>2, <1>3, <1>4, <1>5, <1>6

LEMMA SaveStep ==
  ASSUME NEW v, NEW t, NEW d0, NEW st0, Ready(v, t, d0, st0), NEW k,
         Saving(disk, store, ensured, t, d0, st0, k), k < Len(Saves(t)),
         DiskOK(disk), todo # << >>, Head(todo) = Move(Temp(k + 1), Source(t, Saves(t)[k + 1])), ApplyOp
  PROVE  /\ Saving(disk', store', ensured', t, d0, st0, k + 1)
         /\ pc' = pc /\ goal' = goal /\ todo' = Tail(todo)
<1>1. PICK s : s = Saves(t) OBVIOUS
<1>2. PICK n : n = k + 1 OBVIOUS
<1>3. PICK p, a : p = s[n] /\ a = Source(t, p) OBVIOUS
<1>4. /\ Len(s) \in Nat /\ Range(s) = Red(t) /\ DOMAIN s = 1 .. Len(s)
      /\ \A i \in 1 .. Len(s) : s[i] \in Red(t) /\ Source(t, s[i]) \in Main /\ Source(t, s[i]) \in Seq(U)
      /\ \A i, j \in 1 .. Len(s) : i < j => s[i] # s[j] /\ ~IsPrefix(Source(t, s[i]), Source(t, s[j]))
  BY <1>1, SavesAre
<1>5. k \in Nat /\ k \in 0 .. Len(s) /\ n \in 1 .. Len(s) /\ n \in Nat /\ 1 .. n = (1 .. k) \cup {n}
      /\ n \notin 1 .. k
  BY <1>1, <1>2, <1>4 DEF Saving
<1>6. a \in Paths /\ a \in DOMAIN d0 /\ a \in Main /\ a \in Seq(U) BY <1>1, <1>3, <1>5, SavesAre
<1>7. \A i \in 1 .. k : ~IsPrefix(Source(t, s[i]), a)
  <2>1. \A i \in 1 .. k : i \in 1 .. Len(s) /\ i < n BY <1>2, <1>4, <1>5
  <2> QED BY <1>3, <1>4, <1>5, <2>1
<1>8. a \in DOMAIN disk BY <1>1, <1>6, <1>7 DEF Saving
<1>9. /\ Temp(n) \in Seq(U) /\ Front(Temp(n)) = Scratch /\ Ancestors(Temp(n)) = {Scratch} /\ Scratch \notin Main
      /\ \A z \in Seq(U) : IsPrefix(Temp(n), z) => z \notin Main /\ z # Scratch
  BY <1>5, TempsAre
<1>10. Across(a, Temp(n)) BY <1>5, <1>6 DEF Across
<1>11. Head(todo) = Move(Temp(n), a) BY <1>1, <1>2, <1>3
<1>12. Scratch \in DOMAIN disk /\ disk[Scratch].dir BY DEF Saving
<1>13. HasParent(disk, Temp(n)) BY <1>9, <1>12 DEF HasParent
<1>14. /\ pc' = pc /\ goal' = goal /\ store' = store /\ todo' = Tail(todo)
       /\ ensured' = ensured \cup {Scratch}
       /\ \A q \in Seq(U) :
            /\ IsPrefix(Temp(n), q) => /\ q \in DOMAIN disk' <=> Rebase(q, Temp(n), a) \in DOMAIN disk
                                       /\ q \in DOMAIN disk' => disk'[q] = disk[Rebase(q, Temp(n), a)]
            /\ IsPrefix(a, q) => q \notin DOMAIN disk'
            /\ ~IsPrefix(a, q) /\ ~IsPrefix(Temp(n), q) =>
                 /\ q \in DOMAIN disk => q \in DOMAIN disk' /\ disk'[q] = disk[q]
                 /\ q \in DOMAIN disk' /\ q \notin DOMAIN disk => q = Scratch
  BY <1>8, <1>9, <1>10, <1>11, <1>12, <1>13, MoveGoes
<1>15. \A y \in Main : y \in Seq(U) /\ y # Scratch /\ ~IsPrefix(Temp(n), y) BY <1>9 DEF Main
<1>16. \A q \in Seq(U) : IsPrefix(a, q) => q \in Main BY <1>6, MainIs
<1>17. ASSUME NEW y \in Main
       PROVE  /\ y \in DOMAIN disk' <=> y \in DOMAIN d0 /\ \A i \in 1 .. n : ~IsPrefix(Source(t, s[i]), y)
              /\ y \in DOMAIN disk' => disk'[y] = d0[y]
  <2>1. /\ y \in DOMAIN disk <=> y \in DOMAIN d0 /\ \A i \in 1 .. k : ~IsPrefix(Source(t, s[i]), y)
        /\ y \in DOMAIN disk => disk[y] = d0[y]
    BY <1>1 DEF Saving
  <2>2. (\A i \in 1 .. n : ~IsPrefix(Source(t, s[i]), y))
          <=> ~IsPrefix(a, y) /\ \A i \in 1 .. k : ~IsPrefix(Source(t, s[i]), y)
    BY <1>3, <1>5
  <2> QED BY <1>14, <1>15, <2>1, <2>2
<1>18. ASSUME NEW i \in 1 .. k PROVE Holds(disk', t, d0, i, s[i])
  <2>1. SUFFICES ASSUME NEW z \in Seq(U), IsPrefix(Temp(i), z)
                 PROVE  /\ z \in DOMAIN disk' <=> z \in DOMAIN disk
                        /\ z \in DOMAIN disk' => disk'[z] = disk[z]
    BY <1>1 DEF Holds, Saving
  <2>2. i \in Nat /\ i # n BY <1>5
  <2>3. z \notin Main /\ z # Scratch BY <2>1, <2>2, TempsAre
  <2>4. ~IsPrefix(Temp(n), z) BY <1>5, <2>1, <2>2, TempsAre
  <2> QED BY <1>14, <1>16, <2>3, <2>4
<1>19. Holds(disk', t, d0, n, p)
  <2>1. SUFFICES ASSUME NEW z \in Seq(U), IsPrefix(Temp(n), z), NEW y, y = Rebase(z, Temp(n), a)
                 PROVE  /\ z \in DOMAIN disk' <=> y \in DOMAIN d0 /\ ~Out(t, a, y)
                        /\ z \in DOMAIN disk' => disk'[z] = d0[y]
    BY <1>3 DEF Holds
  <2>2. y \in Seq(U) /\ IsPrefix(a, y) BY <1>6, <1>9, <2>1, RebaseBack
  <2>3. y \in Main BY <1>16, <2>2
  <2>4. /\ y \in DOMAIN disk <=> y \in DOMAIN d0 /\ \A i \in 1 .. k : ~IsPrefix(Source(t, s[i]), y)
        /\ y \in DOMAIN disk => disk[y] = d0[y]
    BY <1>1, <2>3 DEF Saving
  <2>5. /\ z \in DOMAIN disk' <=> y \in DOMAIN disk
        /\ z \in DOMAIN disk' => disk'[z] = disk[y]
    BY <1>14, <2>1
  <2>6. ASSUME NEW i \in 1 .. k, IsPrefix(Source(t, s[i]), y) PROVE Out(t, a, y)
    <3>1. PICK b : b = Source(t, s[i]) OBVIOUS
    <3>2. i \in 1 .. Len(s) BY <1>4, <1>5
    <3>3. b \in Seq(U) /\ ~IsPrefix(b, a) /\ s[i] \in Red(t) BY <1>4, <1>7, <3>1, <3>2
    <3>4. Len(a) \in Nat /\ Len(b) \in Nat BY <1>6, <3>3, LenProperties
    <3>5. Len(a) <= Len(b) \/ Len(b) <= Len(a) BY <3>4
    <3>6. IsPrefix(a, b) BY <1>6, <2>2, <2>6, <3>1, <3>3, <3>5, PrefixChain
    <3>7. IsStrictPrefix(a, b) BY <1>6, <3>3, <3>6, PrefixSelf DEF IsStrictPrefix
    <3> QED BY <2>6, <3>1, <3>3, <3>7 DEF Out
  <2>7. ASSUME Out(t, a, y) PROVE \E i \in 1 .. k : IsPrefix(Source(t, s[i]), y)
    <3>1. PICK m \in Red(t) : IsStrictPrefix(a, Source(t, m)) /\ IsPrefix(Source(t, m), y) BY <2>7 DEF Out
    <3>2. PICK j \in 1 .. Len(s) : s[j] = m BY <1>4 DEF Range
    <3>3. j # n BY <1>3, <3>1, <3>2 DEF IsStrictPrefix
    <3>4. ~(n < j) BY <1>3, <1>4, <1>5, <3>1, <3>2 DEF IsStrictPrefix
    <3>5. j \in 1 .. k BY <1>2, <1>4, <1>5, <3>3, <3>4
    <3> QED BY <3>1, <3>2, <3>5
  <2> QED BY <2>4, <2>5, <2>6, <2>7
<1>20. Scratch \in DOMAIN disk' /\ disk'[Scratch].dir
  <2>1. Scratch \in Seq(U) BY TempIsPath
  <2>2. ~IsPrefix(a, Scratch) BY <1>9, <1>16, <2>1
  <2>3. ~IsPrefix(Temp(n), Scratch) BY <1>9, <2>1
  <2> QED BY <1>12, <1>14, <2>1, <2>2, <2>3
<1>21. \A i \in 1 .. n : Holds(disk', t, d0, i, s[i]) BY <1>3, <1>5, <1>18, <1>19
<1>22. store' = st0 /\ ensured' \subseteq {Scratch} /\ n \in 0 .. Len(s) BY <1>4, <1>5, <1>14 DEF Saving
<1>23. Saving(disk', store', ensured', t, d0, st0, n)
  BY <1>1, <1>17, <1>20, <1>21, <1>22 DEF Saving
<1> QED BY <1>2, <1>14, <1>23

-----------------------------------------------------------------------------
(* The second part: what was saved goes to its place.                      *)

LEMMA OrderIs ==
  ASSUME NEW v, NEW t, NEW d, NEW st, Ready(v, t, d, st), NEW r, r = Renames(t)
  PROVE  /\ Len(r) \in Nat /\ DOMAIN r = 1 .. Len(r) /\ Range(r) = Red(t)
         /\ \A n \in 1 .. Len(r) : r[n] \in Red(t) /\ r[n] \in Paths /\ r[n] \in Seq(N) /\ r[n] \in Seq(U)
         /\ \A i, j \in 1 .. Len(r) : i < j => ~IsPrefix(r[j], r[i])
<1>1. IsTree(t) BY DEF Ready
<1>2. r \in Seq(Paths) /\ Range(r) = Red(t) BY <1>1, RenamesSaved, VisibleInPlan
<1>3. Len(r) \in Nat /\ DOMAIN r = 1 .. Len(r) BY <1>2, LenProperties
<1>4. ASSUME NEW n \in 1 .. Len(r)
      PROVE  r[n] \in Red(t) /\ r[n] \in Paths /\ r[n] \in Seq(N) /\ r[n] \in Seq(U)
  <2>1. r[n] \in Red(t) BY <1>2, <1>3 DEF Range
  <2>2. r[n] \in Paths BY <2>1, RenamesAre
  <2> QED BY <2>1, <2>2, PathOnDisk
<1>5. InOrder(r, Above) BY <1>1, PlanOrdered
<1>6. ASSUME NEW i \in 1 .. Len(r), NEW j \in 1 .. Len(r), i < j PROVE ~IsPrefix(r[j], r[i])
  <2>1. <<r[i], r[j]>> \notin Above BY <1>3, <1>5, <1>6 DEF InOrder
  <2> QED BY <1>4, <2>1 DEF Above
<1> QED BY <1>2, <1>3, <1>4, <1>6

\* A visible path that is backed by the base is where the renames put it, ...
LEMMA BaseShown ==
  ASSUME NEW v, NEW t, NEW d, NEW st, Ready(v, t, d, st), NEW q \in DOMAIN v, v[q].kind = "base"
  PROVE  Placed(t, d)[q] = v[q] /\ Placed(t, d)[q] # Gone
<1>1. q \in Paths /\ v[q] \in Backs BY ReadyAt
<1>2. ASSUME NEW a \in Writers(t), IsPrefix(a, q) PROVE a # q /\ ~Clears(t, st, a)
  <2>1. /\ a \in Paths /\ a \in DOMAIN t
        /\ t[a].new = Gone => a \notin DOMAIN v
        /\ t[a].new # Gone => a \in DOMAIN v /\ v[a] = t[a].new /\ t[a].new.kind = "staged"
    BY WritersAre
  <2>2. a # q BY <2>1
  <2>3. IsStrictPrefix(a, q) BY <1>2, <2>2 DEF IsStrictPrefix
  <2>4. a \in DOMAIN v /\ DirIn(v, d, st, a) BY <2>1, <2>3, AllAbove DEF Ready, Shows
  <2>5. a # << >> BY <2>1, FrontPath
  <2> QED BY <2>1, <2>2, <2>4, <2>5 DEF DirIn, Clears
<1>3. Bare(t, st, q) BY <1>2 DEF Bare
<1>4. ViewAt(v, q) = Placed(t, d)[q] BY <1>1, <1>3, BareAt
<1> QED BY <1>1, <1>4, BacksAre DEF ViewAt

\* ... and a visible directory that is not is one of the store.
LEMMA DirShown ==
  ASSUME NEW v, NEW t, NEW d, NEW st, Ready(v, t, d, st), NEW q \in DOMAIN v, DirIn(v, d, st, q),
         Placed(t, d)[q] = Gone
  PROVE  q \in Writers(t) /\ ~Clears(t, st, q)
<1>1. q \in Paths /\ v[q] \in Backs BY ReadyAt
<1>2. v[q].kind # "base" BY BaseShown
<1>3. At(t, q).new # Nil /\ v[q] = At(t, q).new BY <1>2, ReadyAt, Backings
<1>4. q \in DOMAIN t /\ t[q].new = v[q] BY <1>3 DEF At, Scaffold, Node
<1>5. q \in Writers(t)
  <2>1. q \in InPlan(t) BY <1>3, <1>4, VisibleInPlan DEF Net
  <2> QED BY <1>2, <1>4, <2>1 DEF Writers
<1>6. q # << >> BY <1>1, FrontPath
<1>7. st[t[q].new.ino] BY <1>2, <1>4, <1>6 DEF DirIn
<1>8. t[q].new # Gone BY <1>1, <1>4, BacksAre
<1> QED BY <1>5, <1>7, <1>8 DEF Clears

\* The renames that wait; what none of them is above is settled.
Waits(t, j)      == {Renames(t)[n] : n \in j + 1 .. Len(Renames(t))}
Settled(t, j, q) == \A p \in Waits(t, j) : ~IsPrefix(p, q)

Placing(d, st, en, t, d0, st0, j) ==
  /\ j \in 0 .. Len(Renames(t)) /\ st = st0
  /\ \A q \in Paths : Settled(t, j, q) =>
       /\ Placed(t, d0)[q] # Gone => q \in DOMAIN d /\ d[q] = d0[Placed(t, d0)[q].path]
       /\ Placed(t, d0)[q] = Gone /\ q \in DOMAIN d => d[q].dir /\ q \in Writers(t) /\ ~Clears(t, st0, q)
  /\ \A n \in 1 .. Len(Saves(t)) : Saves(t)[n] \in Waits(t, j) => Holds(d, t, d0, n, Saves(t)[n])
  /\ \A e \in en : e \in {<< >>, Scratch} \/ (e \in Paths /\ e \in DOMAIN d /\ d[e].dir /\ Settled(t, j, e))

LEMMA PlacingStart ==
  ASSUME NEW v, NEW t, NEW d0, NEW st0, Ready(v, t, d0, st0), NEW d, NEW st, NEW en,
         Saving(d, st, en, t, d0, st0, Len(Saves(t)))
  PROVE  Placing(d, st, en, t, d0, st0, 0)
<1>1. PICK s, r, L : s = Saves(t) /\ r = Renames(t) /\ L = Placed(t, d0) OBVIOUS
<1>2. Len(r) \in Nat /\ DOMAIN r = 1 .. Len(r) /\ Range(r) = Red(t) BY <1>1, OrderIs
<1>3. Waits(t, 0) = Red(t) BY <1>1, <1>2 DEF Waits, Range
<1>4. Range(s) = Red(t) /\ DOMAIN s = 1 .. Len(s) BY <1>1, SavesAre
<1>5. ASSUME NEW q \in Paths, Settled(t, 0, q)
      PROVE  L[q] # Gone <=> q \in DOMAIN d /\ (L[q] # Gone => d[q] = d0[L[q].path])
  <2>1. \A m \in Red(t) : ~IsPrefix(m, q) BY <1>3, <1>5 DEF Settled
  <2>2. q \in Seq(N) /\ q \in Main BY PathOnDisk, MainIs
  <2>3. IsPrefix(<< >>, q) /\ Rebase(q, << >>, << >>) = q /\ Src(t, << >>) = << >>
    BY <2>2, RebaseRoot DEF Src
  <2>4. L[q] = IF q \in DOMAIN d0 /\ ~Out(t, << >>, q) THEN Base(q) ELSE Gone
    <3>1. << >> \in Red(t) \cup {<< >>} OBVIOUS
    <3>2. \A m \in Red(t) : ~(IsStrictPrefix(<< >>, m) /\ IsPrefix(m, q)) BY <2>1
    <3> QED BY <1>1, <2>3, <3>1, <3>2, LiesBelow
  <2>5. Out(t, << >>, q) <=> \E n \in 1 .. Len(s) : IsPrefix(Source(t, s[n]), q)
    <3>1. \A m \in Red(t) : Source(t, m) \in Seq(N) /\ Source(t, m) # << >> BY RenamesAre, FrontPath
    <3>2. \A m \in Red(t) : IsStrictPrefix(<< >>, Source(t, m)) BY <3>1, RebaseRoot DEF IsStrictPrefix
    <3> QED BY <1>4, <3>2 DEF Out, Range
  <2>6. /\ q \in DOMAIN d <=> q \in DOMAIN d0 /\ \A n \in 1 .. Len(s) : ~IsPrefix(Source(t, s[n]), q)
        /\ q \in DOMAIN d => d[q] = d0[q]
    BY <1>1, <2>2 DEF Saving
  <2> QED BY <2>4, <2>5, <2>6, Backings
<1>6. 0 \in 0 .. Len(r) /\ st = st0 /\ en \subseteq {Scratch} BY <1>2 DEF Saving
<1>7. \A n \in 1 .. Len(s) : Holds(d, t, d0, n, s[n]) BY <1>1 DEF Saving
<1> QED BY <1>1, <1>5, <1>6, <1>7 DEF Placing

LEMMA PlaceStep ==
  ASSUME NEW v, NEW t, NEW d0, NEW st0, Ready(v, t, d0, st0), NEW j,
         Placing(disk, store, ensured, t, d0, st0, j), j < Len(Renames(t)), DiskOK(disk),
         todo # << >>, Head(todo) = Move(Renames(t)[j + 1], TempOf(t, Renames(t)[j + 1])), ApplyOp
  PROVE  /\ Placing(disk', store', ensured', t, d0, st0, j + 1)
         /\ pc' = pc /\ goal' = goal /\ todo' = Tail(todo)
<1>1. PICK s, r, L : s = Saves(t) /\ r = Renames(t) /\ L = Placed(t, d0) OBVIOUS
<1>2. PICK i : i = j + 1 OBVIOUS
<1>3. PICK p : p = r[i] OBVIOUS
<1>4. /\ Len(r) \in Nat /\ Range(r) = Red(t)
      /\ \A n \in 1 .. Len(r) : r[n] \in Red(t) /\ r[n] \in Paths /\ r[n] \in Seq(N) /\ r[n] \in Seq(U)
      /\ \A m, n \in 1 .. Len(r) : m < n => ~IsPrefix(r[n], r[m])
      /\ DOMAIN r = 1 .. Len(r)
  BY <1>1, OrderIs
<1>5. j \in Nat /\ i \in 1 .. Len(r) /\ i \in 0 .. Len(r) BY <1>1, <1>2, <1>4 DEF Placing
<1>6. p \in Red(t) /\ p \in Paths /\ p \in Seq(N) /\ p \in Seq(U) /\ IsPrefix(p, p) BY <1>3, <1>4, <1>5, PrefixSelf
<1>7. Waits(t, j) = Waits(t, i) \cup {p} /\ p \notin Waits(t, i)
  <2>1. j + 1 .. Len(r) = (i + 1 .. Len(r)) \cup {i} BY <1>2, <1>4, <1>5
  <2>2. \A n \in i + 1 .. Len(r) : n \in 1 .. Len(r) /\ i < n BY <1>4, <1>5
  <2>3. p \notin Waits(t, i) BY <1>1, <1>3, <1>4, <1>5, <1>6, <2>2 DEF Waits
  <2> QED BY <1>1, <1>3, <2>1, <2>3 DEF Waits
<1>8. \A x \in Waits(t, i) : x \in Paths /\ x \in Seq(N) /\ x \in Seq(U) /\ ~IsPrefix(x, p)
  <2>1. \A n \in i + 1 .. Len(r) : n \in 1 .. Len(r) /\ i < n BY <1>4, <1>5
  <2> QED BY <1>1, <1>3, <1>4, <1>5, <2>1 DEF Waits
<1>9. \A m \in Red(t) : IsStrictPrefix(p, m) => m \in Waits(t, i)
  <2> SUFFICES ASSUME NEW m \in Red(t), IsStrictPrefix(p, m) PROVE m \in Waits(t, i) OBVIOUS
  <2>1. PICK n \in 1 .. Len(r) : m = r[n] BY <1>4 DEF Range
  <2>2. ~(n < i) BY <1>3, <1>4, <1>5, <2>1 DEF IsStrictPrefix
  <2>3. n # i BY <1>3, <2>1 DEF IsStrictPrefix
  <2>4. n \in i + 1 .. Len(r) BY <1>4, <1>5, <2>2, <2>3
  <2> QED BY <1>1, <2>1, <2>4 DEF Waits
<1>10. PICK n \in 1 .. Len(s) : TempOf(t, p) = Temp(n) /\ s[n] = p
  <2>1. IsTree(t) /\ p \in Range(Renames(t)) BY <1>1, <1>4, <1>6 DEF Ready
  <2>2. DOMAIN s = 1 .. Len(s) BY <1>1, SavesAre
  <2> QED BY <1>1, <2>1, <2>2, TempIs
<1>11. PICK a : a = Source(t, p) OBVIOUS
<1>12. a \in Paths /\ a \in DOMAIN d0 /\ a \in Seq(U) /\ a \in Seq(N) /\ a = Src(t, p) /\ p # << >>
       /\ ~Out(t, a, a)
  <2>1. p # << >> BY <1>6, FrontPath
  <2>2. a = Src(t, p) BY <1>11, <2>1 DEF Src
  <2>3. a \in Paths /\ a \in DOMAIN d0 BY <1>6, <1>11, RenamesAre
  <2>4. ~Out(t, a, a) BY <1>6, <2>2, SourcesAre
  <2> QED BY <2>1, <2>2, <2>3, <2>4, PathOnDisk
<1>13. n \in Nat BY <1>1, SavesAre
<1>14. /\ Temp(n) \in Seq(U) /\ \A z \in Seq(U) : IsPrefix(Temp(n), z) => z \notin Main
  BY <1>13, TempsAre
<1>15. Holds(disk, t, d0, n, p)
  <2>1. p \in Waits(t, j) BY <1>7
  <2> QED BY <1>1, <1>10, <2>1 DEF Placing
<1>16. Temp(n) \in DOMAIN disk
  <2>1. IsPrefix(Temp(n), Temp(n)) /\ Rebase(Temp(n), Temp(n), a) = a
    BY <1>12, <1>14, PrefixSelf, RebaseBack
  <2> QED BY <1>11, <1>12, <1>14, <1>15, <2>1 DEF Holds
<1>17. \A q \in Paths : Settled(t, j, q) => /\ L[q] # Gone => q \in DOMAIN disk /\ disk[q] = d0[L[q].path]
                                            /\ L[q] = Gone /\ q \in DOMAIN disk =>
                                                 disk[q].dir /\ q \in Writers(t) /\ ~Clears(t, st0, q)
  BY <1>1 DEF Placing
<1>18. ASSUME NEW q \in Seq(N), IsStrictPrefix(q, p) PROVE Settled(t, j, q)
  <2>1. SUFFICES ASSUME NEW x \in Waits(t, j), IsPrefix(x, q) PROVE FALSE BY DEF Settled
  <2>2. x \in Seq(N) BY <1>6, <1>7, <1>8
  <2>3. IsPrefix(x, p) BY <1>6, <1>18, <2>1, <2>2, PrefixTrans DEF IsStrictPrefix
  <2>4. x = p BY <1>7, <1>8, <2>3
  <2>5. Len(p) <= Len(q) BY <1>6, <2>1, <2>4, PrefixIs
  <2> QED BY <1>6, <1>18, <2>5, PrefixAnti DEF IsStrictPrefix
<1>19. \A q \in Ancestors(p) : q \in Paths /\ q \in Seq(N) /\ IsStrictPrefix(q, p) /\ q \in Main
  BY <1>6, AncestorPaths, AncestorsAre, FrontPath, MainIs
<1>20. ASSUME NEW q \in Ancestors(p) \cap DOMAIN disk PROVE disk[q].dir
  <2>1. q \in Paths /\ Settled(t, j, q) BY <1>18, <1>19
  <2>2. CASE L[q] = Gone BY <1>17, <2>1, <2>2
  <2>3. CASE L[q] # Gone
    <3>1. L[q].path \in DOMAIN d0 BY <1>1, <2>1, <2>3, LiesAt
    <3>2. p \in InPlan(t) /\ t[p].new.kind = "base" BY <1>6 DEF Red
    <3>3. ~Retyped(t, d0) BY DEF Ready
    <3>4. d0[L[q].path].dir
      <4>1. ~(L[q].path \in DOMAIN d0 /\ ~d0[L[q].path].dir) BY <1>1, <3>2, <3>3 DEF Retyped
      <4> QED BY <3>1, <4>1
    <3> QED BY <1>17, <2>1, <2>3, <3>4
  <2> QED BY <2>2, <2>3
<1>21. Scratch \notin Main /\ Scratch \in Seq(U) BY <1>13, TempsAre, TempIsPath
<1>22. Front(p) \in Paths \cup {<< >>} /\ Front(p) \in Seq(N) /\ (Len(p) = 1 <=> Front(p) = << >>)
       /\ IsStrictPrefix(Front(p), p) /\ Front(p) # Scratch
  <2>1. Front(p) \in Paths \cup {<< >>} /\ Front(p) \in Seq(N) /\ (Len(p) = 1 <=> Front(p) = << >>)
    BY <1>6, FrontPath
  <2>2. IsStrictPrefix(Front(p), p) BY <1>6, <1>12, PrefixFront DEF IsStrictPrefix
  <2>3. Scratch # << >> /\ Scratch \notin Paths BY <1>21, MainIs, TempsAre, <1>13, FrontIs, EmptySeq, TempIsPath
  <2> QED BY <2>1, <2>2, <2>3
<1>23. Front(p) \in ensured => HasParent(disk, p)
  <2>1. \A e \in ensured : e \in {<< >>, Scratch} \/ (e \in Paths /\ e \in DOMAIN disk /\ disk[e].dir)
    BY DEF Placing
  <2> QED BY <1>22, <2>1 DEF HasParent
<1>24. Head(todo) = Move(p, Temp(n)) BY <1>1, <1>2, <1>3, <1>10
<1>25. Across(Temp(n), p) BY <1>6, <1>13 DEF Across
<1>26. /\ pc' = pc /\ goal' = goal /\ store' = store /\ todo' = Tail(todo)
       /\ ensured' = ensured \cup {Front(p)} /\ HasParent(disk', p)
       /\ \A q \in Seq(U) :
            /\ IsPrefix(p, q) => /\ q \in DOMAIN disk' <=> Rebase(q, p, Temp(n)) \in DOMAIN disk
                                 /\ q \in DOMAIN disk' => disk'[q] = disk[Rebase(q, p, Temp(n))]
            /\ IsPrefix(Temp(n), q) => q \notin DOMAIN disk'
            /\ ~IsPrefix(Temp(n), q) /\ ~IsPrefix(p, q) =>
                 /\ q \in DOMAIN disk => q \in DOMAIN disk' /\ disk'[q] = disk[q]
                 /\ q \in DOMAIN disk' /\ q \notin DOMAIN disk => q \in Ancestors(p) /\ disk'[q].dir
  BY <1>16, <1>20, <1>23, <1>24, <1>25, MoveGoes
<1>27. \A q \in Paths : q \in Seq(U) /\ q \in Seq(N) /\ q \in Main /\ ~IsPrefix(Temp(n), q)
  BY <1>14, PathOnDisk, MainIs
<1>28. ASSUME NEW q \in Paths, Settled(t, i, q), IsPrefix(p, q)
       PROVE  /\ L[q] # Gone <=> q \in DOMAIN disk'
              /\ L[q] # Gone => disk'[q] = d0[L[q].path]
  <2>1. PICK z, y : z = Rebase(q, p, Temp(n)) /\ y = Rebase(q, p, a) OBVIOUS
  <2>2. \A m \in Red(t) : ~(IsStrictPrefix(p, m) /\ IsPrefix(m, q)) BY <1>9, <1>28 DEF Settled
  <2>3. L[q] = IF y \in DOMAIN d0 /\ ~Out(t, a, y) THEN Base(y) ELSE Gone
    <3>1. p \in Red(t) \cup {<< >>} BY <1>6
    <3> QED BY <1>1, <1>12, <1>28, <2>1, <2>2, <3>1, LiesBelow
  <2>4. z \in Seq(U) /\ IsPrefix(Temp(n), z) BY <1>6, <1>14, <1>27, <1>28, <2>1, RebaseBack
  <2>5. Rebase(z, Temp(n), a) = y BY <1>6, <1>12, <1>14, <1>27, <1>28, <2>1, RebaseTwice
  <2>6. /\ z \in DOMAIN disk <=> y \in DOMAIN d0 /\ ~Out(t, a, y)
        /\ z \in DOMAIN disk => disk[z] = d0[y]
    BY <1>11, <1>15, <2>4, <2>5 DEF Holds
  <2>7. /\ q \in DOMAIN disk' <=> z \in DOMAIN disk
        /\ q \in DOMAIN disk' => disk'[q] = disk[z]
    BY <1>26, <1>27, <1>28, <2>1
  <2> QED BY <2>3, <2>6, <2>7, Backings
<1>29. ASSUME NEW q \in Paths, Settled(t, i, q), ~IsPrefix(p, q)
       PROVE  /\ L[q] # Gone => q \in DOMAIN disk' /\ disk'[q] = d0[L[q].path]
              /\ L[q] = Gone /\ q \in DOMAIN disk' => disk'[q].dir /\ q \in Writers(t) /\ ~Clears(t, st0, q)
  <2>1. Settled(t, j, q) BY <1>7, <1>29 DEF Settled
  <2>2. /\ q \in DOMAIN disk => q \in DOMAIN disk' /\ disk'[q] = disk[q]
        /\ q \in DOMAIN disk' /\ q \notin DOMAIN disk => q \in Ancestors(p) /\ disk'[q].dir
    BY <1>26, <1>27, <1>29
  <2>3. ASSUME L[q] = Gone, q \in Ancestors(p) PROVE q \in Writers(t) /\ ~Clears(t, st0, q)
    <3>1. IsStrictPrefix(q, p) /\ p \in DOMAIN v BY <1>6, <1>19, <2>3, RenamesAre
    <3>2. q \in DOMAIN v /\ DirIn(v, d0, st0, q) BY <3>1, AllAbove DEF Ready, Shows
    <3> QED BY <1>1, <2>3, <3>2, DirShown
  <2> QED BY <1>17, <2>1, <2>2, <2>3
<1>30. ASSUME NEW m \in 1 .. Len(s), s[m] \in Waits(t, i) PROVE Holds(disk', t, d0, m, s[m])
  <2>1. m # n BY <1>7, <1>10, <1>30
  <2>2. m \in Nat BY <1>1, SavesAre
  <2>3. Holds(disk, t, d0, m, s[m]) BY <1>1, <1>7, <1>30 DEF Placing
  <2>4. SUFFICES ASSUME NEW z \in Seq(U), IsPrefix(Temp(m), z)
                 PROVE  /\ z \in DOMAIN disk' <=> z \in DOMAIN disk
                        /\ z \in DOMAIN disk' => disk'[z] = disk[z]
    BY <2>3 DEF Holds
  <2>5. z \notin Main BY <2>2, <2>4, TempsAre
  <2>6. ~IsPrefix(Temp(n), z) BY <1>13, <2>1, <2>2, <2>4, TempsAre
  <2>7. ~IsPrefix(p, z) BY <1>27, <1>6, <2>4, <2>5, MainIs
  <2> QED BY <1>19, <1>26, <2>4, <2>5, <2>6, <2>7
<1>31. ASSUME NEW e \in ensured'
       PROVE  e \in {<< >>, Scratch} \/ (e \in Paths /\ e \in DOMAIN disk' /\ disk'[e].dir /\ Settled(t, i, e))
  <2>1. CASE e = Front(p)
    <3>1. Settled(t, i, e) BY <1>7, <1>18, <1>22, <2>1 DEF Settled
    <3>2. Len(p) # 1 => e \in DOMAIN disk' /\ disk'[e].dir BY <1>26, <2>1 DEF HasParent
    <3> QED BY <1>22, <2>1, <3>1, <3>2
  <2>2. CASE e \in ensured /\ e \notin {<< >>, Scratch}
    <3>1. e \in Paths /\ e \in DOMAIN disk /\ disk[e].dir /\ Settled(t, j, e) BY <2>2 DEF Placing
    <3>2. Settled(t, i, e) /\ ~IsPrefix(p, e) BY <1>7, <3>1 DEF Settled
    <3>3. e \in DOMAIN disk' /\ disk'[e] = disk[e] BY <1>26, <1>27, <3>1, <3>2
    <3> QED BY <3>1, <3>2, <3>3
  <2> QED BY <1>26, <2>1, <2>2
<1>32. store' = st0 BY <1>26 DEF Placing
<1>33. \A q \in Paths : Settled(t, i, q) =>
         /\ L[q] # Gone => q \in DOMAIN disk' /\ disk'[q] = d0[L[q].path]
         /\ L[q] = Gone /\ q \in DOMAIN disk' => disk'[q].dir /\ q \in Writers(t) /\ ~Clears(t, st0, q)
  BY <1>28, <1>29
<1>34. Placing(disk', store', ensured', t, d0, st0, i)
  BY <1>1, <1>5, <1>30, <1>31, <1>32, <1>33 DEF Placing
<1> QED BY <1>2, <1>26, <1>34

-----------------------------------------------------------------------------
(* The third part: deletes, and files and directories of the store.        *)

EntryIn(b, d, st) == IF b.kind = "base" THEN d[b.path] ELSE Entry(st[b.ino], b)

\* The writes that are due; a place they have left as it is to be.
Due(t, l)          == {Writes(t)[n] : n \in l + 1 .. Len(Writes(t))}
Final(t, st, l, q) == /\ q \notin Due(t, l)
                      /\ \A p \in Due(t, l) : IsStrictPrefix(p, q) => ~Clears(t, st, p)

Writing(d, st, v, t, d0, st0, l) ==
  /\ l \in 0 .. Len(Writes(t))
  /\ \A q \in Paths : Final(t, st0, l, q) =>
       /\ q \in DOMAIN d <=> q \in DOMAIN v
       /\ q \in DOMAIN v => Same(d[q], EntryIn(v[q], d0, st0))
  /\ DOMAIN st \subseteq DOMAIN st0 /\ \A i \in DOMAIN st : st[i] = st0[i]
  /\ \A p \in Due(t, l) : t[p].new # Gone => t[p].new.ino \in DOMAIN st

LEMMA WritesAre ==
  ASSUME NEW v, NEW t, NEW d, NEW st, Ready(v, t, d, st), NEW w, w = Writes(t)
  PROVE  /\ Len(w) \in Nat /\ DOMAIN w = 1 .. Len(w) /\ Range(w) = Writers(t)
         /\ \A n \in 1 .. Len(w) : w[n] \in Writers(t) /\ w[n] \in Paths /\ w[n] \in Seq(N)
         /\ \A i, j \in 1 .. Len(w) : i < j => ~IsPrefix(w[j], w[i])
<1>1. IsTree(t) BY DEF Ready
<1>2. w \in Seq(Paths) /\ Range(w) = Writers(t) BY <1>1, RenamesSaved, VisibleInPlan
<1>3. Len(w) \in Nat /\ DOMAIN w = 1 .. Len(w) BY <1>2, LenProperties
<1>4. ASSUME NEW n \in 1 .. Len(w) PROVE w[n] \in Writers(t) /\ w[n] \in Paths /\ w[n] \in Seq(N)
  <2>1. w[n] \in Writers(t) BY <1>2, <1>3 DEF Range
  <2>2. w[n] \in Paths BY <2>1, WritersAre
  <2> QED BY <2>1, <2>2, PathOnDisk
<1>5. InOrder(w, Above) BY <1>1, PlanOrdered
<1>6. ASSUME NEW i \in 1 .. Len(w), NEW j \in 1 .. Len(w), i < j PROVE ~IsPrefix(w[j], w[i])
  <2>1. <<w[i], w[j]>> \notin Above BY <1>3, <1>5, <1>6 DEF InOrder
  <2> QED BY <1>4, <2>1 DEF Above
<1> QED BY <1>2, <1>3, <1>4, <1>6

\* What no write of the plan touches, no node that writes touches.
LEMMA FinalBare ==
  ASSUME NEW v, NEW t, NEW d, NEW st, Ready(v, t, d, st), NEW q \in Paths, Final(t, st, 0, q)
  PROVE  Bare(t, st, q)
<1>1. PICK w : w = Writes(t) OBVIOUS
<1>2. Len(w) \in Nat /\ DOMAIN w = 1 .. Len(w) /\ Range(w) = Writers(t) BY <1>1, WritesAre
<1>3. Due(t, 0) = Writers(t) BY <1>1, <1>2 DEF Due, Range
<1> QED BY <1>3 DEF Final, Bare, IsStrictPrefix

LEMMA WritingStart ==
  ASSUME NEW v, NEW t, NEW d0, NEW st0, Ready(v, t, d0, st0), NEW d, NEW st, NEW en,
         Placing(d, st, en, t, d0, st0, Len(Renames(t)))
  PROVE  Writing(d, st, v, t, d0, st0, 0)
<1>1. PICK w, L : w = Writes(t) /\ L = Placed(t, d0) OBVIOUS
<1>2. Len(w) \in Nat BY <1>1, WritesAre
<1>3. \A q : Settled(t, Len(Renames(t)), q)
  <2>1. Len(Renames(t)) \in Nat BY OrderIs
  <2>2. \A n : n \notin Len(Renames(t)) + 1 .. Len(Renames(t)) BY <2>1
  <2> QED BY <2>2 DEF Settled, Waits
<1>4. ASSUME NEW q \in Paths, Final(t, st0, 0, q)
      PROVE  /\ q \in DOMAIN d <=> q \in DOMAIN v
             /\ q \in DOMAIN v => Same(d[q], EntryIn(v[q], d0, st0))
  <2>1. Bare(t, st0, q) BY <1>4, FinalBare
  <2>2. ViewAt(v, q) = L[q] BY <1>1, <2>1, BareAt
  <2>3. /\ L[q] # Gone => q \in DOMAIN d /\ d[q] = d0[L[q].path]
        /\ L[q] = Gone /\ q \in DOMAIN d => q \in Writers(t)
    BY <1>1, <1>3 DEF Placing
  <2>4. q \notin Writers(t)
    <3>1. IsPrefix(q, q) BY FrontPath, PrefixSelf
    <3> QED BY <2>1, <3>1 DEF Bare
  <2>5. CASE L[q] = Gone
    <3>1. q \notin DOMAIN v BY <2>2, <2>5, ReadyAt, BacksAre DEF ViewAt
    <3> QED BY <2>3, <2>4, <2>5, <3>1
  <2>6. CASE L[q] # Gone
    <3>1. q \in DOMAIN v /\ v[q] = L[q] BY <2>2, <2>6 DEF ViewAt
    <3>2. v[q].kind = "base" BY <1>1, <2>6, <3>1, LiesAt
    <3>3. EntryIn(v[q], d0, st0) = d[q] BY <2>3, <2>6, <3>1, <3>2 DEF EntryIn
    <3> QED BY <2>3, <2>6, <3>1, <3>3 DEF Same
  <2> QED BY <2>5, <2>6
<1>5. st = st0 BY DEF Placing
<1>6. ASSUME NEW p \in Due(t, 0), t[p].new # Gone PROVE t[p].new.ino \in DOMAIN st
  <2>1. p \in Writers(t) BY <1>1, <1>6, WritesAre DEF Due
  <2> QED BY <1>5, <1>6, <2>1, WritersAre
<1>7. 0 \in 0 .. Len(w) BY <1>2
<1> QED BY <1>1, <1>4, <1>5, <1>6, <1>7 DEF Writing

\* A visible place is as it is to be, unless it is due itself.
LEMMA ShownFinal ==
  ASSUME NEW v, NEW t, NEW d, NEW st, Ready(v, t, d, st), NEW l \in Nat, NEW q \in DOMAIN v, q \notin Due(t, l)
  PROVE  Final(t, st, l, q)
<1>1. ASSUME NEW x \in Due(t, l), IsStrictPrefix(x, q) PROVE ~Clears(t, st, x)
  <2>1. PICK w : w = Writes(t) OBVIOUS
  <2>2. PICK n \in l + 1 .. Len(w) : x = w[n] BY <1>1, <2>1 DEF Due
  <2>3. n \in 1 .. Len(w) BY <2>1, <2>2, WritesAre
  <2>4. x \in Writers(t) /\ x \in Paths BY <2>1, <2>2, <2>3, WritesAre
  <2>5. x \in DOMAIN v /\ DirIn(v, d, st, x) BY <1>1, <2>4, AllAbove DEF Ready, Shows
  <2>6. x # << >> /\ t[x].new # Gone /\ v[x] = t[x].new /\ t[x].new.kind = "staged"
    BY <2>4, <2>5, WritersAre, FrontPath
  <2> QED BY <2>5, <2>6 DEF DirIn, Clears
<1> QED BY <1>1 DEF Final

LEMMA WriteStep ==
  ASSUME NEW v, NEW t, NEW d0, NEW st0, Ready(v, t, d0, st0), NEW l,
         Writing(disk, store, v, t, d0, st0, l), l < Len(Writes(t)), DiskOK(disk),
         \A q \in DOMAIN disk' : disk'[q].dir \in BOOLEAN,
         todo # << >>, Head(todo) = WriteOf(t, Writes(t)[l + 1]), ApplyOp
  PROVE  /\ Writing(disk', store', v, t, d0, st0, l + 1)
         /\ pc' = pc /\ goal' = goal /\ todo' = Tail(todo)
<1>1. PICK w : w = Writes(t) OBVIOUS
<1>2. PICK i : i = l + 1 OBVIOUS
<1>3. PICK p : p = w[i] OBVIOUS
<1>4. /\ Len(w) \in Nat
      /\ \A n \in 1 .. Len(w) : w[n] \in Writers(t) /\ w[n] \in Paths /\ w[n] \in Seq(N)
      /\ \A m, n \in 1 .. Len(w) : m < n => ~IsPrefix(w[n], w[m])
  BY <1>1, WritesAre
<1>5. l \in Nat /\ i \in 1 .. Len(w) /\ i \in 0 .. Len(w) /\ i \in Nat BY <1>1, <1>2, <1>4 DEF Writing
<1>6. p \in Writers(t) /\ p \in Paths /\ p \in Seq(N) /\ p \in Seq(U) /\ IsPrefix(p, p) /\ p # << >>
  BY <1>3, <1>4, <1>5, PrefixSelf, PathOnDisk, FrontPath
<1>7. /\ Due(t, l) = Due(t, i) \cup {p} /\ p \notin Due(t, i)
      /\ \A x \in Due(t, i) : ~IsPrefix(x, p) /\ x \in Writers(t) /\ x \in Seq(N)
  <2>1. l + 1 .. Len(w) = (i + 1 .. Len(w)) \cup {i} BY <1>2, <1>4, <1>5
  <2>2. \A n \in i + 1 .. Len(w) : n \in 1 .. Len(w) /\ i < n BY <1>4, <1>5
  <2>3. \A x \in Due(t, i) : ~IsPrefix(x, p) /\ x \in Writers(t) /\ x \in Seq(N)
    BY <1>1, <1>3, <1>4, <1>5, <2>2 DEF Due
  <2> QED BY <1>1, <1>3, <1>6, <2>1, <2>3 DEF Due
<1>8. \A q \in Paths : Final(t, st0, l, q) => /\ q \in DOMAIN disk <=> q \in DOMAIN v
                                              /\ q \in DOMAIN v => Same(disk[q], EntryIn(v[q], d0, st0))
  BY DEF Writing
<1>9. DOMAIN store \subseteq DOMAIN st0 /\ \A n \in DOMAIN store : store[n] = st0[n] BY DEF Writing
<1>10. ASSUME NEW q, Final(t, st0, i, q), ~IsPrefix(p, q) \/ (q # p /\ ~Clears(t, st0, p))
       PROVE  Final(t, st0, l, q)
  BY <1>6, <1>7, <1>10 DEF Final, IsStrictPrefix
<1>11. \A q \in DOMAIN v : IsStrictPrefix(p, q) => p \in DOMAIN v /\ DirIn(v, d0, st0, p)
  BY <1>6, AllAbove DEF Ready, Shows
<1>12. \A q \in Paths : q \in Seq(U) BY PathOnDisk
<1>13. ASSUME Beside(disk', disk, p), NEW q \in Paths, ~IsPrefix(p, q), Final(t, st0, i, q)
       PROVE  /\ q \in DOMAIN disk' <=> q \in DOMAIN v
              /\ q \in DOMAIN v => Same(disk'[q], EntryIn(v[q], d0, st0))
  <2>1. Final(t, st0, l, q) BY <1>10, <1>13
  <2>2. /\ q \in DOMAIN disk' <=> q \in DOMAIN disk
        /\ q \in DOMAIN disk => disk'[q] = disk[q]
    BY <1>12, <1>13 DEF Beside
  <2> QED BY <1>8, <2>1, <2>2
<1>14. CASE t[p].new = Gone
  <2>1. Head(todo) = Delete(p) BY <1>1, <1>2, <1>3, <1>14 DEF WriteOf
  <2>2. /\ pc' = pc /\ goal' = goal /\ todo' = Tail(todo) /\ store' = store
        /\ Beside(disk', disk, p) /\ \A q : IsPrefix(p, q) => q \notin DOMAIN disk'
    BY <1>6, <2>1, DeleteGoes
  <2>3. p \notin DOMAIN v BY <1>6, <1>14, WritersAre
  <2>4. ASSUME NEW q \in Paths, IsPrefix(p, q) PROVE q \notin DOMAIN disk' /\ q \notin DOMAIN v
    BY <1>11, <2>2, <2>3, <2>4 DEF IsStrictPrefix
  <2>5. Writing(disk', store', v, t, d0, st0, i)
    <3>1. \A x \in Due(t, i) : t[x].new # Gone => t[x].new.ino \in DOMAIN store'
      BY <1>7, <2>2 DEF Writing
    <3> QED BY <1>1, <1>5, <1>9, <1>13, <2>2, <2>4, <3>1 DEF Writing
  <2> QED BY <1>2, <2>2, <2>5
<1>15. CASE t[p].new # Gone
  <2>1. PICK n : n = t[p].new.ino OBVIOUS
  <2>2. Head(todo) = Stage(p, n) BY <1>1, <1>2, <1>3, <1>15, <2>1 DEF WriteOf
  <2>3. /\ p \in DOMAIN v /\ v[p] = t[p].new /\ t[p].new = Staged(n) /\ n \in DOMAIN st0
        /\ t[p].new.kind = "staged"
    BY <1>6, <1>15, <2>1, WritersAre
  <2>4. n \in DOMAIN store /\ store[n] = st0[n] /\ st0[n] \in BOOLEAN
    <3>1. n \in DOMAIN store BY <1>7, <1>15, <2>1 DEF Writing
    <3>2. st0[n] \in BOOLEAN BY <2>3 DEF Ready
    <3> QED BY <1>9, <3>1, <3>2
  <2>5. EntryIn(v[p], d0, st0) = Entry(st0[n], Staged(n)) BY <2>1, <2>3 DEF EntryIn
  <2>6. ASSUME NEW a \in Ancestors(p) PROVE a \in DOMAIN disk /\ disk[a].dir
    <3>1. a \in Paths /\ a \in Seq(N) /\ a # << >> /\ IsStrictPrefix(a, p) BY <1>6, AncestorPaths, AncestorsAre
    <3>2. a \in DOMAIN v /\ DirIn(v, d0, st0, a) BY <2>3, <3>1, AllAbove DEF Ready, Shows
    <3>3. a \notin Due(t, l) BY <1>7, <3>1 DEF IsStrictPrefix
    <3>4. Final(t, st0, l, a) BY <1>5, <3>2, <3>3, ShownFinal
    <3>5. a \in DOMAIN disk /\ Same(disk[a], EntryIn(v[a], d0, st0)) BY <1>8, <3>1, <3>2, <3>4
    <3>6. EntryIn(v[a], d0, st0).dir BY <3>1, <3>2 DEF EntryIn, DirIn, Entry
    <3> QED BY <3>5, <3>6 DEF Same
  <2>7. /\ pc' = pc /\ goal' = goal /\ todo' = Tail(todo) /\ p \in DOMAIN disk'
        /\ Beside(disk', disk, p)
        /\ ~store[n] => /\ store' = Restrict(store, DOMAIN store \ {n})
                        /\ disk'[p] = Entry(FALSE, Staged(n))
                        /\ \A q \in Seq(U) : IsStrictPrefix(p, q) => q \notin DOMAIN disk'
        /\ store[n] => /\ store' = store /\ disk'[p].dir
                       /\ \A q \in Seq(U) : IsStrictPrefix(p, q) =>
                            /\ q \in DOMAIN disk' <=> q \in DOMAIN disk
                            /\ q \in DOMAIN disk => disk'[q] = disk[q]
    BY <1>6, <2>2, <2>4, <2>6, StageGoes
  <2>8. Same(disk'[p], EntryIn(v[p], d0, st0))
    <3>1. CASE ~store[n]
      <4>1. disk'[p] = Entry(FALSE, Staged(n)) /\ st0[n] = FALSE BY <2>4, <2>7, <3>1
      <4> QED BY <2>5, <4>1 DEF Same
    <3>2. CASE store[n]
      <4>1. disk'[p].dir /\ disk'[p].dir \in BOOLEAN /\ st0[n] = TRUE BY <2>4, <2>7, <3>2
      <4>2. disk'[p].dir = TRUE BY <4>1
      <4>3. Entry(st0[n], Staged(n)).dir = TRUE BY <4>1 DEF Entry
      <4> QED BY <2>5, <4>2, <4>3 DEF Same
    <3> QED BY <3>1, <3>2
  <2>9. ASSUME NEW q \in Paths, IsStrictPrefix(p, q), Final(t, st0, i, q)
        PROVE  /\ q \in DOMAIN disk' <=> q \in DOMAIN v
               /\ q \in DOMAIN v => Same(disk'[q], EntryIn(v[q], d0, st0))
    <3>1. CASE ~store[n]
      <4>1. q \notin DOMAIN disk' BY <1>12, <2>7, <2>9, <3>1
      <4>2. ~DirIn(v, d0, st0, p) BY <1>6, <2>1, <2>3, <2>4, <3>1 DEF DirIn
      <4> QED BY <1>11, <2>9, <4>1, <4>2
    <3>2. CASE store[n]
      <4>1. ~Clears(t, st0, p) /\ q # p BY <1>15, <2>1, <2>4, <2>9, <3>2 DEF Clears, IsStrictPrefix
      <4>2. Final(t, st0, l, q) BY <1>10, <2>9, <4>1
      <4>3. /\ q \in DOMAIN disk' <=> q \in DOMAIN disk
            /\ q \in DOMAIN disk => disk'[q] = disk[q]
        BY <1>12, <2>7, <2>9, <3>2
      <4> QED BY <1>8, <4>2, <4>3
    <3> QED BY <3>1, <3>2
  <2>10. ASSUME NEW q \in Paths, Final(t, st0, i, q)
         PROVE  /\ q \in DOMAIN disk' <=> q \in DOMAIN v
                /\ q \in DOMAIN v => Same(disk'[q], EntryIn(v[q], d0, st0))
    <3>1. CASE q = p BY <2>3, <2>7, <2>8, <3>1
    <3>2. CASE IsStrictPrefix(p, q) BY <2>9, <2>10, <3>2
    <3>3. CASE ~IsPrefix(p, q) BY <1>13, <2>7, <2>10, <3>3
    <3> QED BY <3>1, <3>2, <3>3 DEF IsStrictPrefix
  <2>11. ASSUME NEW x \in Due(t, i), t[x].new # Gone PROVE t[x].new.ino \in DOMAIN store'
    <3>1. t[x].new.ino \in DOMAIN store BY <1>7, <2>11 DEF Writing
    <3>2. x # p /\ x \in Writers(t) BY <1>7
    <3>3. x \in DOMAIN v /\ v[x] = Staged(t[x].new.ino) BY <2>11, <3>2, WritersAre
    <3>4. t[x].new.ino # n
      <4>1. v[x] # v[p] BY <2>3, <3>2, <3>3 DEF Ready, Once
      <4> QED BY <2>3, <3>3, <4>1
    <3> QED BY <2>4, <2>7, <3>1, <3>4 DEF Restrict
  <2>12. DOMAIN store' \subseteq DOMAIN store /\ \A m \in DOMAIN store' : store'[m] = store[m]
    BY <2>4, <2>7 DEF Restrict
  <2>13. Writing(disk', store', v, t, d0, st0, i)
    BY <1>1, <1>5, <1>9, <2>10, <2>11, <2>12 DEF Writing
  <2> QED BY <1>2, <2>7, <2>13
<1> QED BY <1>14, <1>15

-----------------------------------------------------------------------------
(* A commit under way.                                                     *)

Phase(d, st, en, v, t, d0, st0, k) ==
  \/ Saving(d, st, en, t, d0, st0, k)
  \/ \E j \in Nat : k = Len(Saves(t)) + j /\ Placing(d, st, en, t, d0, st0, j)
  \/ \E l \in Nat : k = Len(Saves(t)) + Len(Renames(t)) + l /\ Writing(d, st, v, t, d0, st0, l)

\* Between two parts of the plan the first is done, the second can begin.
LEMMA PhaseAhead ==
  ASSUME NEW v, NEW t, NEW d0, NEW st0, Ready(v, t, d0, st0), NEW d, NEW st, NEW en, NEW k,
         Phase(d, st, en, v, t, d0, st0, k)
  PROVE  \/ Saving(d, st, en, t, d0, st0, k) /\ k < Len(Saves(t))
         \/ \E j \in Nat : k = Len(Saves(t)) + j /\ Placing(d, st, en, t, d0, st0, j) /\ j < Len(Renames(t))
         \/ \E l \in Nat : k = Len(Saves(t)) + Len(Renames(t)) + l /\ Writing(d, st, v, t, d0, st0, l)
<1>1. Len(Saves(t)) \in Nat /\ Len(Renames(t)) \in Nat BY SavesAre, OrderIs
<1>2. ASSUME NEW j \in Nat, k = Len(Saves(t)) + j, Placing(d, st, en, t, d0, st0, j), ~(j < Len(Renames(t)))
      PROVE  \E l \in Nat : k = Len(Saves(t)) + Len(Renames(t)) + l /\ Writing(d, st, v, t, d0, st0, l)
  <2>1. j = Len(Renames(t)) BY <1>1, <1>2 DEF Placing
  <2>2. Writing(d, st, v, t, d0, st0, 0) BY <1>2, <2>1, WritingStart
  <2>3. 0 \in Nat /\ k = Len(Saves(t)) + Len(Renames(t)) + 0 BY <1>1, <1>2, <2>1
  <2> QED BY <2>2, <2>3
<1>3. ASSUME Saving(d, st, en, t, d0, st0, k), ~(k < Len(Saves(t)))
      PROVE  k = Len(Saves(t)) + 0 /\ Placing(d, st, en, t, d0, st0, 0)
  <2>1. k = Len(Saves(t)) BY <1>1, <1>3 DEF Saving
  <2> QED BY <1>1, <1>3, <2>1, PlacingStart
<1>4. 0 \in Nat OBVIOUS
<1> QED BY <1>2, <1>3, <1>4 DEF Phase

LEMMA PhaseStep ==
  ASSUME NEW v, NEW t, NEW d0, NEW st0, Ready(v, t, d0, st0), NEW k,
         Left(todo, IntoPlan(t), k), Phase(disk, store, ensured, v, t, d0, st0, k),
         DiskOK(disk), \A q \in DOMAIN disk' : disk'[q].dir \in BOOLEAN,
         todo # << >>, ApplyOp
  PROVE  /\ Left(todo', IntoPlan(t), k + 1) /\ Phase(disk', store', ensured', v, t, d0, st0, k + 1)
         /\ pc' = pc /\ goal' = goal
<1>1. PICK s, r, w : s = Saves(t) /\ r = Renames(t) /\ w = Writes(t) OBVIOUS
<1>2. PICK plan : plan = IntoPlan(t) OBVIOUS
<1>3. Len(s) \in Nat /\ Len(r) \in Nat /\ Len(w) \in Nat BY <1>1, SavesAre, OrderIs, WritesAre
<1>4. /\ Len(plan) = Len(s) + Len(r) + Len(w)
      /\ \A n \in 1 .. Len(s) : plan[n] = Move(Temp(n), Source(t, s[n]))
      /\ \A n \in 1 .. Len(r) : plan[Len(s) + n] = Move(r[n], TempOf(t, r[n]))
      /\ \A n \in 1 .. Len(w) : \A m : m = Len(s) + Len(r) + n => plan[m] = WriteOf(t, w[n])
  <2>1. IsTree(t) /\ nextIno \in Nat BY DEF Ready
  <2>2. s = Saves(t) /\ r = Renames(t) /\ w = Writes(t) BY <1>1
  <2>3. Len(IntoPlan(t)) = Len(s) + Len(r) + Len(w) BY <2>1, <2>2, PlanAt
  <2>4. \A n \in 1 .. Len(s) : IntoPlan(t)[n] = Move(Temp(n), Source(t, s[n])) BY <2>1, <2>2, PlanAt
  <2>5. \A n \in 1 .. Len(r) : IntoPlan(t)[Len(s) + n] = Move(r[n], TempOf(t, r[n])) BY <2>1, <2>2, PlanAt
  <2>6. \A n \in 1 .. Len(w) : \A m : m = Len(s) + Len(r) + n => IntoPlan(t)[m] = WriteOf(t, w[n])
    BY <2>1, <2>2, PlanAt
  <2> QED BY <1>2, <2>3, <2>4, <2>5, <2>6
<1>5. /\ Head(todo) = plan[k + 1] /\ Left(Tail(todo), plan, k + 1) /\ k + 1 <= Len(plan)
  BY <1>2, LeftTail
<1>6. CASE Saving(disk, store, ensured, t, d0, st0, k) /\ k < Len(s)
  <2>1. k + 1 \in 1 .. Len(s) BY <1>1, <1>3, <1>6 DEF Saving
  <2>2. Head(todo) = Move(Temp(k + 1), Source(t, s[k + 1])) BY <1>4, <1>5, <2>1
  <2>3. /\ Saving(disk', store', ensured', t, d0, st0, k + 1)
        /\ pc' = pc /\ goal' = goal /\ todo' = Tail(todo)
    BY <1>1, <1>6, <2>2, SaveStep
  <2> QED BY <1>2, <1>5, <2>3 DEF Phase
<1>7. ASSUME NEW j \in Nat, k = Len(s) + j, Placing(disk, store, ensured, t, d0, st0, j), j < Len(r)
      PROVE  /\ Left(todo', plan, k + 1) /\ Phase(disk', store', ensured', v, t, d0, st0, k + 1)
             /\ pc' = pc /\ goal' = goal
  <2>1. PICK n : n = j + 1 OBVIOUS
  <2>2. n \in 1 .. Len(r) /\ n \in Nat /\ k + 1 = Len(s) + n BY <1>3, <1>7, <2>1
  <2>3. Head(todo) = Move(r[n], TempOf(t, r[n])) BY <1>4, <1>5, <2>2
  <2>4. /\ Placing(disk', store', ensured', t, d0, st0, n)
        /\ pc' = pc /\ goal' = goal /\ todo' = Tail(todo)
    BY <1>1, <1>7, <2>1, <2>3, PlaceStep
  <2>5. Phase(disk', store', ensured', v, t, d0, st0, k + 1) BY <1>1, <2>2, <2>4 DEF Phase
  <2> QED BY <1>5, <2>4, <2>5
<1>8. ASSUME NEW l \in Nat, k = Len(s) + Len(r) + l, Writing(disk, store, v, t, d0, st0, l)
      PROVE  /\ Left(todo', plan, k + 1) /\ Phase(disk', store', ensured', v, t, d0, st0, k + 1)
             /\ pc' = pc /\ goal' = goal
  <2>1. PICK n : n = l + 1 OBVIOUS
  <2>2. l < Len(w) BY <1>3, <1>4, <1>5, <1>8
  <2>3. n \in 1 .. Len(w) /\ n \in Nat /\ k + 1 = Len(s) + Len(r) + n BY <1>3, <1>8, <2>1, <2>2
  <2>4. Head(todo) = WriteOf(t, w[n]) BY <1>4, <1>5, <2>3
  <2>5. /\ Writing(disk', store', v, t, d0, st0, n)
        /\ pc' = pc /\ goal' = goal /\ todo' = Tail(todo)
    BY <1>1, <1>8, <2>1, <2>2, <2>4, WriteStep
  <2>6. Phase(disk', store', ensured', v, t, d0, st0, k + 1) BY <1>1, <2>3, <2>5 DEF Phase
  <2> QED BY <1>5, <2>5, <2>6
<1>9. \/ Saving(disk, store, ensured, t, d0, st0, k) /\ k < Len(s)
      \/ \E j \in Nat : k = Len(s) + j /\ Placing(disk, store, ensured, t, d0, st0, j) /\ j < Len(r)
      \/ \E l \in Nat : k = Len(s) + Len(r) + l /\ Writing(disk, store, v, t, d0, st0, l)
  BY <1>1, PhaseAhead
<1> QED BY <1>2, <1>6, <1>7, <1>8, <1>9

\* What the view showed, and what a disk has of it.
Goal(v, d, st) == [p \in DOMAIN v |-> EntryIn(v[p], d, st)]
Exact(d, g)    == DOMAIN d \cap Paths = DOMAIN g /\ \A p \in DOMAIN g : Same(d[p], g[p])
Kept(d, st, g) == \A p \in DOMAIN g : g[p].dir \/ (\E q \in DOMAIN d : d[q].origin = g[p].origin)
                                               \/ (\E i \in DOMAIN st : Staged(i) = g[p].origin)

LEMMA PhaseEnd ==
  ASSUME NEW v, NEW t, NEW d0, NEW st0, Ready(v, t, d0, st0), NEW d, NEW st, NEW en, NEW k,
         Left(<< >>, IntoPlan(t), k), Phase(d, st, en, v, t, d0, st0, k)
  PROVE  Exact(d, Goal(v, d0, st0))
<1>1. PICK s, r, w : s = Saves(t) /\ r = Renames(t) /\ w = Writes(t) OBVIOUS
<1>2. Len(s) \in Nat /\ Len(r) \in Nat /\ Len(w) \in Nat BY <1>1, SavesAre, OrderIs, WritesAre
<1>3. Len(IntoPlan(t)) = Len(s) + Len(r) + Len(w) BY <1>1, PlanAt DEF Ready
<1>4. k = Len(s) + Len(r) + Len(w) BY <1>3, LeftTail
<1>5. PICK l \in Nat : k = Len(s) + Len(r) + l /\ Writing(d, st, v, t, d0, st0, l)
  <2>1. ~(k < Len(s)) /\ \A j \in Nat : k = Len(s) + j => ~(j < Len(r)) BY <1>2, <1>4
  <2> QED BY <1>1, <2>1, PhaseAhead
<1>6. l = Len(w) BY <1>2, <1>4, <1>5
<1>7. Due(t, l) = {} BY <1>1, <1>2, <1>6 DEF Due
<1>8. \A q \in Paths : /\ q \in DOMAIN d <=> q \in DOMAIN v
                       /\ q \in DOMAIN v => Same(d[q], EntryIn(v[q], d0, st0))
  BY <1>5, <1>7 DEF Writing, Final
<1>9. DOMAIN v \subseteq Paths BY ReadyAt
<1> QED BY <1>8, <1>9 DEF Exact, Goal

LEMMA ExactKept ==
  ASSUME NEW d, NEW st, NEW g, Exact(d, g)
  PROVE  Kept(d, st, g)
<1>1. ASSUME NEW p \in DOMAIN g, ~g[p].dir PROVE \E q \in DOMAIN d : d[q].origin = g[p].origin
  <2>1. p \in DOMAIN d /\ Same(d[p], g[p]) BY <1>1 DEF Exact
  <2> QED BY <1>1, <2>1 DEF Same
<1> QED BY <1>1 DEF Kept

\* Every file of the view is somewhere: in the store, where it was or is to be,
\* or in a scratch file.
LEMMA SavingKept ==
  ASSUME NEW v, NEW t, NEW d0, NEW st0, Ready(v, t, d0, st0), NEW d, NEW st, NEW en, NEW k,
         Saving(d, st, en, t, d0, st0, k), NEW y \in Paths, y \in DOMAIN d0
  PROVE  \E q \in DOMAIN d : d[q] = d0[y]
<1>1. PICK s : s = Saves(t) OBVIOUS
<1>2. /\ Len(s) \in Nat /\ Range(s) = Red(t) /\ DOMAIN s = 1 .. Len(s)
      /\ \A n \in 1 .. Len(s) : s[n] \in Red(t) /\ Source(t, s[n]) \in Paths /\ Source(t, s[n]) \in Seq(U)
      /\ \A i, j \in 1 .. Len(s) : i < j => ~IsPrefix(Source(t, s[i]), Source(t, s[j]))
  BY <1>1, SavesAre
<1>3. k \in 0 .. Len(s) /\ k \in Nat BY <1>1, <1>2 DEF Saving
<1>4. y \in Main /\ y \in Seq(U) BY MainIs, PathOnDisk
<1>5. PICK X : X = {Source(t, s[n]) : n \in {m \in 1 .. k : IsPrefix(Source(t, s[m]), y)}} OBVIOUS
<1>6. CASE X = {}
  <2>1. \A n \in 1 .. k : ~IsPrefix(Source(t, s[n]), y) BY <1>5, <1>6
  <2> QED BY <1>1, <1>4, <2>1 DEF Saving
<1>7. CASE X # {}
  <2>1. \A x \in X : x \in Seq(U) /\ IsPrefix(x, y) BY <1>2, <1>3, <1>5
  <2>2. PICK x \in X : \A u \in X : IsPrefix(u, x) BY <1>4, <1>7, <2>1, LongestAbove
  <2>3. PICK n \in 1 .. k : x = Source(t, s[n]) BY <1>5
  <2>4. x \in Seq(U) /\ IsPrefix(x, y) /\ n \in 1 .. Len(s) /\ n \in Nat BY <1>2, <1>3, <2>1, <2>3
  <2>5. ASSUME Out(t, x, y) PROVE FALSE
    <3>1. PICK m \in Red(t) : IsStrictPrefix(x, Source(t, m)) /\ IsPrefix(Source(t, m), y) BY <2>5 DEF Out
    <3>2. PICK j \in 1 .. Len(s) : m = s[j] BY <1>2 DEF Range
    <3>3. Source(t, m) \in Seq(U) BY <1>2, <3>2
    <3>4. CASE j \in 1 .. k
      <4>1. Source(t, m) \in X BY <1>5, <3>1, <3>2, <3>4
      <4>2. IsPrefix(Source(t, m), x) BY <2>2, <4>1
      <4>3. Len(Source(t, m)) <= Len(x) BY <2>4, <3>3, <4>2, PrefixIs
      <4> QED BY <2>4, <3>1, <3>3, <4>3, PrefixAnti DEF IsStrictPrefix
    <3>5. CASE j \notin 1 .. k
      <4>1. n < j BY <1>2, <1>3, <2>4, <3>5
      <4> QED BY <1>2, <2>3, <2>4, <3>1, <3>2, <4>1 DEF IsStrictPrefix
    <3> QED BY <3>4, <3>5
  <2>6. PICK z : z = Rebase(y, x, Temp(n)) OBVIOUS
  <2>7. Temp(n) \in Seq(U) BY <2>4, TempsAre
  <2>8. z \in Seq(U) /\ IsPrefix(Temp(n), z) /\ Rebase(z, Temp(n), x) = y BY <1>4, <2>4, <2>6, <2>7, RebaseBack
  <2>9. Holds(d, t, d0, n, s[n]) BY <1>1, <2>3 DEF Saving
  <2>10. z \in DOMAIN d /\ d[z] = d0[y] BY <2>3, <2>5, <2>8, <2>9 DEF Holds
  <2> QED BY <2>10
<1> QED BY <1>6, <1>7

LEMMA PlacingKept ==
  ASSUME NEW v, NEW t, NEW d0, NEW st0, Ready(v, t, d0, st0), NEW d, NEW st, NEW en, NEW j,
         Placing(d, st, en, t, d0, st0, j), NEW p \in DOMAIN v, v[p].kind = "base"
  PROVE  \E q \in DOMAIN d : d[q] = d0[v[p].path]
<1>1. PICK s, r, L : s = Saves(t) /\ r = Renames(t) /\ L = Placed(t, d0) OBVIOUS
<1>2. /\ Len(r) \in Nat /\ DOMAIN r = 1 .. Len(r) /\ Range(r) = Red(t)
      /\ \A n \in 1 .. Len(r) : r[n] \in Red(t) /\ r[n] \in Paths /\ r[n] \in Seq(N) /\ r[n] \in Seq(U)
      /\ \A i, n \in 1 .. Len(r) : i < n => ~IsPrefix(r[n], r[i])
  BY <1>1, OrderIs
<1>3. j \in 0 .. Len(r) /\ j \in Nat BY <1>1, <1>2 DEF Placing
<1>4. p \in Paths /\ p \in Seq(N) /\ p \in Seq(U) BY ReadyAt, PathOnDisk
<1>5. L[p] = v[p] /\ L[p] # Gone BY <1>1, BaseShown
<1>6. CASE Settled(t, j, p)
  <2>1. p \in DOMAIN d /\ d[p] = d0[L[p].path] BY <1>1, <1>4, <1>5, <1>6 DEF Placing
  <2> QED BY <1>5, <2>1
<1>7. CASE ~Settled(t, j, p)
  <2>1. PICK X : X = {x \in Waits(t, j) : IsPrefix(x, p)} OBVIOUS
  <2>2. \A x \in Waits(t, j) : \E n \in 1 .. Len(r) : x = r[n] /\ n > j BY <1>1, <1>2, <1>3 DEF Waits
  <2>3. X # {} /\ \A x \in X : x \in Seq(N) /\ IsPrefix(x, p) BY <1>2, <1>7, <2>1, <2>2 DEF Settled
  <2>4. PICK x \in X : \A u \in X : IsPrefix(u, x) BY <1>4, <2>3, LongestAbove
  <2>5. x \in Waits(t, j) /\ IsPrefix(x, p) BY <2>1
  <2>6. PICK i \in 1 .. Len(r) : x = r[i] /\ i > j BY <2>2, <2>5
  <2>7. x \in Red(t) /\ x \in Paths /\ x \in Seq(N) /\ x \in Seq(U) BY <1>2, <2>6
  <2>8. ASSUME NEW m \in Red(t), IsStrictPrefix(x, m), IsPrefix(m, p) PROVE FALSE
    <3>1. PICK n \in 1 .. Len(r) : m = r[n] BY <1>2 DEF Range
    <3>2. ~(n < i) BY <1>2, <2>6, <2>8, <3>1 DEF IsStrictPrefix
    <3>3. n > j BY <1>3, <2>6, <3>2
    <3>4. n \in j + 1 .. Len(r) BY <1>2, <1>3, <3>3
    <3>5. m \in X BY <1>1, <2>1, <2>8, <3>1, <3>4 DEF Waits
    <3>6. IsPrefix(m, x) /\ m \in Seq(N) BY <1>2, <2>4, <3>1, <3>5
    <3>7. Len(m) <= Len(x) BY <2>7, <3>6, PrefixIs
    <3> QED BY <2>7, <2>8, <3>6, <3>7, PrefixAnti DEF IsStrictPrefix
  <2>9. PICK a, y : a = Source(t, x) /\ y = Rebase(p, x, a) OBVIOUS
  <2>10. a = Src(t, x) /\ a \in Paths /\ a \in Seq(U)
    <3>1. x # << >> BY <2>7, FrontPath
    <3>2. a \in Paths BY <2>7, <2>9, RenamesAre
    <3> QED BY <2>9, <3>1, <3>2, PathOnDisk DEF Src
  <2>11. L[p] = IF y \in DOMAIN d0 /\ ~Out(t, a, y) THEN Base(y) ELSE Gone
    <3>1. x \in Red(t) \cup {<< >>} BY <2>7
    <3>2. \A m \in Red(t) : ~(IsStrictPrefix(x, m) /\ IsPrefix(m, p)) BY <2>8
    <3> QED BY <1>1, <1>4, <2>5, <2>9, <2>10, <3>1, <3>2, LiesBelow
  <2>12. y \in DOMAIN d0 /\ ~Out(t, a, y) /\ v[p].path = y BY <1>5, <2>11, Backings
  <2>13. PICK n \in 1 .. Len(s) : s[n] = x
    <3>1. Range(s) = Red(t) /\ DOMAIN s = 1 .. Len(s) BY <1>1, SavesAre
    <3> QED BY <2>7, <3>1 DEF Range
  <2>14. n \in Nat BY <1>1, SavesAre
  <2>15. Holds(d, t, d0, n, x) BY <1>1, <2>5, <2>13 DEF Placing
  <2>16. PICK z : z = Rebase(p, x, Temp(n)) OBVIOUS
  <2>17. Temp(n) \in Seq(U) BY <2>14, TempsAre
  <2>18. z \in Seq(U) /\ IsPrefix(Temp(n), z) BY <1>4, <2>5, <2>7, <2>16, <2>17, RebaseBack
  <2>19. Rebase(z, Temp(n), a) = y BY <1>4, <2>5, <2>7, <2>9, <2>10, <2>16, <2>17, RebaseTwice
  <2>20. z \in DOMAIN d /\ d[z] = d0[y] BY <2>9, <2>12, <2>15, <2>18, <2>19 DEF Holds
  <2> QED BY <2>12, <2>20
<1> QED BY <1>6, <1>7

LEMMA PhaseKept ==
  ASSUME NEW v, NEW t, NEW d0, NEW st0, Ready(v, t, d0, st0), NEW d, NEW st, NEW en, NEW k,
         Phase(d, st, en, v, t, d0, st0, k)
  PROVE  Kept(d, st, Goal(v, d0, st0))
<1>1. PICK g : g = Goal(v, d0, st0) OBVIOUS
<1>2. DOMAIN g = DOMAIN v /\ \A p \in DOMAIN v : g[p] = EntryIn(v[p], d0, st0) BY <1>1 DEF Goal
<1>3. ASSUME NEW p \in DOMAIN v, v[p].kind = "base"
      PROVE  g[p] = d0[v[p].path] /\ v[p].path \in DOMAIN d0 /\ v[p].path \in Paths
  <2>1. v[p] \in Backs BY ReadyAt
  <2> QED BY <1>2, <1>3, <2>1, ReadyAt, BacksAre DEF EntryIn
<1>4. ASSUME NEW p \in DOMAIN v, v[p].kind # "base"
      PROVE  g[p].origin = Staged(v[p].ino) /\ v[p].ino \in DOMAIN st0
  <2>1. v[p] \in Backs BY ReadyAt
  <2>2. v[p] = Staged(v[p].ino) BY <1>4, <2>1, BacksAre
  <2> QED BY <1>2, <1>4, <2>2, ReadyAt DEF EntryIn, Entry
<1>5. CASE st = st0 /\ \A p \in DOMAIN v : v[p].kind = "base" => \E q \in DOMAIN d : d[q] = d0[v[p].path]
  <2>1. ASSUME NEW p \in DOMAIN v PROVE \/ \E q \in DOMAIN d : d[q].origin = g[p].origin
                                        \/ \E i \in DOMAIN st : Staged(i) = g[p].origin
    <3>1. CASE v[p].kind = "base"
      <4>1. PICK q \in DOMAIN d : d[q] = d0[v[p].path] BY <1>5, <3>1
      <4>2. d[q].origin = g[p].origin BY <1>3, <3>1, <4>1
      <4> QED BY <4>2
    <3>2. CASE v[p].kind # "base" BY <1>4, <1>5, <3>2
    <3> QED BY <3>1, <3>2
  <2> QED BY <1>1, <1>2, <2>1 DEF Kept
<1>6. ASSUME NEW l \in Nat, Writing(d, st, v, t, d0, st0, l) PROVE Kept(d, st, g)
  <2>1. SUFFICES ASSUME NEW p \in DOMAIN v, ~g[p].dir
                 PROVE  \/ \E q \in DOMAIN d : d[q].origin = g[p].origin
                        \/ \E i \in DOMAIN st : Staged(i) = g[p].origin
    BY <1>2 DEF Kept
  <2>2. CASE p \in Due(t, l)
    <3>1. PICK w : w = Writes(t) OBVIOUS
    <3>2. PICK n \in l + 1 .. Len(w) : p = w[n] BY <2>2, <3>1 DEF Due
    <3>3. n \in 1 .. Len(w) BY <3>1, <3>2, WritesAre
    <3>4. p \in Writers(t) BY <3>1, <3>2, <3>3, WritesAre
    <3>5. t[p].new # Gone /\ v[p] = t[p].new /\ v[p].kind = "staged" BY <3>4, WritersAre
    <3>6. v[p].ino \in DOMAIN st BY <1>6, <2>2, <3>5 DEF Writing
    <3>7. v[p].kind # "base" BY <3>5
    <3>8. g[p].origin = Staged(v[p].ino) BY <1>4, <3>7
    <3> QED BY <3>6, <3>8
  <2>3. CASE p \notin Due(t, l)
    <3>1. Final(t, st0, l, p) BY <2>3, ShownFinal
    <3>2. p \in Paths BY ReadyAt
    <3>3. p \in DOMAIN d /\ Same(d[p], g[p]) BY <1>2, <1>6, <3>1, <3>2 DEF Writing
    <3>4. d[p].origin = g[p].origin BY <2>1, <3>3 DEF Same
    <3> QED BY <3>3, <3>4
  <2> QED BY <2>2, <2>3
<1>7. CASE Saving(d, st, en, t, d0, st0, k)
  <2>1. st = st0 BY <1>7 DEF Saving
  <2>2. \A p \in DOMAIN v : v[p].kind = "base" => \E q \in DOMAIN d : d[q] = d0[v[p].path]
    BY <1>3, <1>7, SavingKept
  <2> QED BY <1>1, <1>5, <2>1, <2>2
<1>8. ASSUME NEW j \in Nat, Placing(d, st, en, t, d0, st0, j) PROVE Kept(d, st, g)
  <2>1. st = st0 BY <1>8 DEF Placing
  <2>2. \A p \in DOMAIN v : v[p].kind = "base" => \E q \in DOMAIN d : d[q] = d0[v[p].path]
    BY <1>8, PlacingKept
  <2> QED BY <1>1, <1>5, <2>1, <2>2
<1> QED BY <1>1, <1>6, <1>7, <1>8 DEF Phase

-----------------------------------------------------------------------------
(* The scratch directory stays through every operation.                    *)

Steady(d) == /\ Scratch \in DOMAIN d /\ d[Scratch].dir
             /\ \A p \in DOMAIN d : d[p].dir \in BOOLEAN

LEMMA BesideScratch ==
  ASSUME NEW p, IsPlace(p)
  PROVE  ~IsPrefix(p, Scratch) /\ p # Scratch /\ p \in Seq(U)
<1>1. p \in Seq(U) /\ Scratch \in Seq(U) BY PlaceIs, TempIsPath
<1>2. CASE p \in Paths
  <2>1. p \in Main BY <1>2, MainIs
  <2>2. Scratch \notin Main
    <3>1. 0 \in Nat OBVIOUS
    <3> QED BY <3>1, TempsAre
  <2>3. ~IsPrefix(p, Scratch) BY <1>1, <2>1, <2>2, MainIs
  <2> QED BY <1>1, <2>1, <2>2, <2>3
<1>3. ASSUME NEW n \in Nat, p = Temp(n) PROVE ~IsPrefix(p, Scratch) /\ p # Scratch
  <2>1. ~IsPrefix(p, Scratch) BY <1>1, <1>3, TempsAre
  <2> QED BY <1>1, <2>1, PrefixSelf
<1> QED BY <1>1, <1>2, <1>3 DEF IsPlace

LEMMA SteadyWithout ==
  ASSUME NEW d, Steady(d), NEW p, IsPlace(p)
  PROVE  Steady(Without(d, p))
<1>1. PICK e : e = Without(d, p) OBVIOUS
<1>2. DOMAIN e = {q \in DOMAIN d : ~IsPrefix(p, q)} /\ \A q \in DOMAIN e : e[q] = d[q]
  BY <1>1 DEF Without, Restrict
<1>3. Steady(e) BY <1>2, BesideScratch DEF Steady
<1> QED BY <1>1, <1>3

LEMMA SteadyPut ==
  ASSUME NEW d, Steady(d), NEW p, IsPlace(p), NEW e, e.dir \in BOOLEAN
  PROVE  Steady(Put(Without(d, p), p, e))
<1>1. PICK f, g : f = Without(d, p) /\ g = Put(f, p, e) OBVIOUS
<1>2. Steady(f) BY <1>1, SteadyWithout
<1>3. DOMAIN g = DOMAIN f \cup {p} /\ \A q \in DOMAIN g : g[q] = IF q = p THEN e ELSE f[q] BY <1>1 DEF Put
<1>4. Scratch # p BY BesideScratch
<1>5. Steady(g) BY <1>2, <1>3, <1>4 DEF Steady
<1> QED BY <1>1, <1>5

LEMMA SteadyParents ==
  ASSUME Steady(disk), NEW p
  PROVE  Steady(WithParents(p))
<1>1. CASE Front(p) \in ensured BY <1>1 DEF WithParents
<1>2. CASE Front(p) \notin ensured
  <2>1. PICK e : e = Over(disk, [q \in Ancestors(p) |-> Entry(TRUE, Gone)]) OBVIOUS
  <2>2. /\ DOMAIN e = DOMAIN disk \cup Ancestors(p)
        /\ \A q \in DOMAIN e : e[q] = IF q \in DOMAIN disk THEN disk[q] ELSE Entry(TRUE, Gone)
    BY <2>1 DEF Over
  <2>3. Entry(TRUE, Gone).dir = TRUE BY DEF Entry
  <2>4. Steady(e) BY <2>2, <2>3 DEF Steady
  <2> QED BY <1>2, <2>1, <2>4 DEF WithParents
<1> QED BY <1>1, <1>2

LEMMA SteadyMoved ==
  ASSUME NEW d, Steady(d), DOMAIN d \subseteq Seq(U), NEW src, NEW dst, Across(src, dst), src \in DOMAIN d
  PROVE  Steady(Moved(Without(d, dst), dst, src))
<1>1. PICK f : f = Moved(Without(d, dst), dst, src) OBVIOUS
<1>2. ~IsPrefix(src, dst) /\ ~IsPrefix(dst, src) /\ IsPlace(src) /\ IsPlace(dst) BY Apart
<1>3. ~IsPrefix(src, Scratch) /\ ~IsPrefix(dst, Scratch) /\ src \in Seq(U) /\ dst \in Seq(U)
  BY <1>2, BesideScratch
<1>4. ASSUME NEW q \in Seq(U)
      PROVE  /\ IsPrefix(dst, q) => /\ q \in DOMAIN f <=> Rebase(q, dst, src) \in DOMAIN d
                                    /\ q \in DOMAIN f => f[q] = d[Rebase(q, dst, src)]
             /\ IsPrefix(src, q) => q \notin DOMAIN f
             /\ ~IsPrefix(src, q) /\ ~IsPrefix(dst, q) => /\ q \in DOMAIN f <=> q \in DOMAIN d
                                                          /\ q \in DOMAIN d => f[q] = d[q]
  BY <1>1, <1>2, <1>3, MovedAt
<1>5. DOMAIN f \subseteq Seq(U)
  <2>1. PICK e : e = Without(d, dst) OBVIOUS
  <2>2. DOMAIN e \subseteq Seq(U) BY <2>1 DEF Without, Restrict
  <2>3. DOMAIN Carried(e, src, dst) \subseteq Seq(U) BY <1>3, <2>2, CarriedIs
  <2>4. DOMAIN f = DOMAIN Carried(e, src, dst) \cup DOMAIN Put(Without(Without(e, dst), src), dst, e[src])
    BY <1>1, <2>1 DEF Moved, Over
  <2>5. DOMAIN Put(Without(Without(e, dst), src), dst, e[src]) \subseteq DOMAIN e \cup {dst}
    BY DEF Put, Without, Restrict
  <2> QED BY <1>3, <2>2, <2>3, <2>4, <2>5
<1>6. Scratch \in Seq(U) BY TempIsPath
<1>7. Scratch \in DOMAIN f /\ f[Scratch].dir BY <1>3, <1>4, <1>6 DEF Steady
<1>8. ASSUME NEW q \in DOMAIN f PROVE f[q].dir \in BOOLEAN
  <2>1. q \in Seq(U) /\ ~IsPrefix(src, q) BY <1>4, <1>5
  <2>2. \E x \in DOMAIN d : f[q] = d[x] BY <1>4, <2>1
  <2> QED BY <2>2 DEF Steady
<1>9. Steady(f) BY <1>7, <1>8 DEF Steady
<1> QED BY <1>1, <1>9

LEMMA SteadyStep ==
  ASSUME Steady(disk), DiskOK(disk), Planned, todo # << >>, ApplyOp
  PROVE  Steady(disk')
<1>1. PICK op \in Ops : op = Head(todo)
  <2>1. Head(todo) \in Ops BY HeadTailProperties DEF Planned
  <2> QED BY <2>1
<1>2. /\ op.op = "move" => Across(op.src, op.dst)
      /\ op.op # "move" => IsPlace(op.dst)
  BY OpIs
<1>3. \A p : Steady(WithParents(p)) BY SteadyParents
<1>4. ASSUME NEW p, IsPlace(p) PROVE DOMAIN WithParents(p) \subseteq Seq(U)
  <2>1. p \in Seq(U) BY <1>4, BesideScratch
  <2>2. Ancestors(p) \subseteq Seq(U) BY <2>1, AncestorsAre
  <2>3. DOMAIN WithParents(p) \subseteq DOMAIN disk \cup Ancestors(p) BY ParentsAt
  <2> QED BY <2>2, <2>3 DEF DiskOK, DirsOver
<1>5. CASE op.op = "move"
  <2>1. PICK dst, src : dst = op.dst /\ src = op.src OBVIOUS
  <2>2. ApplyMove(dst, src) BY <1>1, <1>5, <2>1 DEF ApplyOp
  <2>3. Across(src, dst) /\ IsPlace(dst) BY <1>2, <1>5, <2>1, Apart
  <2>4. PICK D, e : D = WithParents(dst) /\ e = Without(D, dst) OBVIOUS
  <2>5. Steady(D) /\ Steady(e) BY <1>3, <2>3, <2>4, SteadyWithout
  <2>6. \/ disk' = disk \/ disk' = e
        \/ src \in DOMAIN e /\ disk' = Moved(e, dst, src)
    BY <2>2, <2>4 DEF ApplyMove, Fails, Done
  <2>7. CASE src \in DOMAIN e /\ disk' = Moved(e, dst, src)
    <3>1. src \in DOMAIN D BY <2>4, <2>7 DEF Without, Restrict
    <3>2. DOMAIN D \subseteq Seq(U) BY <1>4, <2>3, <2>4
    <3> QED BY <2>3, <2>4, <2>5, <2>7, <3>1, <3>2, SteadyMoved
  <2> QED BY <2>5, <2>6, <2>7
<1>6. CASE op.op = "stage"
  <2>1. PICK p, i : p = op.dst /\ i = op.ino OBVIOUS
  <2>2. ApplyStage(p, i) BY <1>1, <1>6, <2>1 DEF ApplyOp
  <2>3. IsPlace(p) BY <1>2, <1>6, <2>1
  <2>4. PICK D : D = WithParents(p) OBVIOUS
  <2>5. Steady(D) BY <1>3, <2>4
  <2>6. \/ disk' = disk \/ disk' = D
        \/ disk' = Put(Without(D, p), p, Entry(FALSE, Staged(i)))
        \/ disk' = Put(Without(D, p), p, Entry(TRUE, Gone))
    BY <2>2, <2>4 DEF ApplyStage, Fails, Done
  <2>7. PICK f, g : f = Entry(FALSE, Staged(i)) /\ g = Entry(TRUE, Gone) OBVIOUS
  <2>8. f.dir \in BOOLEAN /\ g.dir \in BOOLEAN BY <2>7 DEF Entry
  <2>9. Steady(Put(Without(D, p), p, f)) BY <2>3, <2>5, <2>8, SteadyPut
  <2>10. Steady(Put(Without(D, p), p, g)) BY <2>3, <2>5, <2>8, SteadyPut
  <2> QED BY <2>5, <2>6, <2>7, <2>9, <2>10
<1>7. CASE op.op # "move" /\ op.op # "stage"
  <2>1. ApplyDelete(op.dst) BY <1>1, <1>7 DEF ApplyOp
  <2>2. disk' = Without(disk, op.dst) BY <2>1 DEF ApplyDelete
  <2> QED BY <1>2, <1>7, <2>2, SteadyWithout
<1> QED BY <1>5, <1>6, <1>7

-----------------------------------------------------------------------------
(* The staged work stays ready to be committed.                            *)

Workable == pc \in {"live", "read"} => Once(view) /\ ~Remade(tree, disk, store) /\ ~Retyped(tree, disk)

\* An inode more in the store makes no directory of the tree another one.
LEMMA ExtendsRemade ==
  ASSUME NEW v, NEW t, NEW d, NEW st, Shows(v, t, d, st), NEW st2, Extends(st2, st), DOMAIN t \subseteq Paths,
         ~Remade(t, d, st)
  PROVE  ~Remade(t, d, st2)
<1> SUFFICES ASSUME NEW p \in InPlan(t), t[p].new.kind = "staged", st2[t[p].new.ino]
             PROVE  st[t[p].new.ino]
  BY DEF Remade
<1> p \in DOMAIN t /\ t[p].new # Nil BY DEF InPlan, Net
<1>1. Dormant(v, t) /\ Follows(v, t, d) /\ Backed(v, d, st) BY DEF Shows
<1>2. t[p].new # Gone BY Backings
<1>3. p \in DOMAIN v BY <1>1, <1>2 DEF Dormant
<1>4. v[p] = t[p].new
  <2>1. p \in Paths OBVIOUS
  <2>2. At(t, p).new = t[p].new BY DEF At
  <2>3. ViewAt(v, p) = Resolve(t, d, p, Up(v, p)) BY <1>1, <2>1 DEF Follows
  <2>4. v[p] = Resolve(t, d, p, Up(v, p)) BY <1>3, <2>3 DEF ViewAt
  <2>5. v[p] # Gone BY <1>3, BacksAre DEF Shows
  <2> QED BY <2>2, <2>4, <2>5 DEF Resolve
<1>5. t[p].new.ino \in DOMAIN st BY <1>1, <1>3, <1>4 DEF Backed
<1> QED BY <1>5 DEF Extends

LEMMA EmptyWorks == ASSUME NEW d, NEW st PROVE ~Remade(Empty, d, st) /\ ~Retyped(Empty, d)
BY EmptyTree DEF Remade, Retyped, InPlan, Net

LEMMA GivenOnce ==
  ASSUME NEW v, Once(v), NEW w, NEW p, NEW x, Given(w, v, p, x), \A q \in DOMAIN v : v[q] # x
  PROVE  Once(w)
BY DEF Once, Given

LEMMA LoggedWorkable ==
  ASSUME TypeInv, Live, Workable, MayWork, {"glue", "remade", "retyped"} \cap Env = {},
         NEW line, NEW v, Logged(line, v, store'), Extends(store', store), Once(v)
  PROVE  Workable'
<1>1. torn = << >> /\ \A l : Glue(torn, l) = l BY DEF MayWork, Glue
<1>2. disk' = disk /\ pc' = pc BY DEF Logged, cli
<1>3. Shows(view, tree, disk, store) BY DEF Live, MayWork
<1>4. Once(view) /\ ~Remade(tree, disk, store) /\ ~Retyped(tree, disk) BY DEF Workable, MayWork
<1>5. DOMAIN tree \subseteq Paths BY TypesAre DEF TypeInv, Typed, TreeTo
<1>6. "glue" \notin Env /\ "remade" \notin Env /\ "retyped" \notin Env OBVIOUS
<1>7. \/ tree' = Apply(tree, line) /\ view' = v /\ ~Remade(tree', disk, store') /\ ~Retyped(tree', disk)
      \/ tree' = tree /\ view' = view
  BY <1>1, <1>6 DEF Logged
<1>8. CASE tree' = tree /\ view' = view
  <2>1. ~Remade(tree, disk, store') BY <1>3, <1>4, <1>5, ExtendsRemade
  <2> QED BY <1>2, <1>4, <1>8, <2>1 DEF Workable
<1> QED BY <1>2, <1>7, <1>8 DEF Workable

LEMMA CreateWorkable ==
  ASSUME TypeInv, Live, Workable, {"glue", "remade", "retyped"} \cap Env = {},
         NEW p \in Paths, NEW dir \in BOOLEAN, MayWork, Create(p, dir)
  PROVE  Workable'
<1>1. /\ nextIno < MaxIno /\ nextIno' = nextIno + 1 /\ store' = Put(store, nextIno', dir)
      /\ Logged(StageLine(p, nextIno', Gone), Put(view, p, Staged(nextIno')), store')
      /\ p \notin DOMAIN view
  BY DEF Create
<1>2. PICK line, v, x : line = StageLine(p, nextIno', Gone) /\ x = Staged(nextIno') /\ v = Put(view, p, x)
  OBVIOUS
<1>3. Extends(store', store) BY <1>1, TakenIs
<1>4. Given(v, view, p, x) BY <1>1, <1>2, CreateBare, PutGiven, Backings
<1>5. Once(v)
  <2>1. ViewOK(view, nextIno) BY TypesAre DEF TypeInv, Typed
  <2>2. \A q \in DOMAIN view : view[q] # x BY <1>1, <1>2, <2>1, FreshIs
  <2>3. Once(view) BY DEF Workable, MayWork
  <2> QED BY <1>4, <2>2, <2>3, GivenOnce
<1>6. Logged(line, v, store') BY <1>1, <1>2
<1> QED BY <1>3, <1>5, <1>6, LoggedWorkable

LEMMA CopyWorkable ==
  ASSUME TypeInv, Live, Workable, {"glue", "remade", "retyped"} \cap Env = {},
         NEW p \in Paths, MayWork, Copy(p)
  PROVE  Workable'
<1>1. /\ nextIno < MaxIno /\ nextIno' = nextIno + 1 /\ store' = Put(store, nextIno', FALSE)
      /\ Logged(StageLine(p, nextIno', view[p]), Put(view, p, Staged(nextIno')), store')
      /\ ~IsDir(p)
  BY DEF Copy
<1>2. PICK line, v, x : line = StageLine(p, nextIno', view[p]) /\ x = Staged(nextIno') /\ v = Put(view, p, x)
  OBVIOUS
<1>3. Extends(store', store) BY <1>1, TakenIs
<1>4. Given(v, view, p, x) BY <1>1, <1>2, CreateBare, PutGiven, Backings
<1>5. Once(v)
  <2>1. ViewOK(view, nextIno) BY TypesAre DEF TypeInv, Typed
  <2>2. \A q \in DOMAIN view : view[q] # x BY <1>1, <1>2, <2>1, FreshIs
  <2>3. Once(view) BY DEF Workable, MayWork
  <2> QED BY <1>4, <2>2, <2>3, GivenOnce
<1>6. Logged(line, v, store') BY <1>1, <1>2
<1> QED BY <1>3, <1>5, <1>6, LoggedWorkable

LEMMA DeleteWorkable ==
  ASSUME TypeInv, Live, Workable, {"glue", "remade", "retyped"} \cap Env = {},
         NEW p \in Paths, MayWork, DeleteEntry(p)
  PROVE  Workable'
<1>1. /\ store' = store /\ Logged(DeleteLine(p, view[p]), Without(view, p), store')
  BY DEF DeleteEntry
<1>2. PICK line, v : line = DeleteLine(p, view[p]) /\ v = Without(view, p) OBVIOUS
<1>3. Once(v)
  <2>1. DOMAIN v \subseteq DOMAIN view /\ \A q \in DOMAIN v : v[q] = view[q] BY <1>2 DEF Without, Restrict
  <2>2. Once(view) BY DEF Workable, MayWork
  <2> QED BY <2>1, <2>2 DEF Once
<1>4. Logged(line, v, store') /\ Extends(store', store) BY <1>1, <1>2 DEF Extends
<1> QED BY <1>3, <1>4, LoggedWorkable

LEMMA RenameWorkable ==
  ASSUME TypeInv, Live, Workable, {"glue", "remade", "retyped"} \cap Env = {},
         NEW src \in Paths, NEW dst \in Paths, MayWork, Rename(src, dst)
  PROVE  Workable'
<1>1. PICK dstPre, rest, x, line :
        /\ dstPre = IF dst \in DOMAIN view THEN view[dst] ELSE Gone
        /\ rest = Put(Without(Without(view, dst), src), dst, view[src])
        /\ x = Over(Carried(view, src, dst), rest)
        /\ line = RenameLine(dst, src, view[src], dstPre)
  OBVIOUS
<1>2. /\ src \in DOMAIN view /\ Fits(src, dst) /\ store' = store
      /\ Logged(line, x, store')
  BY <1>1 DEF Rename
<1>3. PICK v, n : v = view /\ n = nextIno OBVIOUS
<1>4. ViewOK(v, n) BY <1>3, TypesAre DEF TypeInv, Typed
<1>5. x = Over(Carried(v, src, dst), Put(Without(Without(v, dst), src), dst, v[src])) /\ src \in DOMAIN v
  BY <1>1, <1>2, <1>3
<1>6. Carries(x, v, src, dst)
  <2>1. DOMAIN v \subseteq Seq(N) /\ src \in Seq(N) /\ dst \in Seq(N) BY <1>4, FrontPath DEF ViewOK
  <2> QED BY <1>5, <2>1, CarriesIs
<1>7. ViewOK(x, n)
  <2>1. Fitting(v, src, dst) BY <1>2, <1>3 DEF Fits, Fitting
  <2> QED BY <1>4, <1>5, <2>1, MovedView
<1>8. Once(x)
  <2>1. Once(v) BY <1>3 DEF Workable, MayWork
  <2> QED BY <1>4, <1>5, <1>6, <1>7, <2>1, CarriedOnce
<1>9. Extends(store', store) BY <1>2 DEF Extends
<1> QED BY <1>2, <1>8, <1>9, LoggedWorkable

LEMMA BareOnce ==
  ASSUME NEW d, DiskOK(d), NEW v, v = Restored(Empty, d)
  PROVE  Once(v)
BY BareSince DEF Since

\* Between commits, what is staged can be committed.
LEMMA StepWorkable ==
  ASSUME TypeInv, Live, Workable, {"glue", "remade", "retyped"} \cap Env = {}, [Next]_vars
  PROVE  Workable'
<1>1. DiskOK(disk) BY TypesAre DEF TypeInv, Typed
<1>2. ASSUME NEW p \in Paths, MayWork, Create(p, TRUE) \/ Create(p, FALSE) PROVE Workable'
  <2>1. TRUE \in BOOLEAN /\ FALSE \in BOOLEAN OBVIOUS
  <2> QED BY <1>2, <2>1, CreateWorkable
<1>3. CASE Work BY <1>2, <1>3, CopyWorkable, DeleteWorkable, RenameWorkable DEF Work
<1>4. CASE UNCHANGED <<disk, store, view, tree>> /\ (pc' \in {"live", "read"} => pc \in {"live", "read"})
  BY <1>4 DEF Workable
<1>5. CASE Snapshot BY <1>4, <1>5 DEF Snapshot, cli
<1>6. CASE CommitRead BY <1>4, <1>6 DEF CommitRead, journal
<1>7. CASE CommitRestore
  <2>1. pc' = "apply" \/ (pc' = (IF pc = "read" THEN "live" ELSE "failed") /\ view' = view)
    BY <1>7 DEF CommitRestore
  <2>2. CASE pc' = "apply" BY <2>2 DEF Workable
  <2>3. CASE pc' = (IF pc = "read" THEN "live" ELSE "failed") /\ view' = view
    BY <1>4, <1>7, <2>3 DEF CommitRestore
  <2> QED BY <2>1, <2>2, <2>3
<1>8. CASE ApplyOp
  <2>1. pc' \in {"apply", "stuck"} BY <1>1, <1>8, ApplyOpOK DEF TypeInv, Sound
  <2> QED BY <2>1 DEF Workable
<1>9. CASE Interrupt BY <1>9 DEF Interrupt, Workable
<1>10. CASE CommitDone BY <1>10 DEF CommitDone, Workable
<1>11. CASE ClearStore BY <1>11 DEF ClearStore, Workable
<1>12. CASE Truncate
  <2>1. view' = Restored(Empty, disk) /\ tree' = Empty BY <1>12 DEF Truncate, LeaveView
  <2>2. Once(view') BY <1>1, <2>1, BareOnce
  <2> QED BY <2>1, <2>2, EmptyWorks DEF Workable
<1>13. CASE Abort BY <1>13 DEF Abort, Workable
<1>14. CASE UNCHANGED vars BY <1>4, <1>14 DEF vars, journal, cli
<1> QED BY <1>3, <1>5, <1>6, <1>7, <1>8, <1>9, <1>10, <1>11, <1>12, <1>13, <1>14 DEF Next

-----------------------------------------------------------------------------
(* The invariant of a commit.                                              *)

Reading  == pc = "read" => todo = IntoPlan(tree) /\ ensured = {}

Working(v, t, d0, st0, k) ==
  /\ Ready(v, t, d0, st0) /\ Left(todo, IntoPlan(t), k)
  /\ Phase(disk, store, ensured, v, t, d0, st0, k) /\ goal = Goal(v, d0, st0)
Applying == pc = "apply" => \E v, d0, st0, k : Working(v, tree, d0, st0, k)

Finished == /\ pc \in {"clear", "truncate"} /\ goal # Nil => Exact(disk, goal)
            /\ pc = "failed" /\ goal # Nil => Kept(disk, store, goal)

Unstuck  == pc \notin {"stuck", "reread"}

CommitInv == IInv /\ Steady(disk) /\ Workable /\ Reading /\ Applying /\ Finished /\ Unstuck

\* Nothing a commit breaks on, but for "replace", which is a review's matter.
Tame == {"glue", "home", "remade", "retyped", "race", "retry", "revive"} \cap Env = {}

LEMMA WorkIs ==
  ASSUME Work, "race" \notin Env
  PROVE  pc = "live" /\ pc' = pc /\ disk' = disk
<1>1. MayWork BY DEF Work
<1>2. pc = "live" BY <1>1 DEF MayWork
<1>3. \E line, v, st : Logged(line, v, st) BY DEF Work, Create, Copy, DeleteEntry, Rename
<1> QED BY <1>2, <1>3 DEF Logged, cli

LEMMA ReadyNext ==
  ASSUME NEW v, NEW t, NEW d, NEW st, Ready(v, t, d, st), nextIno' = nextIno
  PROVE  Ready(v, t, d, st)'
<1>1. Sides' = Sides BY DEF Sides, Unstaged
<1>2. IsTree(t) /\ nextIno \in Nat BY DEF Ready
<1>3. IsTree(t)' /\ nextIno' \in Nat BY <1>1, <1>2 DEF IsTree
<1> QED BY <1>3 DEF Ready

\* The plan has been read, the view left, and nothing done yet.
LEMMA WorkStarts ==
  ASSUME CommitInv, pc = "read"
  PROVE  /\ Ready(view, tree, disk, store) /\ Left(todo, IntoPlan(tree), 0)
         /\ Phase(disk, store, ensured, view, tree, disk, store, 0)
<1>1. Shows(view, tree, disk, store) /\ Once(view) /\ ~Remade(tree, disk, store) /\ ~Retyped(tree, disk)
  BY DEF CommitInv, IInv, Live, Workable
<1>2. Typed(nextIno, cowFloor, store, view, tree, seg, pc, disk) BY TypesAre DEF CommitInv, IInv, TypeInv
<1>3. IsTree(tree) /\ nextIno \in Nat /\ DiskOK(disk) BY <1>2, TreesAre, CommitAssumption DEF Typed
<1>4. \A i \in DOMAIN store : store[i] \in BOOLEAN BY <1>2 DEF Typed, StoreOK
<1>5. Ready(view, tree, disk, store) BY <1>1, <1>3, <1>4 DEF Ready, Steady, CommitInv
<1>6. todo = IntoPlan(tree) /\ ensured = {} /\ todo \in Seq(Ops)
  BY DEF CommitInv, Reading, IInv, TypeInv, Planned
<1>7. Left(todo, IntoPlan(tree), 0)
  <2>1. Len(todo) \in Nat BY <1>6, LenProperties
  <2>2. \A i \in 1 .. Len(todo) : 0 + i = i BY <2>1
  <2> QED BY <1>6, <2>1, <2>2 DEF Left
<1>8. Saving(disk, store, ensured, tree, disk, store, 0)
  <2>1. Len(Saves(tree)) \in Nat BY <1>5, SavesAre
  <2>2. 0 \in 0 .. Len(Saves(tree)) /\ 1 .. 0 = {} BY <2>1
  <2> QED BY <1>6, <2>2 DEF Saving, CommitInv, Steady
<1> QED BY <1>5, <1>7, <1>8 DEF Phase

LEMMA StepSteady ==
  ASSUME CommitInv, "race" \notin Env, [Next]_vars
  PROVE  Steady(disk')
<1>1. Steady(disk) /\ DiskOK(disk) /\ Planned BY TypesAre DEF CommitInv, IInv, TypeInv, Typed
<1>2. CASE ApplyOp
  <2>1. todo # << >> BY <1>2 DEF ApplyOp
  <2> QED BY <1>1, <1>2, <2>1, SteadyStep
<1>3. CASE Work BY <1>1, <1>3, WorkIs
<1>4. CASE Snapshot \/ CommitRead \/ CommitRestore \/ CommitDone
  BY <1>1, <1>4 DEF Snapshot, CommitRead, CommitRestore, CommitDone
<1>5. CASE Interrupt \/ ClearStore \/ Truncate \/ Abort
  BY <1>1, <1>5 DEF Interrupt, ClearStore, Truncate, Abort
<1>6. CASE UNCHANGED vars BY <1>1, <1>6 DEF vars
<1> QED BY <1>2, <1>3, <1>4, <1>5, <1>6 DEF Next

LEMMA StepReading ==
  ASSUME CommitInv, "race" \notin Env, [Next]_vars
  PROVE  Reading'
<1>1. CASE Work BY <1>1, WorkIs DEF Reading
<1>2. CASE CommitRead
  <2>1. ReadTree = tree BY ReadTreeIs DEF CommitInv, IInv, TypeInv
  <2> QED BY <1>2, <2>1 DEF CommitRead, Reading, journal
<1>3. CASE Snapshot BY <1>3 DEF Snapshot, Reading, cli
<1>4. CASE ApplyOp
  <2>1. DiskOK(disk) /\ Planned BY TypesAre DEF CommitInv, IInv, TypeInv, Typed
  <2>2. pc' \in {"apply", "stuck"} BY <1>4, <2>1, ApplyOpOK DEF Sound
  <2> QED BY <2>2 DEF Reading
<1>5. CASE CommitRestore BY <1>5 DEF CommitRestore, Reading
<1>6. CASE CommitDone \/ Interrupt \/ ClearStore \/ Truncate \/ Abort
  BY <1>6 DEF CommitDone, Interrupt, ClearStore, Truncate, Abort, Reading
<1>7. CASE UNCHANGED vars BY <1>7 DEF vars, journal, cli, Reading, CommitInv
<1> QED BY <1>1, <1>2, <1>3, <1>4, <1>5, <1>6, <1>7 DEF Next

\* A step of the plan, and the invariant while there are more.
LEMMA WorkGoes ==
  ASSUME CommitInv, ApplyOp
  PROVE  Applying' /\ pc' = "apply"
<1>1. pc = "apply" /\ todo # << >> /\ nextIno' = nextIno /\ tree' = tree BY DEF ApplyOp, journal
<1>2. PICK v, d0, st0, k : Working(v, tree, d0, st0, k) BY <1>1 DEF CommitInv, Applying
<1>3. PICK t : t = tree OBVIOUS
<1>4. Ready(v, t, d0, st0) /\ goal = Goal(v, d0, st0) BY <1>2, <1>3 DEF Working
<1>5. Left(todo, IntoPlan(t), k) /\ Phase(disk, store, ensured, v, t, d0, st0, k) BY <1>2, <1>3 DEF Working
<1>6. Steady(disk) /\ DiskOK(disk) /\ Planned BY TypesAre DEF CommitInv, IInv, TypeInv, Typed
<1>7. \A q \in DOMAIN disk' : disk'[q].dir \in BOOLEAN BY <1>1, <1>6, SteadyStep DEF Steady
<1>8. /\ Left(todo', IntoPlan(t), k + 1) /\ Phase(disk', store', ensured', v, t, d0, st0, k + 1)
      /\ pc' = pc /\ goal' = goal
  BY <1>1, <1>4, <1>5, <1>6, <1>7, PhaseStep
<1>9. Ready(v, t, d0, st0)' BY <1>1, <1>4, ReadyNext
<1>10. Working(v, t, d0, st0, k + 1)' BY <1>4, <1>8, <1>9 DEF Working
<1>11. t = tree' BY <1>1, <1>3
<1> QED BY <1>1, <1>8, <1>10, <1>11 DEF Applying

LEMMA StepApplying ==
  ASSUME CommitInv, "race" \notin Env, [Next]_vars
  PROVE  Applying'
<1>1. CASE ApplyOp BY <1>1, WorkGoes
<1>2. CASE CommitRestore /\ pc' = "apply"
  <2>1. pc = "read" BY <1>2 DEF CommitRestore, CommitInv, Unstuck
  <2>2. /\ disk' = disk /\ store' = store /\ tree' = tree /\ nextIno' = nextIno /\ ensured' = ensured
        /\ todo' = todo /\ goal' = Shown(view)
    BY <1>2, <2>1 DEF CommitRestore
  <2>3. PICK v, t, d0, st0 : v = view /\ t = tree /\ d0 = disk /\ st0 = store OBVIOUS
  <2>4. Ready(v, t, d0, st0) /\ Left(todo, IntoPlan(t), 0) /\ Phase(disk, store, ensured, v, t, d0, st0, 0)
    BY <2>1, <2>3, WorkStarts
  <2>5. Ready(v, t, d0, st0)' BY <2>2, <2>4, ReadyNext
  <2>6. Shown(view) = Goal(v, d0, st0) BY <2>3 DEF Shown, EntryOf, Goal, EntryIn
  <2>7. Left(todo', IntoPlan(t), 0) /\ Phase(disk', store', ensured', v, t, d0, st0, 0) BY <2>2, <2>4
  <2>8. goal' = Goal(v, d0, st0) BY <2>2, <2>6
  <2>9. Working(v, t, d0, st0, 0)' BY <2>5, <2>7, <2>8 DEF Working
  <2>10. t = tree' BY <2>2, <2>3
  <2> QED BY <2>9, <2>10 DEF Applying
<1>3. CASE CommitRestore /\ pc' # "apply" BY <1>3 DEF Applying
<1>4. CASE Work BY <1>4, WorkIs DEF Applying
<1>5. CASE Snapshot BY <1>5 DEF Snapshot, Applying, cli
<1>6. CASE CommitRead \/ CommitDone \/ Interrupt \/ ClearStore \/ Truncate \/ Abort
  <2>1. pc' # "apply" BY <1>6 DEF CommitRead, CommitDone, Interrupt, ClearStore, Truncate, Abort
  <2> QED BY <2>1 DEF Applying
<1>7. CASE UNCHANGED vars
  <2>1. /\ disk' = disk /\ store' = store /\ tree' = tree /\ nextIno' = nextIno /\ ensured' = ensured
        /\ todo' = todo /\ goal' = goal /\ pc' = pc
    BY <1>7 DEF vars, journal, cli
  <2>2. SUFFICES ASSUME pc = "apply" PROVE Applying' BY <2>1 DEF Applying
  <2>3. PICK v, d0, st0, k : Working(v, tree, d0, st0, k) BY <2>2 DEF CommitInv, Applying
  <2>4. PICK t : t = tree OBVIOUS
  <2>5. Ready(v, t, d0, st0) BY <2>3, <2>4 DEF Working
  <2>6. Ready(v, t, d0, st0)' BY <2>1, <2>5, ReadyNext
  <2>7. Left(todo', IntoPlan(t), k) /\ Phase(disk', store', ensured', v, t, d0, st0, k) /\ goal' = Goal(v, d0, st0)
    BY <2>1, <2>3, <2>4 DEF Working
  <2>8. Working(v, t, d0, st0, k)' BY <2>6, <2>7 DEF Working
  <2>9. t = tree' BY <2>1, <2>4
  <2> QED BY <2>8, <2>9 DEF Applying
<1> QED BY <1>1, <1>2, <1>3, <1>4, <1>5, <1>6, <1>7 DEF Next

\* While operations are left, nothing is lost.
LEMMA WorkKept ==
  ASSUME CommitInv, pc = "apply"
  PROVE  Kept(disk, store, goal)
<1>1. PICK v, d0, st0, k : Working(v, tree, d0, st0, k) BY DEF CommitInv, Applying
<1> QED BY <1>1, PhaseKept DEF Working

LEMMA StepFinished ==
  ASSUME CommitInv, "race" \notin Env, [Next]_vars
  PROVE  Finished'
<1>1. CASE CommitDone
  <2>1. pc = "apply" /\ todo = << >> /\ pc' = "clear" /\ disk' = disk /\ goal' = goal BY <1>1 DEF CommitDone
  <2>2. PICK v, d0, st0, k : Working(v, tree, d0, st0, k) BY <2>1 DEF CommitInv, Applying
  <2>3. PICK t : t = tree OBVIOUS
  <2>4. Left(<< >>, IntoPlan(t), k) BY <2>1, <2>2, <2>3 DEF Working
  <2>5. Ready(v, t, d0, st0) /\ Phase(disk, store, ensured, v, t, d0, st0, k) BY <2>2, <2>3 DEF Working
  <2>6. Exact(disk, Goal(v, d0, st0)) BY <2>4, <2>5, PhaseEnd
  <2>7. goal = Goal(v, d0, st0) BY <2>2 DEF Working
  <2> QED BY <2>1, <2>6, <2>7 DEF Finished
<1>2. CASE Interrupt
  <2>1. /\ pc \in {"apply", "clear", "truncate"} /\ pc' = "failed" /\ disk' = disk /\ store' = store
        /\ goal' = goal
    BY <1>2 DEF Interrupt
  <2>2. CASE pc = "apply" BY <2>1, <2>2, WorkKept DEF Finished
  <2>3. CASE pc \in {"clear", "truncate"}
    <3>1. goal # Nil => Exact(disk, goal) BY <2>3 DEF CommitInv, Finished
    <3>2. goal # Nil => Kept(disk, store, goal) BY <3>1, ExactKept
    <3> QED BY <2>1, <3>2 DEF Finished
  <2> QED BY <2>1, <2>2, <2>3
<1>3. CASE ClearStore BY <1>3 DEF ClearStore, Finished, CommitInv
<1>4. CASE Truncate BY <1>4 DEF Truncate, Finished
<1>5. CASE Abort BY <1>5 DEF Abort, Finished
<1>6. CASE ApplyOp BY <1>6, WorkGoes DEF Finished
<1>7. CASE Work BY <1>7, WorkIs DEF Finished
<1>8. CASE Snapshot BY <1>8 DEF Snapshot, Finished, cli
<1>9. CASE CommitRead BY <1>9 DEF CommitRead, Finished
<1>10. CASE CommitRestore
  <2>1. pc' \in {"apply", "live"} BY <1>10 DEF CommitRestore, CommitInv, Unstuck
  <2> QED BY <2>1 DEF Finished
<1>11. CASE UNCHANGED vars BY <1>11 DEF vars, cli, Finished, CommitInv
<1> QED BY <1>1, <1>2, <1>3, <1>4, <1>5, <1>6, <1>7, <1>8, <1>9, <1>10, <1>11 DEF Next

LEMMA StepUnstuck ==
  ASSUME CommitInv, {"race", "retry"} \cap Env = {}, [Next]_vars
  PROVE  Unstuck'
<1>1. pc \notin {"stuck", "reread"} BY DEF CommitInv, Unstuck
<1>2. CASE ApplyOp BY <1>2, WorkGoes DEF Unstuck
<1>3. CASE Work BY <1>1, <1>3, WorkIs DEF Unstuck
<1>4. CASE CommitRead BY <1>4 DEF CommitRead, Unstuck
<1>5. CASE CommitRestore BY <1>1, <1>5 DEF CommitRestore, Unstuck
<1>6. CASE Snapshot BY <1>1, <1>6 DEF Snapshot, cli, Unstuck
<1>7. CASE CommitDone \/ Interrupt \/ ClearStore \/ Truncate \/ Abort
  BY <1>7 DEF CommitDone, Interrupt, ClearStore, Truncate, Abort, Unstuck
<1>8. CASE UNCHANGED vars BY <1>1, <1>8 DEF vars, cli, Unstuck
<1> QED BY <1>2, <1>3, <1>4, <1>5, <1>6, <1>7, <1>8 DEF Next

LEMMA StepCommit ==
  ASSUME CommitInv, Tame, [Next]_vars
  PROVE  CommitInv'
<1>1. /\ "glue" \notin Env /\ "race" \notin Env /\ {"glue", "home", "revive"} \cap Env = {}
      /\ {"glue", "remade", "retyped"} \cap Env = {} /\ {"race", "retry"} \cap Env = {}
  BY DEF Tame
<1>2. TypeInv /\ Live /\ Workable BY DEF CommitInv, IInv
<1>3. IInv' BY <1>1, <1>2, StepTypes, StepLive DEF IInv
<1>4. Workable' BY <1>1, <1>2, StepWorkable
<1>5. Steady(disk)' BY <1>1, StepSteady DEF Steady
<1>6. Reading' /\ Applying' /\ Finished' BY <1>1, StepReading, StepApplying, StepFinished
<1>7. Unstuck' BY <1>1, StepUnstuck
<1> QED BY <1>3, <1>4, <1>5, <1>6, <1>7 DEF CommitInv

LEMMA InitCommit == Init => CommitInv
<1> SUFFICES ASSUME Init PROVE CommitInv OBVIOUS
<1>1. IInv BY InitTypes, InitLive DEF IInv
<1>2. DiskOK(disk) BY <1>1, TypesAre DEF IInv, TypeInv, Typed
<1>3. PICK base \in Bases : disk = DiskOf(base) BY DEF Init
<1>4. Steady(disk)
  <2>1. \A p \in DOMAIN base : base[p] \in BOOLEAN BY CommitAssumption
  <2>2. DOMAIN disk = DOMAIN base \cup {Scratch} BY <1>3 DEF DiskOf, Put
  <2>3. \A p \in DOMAIN disk : disk[p] = IF p = Scratch THEN Entry(TRUE, Gone) ELSE Entry(base[p], Base(p))
    BY <1>3, <2>2 DEF DiskOf, Put
  <2>4. Entry(TRUE, Gone).dir = TRUE /\ \A p \in DOMAIN base : Entry(base[p], Base(p)).dir = base[p]
    BY DEF Entry
  <2> QED BY <2>1, <2>2, <2>3, <2>4 DEF Steady
<1>5. view = Restored(Empty, disk) /\ tree = Empty /\ pc = "live" BY DEF Init
<1>6. Workable BY <1>2, <1>5, BareOnce, EmptyWorks DEF Workable
<1> QED BY <1>1, <1>4, <1>5, <1>6 DEF CommitInv, Reading, Applying, Finished, Unstuck

-----------------------------------------------------------------------------
(* The theorems.                                                           *)

\* Types, with no operation behind a torn append: the view and the journal name
\* no inode the store never had, every path of the trees stays within bounds,
\* and each operation of a commit's plan, done or failed, leaves the disk a
\* tree of directories (commit.rs apply_rename, apply_stage, apply_delete).
THEOREM CommitTypes == "glue" \notin Env => (Spec => []TypeOK)
<1> SUFFICES ASSUME "glue" \notin Env PROVE Spec => []TypeOK OBVIOUS
<1>1. Init => TypeInv BY InitTypes
<1>2. TypeInv /\ [Next]_vars => TypeInv' BY StepTypes
<1>3. TypeInv => TypeOK BY DEF TypeInv
<1> QED BY <1>1, <1>2, <1>3, PTL DEF Spec

\* What a restore, a remount or a travel rebuilds from the journal is the view
\* the operations kept (inode.c with journal.c, tree.rs), through any creates,
\* copies, deletes, renames, snapshots, torn appends, commits, failures and
\* aborts, as long as nothing follows a torn append and no rename home is one
\* the fold gets wrong.
THEOREM ReplayStays == {"glue", "home", "revive"} \cap Env = {} => (Spec => []ReplayIsView)
<1> SUFFICES ASSUME {"glue", "home", "revive"} \cap Env = {} PROVE Spec => []ReplayIsView OBVIOUS
<1>1. "glue" \notin Env OBVIOUS
<1>2. Init => IInv BY InitTypes, InitLive DEF IInv
<1>3. IInv /\ [Next]_vars => IInv' BY <1>1, StepTypes, StepLive DEF IInv
<1>4. ASSUME IInv PROVE ReplayIsView
  <2>1. SUFFICES ASSUME pc = "live" PROVE Restored(ReadTree, disk) = view BY DEF ReplayIsView
  <2>2. ReadTree = tree BY <1>4, ReadTreeIs DEF IInv, TypeInv
  <2>3. Shows(view, tree, disk, store) BY <1>4, <2>1 DEF IInv, Live
  <2>4. \A p \in DOMAIN view : view[p] # Gone BY <2>3, BacksAre DEF Shows
  <2>5. IsView(view) /\ Follows(view, tree, disk) BY <2>3 DEF Shows
  <2>6. Restored(tree, disk) = view BY <2>4, <2>5, FollowsRestored
  <2> QED BY <2>2, <2>6
<1> QED BY <1>2, <1>3, <1>4, PTL DEF Spec

\* Whatever differs between the start of the segment a review shows and now is
\* on a line of the review, at its name, at a directory above it, or as the
\* source of a rename (tree.rs, review.rs classify, changeset.rs): through any
\* creates, copies, deletes and renames, as long as nothing follows a torn
\* append, a rename home is none the fold gets wrong, and nothing the segment
\* touched is moved onto what was there at its start.
THEOREM ReviewAccounts == {"glue", "home", "replace", "revive"} \cap Env = {} => (Spec => []ReviewComplete)
<1> SUFFICES ASSUME {"glue", "home", "replace", "revive"} \cap Env = {} PROVE Spec => []ReviewComplete OBVIOUS
<1>1. "glue" \notin Env /\ {"glue", "home", "revive"} \cap Env = {} OBVIOUS
<1>2. Init => IInv /\ Reviewed BY InitTypes, InitLive, InitReviewed DEF IInv
<1>3. IInv /\ Reviewed /\ [Next]_vars => IInv' /\ Reviewed'
  BY <1>1, StepTypes, StepLive, StepReviewed DEF IInv
<1>4. ASSUME IInv, Reviewed PROVE ReviewComplete
  <2>1. SUFFICES ASSUME pc = "live", NEW p \in Paths, ViewAt(start, p) # ViewAt(view, p)
                 PROVE  \E c \in Changes(seg) : Accounts(c, p)
    BY DEF ReviewComplete
  <2>2. PICK v, s, g, n, d, st :
          v = view /\ s = start /\ g = seg /\ n = nextIno /\ d = disk /\ st = store
    OBVIOUS
  <2>3. Since(v, s, g) /\ ViewOK(s, n) BY <1>4, <2>1, <2>2 DEF Reviewed
  <2>4. ViewOK(v, n) /\ TreeTo(g, n) BY <1>4, <2>2, TypesAre DEF IInv, TypeInv, Typed
  <2>5. IsView(v) /\ Tidy(v, d, st) BY <1>4, <2>1, <2>2 DEF IInv, Live, Shows
  <2>6. ViewAt(s, p) # ViewAt(v, p) BY <2>1, <2>2
  <2>7. PICK c \in Changes(g) : \/ IsPrefix(c, p)
                                \/ /\ g[c].new.kind = "base"
                                   /\ \E q \in Prefixes(p) : ViewAt(s, q) = g[c].new
    BY <2>1, <2>3, <2>4, <2>5, <2>6, Accounted
  <2>8. Accounts(c, p) BY <2>2, <2>7 DEF Accounts
  <2> QED BY <2>2, <2>8
<1> QED BY <1>2, <1>3, <1>4, PTL DEF Spec

\* What a review marks as added was not there when its segment began ("multi.txt
\* existed in base, so it must classify as modified, not added",
\* tests/cli/test_status.rs): the old side a node keeps is what the start showed
\* in its place, wherever renames have brought its directory since.
THEOREM AddedStays == {"glue", "home", "replace", "revive"} \cap Env = {} => (Spec => []AddedIsNew)
<1> SUFFICES ASSUME {"glue", "home", "replace", "revive"} \cap Env = {} PROVE Spec => []AddedIsNew OBVIOUS
<1>1. "glue" \notin Env /\ {"glue", "home", "revive"} \cap Env = {} OBVIOUS
<1>2. Init => IInv /\ Reviewed BY InitTypes, InitLive, InitReviewed DEF IInv
<1>3. IInv /\ Reviewed /\ [Next]_vars => IInv' /\ Reviewed'
  BY <1>1, StepTypes, StepLive, StepReviewed DEF IInv
<1>4. ASSUME IInv, Reviewed PROVE AddedIsNew
  <2>1. SUFFICES ASSUME pc = "live", NEW p \in Changes(seg), Kind(seg[p]) = "added",
                        NEW h \in WasAt(p), h \in DOMAIN start
                 PROVE  FALSE
    BY DEF AddedIsNew
  <2>2. p \in DOMAIN seg BY DEF Changes
  <2>3. Present(seg[p].new) /\ ~Present(seg[p].old) BY <2>1 DEF Kind
  <2>4. p \in Everywhere
    <3>1. p \in Paths BY <1>4, <2>2, TypesAre DEF IInv, TypeInv, Typed, TreeTo
    <3> QED BY <3>1, FrontPath DEF Everywhere
  <2>5. Told(view, start, seg, p) /\ ViewOK(start, nextIno) BY <1>4, <2>1, <2>4 DEF Reviewed, Since
  <2>6. At(seg, p) = seg[p] /\ WasAt(p) = WasIn(view, start, p) BY <2>2 DEF At, WasAt, WasIn
  <2>7. seg[p].old = start[h] BY <2>1, <2>3, <2>5, <2>6 DEF Told, Present
  <2>8. Present(start[h]) BY <2>1, <2>5 DEF ViewOK, Present
  <2> QED BY <2>3, <2>7, <2>8
<1> QED BY <1>2, <1>3, <1>4, PTL DEF Spec

\* A plan runs to its end unless the system fails it: every source a move names
\* is there when its turn comes, every parent exists or can be made, no file is
\* where a directory has to go, and every staged inode is in the store (plan.rs:
\* saves, places, then the writers; commit.rs apply_rename, apply_stage).
THEOREM PlansRun == Tame => (Spec => []PlanRuns)
<1> SUFFICES ASSUME Tame PROVE Spec => []PlanRuns OBVIOUS
<1>1. Init => CommitInv BY InitCommit
<1>2. CommitInv /\ [Next]_vars => CommitInv' BY StepCommit
<1>3. CommitInv => PlanRuns BY DEF CommitInv, Unstuck, PlanRuns
<1> QED BY <1>1, <1>2, <1>3, PTL DEF Spec

\* When the last operation of a plan is done the base has exactly the names the
\* view showed, each a directory or a file with the content it had there
\* ("applies all operations to the base filesystem", staging.md; commit.rs).
THEOREM CommitsExactly == Tame => (Spec => []CommitExact)
<1> SUFFICES ASSUME Tame PROVE Spec => []CommitExact OBVIOUS
<1>1. Init => CommitInv BY InitCommit
<1>2. CommitInv /\ [Next]_vars => CommitInv' BY StepCommit
<1>3. CommitInv => CommitExact BY DEF CommitInv, Finished, Exact, CommitExact
<1> QED BY <1>1, <1>2, <1>3, PTL DEF Spec

\* Wherever a commit stops, between two operations, by a failure, or before the
\* store is cleared, every file the view showed is still at some name of the
\* base, in a scratch file or in the store: plan.rs saves every source a rename
\* needs before anything is placed or deleted, and in commit.rs apply_stage a
\* file leaves the store only for its place.
THEOREM NothingIsLost == Tame => (Spec => []NothingLost)
<1> SUFFICES ASSUME Tame PROVE Spec => []NothingLost OBVIOUS
<1>1. Init => CommitInv BY InitCommit
<1>2. CommitInv /\ [Next]_vars => CommitInv' BY StepCommit
<1>3. ASSUME CommitInv PROVE NothingLost
  <2>1. pc # "stuck" BY <1>3 DEF CommitInv, Unstuck
  <2>2. pc = "apply" => Kept(disk, store, goal) BY <1>3, WorkKept
  <2>3. pc = "failed" /\ goal # Nil => Kept(disk, store, goal) BY <1>3 DEF CommitInv, Finished
  <2>4. pc = "clear" /\ goal # Nil => Exact(disk, goal) BY <1>3 DEF CommitInv, Finished
  <2>5. pc = "clear" /\ goal # Nil => Kept(disk, store, goal) BY <2>4, ExactKept
  <2>6. pc \in {"apply", "failed", "stuck", "clear"} /\ goal # Nil => Kept(disk, store, goal)
    BY <2>1, <2>2, <2>3, <2>5
  <2> QED BY <2>6 DEF Kept, NothingLost
<1> QED BY <1>1, <1>2, <1>3, PTL DEF Spec
=============================================================================
