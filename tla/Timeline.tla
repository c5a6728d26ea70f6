----------------------------- MODULE Timeline -----------------------------
(***************************************************************************)
(* How the CLI reads history out of the append-only journal: markers cut   *)
(* the records into segments, a travel marker kills the segments back to   *)
(* its target, and every command works on the segments that are left.      *)
(* Source: user/journal/marker.rs and core.rs, and the commands that read  *)
(* ranges: user/cmd/review.rs, audit.rs, timeline.rs and travel.rs.        *)
(*                                                                         *)
(* Marker g is the g-th P or T record, 0 the phantom; segment i holds the  *)
(* records between marker i and marker i + 1.  Of a segment's records two  *)
(* things are kept: whether there are any, and what those of one file come *)
(* to, the first one's pre-image and the last one's result.                *)
(***************************************************************************)
EXTENDS Integers, Sequences, FiniteSetsExt

CONSTANTS MaxMarkers,  \* bound on the P and T records of a journal
          Contents,    \* the versions of the file that are told apart
          Absent,      \* stands for a file that is not there
          Base         \* the file in the base filesystem

ASSUME TimelineAssumption ==
  /\ MaxMarkers \in Nat
  /\ Absent \notin Contents /\ Base \in Contents \cup {Absent}

VARIABLES markers,    \* the P and T records, in order: [kind, target], the phantom left out
          work,       \* the segments with records, a subset of 0 .. Tip
          now,        \* the file in the live view, Absent or a content
          net         \* segment with S or D records of the file -> what they come to

vars == <<markers, work, now, net>>

\* Index of the last marker, and of the trailing segment.
Tip == Len(markers)

\* The ids a command line may name: resolve_gen checks the bound and no more.
Ids == 0 .. Tip

IsTravel(g)   == g > 0 /\ markers[g].kind = "travel"
IsSnapshot(g) == g > 0 /\ markers[g].kind = "snapshot"
Target(g)     == markers[g].target

-----------------------------------------------------------------------------
(* The writer: the kernel appends, and never takes back.                   *)

Init == markers = <<>> /\ work = {} /\ now = Base /\ net = <<>>

\* A record of any kind.
Record == work' = work \cup {Tip} /\ UNCHANGED markers

\* One that says nothing of the file: of another file, or a note.
Other == Record /\ UNCHANGED <<now, net>>

\* Mutant of Touch: every record of the file renews the pre-image.
TouchRenews(new) ==
  /\ Record
  /\ now' = new
  /\ net' = [i \in DOMAIN net \cup {Tip} |->
               IF i # Tip THEN net[i] ELSE [old |-> now, new |-> new]]

\* One of the file, with the live view's answer as its pre-image: the first of a
\* segment is kept as the old side, the last one as the new.
Touch(new) ==
  /\ Record
  /\ now' = new
  /\ net' = [i \in DOMAIN net \cup {Tip} |->
               IF i # Tip THEN net[i]
               ELSE [old |-> IF Tip \in DOMAIN net THEN net[Tip].old ELSE now, new |-> new]]

\* S: a create, a copy or a replacement.
Stage(c) == Touch(c)

\* D.
Delete == now # Absent /\ Touch(Absent)

Snapshot ==
  /\ Tip < MaxMarkers
  /\ markers' = Append(markers, [kind |-> "snapshot", target |-> 0])
  /\ UNCHANGED <<work, now, net>>

-----------------------------------------------------------------------------
(* The reader.                                                             *)

\* Mutant of AliveRange: a marker just at the end of the living is dead too.
AliveRangeStrict(first, end, segs) ==
  LET scan[m \in first .. end] ==
        IF m = end THEN [alive |-> 0 .. segs - 1, end |-> end]
        ELSE LET s == scan[m + 1]
             IN  IF IsTravel(m) /\ m < s.end /\ Target(m) \in first .. m - 1
                 THEN [alive |-> s.alive \ (Target(m) .. m - 1), end |-> Target(m)]
                 ELSE s
  IN  scan[first].alive

\* alive_segments_range: markers first .. end - 1 from the right, skipping
\* what a later travel has killed.
AliveRange(first, end, segs) ==
  LET scan[m \in first .. end] ==
        IF m = end THEN [alive |-> 0 .. segs - 1, end |-> end]
        ELSE LET s == scan[m + 1]
             IN  IF IsTravel(m) /\ m <= s.end /\ Target(m) \in first .. m - 1
                 THEN [alive |-> s.alive \ (Target(m) .. m - 1), end |-> Target(m)]
                 ELSE s
  IN  scan[first].alive

\* alive_segments, as Journal::new calls it.
Alive == AliveRange(0, Tip + 1, Tip + 1)

\* Mutant of AliveAt: the target's own marker is not scanned.
AliveAtShort(g) == AliveRange(0, g, g)

\* into_live_segments_at: what is alive at marker g, g's own travel included.
AliveAt(g) == AliveRange(0, g + 1, g)

\* The file in the tree of a set of segments: what the last record of it left,
\* or what the base has.
Lies(segs) ==
  LET touched == segs \cap DOMAIN net
  IN  IF touched = {} THEN Base ELSE net[Max(touched)].new

-----------------------------------------------------------------------------
(* Travel hands the kernel the tree the reader builds of its target, a     *)
(* marker of any kind, dead or alive.                                      *)
Travel(g) ==
  /\ Tip < MaxMarkers
  /\ markers' = Append(markers, [kind |-> "travel", target |-> g])
  /\ now' = Lies(AliveAt(g))
  /\ UNCHANGED <<work, net>>

Next ==
  \/ Other
  \/ \E c \in Contents : Stage(c)
  \/ Delete
  \/ Snapshot
  \/ \E g \in Ids : Travel(g)

Spec == Init /\ [][Next]_vars

-----------------------------------------------------------------------------
(* The commands.                                                           *)

\* prev_snapshot_idx.
PrevSnapshot(g) == Max({0} \cup {s \in 1 .. g - 1 : IsSnapshot(s)})

Snapshots == {g \in 1 .. Tip : IsSnapshot(g)}

\* segment_range of one marker, as the set of its segments.
OwnRange(g) == PrevSnapshot(g) .. g - 1

\* Mutant of Between: the segment the end marker opens is shown too.
BetweenClosed(from, to) == from .. to

\* segment_range of two, Tip + 1 being the open end.
Between(from, to) == from .. to - 1

\* Mutant of LatestRange: the segment right behind the snapshot is left out.
LatestRangePast ==
  IF Snapshots = {} THEN 0 .. Tip
  ELSE LET s == Max(Snapshots)
       IN  IF \E i \in s + 1 .. Tip : i \in Alive /\ i \in work
           THEN s + 1 .. Tip
           ELSE PrevSnapshot(s) .. s - 1

\* latest_range, as the set of its segments.
LatestRange ==
  IF Snapshots = {} THEN 0 .. Tip
  ELSE LET s == Max(Snapshots)
       IN  IF \E i \in s .. Tip : i \in Alive /\ i \in work
           THEN s .. Tip
           ELSE PrevSnapshot(s) .. s - 1

\* The range a command line names: none, one id, or two with Tip + 1 for the
\* open end ("all" is 0 .. Tip + 1); out of bounds is an error.
Latest     == [kind |-> "none"]
One(g)     == [kind |-> "one", id |-> g]
Two(a, b)  == [kind |-> "two", from |-> a, to |-> b]
ParseRange(spec) ==
  CASE spec.kind = "none" -> LatestRange
    [] spec.kind = "one"  -> OwnRange(spec.id)
    [] spec.kind = "two"  -> Between(spec.from, spec.to)

Specs == {Latest} \cup {One(g) : g \in Ids}
           \cup {Two(r[1], r[2]) : r \in {q \in Ids \X (0 .. Tip + 1) : q[1] <= q[2]}}

\* What review shows of it.
Shown(spec) == ParseRange(spec) \cap Alive

\* What nets out to nothing is not listed (classify).
Nothing == [old |-> Absent, new |-> Absent]

\* What live segments make of the file together: the first old side against the
\* last new one.
Fold(live) ==
  LET touched == live \cap DOMAIN net
  IN  IF touched = {} THEN Nothing
      ELSE [old |-> net[Min(touched)].old, new |-> net[Max(touched)].new]

\* What a review of a range says of the file (Changeset::collect).
Change(range) == Fold(range \cap Alive)

\* The stanzas of `review --each` that name the file, each folded on its own.
Stanzas(range) == {i \in range \cap Alive : Fold({i}) # Nothing}

\* The review after a command: what the snapshot made for it sealed, or (0)
\* the tail when none was made (run_after_exec).
AfterExec(g) == (IF g > 0 THEN OwnRange(g) ELSE Max({0} \cup Snapshots) .. Tip) \cap Alive

\* Mutant of Reachable: a marker goes with the segment it opens.
ReachableOpens(g) == g \in Alive

\* How audit and timeline draw marker g: with the segment it ends.
Reachable(g) == g = 0 \/ g - 1 \in Alive

-----------------------------------------------------------------------------
\* `yolo review <id>` shows what that snapshot sealed and nothing else, however
\* many travels lie between it and the snapshot before ("the single segment
\* that snapshot sealed", docs/staging.md), and nothing of a dead snapshot.
OwnChange ==
  \A g \in Snapshots : Shown(One(g)) = IF g - 1 \in Alive THEN {g - 1} ELSE {}

\* Neither the default review nor the one after a command that made no snapshot
\* hides live work done after the last snapshot.
LatestCoversTail ==
  \A i \in Alive \cap work :
    (\A s \in Snapshots : s <= i) => i \in Shown(Latest) \cap AfterExec(0)

\* timeline and audit dim a snapshot exactly when it is not on the way to the
\* present: when something it kept has been travelled away from.
DimmedIsAbandoned ==
  \A g \in Snapshots : Reachable(g) <=> AliveAt(g) \subseteq Alive

\* "a..b -> state(a) -> state(b)" (review.rs:252): between two snapshots that are
\* not dimmed, and from one to the tip, a review shows what the later state has
\* and the earlier has not.
RangeIsDifference ==
  \A a \in {0} \cup Snapshots, b \in Snapshots \cup {Tip + 1} :
    a <= b /\ Reachable(a) /\ (b <= Tip => Reachable(b)) =>
      Shown(Two(a, b)) = (IF b > Tip THEN Alive ELSE AliveAt(b)) \ AliveAt(a)

\* Every stanza starts from what the one before it ended with, the first from the
\* old side of the whole, and the last ends on its new side.
Chains(range) ==
  LET shown == Stanzas(range)
      whole == Change(range)
  IN  /\ \A i, j \in shown :
           i < j /\ (\A k \in shown : k <= i \/ k >= j) => Fold({j}).old = Fold({i}).new
      /\ whole = IF shown = {} THEN Nothing
                 ELSE [old |-> Fold({Min(shown)}).old, new |-> Fold({Max(shown)}).new]

\* `--each` and the review of a whole range tell one story, although each folds
\* and drops what nets out on its own: the stanzas laid end to end make the change
\* the review lists, so that a file made in one and deleted in a later one is in
\* two stanzas and in no review.  And between two snapshots that are not dimmed
\* that change is from what the file was at the one to what it was at the other,
\* whatever branches were left in between: the pre-images the kernel recorded are
\* the states the reader folds.
EachAddsUp ==
  /\ \A range \in {ParseRange(spec) : spec \in Specs} : Chains(range)
  /\ \A a \in {0} \cup Snapshots, b \in Snapshots \cup {Tip + 1} :
       a <= b /\ Reachable(a) /\ (b <= Tip => Reachable(b)) =>
         LET from  == Lies(AliveAt(a))
             to    == Lies(IF b > Tip THEN Alive ELSE AliveAt(b))
             shown == Between(a, b) \cap Alive
         IN  IF shown \cap DOMAIN net = {} THEN from = to
             ELSE Fold(shown) = [old |-> from, new |-> to]

\* The same difference for every id the commands take: "Ids ... only address live snapshots
\* and travels, not the unreachable ones a travel leaves behind" (docs/cli.md:102).
RangeIsDifferenceAny ==
  \A a, b \in Ids :
    a <= b => Shown(Two(a, b)) \cap work = (AliveAt(b) \ AliveAt(a)) \cap work

\* "the most recent batch of changes" (core.rs latest_range): the default review
\* shows something whenever something is staged.
LatestShowsWork == Alive \cap work # {} => Shown(Latest) \cap work # {}

-----------------------------------------------------------------------------
(* The markers, the records and the scan implement a store that saves the  *)
(* file with every marker and can go back to each saved state.             *)
Saved == [n \in 1 .. Tip + 1 |-> [file |-> Lies(AliveAt(n - 1))]]

Store == INSTANCE SnapshotStore WITH
  cur <- [file |-> now], saved <- Saved,
  Names <- {"file"}, Values <- Contents, Orig <- [file |-> Base]

StoreSpec == Store!Spec
=============================================================================
