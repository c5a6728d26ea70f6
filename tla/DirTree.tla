------------------------------ MODULE DirTree ------------------------------
(***************************************************************************)
(* What the CLI makes of the S, D and R records of the journal, as pure    *)
(* operators: the parser of a line, the fold of records into a directory   *)
(* tree that carries both ends of a review, the view a restore rebuilds    *)
(* from the tree, the changes a review lists, and the plan of a commit.    *)
(* Source: user/journal/types.rs, parse.rs, tree.rs, plan.rs and           *)
(* user/changeset.rs.                                                      *)
(*                                                                         *)
(* A path is a sequence of names.  A tree is a function from the paths of  *)
(* its nodes to their two sides; dropping a node's children is removing    *)
(* the paths below it.  A disk is a function from paths to entries.        *)
(***************************************************************************)
EXTENDS Naturals, SequencesExt

CONSTANTS
  Names,   \* the names, in byte order
  Depth,   \* bound on the length of a path
  Nil      \* a side that is not recorded

\* (".yolofs" is where a commit keeps its scratch files.)
ASSUME DirTreeAssumption ==
  /\ Names \in Seq(STRING \ {".yolofs"}) /\ Depth \in Nat
  /\ \A i, j \in DOMAIN Names : Names[i] = Names[j] => i = j
  /\ Nil \notin [kind : {"base", "staged", "none"}, path : Seq(STRING), ino : Nat]

Paths == UNION {[1 .. n -> Range(Names)] : n \in 1 .. Depth}

\* All paths in the order a BTreeMap is walked: by name, parents first.
DfsPaths ==
  LET below[d \in 0 .. Depth] ==
        IF d = 0 THEN << >>
        ELSE FlattenSeq([i \in DOMAIN Names |->
               << <<Names[i]>> >> \o [k \in DOMAIN below[d - 1] |->
                                        <<Names[i]>> \o below[d - 1][k]]])
  IN  below[Depth]

\* The members of a sequence that are in T.
Chosen(s, T) == FlattenSeq([i \in DOMAIN s |-> IF s[i] \in T THEN << s[i] >> ELSE << >>])

\* f with e at x, and f before g (:> and @@ are unknown to the provers).
Put(f, x, e) == [y \in DOMAIN f \cup {x} |-> IF y = x THEN e ELSE f[y]]
Over(f, g)   == [y \in DOMAIN f \cup DOMAIN g |-> IF y \in DOMAIN f THEN f[y] ELSE g[y]]

\* The proper ancestors of p, the root left out.
Ancestors(p) == {SubSeq(p, 1, n) : n \in 1 .. Len(p) - 1}

\* The paths of a tree, a view or a disk strictly below p.
BelowIn(f, p) == {q \in DOMAIN f : IsStrictPrefix(p, q)}

\* q, which is p or below it, with p replaced by r.
Rebase(q, p, r) == r \o SubSeq(q, Len(p) + 1, Len(q))

\* What is below src, as it is below dst after a move.
Carried(f, src, dst) ==
  [q \in {Rebase(r, src, dst) : r \in BelowIn(f, src)} |-> f[Rebase(q, dst, src)]]

\* A function without p and everything below it.
Without(f, p) == Restrict(f, {q \in DOMAIN f : ~IsPrefix(p, q)})

-----------------------------------------------------------------------------
(* Backings and the lines of the journal.                                  *)

Base(p)   == [kind |-> "base", path |-> p, ino |-> 0]
Staged(i) == [kind |-> "staged", path |-> << >>, ino |-> i]
Gone      == [kind |-> "none", path |-> << >>, ino |-> 0]

\* A line is a sequence of fields; a field is known by what it parses as.
Field(type, value) == [type |-> type, value |-> value]
Line(tag, fields)  == << Field("tag", tag) >> \o fields

StageLine(p, i, pre)  == Line("S", << Field("text", p), Field("ino", i), Field("pre", pre) >>)
DeleteLine(p, pre)    == Line("D", << Field("text", p), Field("pre", pre) >>)
RenameLine(dst, src, srcPre, dstPre) ==
  Line("R", << Field("text", dst), Field("text", src),
               Field("pre", srcPre), Field("pre", dstPre) >>)

\* The fields each tag needs.  Any bytes are a path or a name.
Schema == [S |-> << "text", "ino", "pre" >>, D |-> << "text", "pre" >>,
           R |-> << "text", "text", "pre", "pre" >>,
           P |-> << "text" >>, T |-> << "number" >>,
           G |-> << "text", "op", "result" >>, C |-> << "text", "policy" >>]

\* parse: a line with too few fields, or with one that does not parse, is
\* skipped; G and C lines must have no field more.
WellFormed(line) ==
  /\ line # << >> /\ line[1].type = "tag" /\ line[1].value \in DOMAIN Schema
  /\ LET need == Schema[line[1].value]
     IN  /\ Len(line) > Len(need)
         /\ line[1].value \in {"G", "C"} => Len(line) = Len(need) + 1
         /\ \A i \in DOMAIN need : line[i + 1].type = need[i]

\* A path that is no file's: a torn path runs into the tag of the next line.
NoPath == << "?" >>

\* A record appended behind a torn one: its tag is glued to the last field.
Glued(f) == CASE f.type = "text" -> Field("text", NoPath)
              [] f.type = "pre" /\ f.value.kind = "base" -> Field("pre", Base(NoPath))
              [] OTHER -> Field("junk", Nil)
Glue(torn, line) == IF torn = << >> THEN line
                    ELSE Front(torn) \o << Glued(Last(torn)) >> \o Tail(line)

-----------------------------------------------------------------------------
(* The fold (DirTree::build).                                              *)

Node(old, new) == [old |-> old, new |-> new]
Scaffold       == Node(Nil, Nil)

\* A missing node has no side.
At(t, p) == IF p \in DOMAIN t THEN t[p] ELSE Scaffold

\* walk_or_create_parent.
WithAncestors(t, p) == Over(t, [q \in Ancestors(p) |-> Scaffold])

FirstOf(a, b) == IF a # Nil THEN a ELSE b

\* Mutant of Touch: a later touch resets the old side.
TouchLast(t, p, pre, new) == Put(WithAncestors(t, p), p, Node(pre, new))

\* touch: the first touch fixes the old side; the children stay.
Touch(t, p, pre, new) ==
  Put(WithAncestors(t, p), p, Node(FirstOf(At(t, p).old, pre), new))

IsSelfRedirect(srcPre, dst) == srcPre = Base(dst)

\* Mutant of ApplyRename: no tombstone where the source was.
ApplyRenameBare(t, dst, src, srcPre, dstPre) ==
  LET vacated == Without(t, src)
      dstOld  == FirstOf(FirstOf(At(t, src).old, At(vacated, dst).old), dstPre)
  IN  Over(Carried(t, src, dst),
           Put(WithAncestors(Without(vacated, dst), dst), dst, Node(dstOld, srcPre)))

\* apply_rename: the source's children and old side ride to dst, a tombstone
\* stays behind, and a node come back to its own base path is dropped.
ApplyRename(t, dst, src, srcPre, dstPre) ==
  LET movedOld == At(t, src).old
      moved    == Carried(t, src, dst)
      vacated  == Put(WithAncestors(Without(t, src), src), src,
                      Node(FirstOf(movedOld, srcPre), Gone))
      rest     == WithAncestors(Without(vacated, dst), dst)
      dstOld   == FirstOf(FirstOf(movedOld, At(vacated, dst).old), dstPre)
  IN  IF ~IsSelfRedirect(srcPre, dst) THEN Over(moved, Put(rest, dst, Node(dstOld, srcPre)))
      ELSE IF DOMAIN moved = {} THEN rest ELSE Over(moved, Put(rest, dst, Scaffold))

\* apply, for one line of the journal.  A rename onto itself does nothing.
Apply(t, line) ==
  IF ~WellFormed(line) THEN t
  ELSE LET v(i) == line[i + 1].value
       IN  CASE line[1].value = "S" -> Touch(t, v(1), v(3), Staged(v(2)))
             [] line[1].value = "D" -> Touch(t, v(1), v(2), Gone)
             [] line[1].value = "R" /\ v(1) # v(2) -> ApplyRename(t, v(1), v(2), v(3), v(4))
             [] OTHER -> t

-----------------------------------------------------------------------------
(* The live view a restore or a travel rebuilds: a node's backing decides; *)
(* a scaffold, and a name the tree does not know, resolve through the      *)
(* backing of the parent.  A store directory is empty.                     *)

\* p below a parent that resolves to up.
Resolve(t, disk, p, up) ==
  LET own   == At(t, p).new
      lower == Append(up.path, Last(p))
  IN  CASE up # Gone /\ own # Nil                                   -> own
        [] up.kind = "base" /\ own = Nil /\ lower \in DOMAIN disk -> Base(lower)
        [] OTHER                                                    -> Gone

Restored(t, disk) ==
  LET loc[p \in Paths \cup {<< >>}] ==
        IF p = << >> THEN Base(p) ELSE Resolve(t, disk, p, loc[Front(p)])
  IN  [p \in {q \in Paths : loc[q] # Gone} |-> loc[p]]

-----------------------------------------------------------------------------
(* The changes of a review (Changeset::collect, classify).                 *)

Present(b) == b # Nil /\ b # Gone

Kind(n) == CASE ~Present(n.new) -> IF n.new = Gone /\ Present(n.old) THEN "deleted" ELSE "none"
             [] Present(n.new) /\ n.new.kind = "base" -> "renamed"
             [] OTHER -> IF Present(n.old) THEN "modified" ELSE "added"

\* The nodes with a net state; the others only lead to deeper ones (for_each).
Net(t) == {p \in DOMAIN t : t[p].new # Nil}

Redirects(t) == {t[p].new.path : p \in {q \in Net(t) : t[q].new.kind = "base"}}

\* A source whose content a surviving redirect shows elsewhere.
Vacated(t, p) == /\ t[p].new = Gone /\ Present(t[p].old)
                 /\ t[p].old.kind = "base" /\ t[p].old.path \in Redirects(t)

\* The paths a review shows.
Changes(t) == {p \in DOMAIN t : Kind(t[p]) # "none" /\ ~Vacated(t, p)}

-----------------------------------------------------------------------------
(* The plan of a commit (into_plan).                                       *)

Move(dst, src) == [op |-> "move", dst |-> dst, src |-> src, ino |-> 0]
Stage(p, i)    == [op |-> "stage", dst |-> p, src |-> << >>, ino |-> i]
Delete(p)      == [op |-> "delete", dst |-> p, src |-> << >>, ino |-> 0]
Temp(n)        == << ".yolofs", n >>

\* collect: the nodes with a net state, nothing below a tombstone.
InPlan(t)    == {p \in Net(t) : \A q \in Ancestors(p) : At(t, q).new # Gone}
Collected(t) == Chosen(DfsPaths, InPlan(t))

\* Mutant of SavesFirst: sources are saved parents first.
SavesFirstShallow(t, renames) ==
  FlattenSeq([n \in 1 .. Depth |->
                Chosen(renames, {p \in Range(renames) : Len(t[p].new.path) = n})])

\* process_renames: the sources are saved deepest first.
SavesFirst(t, renames) ==
  FlattenSeq([n \in 1 .. Depth |->
                Chosen(renames, {p \in Range(renames) : Len(t[p].new.path) = Depth + 1 - n})])

\* Mutant of IntoPlan: the deletes and stages first.
IntoPlanWritesFirst(t) ==
  LET renames == Chosen(Collected(t), {p \in Net(t) : t[p].new.kind = "base"})
      writes  == Chosen(Collected(t), {p \in Net(t) : t[p].new.kind # "base"})
      saves   == SavesFirst(t, renames)
      temp(p) == Temp(CHOOSE n \in DOMAIN saves : saves[n] = p)
  IN  [n \in DOMAIN writes |-> IF t[writes[n]].new = Gone THEN Delete(writes[n])
                               ELSE Stage(writes[n], t[writes[n]].new.ino)]
        \o [n \in DOMAIN saves |-> Move(Temp(n), t[saves[n]].new.path)]
        \o [n \in DOMAIN renames |-> Move(renames[n], temp(renames[n]))]

\* Mutant of IntoPlan: no saves, every source is moved straight to its place.
IntoPlanDirect(t) ==
  LET renames == Chosen(Collected(t), {p \in Net(t) : t[p].new.kind = "base"})
      writes  == Chosen(Collected(t), {p \in Net(t) : t[p].new.kind # "base"})
  IN  [n \in DOMAIN renames |-> Move(renames[n], t[renames[n]].new.path)]
        \o [n \in DOMAIN writes |-> IF t[writes[n]].new = Gone THEN Delete(writes[n])
                                    ELSE Stage(writes[n], t[writes[n]].new.ino)]

\* Saves, then places, then deletes and stages.
IntoPlan(t) ==
  LET renames == Chosen(Collected(t), {p \in Net(t) : t[p].new.kind = "base"})
      writes  == Chosen(Collected(t), {p \in Net(t) : t[p].new.kind # "base"})
      saves   == SavesFirst(t, renames)
      temp(p) == Temp(CHOOSE n \in DOMAIN saves : saves[n] = p)
  IN  [n \in DOMAIN saves |-> Move(Temp(n), t[saves[n]].new.path)]
        \o [n \in DOMAIN renames |-> Move(renames[n], temp(renames[n]))]
        \o [n \in DOMAIN writes |-> IF t[writes[n]].new = Gone THEN Delete(writes[n])
                                    ELSE Stage(writes[n], t[writes[n]].new.ino)]
=============================================================================
