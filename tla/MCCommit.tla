----------------------------- MODULE MCCommit ------------------------------
(* Commit on small base filesystems of two or three names.                 *)
EXTENDS Commit

AB  == << "a", "b" >>
ABC == << "a", "b", "c" >>

\* A directory with a file, next to a file and next to an empty directory.
DirAndFile == (<< "a" >> :> TRUE) @@ (<< "a", "a" >> :> FALSE) @@ (<< "b" >> :> FALSE)
TwoDirs    == (<< "a" >> :> TRUE) @@ (<< "a", "a" >> :> FALSE) @@ (<< "b" >> :> TRUE)

SomeBases == {DirAndFile, TwoDirs}
=============================================================================
