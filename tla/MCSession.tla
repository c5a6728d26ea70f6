----------------------------- MODULE MCSession -----------------------------
(* Session with two processes, a directory and a file in it.               *)
EXTENDS Session, TLC

TwoProcs  == {"cli", "hook"}
Hook      == {"hook"}
TwoSupers == 1 .. 2

\* "." and "./f", and a rule on a path that is not there.
TwoKeys   == << "dir", "file" >>
Aliases   == << "dir", "dir/" >>
Dir       == << "d" >>
File      == << "d", "f" >>
TargetOf  == [dir |-> Dir, file |-> File]
AliasOf   == "dir" :> Dir @@ "dir/" :> Dir
AllPaths  == {Dir, File}

DirRule   == [dir |-> "allow", file |-> "unset"]
AliasRule == "dir" :> "allow" @@ "dir/" :> "unset"
SomePerms == {"deny"}
=============================================================================
