SPECIFICATION Spec
CONSTANTS
  Files = {f1}
  BaseFiles = {f1}
  BaseInode <- OwnInode
  Procs = {p1}
  Dentries = {d1, d2}
  Data = {x}
  Empty = Empty
  Nil = Nil
  Ctl = Ctl
  MaxIno = 1
  MaxGen = 1
  Env = {"ctlrace"}
SYMMETRY Symmetry
INVARIANT SnapshotStable
