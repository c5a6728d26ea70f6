SPECIFICATION Spec
CONSTANTS
  Files = {f1, f2}
  BaseFiles = {f1, f2}
  BaseInode <- LinkedInode
  Procs = {p1}
  Dentries = {d1, d2, d3}
  Data = {x}
  Empty = Empty
  Nil = Nil
  Ctl = Ctl
  MaxIno = 3
  MaxGen = 1
  Env = {}
SYMMETRY Symmetry
INVARIANT SnapshotStable
