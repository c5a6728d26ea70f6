\* Every environment behaviour at once, access mode 3 and the wrap excepted.
SPECIFICATION Spec
CONSTANTS
  Files = {f1}
  BaseFiles = {f1}
  BaseInode <- OwnInode
  Procs = {p1, p2}
  Dentries = {d1, d2}
  Data = {x}
  Empty = Empty
  Nil = Nil
  Ctl = Ctl
  MaxIno = 2
  MaxGen = 1
  Env = {"nsrace", "ctlrace", "handles", "mmap", "travelwrite", "journal", "badinject", "nomem"}
SYMMETRY Symmetry
INVARIANT FdCountExact
PROPERTY NoGenChangeUnderWriters
