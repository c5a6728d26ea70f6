\* One name, two processes opening, deleting and creating it, past the end of the inode space.
SPECIFICATION Spec
CONSTANTS
  Files = {f1}
  BaseFiles = {f1}
  BaseInode <- OwnInode
  Procs = {p1, p2}
  Dentries = {d1, d2, d3}
  Data = {x}
  Empty = Empty
  Nil = Nil
  Ctl = Ctl
  MaxIno = 2
  MaxGen = 3
  Env = {"mode3", "inowrap"}
SYMMETRY Symmetry
PROPERTY OnlyFreshWritten
INVARIANT WritersAgree
