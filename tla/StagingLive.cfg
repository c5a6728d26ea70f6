\* Locks are given back.
SPECIFICATION LiveSpec
CONSTANTS
  Files = {f1, f2}
  BaseFiles = {f1}
  BaseInode <- OwnInode
  Procs = {p1, p2}
  Dentries = {d1, d2}
  Data = {x}
  Empty = Empty
  Nil = Nil
  Ctl = Ctl
  MaxIno = 2
  MaxGen = 1
  Env = {}
PROPERTY OpenEnds
