\* The documented discipline: every snapshot is kept, the view is the replay.
SPECIFICATION Spec
CONSTANTS
  Files = {f1, f2}
  BaseFiles = {f1}
  BaseInode <- OwnInode
  Procs = {p1}
  Dentries = {d1, d2, d3}
  Data = {x}
  Empty = Empty
  Nil = Nil
  Ctl = Ctl
  MaxIno = 2
  MaxGen = 2
  Env = {}
SYMMETRY Symmetry
INVARIANT TypeOK
INVARIANT SnapshotStable
INVARIANT ViewIsReplay
INVARIANT DirtyCoversRecords
INVARIANT GenIsPosition
PROPERTY RemountInvisible
PROPERTY StoreSpec
