\* Journals of up to four markers over a file that is there or not.
SPECIFICATION Spec
CONSTANT MaxMarkers = 4
CONSTANT Contents = {c1}
CONSTANT Absent = Absent
CONSTANT Base = c1
INVARIANT OwnChange
INVARIANT LatestCoversTail
INVARIANT DimmedIsAbandoned
INVARIANT RangeIsDifference
INVARIANT EachAddsUp
PROPERTY StoreSpec
