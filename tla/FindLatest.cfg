\* The default review after a travel back.
SPECIFICATION Spec
CONSTANT Contents = {c1, c2}
CONSTANT Absent = Absent
CONSTANT Base = c1
CONSTANT MaxMarkers = 4
INVARIANT LatestShowsWork
