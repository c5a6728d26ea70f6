\* A range with an end on a branch a travel has left.
SPECIFICATION Spec
CONSTANT Contents = {c1, c2}
CONSTANT Absent = Absent
CONSTANT Base = c1
CONSTANT MaxMarkers = 4
INVARIANT RangeIsDifferenceAny
