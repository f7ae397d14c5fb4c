SPECIFICATION Spec
CONSTANTS
    r1 = r1
    r2 = r2
    i1 = i1
    i2 = i2
    i3 = i3
    Ahead = 1
    Retain = 1
    Runs = {r1, r2}
    Ids = {i1, i2, i3}
    LastMonth = 5
SYMMETRY CalendarSymmetry
INVARIANTS
    NothingDroppedEarly
    RetentionApplied
PROPERTIES
    DefaultUntouched
