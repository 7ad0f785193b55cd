SPECIFICATION Spec
CONSTANTS
    Session = {s1, s2}
    Key = {k1, k2}
    MaxXid = 3
    MaxWrites = 3
    Pages = 2
    Capacity = 2
    Circumstances <- SlotReused
INVARIANT
    IndexFindsRows
CHECK_DEADLOCK FALSE
