SPECIFICATION Spec
CONSTANTS
    Keys = {k1, k2}
    Ids = {i1, i2}
    None = None
    Torn = Torn
    MaxPending = 3
    MaxStarts = 3
SYMMETRY Symmetry
INVARIANTS TypeOK DiskAgrees
CHECK_DEADLOCK FALSE
