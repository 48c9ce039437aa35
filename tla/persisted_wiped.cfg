SPECIFICATION Spec
CONSTANTS
    Keys = {k1}
    Ids = {i1}
    None = None
    Torn = Torn
    MaxPending = 3
    MaxStarts = 2
SYMMETRY Symmetry
INVARIANT KeptAvailable
CHECK_DEADLOCK FALSE
