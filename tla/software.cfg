SPECIFICATION Spec
CONSTANTS
    Keys = {k1, k2}
    KeyParams <- SigningKeys
    Handles = {h1, h2}
    MaxGens = 2
    MaxUses = 2
    None = None
SYMMETRY Symmetry
INVARIANTS TypeOK UsageLimit UsageExact
CHECK_DEADLOCK FALSE
