SPECIFICATION Spec
CONSTANTS
    u1 = u1
    u2 = u2
    Uids = {u1, u2}
    Aliases = {a}
    RealIds = {r1, r2}
    ForgedIds = {f1, f2}
    None = None
    Threads = {t1}
    Ops = {"generateKey", "grant", "getKeyEntry"}
    Kinds = {"attested"}
    AccessVectors <- ReadOnly
    ModeSets <- GenerateOwner
    Loaded = {}
    Env = {}
SYMMETRY Symmetry
INVARIANT AutoUnmodified
CHECK_DEADLOCK FALSE
