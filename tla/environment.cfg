SPECIFICATION Spec
CONSTANTS
    u1 = u1
    u2 = u2
    Uids = {u1}
    Aliases = {a}
    RealIds = {r1, r2}
    ForgedIds = {f1, f2}
    None = None
    Threads = {t1}
    Ops <- EveryOp
    Kinds <- AttestedOrSymmetric
    AccessVectors <- ReadOrUpdate
    ModeSets <- SharedAlone
    Loaded = {}
    Env <- EveryEnv
SYMMETRY Symmetry
INVARIANTS TypeOK OwnershipConsistent
