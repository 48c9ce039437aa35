SPECIFICATION Spec
CONSTANTS
    Uids = {u1, u2}
    Aliases = {a}
    RealIds = {r1, r2}
    ForgedIds = {f1, f2}
    None = None
    Threads = {t1}
    Ops <- EveryOp
    Kinds <- Attested
    AccessVectors <- ReadOnly
    ModeSets <- TargetedOwner
    u1 = u1
    u2 = u2
    Loaded = {u1, u2}
    Env = {"idleReload"}
SYMMETRY Symmetry
INVARIANTS AutoUnmodified CacheCurrent OwnershipConsistent
PROPERTY OwnerIsolation
