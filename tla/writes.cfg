SPECIFICATION Spec
CONSTANTS
    Keys = {k1, k2}
    KeyIds = {n1, n2}
    GrantIds = {g1}
    Threads = {t1, t2}
    None = None
SYMMETRY Symmetry
INVARIANTS TearsStayLocal NumbersKeepTheirKey
