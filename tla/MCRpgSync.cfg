SPECIFICATION Spec
CONSTANTS
    f1 = f1
    f2 = f2
    v1 = v1
    v2 = v2
    w1 = w1
    w2 = w2
    c1 = c1
    c2 = c2
    c3 = c3
    s1 = s1
    s2 = s2
    Files = {f1, f2}
    Versions = {v1, v2}
    Syncs = {s1, s2}
    Workers = {w1, w2}
    Limit = 1
    Commits = {c1, c2, c3}
    None = none
    NoGraph = nograph
    MaxExtras = 1
SYMMETRY Symmetric
INVARIANTS TypeOK OverlapOnlyAfterOverrun SyncedUnlessDoubtful
CHECK_DEADLOCK FALSE
