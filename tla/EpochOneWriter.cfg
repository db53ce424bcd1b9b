CONSTANTS
    t1 = t1
    t2 = t2
    t3 = t3
    r1 = r1
    r2 = r2
    g1 = g1
    g2 = g2
    Threads = {t1, t2}
    Writers = {t1}
    NumSlots = 2
    Recs = {r1, r2}
    Gens = {g1, g2}
    StoreBuffers = FALSE
    MaxOps = 5
    MaxOom = 0
    None = None
    UINT64_MAX = UINT64_MAX
SYMMETRY Symmetric
SPECIFICATION SpecRegistered
INVARIANT TypeOK
INVARIANT NoUseAfterFree
