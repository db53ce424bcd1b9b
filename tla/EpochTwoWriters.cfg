CONSTANTS
    t1 = t1
    t2 = t2
    t3 = t3
    r1 = r1
    r2 = r2
    g1 = g1
    g2 = g2
    Threads = {t1, t2, t3}
    Writers = {t1, t2}
    NumSlots = 3
    Recs = {r1}
    Gens = {g1}
    StoreBuffers = FALSE
    MaxOps = 3
    MaxOom = 0
    None = None
    UINT64_MAX = UINT64_MAX
SYMMETRY Symmetric
SPECIFICATION SpecRegistered
INVARIANT PinnedReaderSafe
