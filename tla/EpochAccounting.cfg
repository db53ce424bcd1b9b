CONSTANTS
    t1 = t1
    t2 = t2
    t3 = t3
    r1 = r1
    r2 = r2
    g1 = g1
    g2 = g2
    Threads = {t1, t2}
    Writers = {t1, t2}
    NumSlots = 1
    Recs = {r1}
    Gens = {g1, g2}
    StoreBuffers = TRUE
    MaxOps = 3
    MaxOom = 1
    None = None
    UINT64_MAX = UINT64_MAX
SYMMETRY SymmetricWriters
SPECIFICATION Spec
INVARIANT RetiredOnce
