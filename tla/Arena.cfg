SPECIFICATION LiveSpec
CONSTANTS
    t1 = t1  t2 = t2  a1 = a1  a2 = a2  p1 = p1  p2 = p2
    Threads = {t1, t2}
    Arenas = {a1, a2}
    SlabSizes <- TwoClasses
    MidSize = 6
    Granularity = 2
    SegsPerClass = 1
    SegSlots = 3
    SlabSlots = 2
    MaxSlabs = 1
    TcacheDepth = 1
    DeferredBatch = 2
    CompactTrigger = 50
    SysPages = {p1, p2}
    Configs <- Clients
INVARIANTS TypeOK Exclusive MemoryAccounted CountsAgree
PROPERTY CallsReturn
