SPECIFICATION HistorySpec
CONSTANTS
    t1 = t1  t2 = t2  k1 = k1  k2 = k2  k3 = k3  k4 = k4  k5 = k5
    Threads = {t1, t2}
    Keys = {k1, k2}
    Ops = {"insert", "remove"}
    Seeds = {1}
    InitialSeeds = {1}
    Hash1 <- CrowdedHash1
    Hash2 <- CrowdedHash2
    NumShards = 2
    InitialBuckets = 4
    BucketSlots = 1
    StashMax = 1
    MaxPath = 2
    MaxPathShards = 2
    MaxAttempts = 2
    MaxLoad = 1
    SizeWrap = 256
    MaxGens = 2
    MaxOps = 4
    Empty = Empty
    NoKey = NoKey
SYMMETRY TwoThreads
INVARIANT NotFoundIsAbsent
