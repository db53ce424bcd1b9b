SPECIFICATION Spec
CONSTANTS
    t1 = t1  t2 = t2  k1 = k1  k2 = k2  k3 = k3  k4 = k4  k5 = k5
    Threads = {t1}
    Keys = {k1, k2, k3, k4}
    Ops = {"insert", "remove"}
    Seeds = {1, 2}
    InitialSeeds = {1}
    Hash1 <- ReseedHash1
    Hash2 <- ReseedHash2
    NumShards = 2
    InitialBuckets = 4
    BucketSlots = 1
    StashMax = 1
    MaxPath = 2
    MaxPathShards = 2
    MaxAttempts = 2
    MaxLoad = 100
    SizeWrap = 256
    MaxGens = 2
    MaxOps = 5
    Empty = Empty
    NoKey = NoKey
PROPERTY GrowKeepsKeys
