SPECIFICATION Spec
CONSTANTS
    t1 = t1  t2 = t2
    WordBits = 4
    SetWords = 2
    HalfBits = 3
    UintMax = 15
    Mix <- MixTable
    HashRange = 16
    DoubleHash1 <- Items
    DoubleHash2 <- Items2
    SlotsPerBlock = 2
    MaxOffset = 1
    Configs <- CqfCounts
    MaxHeld = 5
    CqfBlock = 4
    MaxSlots = 8
INVARIANT NeverForgets
CHECK_DEADLOCK FALSE
