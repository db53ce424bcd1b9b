SPECIFICATION Spec
CONSTANTS
    k1 = k1  k2 = k2  k3 = k3  r1 = r1
    Readers = {r1}
    Keys = {k1, k2, k3}
    Configs <- Tables
    Records = {0, 1, 2}
    BlockSize = 3
    StashMax = 1
    FreeInitial = 1
    Saturated = 2
    NoKey = NoKey
VIEW View
INVARIANTS FindAgrees UpdateAgrees QuietAgrees LeftQuiet RecordsAccounted
