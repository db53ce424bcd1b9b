SPECIFICATION Spec
CONSTANTS
    k1 = k1  k2 = k2  k3 = k3
    Capacity = 3
    Keys = {k1, k2, k3}
    Hash <- SomeHash
    HasEq = TRUE
    NoKey = NoKey
    NONE = NONE
INVARIANTS TypeOK ListIsOrder SlotsAccounted
PROPERTY IsLru
