SPECIFICATION Spec
CONSTANTS
    t1 = t1
    t2 = t2
    k1 = k1
    k2 = k2
    k3 = k3
    None = None
    Threads = {t1, t2}
    Keys = {k1, k2, k3}
    Values = {1, 2}
    Hash <- HashOf
    MaxEntries = 4
    MaxRecords = 3
    Configs <- AnyClients
INVARIANT RetiredOffList
CHECK_DEADLOCK FALSE
