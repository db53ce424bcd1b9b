CONSTANTS
    k1 = k1
    k2 = k2
    NoKey = NoKey
    Keys = {k1, k2}
    EmptyKeys = {}
    BarePairs <- MCPairs
    InitialCap = 4
    Configs <- MCConfigs
    BShiftCap = 2
    StashCap = 1
    SpillInitial = 1
    SizeWrap = 64
    MaxHeld = 4
    IntMax = 1
    PutVals = {Text}
    Text = Text
    MinLoad = 20
    ShrinkFloor = 4
    ResizeTo = {4, 8}
    MaxEntries = 3
    MatchCap = 2
    Risks = {}
SPECIFICATION Spec
INVARIANTS SelfCheck EntriesOwned IterationAgrees
PROPERTIES FailsForCause IsMultimap
VIEW View
CHECK_DEADLOCK FALSE
