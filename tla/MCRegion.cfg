CONSTANTS
    t1 = t1
    t2 = t2
    t3 = t3
    NoThread = NoThread
    Threads = {t1, t2, t3}
    CondVars = {TRUE, FALSE}
    MaxNumCached = 3
    GroupBlocks = 5
    MaxCached = 2
    MaxNumBatches = 2
    BlockSize = 2
    MapSizeIncrement = 15
    RegionOffset = 1
    RegionSize = 16
SPECIFICATION Spec
SYMMETRY Swaps
INVARIANTS
    BlocksAccounted
    GroupsInOrder
    RecordsAccounted
    NoLostWakeup
