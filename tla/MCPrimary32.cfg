CONSTANTS
    t1 = t1
    t2 = t2
    A = A
    B = B
    BC = BC
    nobody = nobody
    Threads = {t1, t2}
    Classes = {A, B}
    BatchClass = BC
    Nobody = nobody
    SizeOf <- Sizes
    NumRegions = 4
    RegionSize = 12
    PageSize = 4
    GroupBlocks = 4
    MaxNumCached = 2
    MaxCached = 1
    MaxNumBatches = 1
    MaxStashedRegions = 1
    MaxCachedPerBatch = 2
SPECIFICATION Spec
SYMMETRY Swaps
INVARIANTS
    RegionsOwnedOnce
    BlocksAccounted
    RecordsAccounted
    NoUsedPageDropped
