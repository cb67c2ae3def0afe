CONSTANTS
    t1 = t1
    t2 = t2
    b1 = b1
    b2 = b2
    b3 = b3
    b4 = b4
    None = None
    Threads = {t1, t2}
    Blocks = {b1, b2, b3, b4}
    PagesOf <- PageCounts
    Sizes = {3, 7}
    PageUnits = 4
    HeaderUnits = 1
    MaxFragPages = 1
    Capacity = 3
    QuarantineSize = 1
    MaxEntryPages = 1
    Counts = {1, 4}
    Intervals <- AnyInterval
    MaxTime = 2
SPECIFICATION Spec
SYMMETRY AnySwaps
INVARIANTS
    OneKeeper
    ReleasedIsZero
    ClientMemoryIntact
    EarlyReturnSkipsFew
    LruSorted
