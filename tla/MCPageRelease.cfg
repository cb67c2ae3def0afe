CONSTANTS
    PageSize = 8
    GroupSize = 16
    BlockSizes = {3, 4, 5, 6, 8, 10, 12, 16}
    MaxRegionSize = 48
SPECIFICATION Spec
INVARIANTS
    ReleasesOnlyFree
    ReleasesAllFree
    CountersHold
CHECK_DEADLOCK FALSE
