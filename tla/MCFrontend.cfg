CONSTANTS
    t1 = t1
    t2 = t2
    s1 = s1
    s2 = s2
    NoThread = NoThread
    FallbackTSD = FallbackTSD
    Threads = {t1, t2}
    SharedTSDs = {s1, s2}
    Programs <- SomePrograms
    Iterations = 2
    LateInit = FALSE
    NumBits = 1
    MinSizeLog = 1
    MidSizeLog = 1
    MaxSizeLog = 3
    SizeDelta = 0
    MaxNumCachedHint = 1
    MaxBytesCached = 8
    NumBlocks <- FewBlocks
    SecondaryBlocks <- SecondaryAt
    SecondaryBytes = 12
    Alignments = {1, 2}
    PageSize = 2
    BatchBytes = 5
    BatchCount = 3
    QuarantineMaxChunkSize = 1
SPECIFICATION Spec
SYMMETRY Swaps
INVARIANTS
    BlocksAccounted
    QuarantineConsistent
    ChunksFit
    OneThreadInTSD
    NothingStranded
    IterationSeesLive
    NoCrossedLocks
PROPERTIES
    StillWhileDisabled
