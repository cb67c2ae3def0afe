CONSTANTS
    End = End
    t1 = t1
    t2 = t2
    p1 = p1
    p2 = p2
    PageUnits = 4
    HeaderUnits = 1
    TotalPages = 2
    NumArenas = 2
    Procs = {p1, p2}
    Threads = {t1, t2}
    ProcOf <- OneThreadEach
    RingCapacity = 1
    Requests <- OneSize
    NoFreelist = {}
    Mortal = {}
SPECIFICATION Spec
SYMMETRY Swap
INVARIANTS
    MutualExclusion
    NoDeadlockedPair
    PagesAccounted
    LogAgrees
