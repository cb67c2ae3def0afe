CONSTANTS
    End = End
    t1 = t1
    t2 = t2
    p1 = p1
    p2 = p2
    PageUnits = 4
    HeaderUnits = 1
    TotalPages = 1
    NumArenas = 2
    Procs = {p1, p2}
    Threads = {t1, t2}
    ProcOf <- OneThreadEach
    RingCapacity = 1
    Requests <- MisfitToo
    NoFreelist = {p2}
    Mortal = {p2}
SPECIFICATION FairSpec
PROPERTIES
    KeepsPromise
    CallsFinish
CHECK_DEADLOCK FALSE
