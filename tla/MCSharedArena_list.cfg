CONSTANTS
    End = End
    t1 = t1
    t2 = t2
    p1 = p1
    p2 = p2
    PageUnits = 4
    HeaderUnits = 1
    TotalPages = 6
    NumArenas = 1
    Procs = {p1}
    Threads = {t1}
    ProcOf <- OneThread
    RingCapacity = 1
    Requests <- TwoSizes
    NoFreelist = {}
    Mortal = {}
SPECIFICATION Spec
INVARIANTS
    ListIntact
PROPERTIES
    KeepsPromise
