CONSTANTS
    Capacity = 4
    Width = 8
    e1 = e1
    e2 = e2
    Entries = {e1, e2}
    None = None
SPECIFICATION Spec
INVARIANTS
    CacheNeverOverstates
PROPERTIES
    ImplementsLog
