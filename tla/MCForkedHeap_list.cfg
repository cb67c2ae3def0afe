CONSTANTS
    p1 = p1
    p2 = p2
    m1 = m1
    Nil = Nil
    Procs <- MCProcs
    NumCores = 2
    Slots = {1}
    Private <- MCPrivate
    MaxObjects = 2
    Attachers <- MCAttachers
    Mortal <- MCMortal
    ForkWhileInUse = TRUE
SPECIFICATION Spec
INVARIANT ChecksPass
CHECK_DEADLOCK FALSE
