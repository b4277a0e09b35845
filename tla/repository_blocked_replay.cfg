SPECIFICATION Spec
CONSTANTS
    p1 = p1
    p2 = p2
    p3 = p3
    o1 = o1
    o2 = o2
    Free = Free
    Procs = {p1, p2}
    Orders = {o1}
    EventIDs = {1, 2, 3}
    Events <- SameMicrosecondEvents
    hashtext <- DistinctHash
    TicksPerMicro = 2
INVARIANTS
    PendingCannotYetBeApplied
