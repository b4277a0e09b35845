SPECIFICATION FairSpec
CONSTANTS
    p1 = p1
    p2 = p2
    p3 = p3
    o1 = o1
    o2 = o2
    Free = Free
    Procs = {p1, p2, p3}
    Orders = {o1, o2}
    EventIDs = {1}
    Events <- CreationEvents
    hashtext <- DistinctHash
    TicksPerMicro = 2
PROPERTIES
    TransactionEnds
