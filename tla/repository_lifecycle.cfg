SPECIFICATION Spec
CONSTANTS
    p1 = p1
    p2 = p2
    p3 = p3
    o1 = o1
    o2 = o2
    Free = Free
    Procs = {p1, p2}
    Orders = {o1, o2}
    EventIDs = {1, 2, 3, 4}
    Events <- LifecycleEvents
    hashtext <- DistinctHash
    TicksPerMicro = 2
SYMMETRY Symmetry
INVARIANTS
    TypeOK
    NoStaleWrite
    HistoryIsLifecycle
    EventAccountedOnce
    SuccessIsDurable
    PendingCannotYetBeApplied
PROPERTIES
    CommittedIsFinal
    ImplementsLedger
