SPECIFICATION FairSpec
CONSTANTS
    w1 = w1
    w2 = w2
    o1 = o1
    Reclaimer = Reclaimer
    Free = Free
    Workers = {w1}
    ReadCount = 2
    ReclaimCount = 2
    After = 1
    Count = 1
    MaxFaults = 1
    Orders = {o1}
    hashtext <- OneLock
    TicksPerMicro = 1
    Scripts <- MixedScripts
INVARIANTS
    ChangesCountedOnce
    RecoveredExceedsByFaults
PROPERTIES
    ImplementsDelivery
    LifecycleCompletes
