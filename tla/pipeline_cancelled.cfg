SPECIFICATION Spec
CONSTANTS
    w1 = w1
    w2 = w2
    o1 = o1
    Reclaimer = Reclaimer
    Free = Free
    Workers = {w1,w2}
    ReadCount = 1
    ReclaimCount = 2
    After = 0
    Count = 0
    MaxFaults = 1
    Orders = {o1}
    hashtext <- OneLock
    TicksPerMicro = 1
    Scripts <- CancelledInOrder
INVARIANTS
    InOrderNeverDeadLettered
