SPECIFICATION FairSpec
CONSTANTS
    w1 = w1
    w2 = w2
    Reclaimer = Reclaimer
    Workers = {w1}
    Messages <- PoisonMessages
    ReadCount = 2
    ReclaimCount = 2
    After = 0
    Count = 0
    MaxLen = 2
    MaxFaults = 0
PROPERTIES
    EventuallyAcknowledged
