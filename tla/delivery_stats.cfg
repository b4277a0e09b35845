SPECIFICATION StatsSpec
CONSTANTS
    w1 = w1
    w2 = w2
    Reclaimer = Reclaimer
    Workers = {w1, w2}
    Messages <- MixedMessages
    ReadCount = 2
    ReclaimCount = 2
    After = 1
    Count = 1
    MaxLen = 2
    MaxFaults = 1
    MaxErrors = 1
SYMMETRY Symmetry
INVARIANTS
    StatsTypeOK
    DrainedMeansDone
    BacklogWithinStream
    NothingLost
PROPERTIES
    BatchFinished
