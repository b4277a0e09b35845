SPECIFICATION Spec
CONSTANTS
    Recorders = {w1, w2}
    Readers = {s1}
    MaxReplay = 1
    MaxCalls = 3
INVARIANTS
    TypeOK
    PartsAccountForProcessed
    NoAdditionLost
