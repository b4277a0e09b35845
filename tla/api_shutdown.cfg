SPECIFICATION FairSpec
CONSTANTS
    Clients = {c1, c2}
INVARIANTS
    TypeOK
    ResourcesOutliveBackground
    NothingLeftOpen
    CutOnlyWhileDraining
PROPERTIES
    StopsWhenTold
CHECK_DEADLOCK FALSE
