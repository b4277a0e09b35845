SPECIFICATION FairSpec
CONSTANTS
    Configs <- SmallConfigs
    MaxEntry = 4
    MaxFaults = 1
INVARIANTS
    TypeOK
PROPERTIES
    RecoversBelowCapacity
