SPECIFICATION FairSpec
CONSTANTS
    Configs <- SmallConfigs
INVARIANTS
    TypeOK
    SummaryIsTrue
    LabelsAreTrue
    ShortOfDuplicatesOnly
PROPERTIES
    RunEnds
CHECK_DEADLOCK FALSE
