SPECIFICATION FairSpec
CONSTANTS
    Configs <- AllConfigs
    MaxModels = 2
    MaxErrors = 1
    ConvPool = 2
    GrowBy = 1
    NoBatch = NoBatch
CHECK_DEADLOCK FALSE
INVARIANTS
    BuffersAccounted
    ResultsComeFirst
    OutputsMatch
    ReplacedWhenIdle
PROPERTIES
    IsOrderedStage
    ItemsLeave
    StopEnds
