SPECIFICATION FairSpec
CONSTANTS
    Streams = {1, 2}
    Configs <- AllConfigs
    MaxPads = 3
    MaxFrames = 3
    MaxBatch = 3
    MaxErrors = 1
CHECK_DEADLOCK FALSE
INVARIANTS
    TablesTrue
    AnnouncedOnce
    NothingForgotten
PROPERTIES
    IsOrderedStage
    StreamGoesOn
