SPECIFICATION FairSpec
CONSTANTS
    Configs <- OnlyTensorUpdate
    MaxModels = 2
    MaxErrors = 1
    ConvPool = 2
    GrowBy = 1
    NoBatch = NoBatch
CHECK_DEADLOCK FALSE
PROPERTIES
    ReplacementEnds
