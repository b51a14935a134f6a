SPECIFICATION Spec
CONSTANTS
    Streams = {1, 2, 3, 4}
    Configs <- AllConfigs
    MaxErrors = 1
    NoItem = NoItem
CHECK_DEADLOCK FALSE
INVARIANTS
    EventsAfterBatches
