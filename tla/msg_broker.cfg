SPECIFICATION FairSpec
CONSTANTS
    NewAPIs <- BothAPIs
    QueueMax = 2
    Payloads <- PayloadCounts
    MaxMessages = 5
    MaxStarts = 2
    Elements = {a, b}
    Handles = {h1, h2}
    Sharing <- Unshared
    MaxConnects = 2
CHECK_DEADLOCK FALSE
INVARIANTS
    PendingExact
    SleepsWithoutWork
    RetiredHandleUnused
    MapServesElements
PROPERTIES
    IsSink
    AcceptedIsReported
    BrokerStopEnds
