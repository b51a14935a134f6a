SPECIFICATION Spec
CONSTANTS
    NewAPIs <- OnlyNewAPI
    QueueMax = 2
    Payloads <- PayloadCounts
    MaxMessages = 4
    MaxStarts = 2
    Elements = {a, b}
    Handles = {h1, h2}
    Sharing <- Shared
    MaxConnects = 2
CHECK_DEADLOCK FALSE
INVARIANTS
    RenderFindsEntry
