SPECIFICATION Spec
CONSTANTS
    Pads = {p1}
    Word = 8
    Adaptive = TRUE
    BatchSize = 2
    MaxSame = 1
    MaxEntries = 8
    MaxStops = 1
    Env = {"stop", "events", "reopen-drained", "release-drained"}
CHECK_DEADLOCK FALSE
INVARIANTS
    AllPadsEosIsTrue
    EosCountersAgree
    NoBatchLeftOver
    NoEventOvertaken
