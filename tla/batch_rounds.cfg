SPECIFICATION Spec
CONSTANTS
    s1 = s1
    s2 = s2
    s3 = s3
    Sources <- MCSources
    Priorities <- MCPriorities
    MaxSame = 2
    Sizes = {0, 1, 2, 3}
    MaxWaiting = 2
INVARIANTS
    TypeOK
    Exhaustive
    EveryoneInTurn
    UrgentFirst
