SPECIFICATION Spec
CONSTANTS
    Pads = {p1, p2}
    Word = 8
    Adaptive = TRUE
    BatchSize = 2
    MaxSame = 1
    MaxEntries = 6
    MaxStops = 0
    Env = {"events", "flush"}
SYMMETRY PadSymmetry
INVARIANTS
    TypeOK
    NothingLost
    EosSentMeansEnded
PROPERTIES
    DeliversInOrder
