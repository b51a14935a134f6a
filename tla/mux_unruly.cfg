SPECIFICATION Spec
CONSTANTS
    Pads = {p1, p2}
    Word = 8
    Adaptive = FALSE
    BatchSize = 2
    MaxSame = 2
    MaxEntries = 5
    MaxStops = 0
    Env = {"late-request", "release-early", "reopen-early", "flush-eos", "empty-stream"}
SYMMETRY PadSymmetry
CHECK_DEADLOCK FALSE
INVARIANTS
    BuffersInOrder
    BufferCountExact
