SPECIFICATION FairSpec
CONSTANTS
    Pads = {p1, p2}
    Word = 8
    Adaptive = TRUE
    BatchSize = 2
    MaxSame = 1
    MaxEntries = 6
    MaxStops = 0
    Env = {}
PROPERTIES
    QueuesDrain
    EosForwarded
    ProducersProceed
