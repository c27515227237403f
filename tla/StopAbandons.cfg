SPECIFICATION Spec
CONSTANTS
    Holdable = {eth, wifi}
    Nobody = nobody
    MaxQueue = 2
    MaxStarts = 2
    MaxNested = 2
    MaxChunks = 2
INVARIANTS
    NeverAbandoned
CHECK_DEADLOCK FALSE
