SPECIFICATION FairSpec
CONSTANTS
    Holdable = {eth, wifi}
    Nobody = nobody
    MaxQueue = 2
    MaxStarts = 2
    MaxNested = 2
    MaxChunks = 2
INVARIANTS
    TypeOK
    FinishedIsClean
    ClosedMeansStopped
PROPERTIES
    StopReportIsFinal
    StopFinishes
    StopReturns
    ButtonsSettle
CHECK_DEADLOCK FALSE
