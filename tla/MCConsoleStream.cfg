SPECIFICATION FairSpec
CONSTANTS
    Writers = {"stdout"}
    Sizes = {1}
    RingBytes = 2
    OutputQueue = 1
    MaxTraffic = 3
    MaxFaults = 2
    CanRefuse = TRUE
    CanReject = TRUE
INVARIANTS NoOrphanStream ConsoleIntact
PROPERTY EveryConsoleEnds
CHECK_DEADLOCK FALSE
