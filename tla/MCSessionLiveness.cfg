SPECIFICATION FairSpec
CONSTANTS
    i1 = i1
    i2 = i2
    Ids = {i1, i2}
    Expirable = {}
    MaxBatch = 1
    MaxAttempts = 0
    Slots = 1
    AckCap = 1
    AckModes = {TRUE}
    MaxRung = 0
    MaxCuts = 2
    MaxErrors = 0
    CanStop = TRUE
CHECK_DEADLOCK FALSE
PROPERTIES
    SessionEnds
    EventuallySettled
