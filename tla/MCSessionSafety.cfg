SPECIFICATION Spec
CONSTANTS
    i1 = i1
    i2 = i2
    i3 = i3
    Ids = {i1, i2, i3}
    Expirable = {i3}
    MaxBatch = 2
    MaxAttempts = 0
    Slots = 2
    AckCap = 1
    AckModes = {TRUE, FALSE}
    MaxRung = 1
    MaxCuts = 1
    MaxErrors = 2
    CanStop = FALSE
SYMMETRY IdSymmetry
CHECK_DEADLOCK FALSE
INVARIANTS
    NothingStranded
    WindowBounded
    AtLeastOnce
    LadderClimbs
