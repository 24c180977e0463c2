SPECIFICATION Spec
CONSTANTS
  Ids = {1, 2, 3}
  SegmentMax = 4
  DiskMax = 4
  WriteFaults = {}
  MaxFaults = 0
  Spill = TRUE
  MemSlots = 1
  DiskSlots = 3
  BigIds = {}
  MaxAttempts = 1
  NackKinds = {"failed"}
  BatchSize = 1
  CrashFaults = {"torn"}
  MaxCrashes = 2
CHECK_DEADLOCK FALSE
INVARIANTS
  UnackedRedelivered
