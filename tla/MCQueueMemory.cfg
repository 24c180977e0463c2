SPECIFICATION Spec
CONSTANTS
  Ids = {1, 2, 3}
  SegmentMax = 2
  DiskMax = 4
  WriteFaults = {}
  MaxFaults = 0
  Spill = FALSE
  MemSlots = 2
  DiskSlots = 2
  BigIds = {3}
  MaxAttempts = 1
  NackKinds = {"failed", "delivered", "uncharged"}
  BatchSize = 2
  CrashFaults = {}
  MaxCrashes = 1
CHECK_DEADLOCK FALSE
INVARIANTS
  MemoryOnlySound
PROPERTIES
  UnchargedNackRetiresNothing
