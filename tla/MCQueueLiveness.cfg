SPECIFICATION FairSpec
CONSTANTS
  Ids = {1, 2, 3}
  SegmentMax = 2
  DiskMax = 3
  WriteFaults = {}
  MaxFaults = 0
  Spill = TRUE
  MemSlots = 1
  DiskSlots = 1
  BigIds = {2, 3}
  MaxAttempts = 1
  NackKinds = {"uncharged"}
  BatchSize = 1
  CrashFaults = {}
  MaxCrashes = 0
CHECK_DEADLOCK FALSE
PROPERTIES
  EventuallySettled
