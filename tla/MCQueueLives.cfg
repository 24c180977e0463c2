SPECIFICATION Spec
CONSTANTS
  Ids = {1, 2, 3}
  SegmentMax = 2
  DiskMax = 6
  WriteFaults = {}
  MaxFaults = 0
  Spill = TRUE
  MemSlots = 1
  DiskSlots = 1
  BigIds = {}
  MaxAttempts = 1
  NackKinds = {"failed"}
  BatchSize = 2
  CrashFaults = {}
  MaxCrashes = 2
CHECK_DEADLOCK FALSE
INVARIANTS
  QueueSound
  RefsIntact
  SettledStaysSettled
PROPERTIES
  ImplementsCustody
