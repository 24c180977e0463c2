SPECIFICATION Spec
CONSTANTS
  Ids = {1, 2, 3}
  SegmentMax = 2
  DiskMax = 4
  WriteFaults = {"clean", "torn", "cut", "fsync", "rotate", "header", "unlink", "close"}
  MaxFaults = 1
  Spill = TRUE
  MemSlots = 1
  DiskSlots = 1
  BigIds = {3}
  MaxAttempts = 1
  NackKinds = {"uncharged"}
  BatchSize = 1
  CrashFaults = {"torn", "header"}
  MaxCrashes = 1
CHECK_DEADLOCK FALSE
INVARIANTS
  ClaimsExact
  OnePlace
  RefsBacked
  NoSilentLoss
