SPECIFICATION Spec
CONSTANTS
  Names = {"n1", "n2"}
  Addresses = {"x", "y"}
  MaxScrapers = 2
  MaxChanges = 2
  MaxFaults = 1
INVARIANT NoStandingOutage
CHECK_DEADLOCK FALSE
