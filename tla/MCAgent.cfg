SPECIFICATION Spec
INVARIANTS
  ConfigTruthful
  CatalogCurrent
  ProcessTruthful
  UsageWithinListing
  PagesComplete
  WritesAsAsked
  JobNewsArrives
CHECK_DEADLOCK FALSE
