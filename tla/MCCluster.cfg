SPECIFICATION Spec
INVARIANTS
  JobsHonest
  ConsolesAccounted
  EntriesServed
  NoLineSkipped
  RateKept
  WatchesConverge
  NewestReported
  ScrapingTruthful
PROPERTY ImplementsLifecycle
CHECK_DEADLOCK FALSE
