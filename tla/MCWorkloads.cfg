SPECIFICATION FairSpec
PROPERTIES
  EveryJobEnds
  SlotsAndHelpersEnd
  StopEnds
  EveryWriteAnswered
CHECK_DEADLOCK FALSE
