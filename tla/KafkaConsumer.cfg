SPECIFICATION FairSpec
CONSTANTS
  MaxProduced = 3
  MaxStops = 2
INVARIANTS TypeOK LossIsPanicOrOvertaken
PROPERTIES RefinesGroup EveryMessageIsTried
CHECK_DEADLOCK FALSE
