SPECIFICATION FairSpec
CONSTANTS
  Apps = {"order"}
  MaxCalls = 2
CHECK_DEADLOCK FALSE
PROPERTY SignalStops
