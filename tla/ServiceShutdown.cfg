SPECIFICATION FairSpec
CONSTANTS
  Apps = {"order", "notification", "assembly", "payment", "inventory"}
  MaxCalls = 2
CHECK_DEADLOCK FALSE
INVARIANTS TypeOK MadeOnce ClosedAfterUse
PROPERTY OthersStop
