SPECIFICATION FairSpec
CONSTANTS
  Orders = {o1, o2}
  Requests = {r1, r2, r3}
  Methods = {card, sbp, unknown}
  UnknownMethod = unknown
  None = None
  Serialized = TRUE
  Faults = {"db", "payment", "kafka", "crash"}
CHECK_DEADLOCK FALSE
INVARIANTS EventMatchesRow ChargedOnce
PROPERTIES RefinesLifecycle PaidIsAnnounced
