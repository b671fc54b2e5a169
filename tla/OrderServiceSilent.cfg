SPECIFICATION FairSpec
CONSTANTS
  Orders = {o1}
  Requests = {r1, r2}
  Methods = {card, sbp, unknown}
  UnknownMethod = unknown
  None = None
  Serialized = TRUE
  Faults = {"kafka"}
CHECK_DEADLOCK FALSE
PROPERTY PaidIsAlwaysAnnounced
