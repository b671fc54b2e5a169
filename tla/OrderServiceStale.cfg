SPECIFICATION Spec
CONSTANTS
  Orders = {o1}
  Requests = {r1, r2}
  Methods = {card, sbp, unknown}
  UnknownMethod = unknown
  None = None
  Serialized = FALSE
  Faults = {}
CHECK_DEADLOCK FALSE
PROPERTY ActsOnPendingOnly
