SPECIFICATION Spec
CONSTANTS
  Orders = {o1, o2}
  Requests = {r1, r2, r3}
  Methods = {card, sbp, unknown}
  UnknownMethod = unknown
  None = None
  Serialized = FALSE
  Faults = {"db", "payment", "kafka", "crash"}
CHECK_DEADLOCK FALSE
SYMMETRY RequestSymmetry
INVARIANTS TypeOK IInv PaidIsCharged PublishedIsPersisted
PROPERTIES PaymentDataKept SettledIsRefused
