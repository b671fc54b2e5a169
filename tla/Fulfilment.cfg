SPECIFICATION FairSpec
CONSTANTS
  Orders = {o1}
  Requests = {r1, r2}
  Methods = {card}
  UnknownMethod = unknown
  None = None
  Serialized = TRUE
  Faults = {"db", "kafka", "telegram", "crash"}
  Chats = {c1}
  MaxShips = 2
  MaxStops = 1
CHECK_DEADLOCK FALSE
INVARIANTS TypeOK CompletedWasBuilt NoticesAreTrue
PROPERTIES RefinesOrderService AnnouncedIsFulfilled ChatsAreTold
