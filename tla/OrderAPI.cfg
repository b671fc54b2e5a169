SPECIFICATION Spec
CONSTANTS
    None = None
    Fail = Fail
    NilUUID = "nil"
    UUIDs <- MCUUIDs
    Texts = {"", "message"}
    Cents = {0, 5, 1234}
    Orders <- MCOrders
    CreateBodies <- MCCreateBodies
    PayBodies <- MCPayBodies
    RawRequests <- MCRawRequests
    Faults = {"unreachable", "hangup", "panic", "write", "cut", "resend"}
    MaxResends = 1
INVARIANTS TypeOK AnswersAreUnderstood ServedAsDeclared CountedAsSent
PROPERTY RefinesRemoteCall
