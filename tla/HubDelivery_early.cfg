CONSTANTS
    Clients = {c1, s1}
    Strangers = {s1}
    Executors = {}
    Payloads = {"event"}
    EventBufferMax = 1
    EventBufferTrim = 1
    MaxEvents = 2
    MaxInits = 1
    MaxSubscribes = 2
    MaxRestarts = 1
    EarlySubscribe = TRUE
    Impatient = TRUE
SPECIFICATION FairSpec
INVARIANTS
    StrangersSeeNothing
    DeliveredInOrder
PROPERTIES
    PendingIsCompleted
    LiveCatchesUp
CHECK_DEADLOCK FALSE
