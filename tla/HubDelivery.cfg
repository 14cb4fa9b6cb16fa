CONSTANTS
    Clients = {c1, c2}
    Strangers = {}
    Executors = {c1}
    Payloads = {"event", "tool"}
    EventBufferMax = 1
    EventBufferTrim = 1
    MaxEvents = 2
    MaxInits = 1
    MaxSubscribes = 3
    MaxRestarts = 0
    EarlySubscribe = FALSE
    Impatient = FALSE
SPECIFICATION Spec
INVARIANTS
    TypeOK
    NoSilentLoss
    NothingForgotten
PROPERTY ImplementsFeed
CHECK_DEADLOCK FALSE
