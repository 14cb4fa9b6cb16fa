CONSTANTS
    Clients = {c1}
    Strangers = {}
    Executors = {}
    Payloads = {"event"}
    EventBufferMax = 2
    EventBufferTrim = 1
    MaxEvents = 2
    MaxInits = 1
    MaxSubscribes = 2
    MaxRestarts = 1
    EarlySubscribe = FALSE
    Impatient = FALSE
SPECIFICATION Spec
INVARIANT ResumeLosesNothing
CHECK_DEADLOCK FALSE
