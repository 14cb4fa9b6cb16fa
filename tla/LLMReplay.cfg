CONSTANTS
    Calls = {a, b}
    NoCall = none
    Payloads = {a, b, none}
    EventBufferMax = 3
    EventBufferTrim = 2
    MaxEvents = 6
SPECIFICATION Spec
INVARIANTS
    BufferIsSuffix
    GapIsExact
    ReplayIsExact
    RetiredNotReplayed
CHECK_DEADLOCK FALSE
