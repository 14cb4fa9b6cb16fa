CONSTANTS
    Calls = {a, b, c}
    AgentRuns = {a, b}
    Keys = {k, l}
    Operations = {k}
    NoCall = none
    NoKey = nokey
SPECIFICATION FairSpec
INVARIANTS
    OneVerdict
    NoStaleEntry
PROPERTY CallsWithOwnKeyReturn
CHECK_DEADLOCK FALSE
