CONSTANTS
    Calls = {a, b}
    AgentRuns = {a, b}
    Keys = {k}
    Operations = {k}
    NoCall = none
    NoKey = nokey
SPECIFICATION FairSpec
PROPERTY EveryCallReturns
CHECK_DEADLOCK FALSE
