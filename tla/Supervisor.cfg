CONSTANTS
    Requests = {q, r}
    ToolCalls = {k}
    InputIds = {l}
    Answers = {yes, no}
SPECIFICATION FairSpec
INVARIANTS
    VerdictIsFirstAnswer
    OpenIsAnswerable
    NoStaleEntry
    ExitAnswersEverybody
PROPERTIES
    StopEnds
    EveryRequestReturns
CHECK_DEADLOCK FALSE
