CONSTANTS
    Conns = {a, b}
    Ids = {i, j}
SPECIFICATION HubFairSpec
INVARIANT OpenIsCurrent
PROPERTY NobodyLoiters
CHECK_DEADLOCK FALSE
