CONSTANTS
    Conns = {c}
    MaxEvents = 3
SPECIFICATION FairSpec
INVARIANTS
    OwnerVerified
    NothingMissed
PROPERTY NobodyLoiters
CHECK_DEADLOCK FALSE
