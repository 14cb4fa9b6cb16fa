CONSTANTS
    Calls = {a}
    Keys = {a}
    NoCall = none
    NoKey = nokey
    Installations = {i, j}
    Wanted = {i, j}
    MaxAttempts = 2
    MaxConnects = 2
SPECIFICATION FairSpec
INVARIANTS
    TypeOK
    BoundToOne
    NoDeviceOverlooked
PROPERTIES
    OutcomeTellsDelivery
    EveryCallReturns
CHECK_DEADLOCK FALSE
