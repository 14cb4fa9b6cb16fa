CONSTANTS
    Requests = {r, s}
    MaxObjects = 2
    MaxRequests = 4
SPECIFICATION FairSpec
INVARIANTS
    ActiveIsWatched
    CleanupFollowsTheEnd
PROPERTIES
    OnlyTheCleanedLeave
    WatchdogSparesTheRefreshed
    SilentIsRemoved
CHECK_DEADLOCK FALSE
