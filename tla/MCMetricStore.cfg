CONSTANTS
    Devices = {d, e, f}
    Readings = {p, q}
    MaxNow = 4
    MaxLag = 1
    metricRetention = 2
    metricFutureSkew = 1
    metricMaxBatch = 2
    metricMaxPerDevice = 2
    metricMaxTotal = 3
    metricMaxDevices = 2
SPECIFICATION StoreSpec
SYMMETRY StoreSymmetry
INVARIANTS
    StoreTypeOK
    TotalIsExact
    StoredIsTimed
    AcceptedIsKept
CHECK_DEADLOCK FALSE
