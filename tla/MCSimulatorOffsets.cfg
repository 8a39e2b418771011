SPECIFICATION FairSpec
CONSTANTS
    p1 = p1
    p2 = p2
    d1 = d1
    d2 = d2
    Poison = Poison
    Partitions = {p1}
    Deliveries = {d1, d2}
    HomeOf <- OneHome
    Steps = 2
    Workers = 2
    Resume = TRUE
    MaxRecords = 3
    MaxFaults = 1
    MaxDeleted = 1
INVARIANT NothingPassedOver
INVARIANT TelemetryHasNoGap
INVARIANT OffsetsAccounted
PROPERTY EveryRecordIsPassed
