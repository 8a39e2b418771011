CONSTANTS
    d1 = d1
    d2 = d2
    None = None
    Deliveries = {d1, d2}
    MaxUpdates = 2
    MaxLoads = 2
    MaxCuts = 1
    Delivery = {d1, d2}
    Time = {0, 1}
    NoTime = NoTime
    Missing = Missing
SPECIFICATION SyncSpec
SYMMETRY Symmetry
INVARIANT StreamedRowsStay
INVARIANT RequestedIsLoaded
INVARIANT ResyncUnderWay
CHECK_DEADLOCK FALSE
