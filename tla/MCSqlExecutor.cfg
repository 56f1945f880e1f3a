SPECIFICATION Spec
CONSTANTS
    a = a
    b = b
    c = c
    traffic = traffic
    freshness = freshness
    Calls <- MCCalls
    Requests <- MCRequests
    MaxConcurrency = 2
    MaxScan = 3
INVARIANTS
    TypeOK
    CapacityIsKept
    NothingLeaks
    RowsAreWhole
    NoLateRows
PROPERTIES
    EveryCallEnds
