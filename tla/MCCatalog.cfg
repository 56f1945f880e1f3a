SPECIFICATION Spec
CONSTANTS
    id = id
    day = day
    note = note
    device = device
    user = user
    stream = stream
    a = a
    b = b
    c = c
    ghost = ghost
    wiki = wiki
    internal = internal
    Names <- MCNames
    Ids <- MCIds
    JoinIds = {1, 2, 3, 4, 5, 6}
    Forbidden <- MCForbidden
    Derived <- MCDerived
    Stream = stream
    Internal = internal
    Values <- MCValues
    Catalogs <- MCCatalogs
    Events <- MCEvents
INVARIANTS
    TypeOK
    WalkDecidesConnectivity
    JoinsKeepRows
    PrivateFieldsStayOut
CHECK_DEADLOCK FALSE
