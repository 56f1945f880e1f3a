SPECIFICATION Spec
CONSTANTS
    a = a
    b = b
    Earlier = Earlier
    Nobody = Nobody
    Coordinators <- MCCoordinators
INVARIANTS
    TypeOK
    AcceptedIsWhole
    FailedRunPublishesNothing
    WinnerStays
PROPERTIES
    RecoveryRewritesNothing
    UndisturbedRunIsAccepted
