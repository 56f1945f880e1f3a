SPECIFICATION Spec
CONSTANTS
    a = a
    b = b
    Earlier = Earlier
    Nobody = Nobody
    Coordinators <- MCCoordinators
INVARIANT
    AcceptedRunStays
