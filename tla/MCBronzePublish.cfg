SPECIFICATION FairSpec
CONSTANTS
    a = a
    b = b
    c = c
    r = r
    Foreign = Foreign
    Nobody = Nobody
    Publishers <- MCPublishers
    Runs <- MCRuns
    HourCount = 2
INVARIANTS
    TypeOK
    EvidenceIsClaimed
    FailureLeavesNothing
PROPERTIES
    NoClobber
    UndisturbedRunIsPublished
    ImplementsContract
