SPECIFICATION Spec
CONSTANTS
    HourCount = 3
    MaxWorkers = 2
    MaxAttempts = 3
    Bodies <- MCBodies
    RetryAfters <- MCRetryAfters
INVARIANTS
    TypeOK
    ManifestIsWhole
    EarliestFailureIsRaised
    StagingOutlivesThreads
    BurstIsBounded
    BackoffIsBounded
PROPERTIES
    RunEnds
