SPECIFICATION Spec
CONSTANTS
    HourCount = 3
    MaxWorkers = 2
    MaxAttempts = 2
    Bodies <- MCBodies
    RetryAfters <- MCRetryAfters
INVARIANTS
    FailuresHaveCodes
