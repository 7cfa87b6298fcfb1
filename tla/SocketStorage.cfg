SPECIFICATION FairSpec
CONSTANTS
    MaxDuration = 8
    MaxJitter = 2
    MaxFailures = 6
    Durations <- SomeDurations
INVARIANTS
    TypeOK
    NoDuplicate
    ErrorMeansLost
    BackoffCeiling
    BackoffDoubles
    ClosesOwnSocket
CHECK_DEADLOCK FALSE
PROPERTY Recovers
