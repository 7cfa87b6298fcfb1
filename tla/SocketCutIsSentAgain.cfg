SPECIFICATION Spec
CONSTANTS
    MaxDuration = 8
    MaxJitter = 2
    MaxFailures = 6
    Durations <- SomeDurations
CHECK_DEADLOCK FALSE
INVARIANT CutIsSentAgain
