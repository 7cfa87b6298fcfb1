SPECIFICATION FairSpec
CONSTANTS
    c1 = c1
    c2 = c2
    Containers <- TwoContainers
    System = System
    Reporter = Reporter
    Nobody = Nobody
    MaxTick = 1
    MaxSignals = 1
    TickHwm = 1
    ReportHwm = 1
    MaxBirths = 1
    MaxStarts = 2
    MonitorSystem = FALSE
    MayFail = FALSE
PROPERTIES
    TicksAnswered
    ShutdownEndsOrHangs
    DeadIsStopped
    RunningIsRegistered
CHECK_DEADLOCK FALSE
