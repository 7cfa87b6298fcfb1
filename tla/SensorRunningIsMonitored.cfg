SPECIFICATION FairSpec
CONSTANTS
    c1 = c1
    c2 = c2
    Containers <- OneContainer
    System = System
    Reporter = Reporter
    Nobody = Nobody
    MaxTick = 0
    MaxSignals = 0
    TickHwm = 1
    ReportHwm = 1
    MaxBirths = 2
    MaxStarts = 2
    MonitorSystem = FALSE
    MayFail = FALSE
PROPERTIES
    RunningIsMonitored
CHECK_DEADLOCK FALSE
