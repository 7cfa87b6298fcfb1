SPECIFICATION Spec
CONSTANTS
    c1 = c1
    c2 = c2
    Containers <- OneContainer
    System = System
    Reporter = Reporter
    Nobody = Nobody
    MaxTick = 2
    MaxSignals = 2
    TickHwm = 1
    ReportHwm = 1
    MaxBirths = 1
    MaxStarts = 3
    MonitorSystem = TRUE
    MayFail = TRUE
INVARIANTS
    TypeOK
    NothingLost
    LateStores
    ModuleOutlivesReporter
    NoOrphanActor
    HangOnlyOnSend
PROPERTY StreamSpec
CHECK_DEADLOCK FALSE
