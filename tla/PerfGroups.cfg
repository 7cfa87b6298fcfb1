SPECIFICATION Spec
CONSTANTS
    core = core
    rapl = rapl
    pkg0 = pkg0
    pkg1 = pkg1
    cpu0 = cpu0
    cpu1 = cpu1
    cpu2 = cpu2
    Slots <- SomeSlots
    EventsOf <- SomeEvents
    HasCgroup = TRUE
    MaxFd = 9
    MaxTicks = 2
    MaxCount = 2
INVARIANTS
    TypeOK
    NothingLeft
    FreedOnce
    OwnDescriptors
    CountedOnce
    NothingUncounted
CHECK_DEADLOCK FALSE
