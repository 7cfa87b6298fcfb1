SPECIFICATION Spec
CONSTANTS
    rapl = rapl
    core = core
    power = power
    instructions = instructions
    pkg0 = pkg0
    pkg1 = pkg1
    cpu0 = cpu0
    cpu1 = cpu1
    cpu2 = cpu2
    cpu3 = cpu3
    Names = {rapl, core}
    Events = {power, instructions}
    StorageTypes = {"null", "csv", "socket", "mongodb"}
    UINT_MAX = 65535
    ULONG_MAX = 16777215
    Numbers <- SomeNumbers
    MaxGroupOptions = 4
    MaxOptions = 6
    Cpus = {cpu0, cpu1, cpu2, cpu3}
    PackageOf <- SomePackages
    Online = {cpu0, cpu2, cpu3}
    MaxSignals = 2
INVARIANTS
    TypeOK
    AsGiven
    PackagesComplete
    StorageHasSettings
    ThreadsServed
    NothingKept
SYMMETRY Symmetry
CHECK_DEADLOCK FALSE
