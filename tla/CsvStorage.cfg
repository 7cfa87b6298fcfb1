SPECIFICATION Spec
CONSTANTS
    g1 = g1
    g2 = g2
    cpu0 = cpu0
    cpu1 = cpu1
    cycles = cycles
    misses = misses
    callchain = callchain
    Groups <- TwoGroups
    Cpus <- TwoCpus
    Reports <- SomeReports
    MaxColumns = 2
    MaxReports = 2
INVARIANTS
    TypeOK
    Tables
    RowsInOrder
    StoredIsWritten
PROPERTY FilesOnlyGrow
CHECK_DEADLOCK FALSE
