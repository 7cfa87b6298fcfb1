SPECIFICATION Spec
CONSTANTS
    Size = 9
    Depths = {2, 3}
    OtherSizes = {3}
    Ids = {2}
    Limit = 2
    StringSize = 2
    Lengths = {4}
    MaxRecords = 4
INVARIANTS
    TypeOK
    OnlySamples
    NothingSkipped
    StringFits
PROPERTY RecordsTaken
CHECK_DEADLOCK FALSE
