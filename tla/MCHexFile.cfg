SPECIFICATION Spec
CONSTANTS
    BASE = 3
    APPLICATION_DATA_START = 27
    DataSize = 2
    MaxSize = 81
    Files <- MCFiles
INVARIANTS
    TypeOK
    HoldsTheRecords
    WritesInBounds
    CountReachesTheEnd
CHECK_DEADLOCK FALSE
