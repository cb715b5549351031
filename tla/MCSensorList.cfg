SPECIFICATION Spec
CONSTANTS
    ALL_SENSORS = 2
    FAIL_LIMIT = 2
    MaxCalls = 5
    MaxLost = 1
    MaxClicks = 3
INVARIANTS
    TypeOK
    OneThreadOwnsTheList
    ListIsTheTable
CHECK_DEADLOCK FALSE
