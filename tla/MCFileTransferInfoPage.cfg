SPECIFICATION Spec
CONSTANTS
    EEPROM_PAGE_SIZE = 4
    LAST_PAGE = 2
    PAGE_MOD = 4
    LENGTH_MOD = 16
    CHECKSUM_MOD = 16
    DeviceFaults = FALSE
    Image <- MCImage
    FAIL_LIMIT = 2
    MaxCalls = 8
    MaxLost = 1
INVARIANT DataKeepsOffInfoPage
CHECK_DEADLOCK FALSE
