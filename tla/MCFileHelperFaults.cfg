SPECIFICATION Spec
CONSTANTS
    EEPROM_PAGE_SIZE = 2
    LAST_PAGE = 2
    PAGE_MOD = 4
    LENGTH_MOD = 64
    CHECKSUM_MOD = 2
    Indices <- MCFaultIndices
    Payloads <- MCFaultPayloads
    ReadLengths <- MCFaultReadLengths
    DeviceFaults = TRUE
    InitialEEPROM <- MCInitialEEPROM
INVARIANTS
    LossIsReported
