SPECIFICATION Spec
CONSTANTS
    EEPROM_PAGE_SIZE = 2
    LAST_PAGE = 2
    PAGE_MOD = 4
    LENGTH_MOD = 64
    CHECKSUM_MOD = 4
    Indices <- MCIndices
    Payloads <- MCPayloads
    ReadLengths <- MCReadLengths
    DeviceFaults = FALSE
    InitialEEPROM <- MCInitialEEPROM
INVARIANTS
    TypeOK
    Coherence
    ReadsSeeWrites
    LengthWithinData
    FinalizedRecordIsCurrent
    FlushForcesBuffer
PROPERTY RefinesByteStore
