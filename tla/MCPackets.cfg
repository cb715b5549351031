SPECIFICATION FairSpec
CONSTANTS
    BYTE = 8
    WRAPPER_STX = 5
    MAX_PAYLOAD_SiZE = 2
    Payloads <- MCPayloads
    Lengths = {1}
    FirstCounts <- MCFirstCounts
    MaxPackets = 3
    MaxCuts = 2
INVARIANTS
    TypeOK
    FramingExact
    CutCostsOnePacket
PROPERTY StreamDrains
CHECK_DEADLOCK FALSE
