SPECIFICATION Spec
CONSTANTS
    BYTE = 4
    WRAPPER_STX = 3
    MAX_PAYLOAD_SiZE = 2
    ALL_COMMANDS = 2
    Answers <- MCAnswers
    Numbers = {3}
    MaxAnswers = 2
    MaxSessions = 2
INVARIANTS
    TypeOK
    SlotsHoldLastAnswers
    WritesInBounds
CHECK_DEADLOCK FALSE
