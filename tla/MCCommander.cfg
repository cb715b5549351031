SPECIFICATION FairSpec
CONSTANTS
    Commands <- MCCommands
    Answered <- MCAnswered
    MaxCalls = 2
INVARIANTS
    TypeOK
    LagBounded
PROPERTY CallsReturn
CHECK_DEADLOCK FALSE
