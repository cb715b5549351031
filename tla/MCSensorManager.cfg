SPECIFICATION PollSpec
CONSTANTS
    CLOCK = 32
    DEFAULT_UPDATE_PERIOD = 3
    SetupDelay = 8
    MaxSetupTime = 20
    Periods = {0, 6}
    LongestPeriod = 6
    StepTime = 2
INVARIANTS
    PollTypeOK
    PollsKeepDistance
    ValuesAreFresh
