SPECIFICATION WindowFairSpec
CONSTANTS
    MaxAddresses = 2
    MaxConnections = 2
    MaxClicks = 1
INVARIANTS
    WindowTypeOK
    OneSessionAtATime
    NoConnectionLeaks
    EndsByItself
    ClicksDoNotWait
    BoxIsConnection
PROPERTIES
    WindowReturns
    ResetIsNoticed
CHECK_DEADLOCK FALSE
