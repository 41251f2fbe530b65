SPECIFICATION FairSpec
CONSTANTS
    ReadUnits = 2
    MaxBuffer = 2
    RespUnits = 1
    SendBuffer = 1
    MaxSend = 1
PROPERTY ClosedOnceWritten
CHECK_DEADLOCK FALSE
