SPECIFICATION Spec
CONSTANTS
    ReadUnits = 2
    MaxBuffer = 2
    RespUnits = 1
    SendBuffer = 1
    MaxSend = 1
PROPERTY ErrorsSurvived
CHECK_DEADLOCK FALSE
