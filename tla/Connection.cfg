SPECIFICATION FairSpec
CONSTANTS
    ReadUnits = 2
    MaxBuffer = 4
    RespUnits = 3
    SendBuffer = 2
    MaxSend = 6
INVARIANTS
    TypeOK OutputRegistered NoStrandedOutput ClosedIsClean
    InputStrandedByFullReadOnly ClosedUnansweredOnlyByClient LostOnlyToHaste
PROPERTIES OutputDrains SmallRequestServed ExchangeSpec
CHECK_DEADLOCK FALSE
