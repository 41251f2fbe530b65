SPECIFICATION FairSpec
CONSTANTS
    loop = loop
    other = other
    client = client
    None = None
    Threads <- OneClient
    Runners <- OneRunner
    Tasks = {}
    Delays = {0, 1, 2}
    IntMax = 7
    MaxTimers = 2
    MaxTime = 2
INVARIANTS TypeOK NoLateTimer
PROPERTIES TimerFires TimerSpec
