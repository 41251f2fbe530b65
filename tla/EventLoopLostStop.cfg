SPECIFICATION FairSpec
CONSTANTS
    loop = loop
    other = other
    client = client
    None = None
    Threads <- OneClient
    Runners <- OneRunner
    Tasks = {}
    Delays = {}
    IntMax = 7
    MaxTimers = 0
    MaxTime = 0
PROPERTY StopEndsRun
