SPECIFICATION FairSpec
CONSTANTS
    loop = loop
    other = other
    client = client
    None = None
    Threads <- TwoClients
    Runners <- OneRunner
    Tasks = {a, b, c}
    Delays = {0}
    IntMax = 7
    MaxTimers = 0
    MaxTime = 0
INVARIANTS NoLostWakeup NoLostStop
PROPERTIES QueuedTaskRuns StopEndsLoop FifoSpec
