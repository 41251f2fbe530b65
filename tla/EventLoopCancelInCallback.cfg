SPECIFICATION Spec
CONSTANTS
    loop = loop
    other = other
    client = client
    None = None
    Threads <- OneClient
    Runners <- OneRunner
    Tasks = {}
    Delays = {1}
    IntMax = 7
    MaxTimers = 1
    MaxTime = 2
INVARIANT CancelledLeavesHeap
