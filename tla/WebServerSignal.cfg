SPECIFICATION FairSpec
CONSTANTS
    Conns = {c1, c2}
    Fds = {f1, f2}
    MaxConnections = 1
    None = None
    Interruptible <- HoldingAMutex
PROPERTY SignalHandled
CHECK_DEADLOCK FALSE
