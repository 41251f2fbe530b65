SPECIFICATION FairSpec
CONSTANTS
    Conns = {c1, c2, c3}
    Fds = {f1, f2, f3}
    MaxConnections = 2
    None = None
    Interruptible <- OutsideAccept
INVARIANTS TypeOK FdOwned OpenIsTracked StaleEventDropped ClosedByStop NoFdLeaked NotFreed
PROPERTY ShutdownEnds
CHECK_DEADLOCK FALSE
ACTION_CONSTRAINT ArriveInOrder
