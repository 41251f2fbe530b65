SPECIFICATION FairSpec
CONSTANTS
    Workers = {w1, w2}
    Clients = {c1, c2}
    Tasks = {t1, t2, t3}
    None = None
INVARIANTS TypeOK NoIdleWorker OneShutdown
PROPERTIES AcceptedTaskRuns ShutdownReturns PoolSpec
CHECK_DEADLOCK FALSE
