\* Two helper threads at most, of three that can be created.
CONSTANTS
    r1 = r1
    r2 = r2
    r3 = r3
    r4 = r4
    f1 = f1
    f2 = f2
    Reqs <- AllReqs
    Fds <- TwoFds
    Fd <- FdOf
    Prio <- PrioOf
    Workers = {w1, w2, w3}
    AioThreads = 2
    Suspenders = {s1}
    MaxCalls = 4
SPECIFICATION FairSpec
INVARIANTS
    QueueExact
    WorkersExact
    WorkNotForgotten
    SuspendersListed
PROPERTIES
    OrphanedByCancel
    RequestsEnd
    SuspendReturns
