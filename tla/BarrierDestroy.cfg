\* Three threads wait twice at a barrier of two or of three; at a barrier of
\* three the first one then destroys it.
CONSTANTS
    t1 = t1
    t2 = t2
    t3 = t3
    Threads <- ThreeThreads
    NoThread = NoThread
    Timeouts <- Untimed
    Cancelable = {}
    Breakable = {t2}
    Counts = {2, 3}
    Flag = 8
    Rounds = 2
    Destroyer = t1
SPECIFICATION DFairSpec
INVARIANTS
    HeightExact
    FreedWhenEmpty
PROPERTIES
    ImplementsAbstractBarrier
    AllGetThrough
