\* The semaphore as a lock, under all calls mixed, and destroyed by a waiter.
CONSTANTS
    t1 = t1
    t2 = t2
    t3 = t3
    Threads <- ThreeThreads
    NoThread = NoThread
    Timeouts <- OneTimed
    Cancelable = {}
    Breakable = {t1}
    SEM_VALUE_MAX = 1
    Scenarios <- Uses
SPECIFICATION FairSpec
INVARIANTS
    DestroySafe
PROPERTIES
    ImplementsAbstractSem
    AllFinish
