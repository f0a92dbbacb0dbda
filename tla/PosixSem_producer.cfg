\* Two waiters and a producer of two tokens.
CONSTANTS
    t1 = t1
    t2 = t2
    t3 = t3
    Threads <- ThreeThreads
    NoThread = NoThread
    Timeouts <- OneTimed
    Cancelable = {}
    Breakable = {}
    SEM_VALUE_MAX = 2
    Scenarios <- ProducerUse
SPECIFICATION FairSpec
PROPERTY NoStuckWaiter
CHECK_DEADLOCK FALSE
