\* Two threads; one may be canceled, the other makes timed waits; both may
\* get CTRL-C.
CONSTANTS
    t1 = t1
    t2 = t2
    Threads <- TwoThreads
    NoThread = NoThread
    Timeouts <- OneTimed
    Cancelable = {t1}
    Breakable = {t1, t2}
SPECIFICATION FairMonitor
INVARIANTS
    HoldsMutex
    WaitersExact
    IncondExact
    CancelPending
PROPERTIES
    WaitsReturn
