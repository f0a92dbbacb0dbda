\* Four tasks, five programs: a full queue, a resized one, a removed one,
\* refused calls, and reused slots of the key map.
SPECIFICATION FairSpec
CONSTANTS
    s1 = s1
    s2 = s2
    r = r
    adm = adm
    Tasks <- MCTasks
    Programs <- MCPrograms
    NoTask = NoTask
    NULL = NULL
    Keys = {0, 1, 2}
    IPC_PRIVATE = 0
    VEXTEND = 1
    DEFAULT_QSIZE = 2
    Word = 16
INVARIANTS
    LockedAlive
    KeyMapExact
    Accounting
    NobodyStuck
PROPERTIES
    FifoPerType
    CallsProgress
