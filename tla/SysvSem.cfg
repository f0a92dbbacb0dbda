\* Four programs of three processes; semctl does not run during a semop.
SPECIFICATION FairSpec
CONSTANTS
    a = a
    b = b
    c = c
    Tasks <- MCTasks
    Programs <- MCPrograms
    NoTask = NoTask
    NULL = NULL
    Keys = {0, 1, 2}
    IPC_PRIVATE = 0
    VEXTEND = 2
    Polite = TRUE
INVARIANTS
    CountsExact
    NobodyStuck
PROPERTIES
    ImplementsAbstractSysvSem
    CallsProgress
