\* Two programs, one of them with two threads, and two descriptors each.
CONSTANTS
    t1 = t1
    u1 = u1
    u2 = u2
    P = P
    Q = Q
    NoRequest = NoRequest
    Tasks <- AllTasks
    Programs = {P, Q}
    Program <- ProgramOf
    Slots = {1, 2}
    Requests <- SomeRequests
    LongMax = 3
SYMMETRY Twins
SPECIFICATION Spec
INVARIANTS
    NoConflict
    WillBeRemoved
PROPERTIES
    GivenUpByOwner
