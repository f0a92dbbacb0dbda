\* main() creates up to three threads in two slots; it joins them, and so do
\* two of the threads.
CONSTANTS
    Main = Main
    p1 = p1
    p2 = p2
    p3 = p3
    NoTask = NoTask
    Procs <- ThreeProcs
    Creators = {Main}
    Strangers = {p1, p2}
    MaxThreads = 3
    Endings = {"return", "exit"}
    Patient = TRUE
SPECIFICATION FairSpec
INVARIANTS
    SlotsExclusive
    JoinedIsDone
    ExitWaits
PROPERTY
    JoinReturns
\* A task that joins a thread it has not created may wait for ever.
CHECK_DEADLOCK FALSE
