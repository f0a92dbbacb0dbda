\* main() and a thread create threads at the same time.
CONSTANTS
    Main = Main
    p1 = p1
    p2 = p2
    p3 = p3
    NoTask = NoTask
    Procs <- ThreeProcs
    Creators = {Main, p1}
    Strangers = {}
    MaxThreads = 4
    Endings = {"return"}
    Patient = TRUE
SPECIFICATION Spec
INVARIANT SlotsExclusive
