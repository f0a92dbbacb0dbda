---------------------------- MODULE MCRecordLock ----------------------------
(* Model values for the runs of RecordLock: one program with one task, one *)
(* with two; the requests are for the bytes 0..1, 1..1 and 1..3.           *)
EXTENDS RecordLock, TLC

CONSTANTS t1, u1, u2, P, Q

AllTasks == {t1, u1, u2}
ProgramOf == [t \in AllTasks |-> IF t = t1 THEN P ELSE Q]
Twins == Permutations({u1, u2})
SomeRequests ==
    {[start |-> 0, len |-> 2, shared |-> FALSE], [start |-> 2, len |-> -1, shared |-> TRUE],
     [start |-> 1, len |-> 0, shared |-> TRUE]}

=============================================================================
