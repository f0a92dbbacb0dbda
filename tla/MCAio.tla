------------------------------- MODULE MCAio -------------------------------
(* Model values for the runs of Aio: three requests for one descriptor, one *)
(* for another.                                                             *)
EXTENDS Aio

CONSTANTS r1, r2, r3, r4, f1, f2

AllReqs == {r1, r2, r3, r4}
TwoFds == {f1, f2}
FdOf == [r \in AllReqs |-> IF r = r4 THEN f2 ELSE f1]
PrioOf == [r \in AllReqs |-> IF r = r3 THEN 1 ELSE 0]

=============================================================================
