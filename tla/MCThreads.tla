----------------------------- MODULE MCThreads -----------------------------
(* Model values for the runs of Threads. *)
EXTENDS Threads

CONSTANTS p1, p2, p3

ThreeProcs == {p1, p2, p3}

=============================================================================
