--------------------------- MODULE MCCondMonitor ---------------------------
(* Model values for the runs of CondMonitor. *)
EXTENDS CondMonitor, TLC

CONSTANTS t1, t2

TwoThreads == {t1, t2}

\* The first thread makes untimed waits and can be canceled, the second one
\* also makes timed waits.
OneTimed == t1 :> {"none"} @@ t2 :> {"none", "future", "now", "past"}

=============================================================================
