-------------------------- MODULE MCBarrierDestroy --------------------------
(* Model values for the run of Barrier and BarrierDestroy. *)
EXTENDS BarrierDestroy

CONSTANTS t1, t2, t3

ThreeThreads == {t1, t2, t3}
Untimed == [t \in Threads |-> {"none"}]

=============================================================================
