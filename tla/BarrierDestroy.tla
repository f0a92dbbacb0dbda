--------------------------- MODULE BarrierDestroy ---------------------------
(***************************************************************************)
(* pthread_barrier_destroy beside pthread_barrier_wait.  When the barrier  *)
(* counts all the threads, one of them, having waited for the last time,   *)
(* destroys it, and calls again as long as it gets EBUSY; the others may   *)
(* still be leaving their last wait.                                       *)
(***************************************************************************)
EXTENDS Barrier

CONSTANT Destroyer
ASSUME DestroyerAssumption == Destroyer \in Threads

VARIABLES
    dpc,      \* where the destroyer is in pthread_barrier_destroy
    freed     \* which of "cond" and "mutex" were freed

allVars == <<vars, dpc, freed>>

DInit == Init /\ dpc = "out" /\ freed = {}

\* pthread_mutex_trylock succeeds; EBUSY otherwise, and the caller retries.
DestroyTry ==
    /\ dpc = "out"
    /\ pc[Destroyer] = "out" /\ left[Destroyer] = 0
    /\ curr_height = Cardinality(Threads)
    /\ MutexObtain(Destroyer)
    /\ dpc' = "check"
    /\ UnchangedRest /\ UNCHANGED <<sig, cpc, barrierVars, freed>>

\* Mutant: the height is not checked.
DestroyCheck_NoCheck ==
    /\ dpc = "check"
    /\ MutexRelease(Destroyer)
    /\ dpc' = "cond"
    /\ UnchangedRest /\ UNCHANGED <<sig, cpc, barrierVars, freed>>

\* EBUSY while released threads have not left.
DestroyCheck ==
    /\ dpc = "check"
    /\ MutexRelease(Destroyer)
    /\ dpc' = IF total_height > Flag THEN "out" ELSE "cond"
    /\ UnchangedRest /\ UNCHANGED <<sig, cpc, barrierVars, freed>>

\* pthread_cond_destroy: EBUSY while a node is linked.
DestroyCond ==
    /\ dpc = "cond"
    /\ dpc' = IF waiters = <<>> THEN "mutex" ELSE "out"
    /\ freed' = IF waiters = <<>> THEN freed \cup {"cond"} ELSE freed
    /\ UNCHANGED vars

\* pthread_mutex_destroy refuses a mutex that is held or waited with; the
\* barrier is cleared either way.
DestroyMutex ==
    /\ dpc = "mutex"
    /\ dpc' = "done"
    /\ freed' = IF Free /\ incond = 0 THEN freed \cup {"mutex"} ELSE freed
    /\ curr_height' = 0
    /\ total_height' = 0
    /\ UNCHANGED <<CondVars, pc, left>>

pthread_barrier_destroy == DestroyTry \/ DestroyCheck \/ DestroyCond \/ DestroyMutex

DStep(t) == (BarrierWait(t) \/ CondStep(t)) /\ UNCHANGED <<dpc, freed>>

DTerminated ==
    /\ AllPassed
    /\ dpc = "done" \/ curr_height # Cardinality(Threads)
    /\ UNCHANGED allVars

DNext == (\E t \in Threads : DStep(t)) \/ pthread_barrier_destroy \/ DTerminated

DSpec == DInit /\ [][DNext]_allVars

\* As for the barrier alone; the destroyer keeps trying.
DFairSpec ==
    /\ DSpec
    /\ \A t \in Threads :
          /\ WF_allVars(BarrierWait(t) /\ UNCHANGED <<dpc, freed>>)
          /\ WF_allVars(CondWaitStep(t) /\ UNCHANGED <<barrierVars, dpc, freed>>)
          /\ SF_allVars(BarrierLock(t) /\ UNCHANGED <<dpc, freed>>)
          /\ SF_allVars(Relock(t) /\ UNCHANGED <<barrierVars, dpc, freed>>)
    /\ WF_allVars(pthread_barrier_destroy)

-----------------------------------------------------------------------------

\* When every thread takes part in the last round, nothing is freed while a
\* thread is still inside pthread_barrier_wait: a thread that is on its way
\* out makes the destroyer's call return EBUSY.
FreedWhenEmpty == freed # {} => AllPassed

=============================================================================
