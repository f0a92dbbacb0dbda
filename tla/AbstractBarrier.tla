-------------------------- MODULE AbstractBarrier --------------------------
(***************************************************************************)
(* What pthread_barrier_wait promises: threads that arrive are held until  *)
(* count of them have arrived, then all of these go free at once, exactly  *)
(* one of them with PTHREAD_BARRIER_SERIAL_THREAD.                         *)
(***************************************************************************)
EXTENDS Naturals, FiniteSets

CONSTANT Threads

VARIABLES
    count,   \* the number of threads the barrier waits for
    st       \* every thread is "out", "held", "free" or "serial"

AbsInit == count \in Nat \ {0} /\ st = [t \in Threads |-> "out"]

Held == {t \in Threads : st[t] = "held"}

\* Not the last one of its generation.
Arrive(t) ==
    /\ st[t] = "out"
    /\ Cardinality(Held) + 1 # count
    /\ st' = [st EXCEPT ![t] = "held"]
    /\ UNCHANGED count

\* The last one opens the barrier for all that are held.
Trip(t) ==
    /\ st[t] = "out"
    /\ Cardinality(Held) + 1 = count
    /\ st' = [u \in Threads |-> IF u = t THEN "serial"
                                ELSE IF u \in Held THEN "free" ELSE st[u]]
    /\ UNCHANGED count

Leave(t) ==
    /\ st[t] \in {"free", "serial"}
    /\ st' = [st EXCEPT ![t] = "out"]
    /\ UNCHANGED count

Destroy ==
    /\ \A t \in Threads : st[t] = "out"
    /\ count' = 0
    /\ UNCHANGED st

AbsNext == (\E t \in Threads : Arrive(t) \/ Trip(t) \/ Leave(t)) \/ Destroy

AbsSpec == AbsInit /\ [][AbsNext]_<<count, st>>

=============================================================================
