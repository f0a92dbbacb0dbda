------------------------------ MODULE Barrier ------------------------------
(***************************************************************************)
(* The barrier of pthread_barrier_*.c on the mutex and condition variable  *)
(* of CondVar.  total_height counts up the threads that arrive; the last   *)
(* one turns it to Flag plus the number of threads still to leave, which   *)
(* also keeps early arrivals of the next generation out until all left.    *)
(* Every thread waits at the barrier Rounds times.                         *)
(***************************************************************************)
EXTENDS CondVar

CONSTANTS
    Counts,       \* the counts that may be given to pthread_barrier_init
    Flag,         \* PTHREAD_BARRIER_FLAG: 2^31, a smaller number here
    Rounds        \* how often every thread waits at the barrier

ASSUME BarrierAssumption ==
    /\ Flag \in Nat
    /\ Counts \subseteq 1..Flag
    /\ Rounds \in Nat

VARIABLES
    curr_height,  \* the count of the barrier
    total_height,
    pc,           \* where a thread is in its call
    left          \* how many more times a thread will wait at the barrier

barrierVars == <<curr_height, total_height, pc, left>>
vars == <<CondVars, barrierVars>>

Labels == {"out", "lock", "enter", "econd", "loop", "lcond", "unlock", "unlockS"}

BarrierTypeOK ==
    /\ CondTypeOK
    /\ curr_height \in Nat
    /\ total_height \in Nat
    /\ pc \in [Threads -> Labels]
    /\ left \in [Threads -> Nat]

\* pthread_barrier_init
Init ==
    /\ CondInit
    /\ curr_height \in Counts
    /\ total_height = Flag
    /\ pc = [t \in Threads |-> "out"]
    /\ left = [t \in Threads |-> Rounds]

GoTo(t, label) == pc' = [pc EXCEPT ![t] = label]

\* Everything of CondVar except the mutex, the signals and the call state.
UnchangedRest == UNCHANGED <<incond, waiters, abstime, armed, cret, canceled>>

-----------------------------------------------------------------------------
(* pthread_barrier_wait *)

BarrierCall(t) ==
    /\ pc[t] = "out"
    /\ left[t] > 0
    /\ left' = [left EXCEPT ![t] = @ - 1]
    /\ GoTo(t, "lock")
    /\ UNCHANGED <<CondVars, total_height, curr_height>>

BarrierLock(t) ==
    /\ pc[t] = "lock"
    /\ MutexObtain(t)
    /\ GoTo(t, "enter")
    /\ UnchangedRest /\ UNCHANGED <<sig, cpc, total_height, left, curr_height>>

\* "wait until everyone exits the barrier"
EnterWait(t) ==
    /\ pc[t] = "enter"
    /\ total_height > Flag
    /\ CallCondWait(t, "none")
    /\ GoTo(t, "econd")
    /\ UNCHANGED <<total_height, left, curr_height>>

CondReturned(t, from, to) ==
    /\ pc[t] = from
    /\ cpc[t] = "ret"
    /\ cpc' = [cpc EXCEPT ![t] = "idle"]
    /\ GoTo(t, to)
    /\ UnchangedRest /\ UNCHANGED <<owner, sig, total_height, left, curr_height>>

\* Mutant: the condition of the loop is not tested again after a wake-up.
LoopAgain_NoTest(t) == CondReturned(t, "lcond", "unlock")

EnterAgain(t) == CondReturned(t, "econd", "enter")

\* Mutant: the first thread does not start from zero.
Arrived_NoReset == total_height + 1

\* The height once this thread is counted; the first one starts from zero.
Arrived == IF total_height = Flag THEN 1 ELSE total_height + 1

\* "wait until enough threads enter the barrier"
Arrive(t) ==
    /\ pc[t] = "enter"
    /\ total_height <= Flag
    /\ Arrived # curr_height
    /\ total_height' = Arrived
    /\ GoTo(t, "loop")
    /\ UNCHANGED <<CondVars, left, curr_height>>

\* The last thread raises the flag and wakes the others up.
Trip(t) ==
    /\ pc[t] = "enter"
    /\ total_height <= Flag
    /\ Arrived = curr_height
    /\ total_height' = Arrived + Flag - 1
    /\ CondBroadcast
    /\ GoTo(t, "unlockS")
    /\ UnchangedRest /\ UNCHANGED <<owner, cpc, left, curr_height>>

LoopWait(t) ==
    /\ pc[t] = "loop"
    /\ total_height < Flag
    /\ CallCondWait(t, "none")
    /\ GoTo(t, "lcond")
    /\ UNCHANGED <<total_height, left, curr_height>>

LoopAgain(t) == CondReturned(t, "lcond", "loop")

\* Mutant: the last thread to leave does not wake the entering threads.
LeaveLoop_NoBroadcast(t) ==
    /\ pc[t] = "loop"
    /\ total_height >= Flag
    /\ total_height' = total_height - 1
    /\ GoTo(t, "unlock")
    /\ UnchangedRest /\ UNCHANGED <<owner, sig, cpc, left, curr_height>>

\* One thread less to leave; the last one lets the next generation in.
LeaveLoop(t) ==
    /\ pc[t] = "loop"
    /\ total_height >= Flag
    /\ total_height' = total_height - 1
    /\ IF total_height - 1 = Flag THEN CondBroadcast ELSE UNCHANGED sig
    /\ GoTo(t, "unlock")
    /\ UnchangedRest /\ UNCHANGED <<owner, cpc, left, curr_height>>

BarrierUnlock(t) ==
    /\ pc[t] \in {"unlock", "unlockS"}
    /\ MutexRelease(t)
    /\ GoTo(t, "out")
    /\ UnchangedRest /\ UNCHANGED <<sig, cpc, total_height, left, curr_height>>

BarrierWait(t) ==
    \/ BarrierCall(t)
    \/ BarrierLock(t)
    \/ EnterWait(t)
    \/ EnterAgain(t)
    \/ Arrive(t)
    \/ Trip(t)
    \/ LoopWait(t)
    \/ LoopAgain(t)
    \/ LeaveLoop(t)
    \/ BarrierUnlock(t)

\* A step of the condition variable or of its environment.
CondStep(t) == (CondWaitStep(t) \/ Environment(t)) /\ UNCHANGED barrierVars

AllPassed == \A t \in Threads : pc[t] = "out" /\ left[t] = 0
Terminated == AllPassed /\ UNCHANGED vars

Next == (\E t \in Threads : BarrierWait(t) \/ CondStep(t)) \/ Terminated

Spec == Init /\ [][Next]_vars

\* Tasks run, and exec grants a mutex in the order of arrival.
FairSpec ==
    /\ Spec
    /\ \A t \in Threads :
          /\ WF_vars(BarrierWait(t))
          /\ WF_vars(CondWaitStep(t) /\ UNCHANGED barrierVars)
          /\ SF_vars(BarrierLock(t))
          /\ SF_vars(Relock(t) /\ UNCHANGED barrierVars)

-----------------------------------------------------------------------------
(* Properties *)

\* The threads that arrived and have not left the call.
Inside == {t \in Threads : pc[t] \in {"loop", "lcond"}}

\* total_height is exact in both of its readings: below the flag it is the
\* number of threads held, above it is the flag plus the number of threads
\* that are released and have not counted themselves out.
HeightExact ==
    \/ total_height < Flag /\ total_height = Cardinality(Inside)
    \/ total_height >= Flag /\ total_height - Flag = Cardinality(Inside)

\* What a thread is to the abstract barrier.
AbsState ==
    [t \in Threads |->
        CASE pc[t] \in {"loop", "lcond"} -> IF total_height < Flag THEN "held" ELSE "free"
          [] pc[t] = "unlock" -> "free"
          [] pc[t] = "unlockS" -> "serial"
          [] OTHER -> "out"]

Abs == INSTANCE AbstractBarrier WITH count <- curr_height, st <- AbsState

\* The barrier of AbstractBarrier: curr_height arrivals open it for exactly the
\* threads held, whatever spurious wake-ups and early re-entries occur.
ImplementsAbstractBarrier == Abs!AbsSpec

\* When as many threads use the barrier as it counts, all of them get
\* through all of their rounds: neither broadcast misses a sleeper.
AllGetThrough == curr_height = Cardinality(Threads) => <>AllPassed

=============================================================================
