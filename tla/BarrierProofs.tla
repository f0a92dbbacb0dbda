--------------------------- MODULE BarrierProofs ---------------------------
(***************************************************************************)
(* The barrier, for any number of threads, any count up to the flag and    *)
(* any number of rounds.                                                   *)
(***************************************************************************)
EXTENDS BarrierDestroy, CondProofs

\* A thread is in a wait on the condition only from one of the two loops,
\* and holds the mutex wherever the barrier's own code relies on it.
PcInv ==
    \A t \in Threads :
        /\ pc[t] \in {"econd", "lcond"} <=> cpc[t] # "idle"
        /\ pc[t] \in {"enter", "loop", "unlock", "unlockS"} => owner = t

\* While threads are held, fewer than the count have arrived.
HeightInv ==
    /\ curr_height \in 1..Flag
    /\ total_height < Flag => total_height < curr_height
    /\ HeightExact

BarrierInv == CondInv /\ BarrierTypeOK /\ PcInv /\ HeightInv

-----------------------------------------------------------------------------
(* Counting the threads inside. *)

\* The threads at the barrier, which total_height counts, are finitely many.
LEMMA InsideFinite == IsFiniteSet(Inside) /\ Cardinality(Inside) \in Nat
BY ThreadsAssumption, FS_Subset, FS_CardinalityType, SMTT(30) DEF Inside

\* A thread that arrives is one more inside, a thread that leaves one less.
LEMMA InsideCount ==
    ASSUME NEW t \in Threads
    PROVE  /\ t \notin Inside /\ Inside' = Inside \cup {t}
                 => Cardinality(Inside') = Cardinality(Inside) + 1
           /\ t \in Inside => Cardinality(Inside) >= 1
           /\ t \in Inside /\ Inside' = Inside \ {t}
                 => Cardinality(Inside') = Cardinality(Inside) - 1
<1>1. t \notin Inside => Cardinality(Inside \cup {t}) = Cardinality(Inside) + 1
  BY InsideFinite, FS_AddElement, Zenon
<1>2. t \in Inside => Cardinality(Inside \ {t}) = Cardinality(Inside) - 1
  BY InsideFinite, FS_RemoveElement, Zenon
<1>3. t \in Inside => Cardinality(Inside) # 0
  BY InsideFinite, FS_EmptySet
<1>4. t \in Inside => Cardinality(Inside) >= 1
  <2> DEFINE c == Cardinality(Inside)
  <2>1. c \in Nat /\ (t \in Inside => c # 0)
    BY <1>3, InsideFinite
  <2> HIDE DEF c
  <2>2. t \in Inside => c >= 1
    BY <2>1
  <2> QED
    BY <2>2 DEF c
<1> QED
  BY <1>1, <1>2, <1>4, Zenon

\* A step that leaves the heights and the set of threads inside alone keeps
\* HeightInv.
LEMMA SameInside ==
    ASSUME HeightInv, Inside' = Inside, UNCHANGED <<total_height, curr_height>>
    PROVE  HeightInv'
<1>1. HeightExact' <=> \/ total_height' < Flag /\ total_height' = Cardinality(Inside')
                       \/ total_height' >= Flag /\ total_height' - Flag = Cardinality(Inside')
  BY DEF HeightExact, Inside
<1> QED
  BY <1>1 DEF HeightInv, HeightExact

-----------------------------------------------------------------------------

\* pthread_barrier_init leaves total_height 0 and nobody inside.
LEMMA BarrierInitInv == Init => BarrierInv
<1> SUFFICES ASSUME Init PROVE BarrierInv
  OBVIOUS
<1>1. CondTypeOK
  BY DEF Init, CondInit, CondTypeOK, CallStates, Results, AbsTimes
<1>2. HoldsMutex /\ WaitersExact
  BY DEF Init, CondInit, HoldsMutex, WaitersExact, Linked, IsInjective, Range
<1>3. IncondExact
  <2>1. {t \in Threads : cpc[t] \in {"wait", "relock"}} = {}
    BY DEF Init, CondInit
  <2> QED
    BY <2>1, FS_EmptySet, Zenon DEF Init, CondInit, IncondExact
<1>4. BarrierTypeOK
  BY <1>1, BarrierAssumption DEF Init, BarrierTypeOK, Labels
<1>5. PcInv
  BY DEF Init, CondInit, PcInv
<1>6. HeightInv
  <2>1. Inside = {}
    BY DEF Init, Inside
  <2> QED
    BY <2>1, FS_EmptySet, BarrierAssumption DEF Init, HeightInv, HeightExact
<1> QED
  BY <1>1, <1>2, <1>3, <1>4, <1>5, <1>6 DEF BarrierInv, CondInv

\* The steps of the condition variable and of its environment.
LEMMA CondStepInv ==
    ASSUME BarrierInv, NEW t \in Threads, CondStep(t)
    PROVE  BarrierInv'
<1>1. CondInv'
  BY CondWaitStepInv, EnvironmentInv DEF BarrierInv, CondStep
<1>2. BarrierTypeOK'
  BY <1>1 DEF CondInv, BarrierInv, BarrierTypeOK, CondStep, barrierVars
<1>3. PcInv'
  <2>1. CASE CondWaitStep(t)
    BY <2>1, ThreadsAssumption, SMTT(30)
       DEF BarrierInv, CondInv, CondTypeOK, PcInv, CondStep, barrierVars, CondWaitStep,
           Enqueue, UnlockToWait, Wake, Relock, Dequeue, MutexObtain, MutexRelease, Free
  <2>2. CASE Environment(t)
    BY <2>2, SMTT(30) DEF BarrierInv, PcInv, CondStep, barrierVars, Environment, Tick, TimerExpires,
                Break, Cancel
  <2> QED
    BY <2>1, <2>2 DEF CondStep
<1>4. HeightInv'
  BY SameInside DEF BarrierInv, CondStep, barrierVars, Inside
<1> QED
  BY <1>1, <1>2, <1>3, <1>4 DEF BarrierInv

\* Entering the call, the mutex, and the calls of the condition.
LEMMA OuterStepInv ==
    ASSUME BarrierInv, NEW t \in Threads,
           \/ BarrierCall(t) \/ BarrierLock(t) \/ BarrierUnlock(t)
           \/ EnterWait(t) \/ EnterAgain(t) \/ LoopWait(t) \/ LoopAgain(t)
    PROVE  BarrierInv'
<1> USE DEF BarrierInv
<1>1. Inside' = Inside /\ UNCHANGED <<total_height, curr_height>>
  BY SMTT(30) DEF BarrierTypeOK, Inside, BarrierCall, BarrierLock, BarrierUnlock, EnterWait, EnterAgain,
         LoopWait, LoopAgain, CondReturned, GoTo
<1>2. HeightInv'
  BY <1>1, SameInside
<1>3. CASE BarrierCall(t)
  <2>1. CondInv'
    BY <1>3, ClientInv, Zenon DEF BarrierCall, CondVars, CondInv, CondTypeOK
  <2>2. BarrierTypeOK'
    BY <1>3, <2>1 DEF BarrierCall, GoTo, CondInv, BarrierTypeOK, Labels
  <2>3. PcInv'
    BY <1>3 DEF BarrierCall, GoTo, CondVars, BarrierTypeOK, PcInv
  <2> QED
    BY <1>2, <2>1, <2>2, <2>3
<1>4. CASE BarrierLock(t)
  <2>1. CondInv'
    BY <1>4, ClientInv, SMTT(30) DEF BarrierLock, UnchangedRest, CondInv, CondTypeOK
  <2>2. BarrierTypeOK'
    BY <1>4, <2>1 DEF BarrierLock, GoTo, CondInv, BarrierTypeOK, Labels
  <2>3. PcInv'
    BY <1>4, ThreadsAssumption DEF BarrierLock, MutexObtain, Free, GoTo, BarrierTypeOK, PcInv
  <2> QED
    BY <1>2, <2>1, <2>2, <2>3
<1>5. CASE BarrierUnlock(t)
  <2>1. cpc[t] = "idle"
    BY <1>5, SMTT(30) DEF BarrierUnlock, PcInv
  <2>2. CondInv'
    BY <1>5, <2>1, ClientInv, SMTT(30) DEF BarrierUnlock, UnchangedRest, CondInv, CondTypeOK
  <2>3. BarrierTypeOK'
    BY <1>5, <2>2 DEF BarrierUnlock, GoTo, CondInv, BarrierTypeOK, Labels
  <2>4. PcInv'
    BY <1>5, ThreadsAssumption DEF BarrierUnlock, MutexRelease, GoTo, BarrierTypeOK, PcInv
  <2> QED
    BY <1>2, <2>2, <2>3, <2>4
<1>6. CASE EnterWait(t) \/ LoopWait(t)
  <2>1. cpc[t] = "idle" /\ owner = t /\ CallCondWait(t, "none") /\ "none" \in AbsTimes
    BY <1>6 DEF EnterWait, LoopWait, PcInv, AbsTimes
  <2>2. CondInv'
    BY <2>1, CallInv
  <2>3. BarrierTypeOK'
    BY <1>6, <2>2 DEF EnterWait, LoopWait, GoTo, CondInv, BarrierTypeOK, Labels
  <2>4. PcInv'
    BY <1>6, SMTT(30) DEF EnterWait, LoopWait, CallCondWait, GoTo, CondTypeOK, BarrierTypeOK, PcInv
  <2> QED
    BY <1>2, <2>2, <2>3, <2>4
<1>7. CASE EnterAgain(t) \/ LoopAgain(t)
  <2> USE DEF EnterAgain, LoopAgain, CondReturned, UnchangedRest
  <2>1. CondInv'
    BY <1>7, ReturnInv, Zenon DEF CondInv, CondTypeOK
  <2>2. BarrierTypeOK'
    BY <1>7, <2>1 DEF GoTo, CondInv, BarrierTypeOK, Labels
  <2>3. PcInv'
    BY <1>7, ZenonT(30) DEF GoTo, CondInv, HoldsMutex, CondTypeOK, BarrierTypeOK, PcInv
  <2> QED
    BY <1>2, <2>1, <2>2, <2>3
<1> QED
  BY <1>3, <1>4, <1>5, <1>6, <1>7

\* Arriving, opening the barrier and leaving it.
LEMMA InnerStepInv ==
    ASSUME BarrierInv, NEW t \in Threads, Arrive(t) \/ Trip(t) \/ LeaveLoop(t)
    PROVE  BarrierInv'
<1> USE DEF BarrierInv
<1> DEFINE c == Cardinality(Inside)
<1>1. c \in Nat /\ total_height \in Nat /\ Flag \in Nat
  BY InsideFinite, BarrierAssumption DEF BarrierTypeOK
<1>2. UNCHANGED <<owner, incond, waiters, cpc, abstime, armed, cret, canceled, left, curr_height>>
  BY DEF Arrive, Trip, LeaveLoop, UnchangedRest, CondVars
<1>3. CondInv'
  <2>1. UNCHANGED sig \/ CondBroadcast
    BY DEF Arrive, Trip, LeaveLoop, CondVars
  <2> QED
    BY <1>2, <2>1, ClientInv, Zenon DEF CondInv, CondTypeOK
<1>4. PcInv'
  BY <1>2, SMTT(30) DEF Arrive, Trip, LeaveLoop, GoTo, BarrierTypeOK, PcInv
<1>5. HeightExact' <=> \/ total_height' < Flag /\ total_height' = Cardinality(Inside')
                       \/ total_height' >= Flag /\ total_height' - Flag = Cardinality(Inside')
  BY SMTT(30) DEF HeightExact, Inside
<1>6. \/ total_height < Flag /\ total_height = c
      \/ total_height >= Flag /\ total_height - Flag = c
  BY Zenon DEF HeightInv, HeightExact
<1>7. curr_height \in 1..Flag /\ (total_height < Flag => total_height < curr_height)
  BY DEF HeightInv
<1>8. total_height' \in Nat /\ HeightInv'
  <2>1. CASE Arrive(t)
    <3>1. t \notin Inside /\ Inside' = Inside \cup {t}
      BY <2>1 DEF Arrive, GoTo, Inside, BarrierTypeOK
    <3>2. Cardinality(Inside') = c + 1
      BY <3>1, InsideCount, Zenon
    <3>3. /\ total_height <= Flag /\ total_height' # curr_height
          /\ total_height' = IF total_height = Flag THEN 1 ELSE total_height + 1
      BY <2>1, SMTT(30) DEF Arrive, Arrived
    <3> HIDE DEF c
    <3>4. total_height' = c + 1 /\ total_height' < curr_height /\ total_height' < Flag
      BY <3>3, <1>1, <1>6, <1>7
    <3> QED
      BY <3>2, <3>4, <1>1, <1>2, <1>5, <1>7 DEF HeightInv
  <2>2. CASE Trip(t)
    <3>1. Inside' = Inside
      BY <2>2 DEF Trip, GoTo, Inside, BarrierTypeOK
    <3>2. /\ total_height <= Flag
          /\ total_height' = (IF total_height = Flag THEN 1 ELSE total_height + 1) + Flag - 1
      BY <2>2 DEF Trip, Arrived
    <3>3. Cardinality(Inside') = c
      BY <3>1
    <3> HIDE DEF c
    <3>4. total_height' \in Nat /\ total_height' >= Flag /\ total_height' - Flag = c
      BY <3>2, <1>1, <1>6, <1>7
    <3>5. ~(total_height' < Flag)
      BY <3>4, <1>1
    <3>6. HeightExact'
      BY <3>3, <3>4, <1>5
    <3> QED
      BY <3>4, <3>5, <3>6, <1>2, <1>7 DEF HeightInv
  <2>3. CASE LeaveLoop(t)
    <3>1. t \in Inside /\ Inside' = Inside \ {t}
      BY <2>3 DEF LeaveLoop, GoTo, Inside, BarrierTypeOK
    <3>2. Cardinality(Inside') = c - 1 /\ c >= 1
      BY <3>1, InsideCount
    <3>3. total_height >= Flag /\ total_height' = total_height - 1
      BY <2>3 DEF LeaveLoop
    <3> HIDE DEF c
    <3>4. total_height' \in Nat /\ total_height' >= Flag /\ total_height' - Flag = c - 1
      BY <3>2, <3>3, <1>1, <1>6
    <3>5. ~(total_height' < Flag)
      BY <3>4, <1>1
    <3>6. HeightExact'
      BY <3>2, <3>4, <1>5
    <3> QED
      BY <3>4, <3>5, <3>6, <1>2, <1>7 DEF HeightInv
  <2> QED
    BY <2>1, <2>2, <2>3
<1>9. BarrierTypeOK'
  BY <1>2, <1>3, <1>8 DEF Arrive, Trip, LeaveLoop, GoTo, CondInv, BarrierTypeOK, Labels
<1> QED
  BY <1>3, <1>4, <1>8, <1>9

\* Every step of pthread_barrier_wait keeps the invariant.
LEMMA BarrierStepInv == BarrierInv /\ [Next]_vars => BarrierInv'
<1> SUFFICES ASSUME BarrierInv, [Next]_vars PROVE BarrierInv'
  OBVIOUS
<1>1. CASE UNCHANGED vars
  BY <1>1, Zenon DEF vars, CondVars, barrierVars, BarrierInv, CondInv, CondTypeOK, HoldsMutex,
              WaitersExact, IncondExact, BarrierTypeOK, PcInv, HeightInv, HeightExact, Inside
<1>2. ASSUME NEW t \in Threads, BarrierWait(t) PROVE BarrierInv'
  BY <1>2, OuterStepInv, InnerStepInv DEF BarrierWait
<1>3. ASSUME NEW t \in Threads, CondStep(t) PROVE BarrierInv'
  BY <1>3, CondStepInv
<1> QED
  BY <1>1, <1>2, <1>3 DEF Next, Terminated

\* total_height counts exactly the threads held or still to leave, whatever
\* spurious wake-ups, early re-entries, cancellations and CTRL-C occur.
THEOREM BarrierSafety == Spec => [](BarrierTypeOK /\ HeightExact)
<1>1. BarrierInv => BarrierTypeOK /\ HeightExact
  BY DEF BarrierInv, HeightInv
<1> QED
  BY <1>1, BarrierInitInv, BarrierStepInv, PTL DEF Spec

-----------------------------------------------------------------------------
(* The rounds, when every thread takes part in each of them. *)

\* How many more times the barrier has to open for a thread: the waits that
\* it has not begun, and the one in which it has yet to be released.
ToOpen(t) ==
    left[t] + IF \/ pc[t] \in {"lock", "enter", "econd"}
                 \/ pc[t] \in {"loop", "lcond"} /\ total_height < Flag
              THEN 1 ELSE 0

\* All threads are in the same round.
RoundInv ==
    curr_height = Cardinality(Threads) => \A t, u \in Threads : ToOpen(t) = ToOpen(u)

\* Nobody is inside when the height is at the flag.
LEMMA NobodyInside ==
    ASSUME BarrierInv, total_height = Flag
    PROVE  Inside = {}
<1> DEFINE c == Cardinality(Inside)
<1>1. c \in Nat /\ Flag \in Nat
  BY InsideFinite, BarrierAssumption
<1>2. \/ total_height < Flag /\ total_height = c
      \/ total_height >= Flag /\ total_height - Flag = c
  BY DEF BarrierInv, HeightInv, HeightExact
<1>3. c = 0
  <2> HIDE DEF c
  <2> QED
    BY <1>1, <1>2
<1> QED
  BY <1>3, InsideFinite, FS_EmptySet

\* A thread that leaves the loop was counted, so that the height stays at
\* the flag or above.
LEMMA LeaverCounted ==
    ASSUME BarrierInv, NEW t \in Threads, LeaveLoop(t)
    PROVE  total_height > Flag /\ total_height' >= Flag
<1>1. total_height # Flag
  <2>1. t \in Inside
    BY DEF LeaveLoop, Inside
  <2> QED
    BY <2>1, NobodyInside
<1> QED
  BY <1>1, BarrierAssumption DEF LeaveLoop, BarrierInv, BarrierTypeOK

\* The last thread to arrive is the only one that is not inside, when the
\* barrier counts all the threads.
LEMMA LastArrives ==
    ASSUME BarrierInv, NEW t \in Threads, Trip(t), curr_height = Cardinality(Threads)
    PROVE  /\ \A u \in Threads : u # t => u \in Inside /\ total_height < Flag
<1> DEFINE c == Cardinality(Inside)
           n == Cardinality(Threads)
<1>1. c \in Nat /\ Flag \in Nat /\ total_height \in Nat
  BY InsideFinite, BarrierAssumption DEF BarrierInv, BarrierTypeOK
<1>2. \/ total_height < Flag /\ total_height = c
      \/ total_height >= Flag /\ total_height - Flag = c
  BY DEF BarrierInv, HeightInv, HeightExact
<1>3. total_height <= Flag /\ n = IF total_height = Flag THEN 1 ELSE total_height + 1
  BY DEF Trip, Arrived
<1>4. c + 1 = n /\ (total_height = Flag => n = 1 /\ c = 0)
  <2> HIDE DEF c, n
  <2> QED
    BY <1>1, <1>2, <1>3
<1>5. t \notin Inside
  BY DEF Trip, Inside
<1>6. Cardinality(Inside \cup {t}) = n
  BY <1>4, <1>5, InsideFinite, FS_AddElement, Zenon
<1>7. Inside \cup {t} \subseteq Threads
  BY DEF Inside
<1>8. Inside \cup {t} = Threads
  BY <1>6, <1>7, ThreadsAssumption, FS_Subset
<1>9. ASSUME NEW u \in Threads, u # t PROVE u \in Inside /\ total_height < Flag
  <2>1. u \in Inside
    BY <1>8, <1>9
  <2>2. total_height # Flag
    BY <2>1, NobodyInside
  <2> QED
    BY <2>1, <2>2, <1>1, <1>3
<1> QED
  BY <1>9

\* Opening the barrier is a round less for everybody, and no other step
\* changes what a thread has still before it.
LEMMA RoundStep ==
    ASSUME BarrierInv, RoundInv, NEW t \in Threads, BarrierWait(t) \/ CondStep(t)
    PROVE  RoundInv'
<1>1. curr_height' = curr_height
  BY Zenon DEF BarrierWait, CondStep, barrierVars, BarrierCall, BarrierLock, EnterWait, EnterAgain,
         CondReturned, Arrive, Trip, LoopWait, LoopAgain, LeaveLoop, BarrierUnlock
<1> SUFFICES ASSUME curr_height = Cardinality(Threads), NEW u \in Threads, NEW v \in Threads
             PROVE  ToOpen(u)' = ToOpen(v)'
  BY <1>1 DEF RoundInv
<1>2. ToOpen(u) = ToOpen(v)
  BY DEF RoundInv
<1>3. /\ pc \in [Threads -> Labels] /\ left \in [Threads -> Nat]
      /\ total_height \in Nat /\ Flag \in Nat
  BY BarrierAssumption DEF BarrierInv, BarrierTypeOK
<1>4. CASE Trip(t)
  <2>1. \A w \in Threads : w # t => w \in Inside /\ total_height < Flag
    BY <1>4, LastArrives
  <2>2. total_height' >= Flag /\ ~(total_height' < Flag)
    BY <1>3, <1>4 DEF Trip, Arrived
  <2>3. ASSUME NEW w \in Threads PROVE ToOpen(w)' = left[w] /\ ToOpen(w) = left[w] + 1
    BY <2>1, <2>2, <1>3, <1>4 DEF Trip, GoTo, ToOpen, Inside
  <2>4. left[u] \in Nat /\ left[v] \in Nat
    BY <1>3
  <2> QED
    BY <2>3, <2>4, <1>2
<1>5. CASE ~Trip(t)
  <2>1. ASSUME NEW w \in Threads PROVE ToOpen(w)' = ToOpen(w)
    <3>1. CASE CondStep(t)
      BY <3>1 DEF CondStep, barrierVars, ToOpen
    <3>2. CASE BarrierCall(t)
      BY <3>2, <1>3 DEF BarrierCall, GoTo, ToOpen
    <3>3. CASE BarrierLock(t) \/ EnterWait(t) \/ EnterAgain(t) \/ LoopWait(t) \/ LoopAgain(t)
                 \/ BarrierUnlock(t)
      BY <3>3, <1>3, Zenon DEF BarrierLock, EnterWait, EnterAgain, LoopWait, LoopAgain, CondReturned,
                        BarrierUnlock, GoTo, ToOpen
    <3>4. CASE Arrive(t)
      <4>1. total_height = Flag => pc[w] \notin {"loop", "lcond"}
        BY NobodyInside DEF Inside
      <4>2. total_height' < Flag
        BY <3>4, <1>3 DEF Arrive, Arrived, BarrierInv, HeightInv
      <4> QED
        BY <3>4, <4>1, <4>2, <1>3 DEF Arrive, GoTo, ToOpen
    <3>5. CASE LeaveLoop(t)
      <4>1. ~(total_height < Flag) /\ ~(total_height' < Flag)
        BY <3>5, <1>3, LeaverCounted, SMTT(30) DEF LeaveLoop
      <4> QED
        BY <3>5, <4>1, <1>3 DEF LeaveLoop, GoTo, ToOpen
    <3> QED
      BY <3>1, <3>2, <3>3, <3>4, <3>5, <1>5 DEF BarrierWait
  <2> QED
    BY <2>1, <1>2
<1> QED
  BY <1>4, <1>5

-----------------------------------------------------------------------------
(* pthread_barrier_destroy *)

\* While the destroyer checks the height it has the mutex and is done with
\* its own waits; once it has seen the height at the flag everybody is out.
DestroyInv ==
    /\ dpc \in {"out", "check", "cond", "mutex", "done"}
    /\ dpc = "check" => /\ owner = Destroyer
                        /\ pc[Destroyer] = "out" /\ left[Destroyer] = 0
                        /\ curr_height = Cardinality(Threads)
    /\ dpc \in {"cond", "mutex", "done"} \/ freed # {} => AllPassed

\* The barrier is intact until the destroyer clears it.
DInv ==
    /\ DestroyInv
    /\ dpc # "done" => BarrierInv /\ RoundInv
    /\ dpc = "done" => total_height = 0 /\ curr_height = 0

\* Before any call the destroyer has not begun.
LEMMA DInitInv == DInit => DInv
<1> SUFFICES ASSUME DInit PROVE DInv
  OBVIOUS
<1>1. BarrierInv
  BY BarrierInitInv DEF DInit
<1>2. RoundInv
  BY DEF DInit, Init, RoundInv, ToOpen
<1> QED
  BY <1>1, <1>2 DEF DInit, DInv, DestroyInv

\* When everybody has passed, the code of the barrier has nothing to do.
LEMMA PassedStep ==
    ASSUME AllPassed, NEW t \in Threads, BarrierWait(t) \/ CondStep(t)
    PROVE  CondStep(t) /\ UNCHANGED barrierVars
<1>1. pc[t] = "out" /\ left[t] = 0
  BY SMTT(30) DEF AllPassed
<1> QED
  BY <1>1, SMTT(30) DEF BarrierWait, CondStep, BarrierCall, BarrierLock, EnterWait, EnterAgain,
              CondReturned, Arrive, Trip, LoopWait, LoopAgain, LeaveLoop, BarrierUnlock

\* The destroyer keeps the mutex while it checks, whatever others do.
LEMMA CheckKept ==
    ASSUME BarrierInv, owner = Destroyer, pc[Destroyer] = "out", left[Destroyer] = 0,
           NEW t \in Threads, BarrierWait(t) \/ CondStep(t)
    PROVE  UNCHANGED <<owner, pc[Destroyer], left[Destroyer], curr_height>>
<1>1. /\ pc \in [Threads -> Labels] /\ left \in [Threads -> Nat] /\ owner \in Threads
      /\ Destroyer # NoThread /\ cpc[Destroyer] = "idle" /\ Destroyer \in Threads
      /\ cpc \in [Threads -> CallStates]
  BY ThreadsAssumption, DestroyerAssumption, Zenon
     DEF BarrierInv, BarrierTypeOK, PcInv, CondTypeOK
<1>2. CASE CondStep(t)
  <2>1. UNCHANGED barrierVars
    BY <1>2 DEF CondStep
  <2>2. UNCHANGED owner
    <3>1. CASE Environment(t)
      BY <3>1, Zenon DEF Environment, Tick, TimerExpires, Break, Cancel
    <3>2. CASE Enqueue(t) \/ Wake(t) \/ Dequeue(t)
      BY <3>2 DEF Enqueue, Wake, Dequeue
    <3>3. CASE Relock(t) \/ UnlockToWait(t)
      BY <3>3, <1>1 DEF Relock, UnlockToWait, MutexObtain, MutexRelease, Free
    <3> QED
      BY <3>1, <3>2, <3>3, <1>2, Zenon DEF CondStep, CondWaitStep
  <2> QED
    BY <2>1, <2>2 DEF barrierVars
<1>3. CASE BarrierWait(t)
  <2>1. t # Destroyer
    <3>1. pc[t] # "out" \/ left[t] > 0
      BY <1>3, Zenon
         DEF BarrierWait, BarrierCall, BarrierLock, EnterWait, EnterAgain, CondReturned, Arrive, Trip,
             LoopWait, LoopAgain, LeaveLoop, BarrierUnlock
    <3>2. ~(0 > 0)
      OBVIOUS
    <3> QED
      BY <3>1, <3>2, Zenon
  <2>2. CASE BarrierLock(t) \/ BarrierUnlock(t)
    BY <2>1, <2>2, <1>1 DEF BarrierLock, BarrierUnlock, MutexObtain, MutexRelease, Free
  <2>3. CASE ~(BarrierLock(t) \/ BarrierUnlock(t))
    BY <2>1, <2>3, <1>1, <1>3, Zenon
       DEF BarrierWait, BarrierCall, EnterWait, EnterAgain, CondReturned, Arrive, Trip,
           LoopWait, LoopAgain, LeaveLoop, GoTo, CondVars, CallCondWait
  <2> QED
    BY <2>2, <2>3, Zenon
<1> QED
  BY <1>2, <1>3, Zenon

\* A step of a thread in pthread_barrier_wait.
LEMMA DStepInv ==
    ASSUME DInv, NEW t \in Threads, DStep(t)
    PROVE  DInv'
<1>1. (BarrierWait(t) \/ CondStep(t)) /\ UNCHANGED <<dpc, freed>>
  BY DEF DStep
<1>2. AllPassed => UNCHANGED barrierVars /\ AllPassed'
  BY <1>1, PassedStep, Zenon DEF AllPassed, barrierVars
<1>3. dpc # "done" => BarrierInv' /\ RoundInv'
  BY <1>1, OuterStepInv, InnerStepInv, CondStepInv, RoundStep, SMTT(30) DEF BarrierWait, DInv
<1>4. dpc = "check" =>
          UNCHANGED <<owner, pc[Destroyer], left[Destroyer], curr_height>>
  BY <1>1, CheckKept, Zenon DEF DInv, DestroyInv
<1>5. DestroyInv'
  BY <1>1, <1>2, <1>4, SMTT(30) DEF DInv, DestroyInv
<1>6. dpc = "done" => UNCHANGED barrierVars
  BY <1>2 DEF DInv, DestroyInv
<1> QED
  BY <1>1, <1>3, <1>5, <1>6 DEF DInv, barrierVars

\* The destroyer sees the height at the flag, or below: then everybody has
\* been released from the last round and has left, since a thread on its way
\* out would have the mutex.
LEMMA CheckedEmpty ==
    ASSUME DInv, dpc = "check", ~(total_height > Flag)
    PROVE  AllPassed
<1>1. BarrierInv /\ RoundInv /\ owner = Destroyer /\ pc[Destroyer] = "out" /\ left[Destroyer] = 0
      /\ curr_height = Cardinality(Threads)
  BY DEF DInv, DestroyInv
<1>2. /\ pc \in [Threads -> Labels] /\ left \in [Threads -> Nat]
      /\ total_height \in Nat /\ Flag \in Nat
  BY <1>1, BarrierAssumption DEF BarrierInv, BarrierTypeOK
<1> SUFFICES ASSUME NEW t \in Threads PROVE pc[t] = "out" /\ left[t] = 0
  BY DEF AllPassed
<1>3. ToOpen(t) = 0
  <2>1. ToOpen(t) = ToOpen(Destroyer)
    BY <1>1, DestroyerAssumption DEF RoundInv
  <2>2. ToOpen(Destroyer) = 0
    BY <1>1, SMTT(30) DEF ToOpen
  <2> QED
    BY <2>1, <2>2
<1>4. /\ left[t] = 0 /\ pc[t] \notin {"lock", "enter", "econd"}
      /\ ~(pc[t] \in {"loop", "lcond"} /\ total_height < Flag)
  BY <1>2, <1>3 DEF ToOpen
<1>5. total_height = Flag => pc[t] \notin {"loop", "lcond"}
  BY <1>1, NobodyInside DEF Inside
<1>6. pc[t] \notin {"loop", "lcond"}
  BY <1>2, <1>4, <1>5
<1>7. pc[t] \notin {"unlock", "unlockS"}
  <2>1. pc[t] \in {"unlock", "unlockS"} => owner = t
    BY <1>1 DEF BarrierInv, PcInv
  <2> QED
    BY <2>1, <1>1
<1> QED
  BY <1>2, <1>4, <1>6, <1>7 DEF Labels

\* A step of pthread_barrier_destroy.
LEMMA DestroyStepInv ==
    ASSUME DInv, pthread_barrier_destroy
    PROVE  DInv'
<1>1. dpc # "done" /\ BarrierInv /\ RoundInv
  BY SMTT(30) DEF DInv, pthread_barrier_destroy, DestroyTry, DestroyCheck, DestroyCond, DestroyMutex
<1>2. CASE DestroyTry \/ DestroyCheck
  <2>1. /\ MutexObtain(Destroyer) \/ MutexRelease(Destroyer)
        /\ UnchangedRest /\ UNCHANGED <<sig, cpc, barrierVars, freed>>
    BY <1>2, SMTT(30) DEF DestroyTry, DestroyCheck
  <2>2. pc[Destroyer] = "out" /\ cpc[Destroyer] = "idle"
    BY <1>1, <1>2, DestroyerAssumption, Zenon
       DEF DestroyTry, DestroyCheck, DInv, DestroyInv, BarrierInv, PcInv
  <2>3. CondInv'
    BY <1>1, <2>1, <2>2, DestroyerAssumption, ClientInv, Zenon
       DEF BarrierInv, CondInv, CondTypeOK, UnchangedRest
  <2>4. BarrierTypeOK' /\ RoundInv' /\ HeightInv'
    BY <1>1, <2>1, <2>3, SameInside, SMTT(30)
       DEF BarrierInv, CondInv, BarrierTypeOK, barrierVars, Inside, RoundInv, ToOpen
  <2>5. PcInv'
    BY <1>1, <2>1, <2>2, ThreadsAssumption, DestroyerAssumption, Zenon
       DEF BarrierInv, PcInv, barrierVars, MutexObtain, MutexRelease, Free
  <2>6. BarrierInv' /\ RoundInv'
    BY <2>3, <2>4, <2>5 DEF BarrierInv
  <2>7. AllPassed' <=> AllPassed
    BY <2>1 DEF AllPassed, barrierVars
  <2>8. CASE DestroyTry
    BY <2>6, <2>7, <2>8, DestroyerAssumption, Zenon
       DEF DestroyTry, DInv, DestroyInv, barrierVars, MutexObtain
  <2>9. CASE DestroyCheck
    <3>1. dpc' \in {"out", "cond"} /\ (dpc' = "cond" => AllPassed)
      BY <2>9, CheckedEmpty DEF DestroyCheck
    <3> QED
      BY <3>1, <2>1, <2>6, <2>7, SMTT(30) DEF DInv, DestroyInv
  <2> QED
    BY <1>2, <2>8, <2>9
<1>3. CASE DestroyCond
  <2>1. UNCHANGED vars /\ AllPassed /\ dpc' \in {"mutex", "out"}
    BY <1>3 DEF DestroyCond, DInv, DestroyInv
  <2>2. BarrierInv'
    BY <1>1, <2>1, BarrierStepInv
  <2>3. RoundInv' /\ AllPassed'
    BY <1>1, <2>1, Zenon DEF vars, barrierVars, RoundInv, ToOpen, AllPassed
  <2> QED
    BY <2>1, <2>2, <2>3, SMTT(30) DEF DInv, DestroyInv
<1>4. CASE DestroyMutex
  BY <1>4, SMTT(30) DEF DestroyMutex, DInv, DestroyInv, AllPassed
<1> QED
  BY <1>2, <1>3, <1>4 DEF pthread_barrier_destroy

\* Every step of the barrier and of its destroyer keeps the invariant.
LEMMA DNextInv == DInv /\ [DNext]_allVars => DInv'
<1> SUFFICES ASSUME DInv, [DNext]_allVars PROVE DInv'
  OBVIOUS
<1>1. CASE UNCHANGED allVars
  <2>1. UNCHANGED vars /\ UNCHANGED <<dpc, freed>>
    BY <1>1 DEF allVars
  <2>2. dpc # "done" => BarrierInv'
    BY <2>1, BarrierStepInv DEF DInv
  <2> QED
    BY <2>1, <2>2, SMTT(30)
       DEF vars, CondVars, barrierVars, DInv, DestroyInv, AllPassed, RoundInv, ToOpen
<1> QED
  BY <1>1, DStepInv, DestroyStepInv DEF DNext, DTerminated

\* Nothing of the barrier is freed while a thread is inside
\* pthread_barrier_wait, when all threads take part in the last round.
THEOREM BarrierDestroySafety == DSpec => []FreedWhenEmpty
<1>1. DInv => FreedWhenEmpty
  BY DEF DInv, DestroyInv, FreedWhenEmpty
<1> QED
  BY <1>1, DInitInv, DNextInv, PTL DEF DSpec

-----------------------------------------------------------------------------
(* The barrier implements the abstract one. *)

\* The threads that the abstract barrier holds are the ones inside, until
\* the barrier opens.
LEMMA HeldInside ==
    ASSUME BarrierInv
    PROVE  /\ total_height < Flag => Abs!Held = Inside
           /\ total_height >= Flag => Abs!Held = {}
           /\ total_height <= Flag => Abs!Cardinality(Abs!Held) + 1 = Arrived
<1>1. total_height \in Nat /\ Flag \in Nat /\ pc \in [Threads -> Labels]
  BY BarrierAssumption DEF BarrierInv, BarrierTypeOK
<1>2. total_height < Flag => Abs!Held = Inside
  BY <1>1 DEF Abs!Held, AbsState, Inside, Labels
<1>3. total_height >= Flag => Abs!Held = {}
  BY <1>1 DEF Abs!Held, AbsState, Labels
<1>4. total_height < Flag => Cardinality(Inside) = total_height
  BY <1>1 DEF BarrierInv, HeightInv, HeightExact
<1>5. total_height <= Flag => Cardinality(Abs!Held) + 1 = Arrived
  <2>1. CASE total_height < Flag
    BY <2>1, <1>1, <1>2, <1>4 DEF Arrived
  <2>2. CASE total_height = Flag
    BY <2>2, <1>1, <1>3, FS_EmptySet DEF Arrived
  <2> QED
    BY <2>1, <2>2, <1>1
<1>6. Abs!Cardinality(Abs!Held) = Cardinality(Abs!Held)
  BY Zenon DEF Abs!Cardinality, Cardinality
<1> QED
  BY <1>2, <1>3, <1>5, <1>6

\* Arriving, opening and leaving are the steps of the abstract barrier;
\* the rest of pthread_barrier_wait is invisible.
LEMMA AbsBarrierStep ==
    ASSUME BarrierInv, NEW t \in Threads, BarrierWait(t) \/ CondStep(t)
    PROVE  [Abs!AbsNext]_<<curr_height, AbsState>>
<1>1. /\ total_height \in Nat /\ Flag \in Nat /\ pc \in [Threads -> Labels]
      /\ curr_height \in 1..Flag
  BY BarrierAssumption DEF BarrierInv, BarrierTypeOK, HeightInv
<1>2. CASE CondStep(t)
  BY <1>2 DEF CondStep, barrierVars, AbsState
<1>3. CASE BarrierCall(t) \/ BarrierLock(t) \/ EnterWait(t) \/ EnterAgain(t) \/ LoopWait(t)
             \/ LoopAgain(t)
  <2>1. UNCHANGED <<curr_height, total_height>>
    BY <1>3, Zenon DEF BarrierCall, BarrierLock, EnterWait, EnterAgain, LoopWait, LoopAgain, CondReturned
  <2>2. \/ pc[t] \in {"out", "lock", "enter", "econd"} /\ pc' = [pc EXCEPT ![t] = "lock"]
        \/ pc[t] \in {"out", "lock", "enter", "econd"} /\ pc' = [pc EXCEPT ![t] = "enter"]
        \/ pc[t] \in {"out", "lock", "enter", "econd"} /\ pc' = [pc EXCEPT ![t] = "econd"]
        \/ pc[t] \in {"loop", "lcond"} /\ pc' = [pc EXCEPT ![t] = "loop"]
        \/ pc[t] \in {"loop", "lcond"} /\ pc' = [pc EXCEPT ![t] = "lcond"]
    BY <1>3, Zenon DEF BarrierCall, BarrierLock, EnterWait, EnterAgain, LoopWait, LoopAgain,
                CondReturned, GoTo
  <2>3. UNCHANGED AbsState
    BY <2>1, <2>2, <1>1 DEF AbsState
  <2> QED
    BY <2>1, <2>3
<1>4. CASE Arrive(t)
  <2>1. /\ pc[t] = "enter" /\ total_height <= Flag /\ Arrived # curr_height
        /\ total_height' = Arrived /\ pc' = [pc EXCEPT ![t] = "loop"] /\ UNCHANGED curr_height
    BY <1>4 DEF Arrive, GoTo
  <2>2. total_height' < Flag
    BY <1>1, <2>1 DEF Arrived, BarrierInv, HeightInv
  <2>3. total_height = Flag => \A u \in Threads : pc[u] \notin {"loop", "lcond"}
    BY NobodyInside DEF Inside
  <2>4. AbsState[t] = "out"
    BY <2>1 DEF AbsState
  <2>5. AbsState' = [AbsState EXCEPT ![t] = "held"]
    <3>1. AbsState'[t] = "held"
      BY <1>1, <2>1, <2>2 DEF AbsState
    <3>2. ASSUME NEW u \in Threads, u # t PROVE AbsState'[u] = AbsState[u]
      <4>1. pc'[u] = pc[u]
        BY <1>1, <2>1, <3>2
      <4>2. pc[u] \in {"loop", "lcond"} => total_height < Flag
        BY <1>1, <2>1, <2>3
      <4> QED
        BY <2>2, <4>1, <4>2 DEF AbsState
    <3> QED
      BY <3>1, <3>2, Zenon DEF AbsState
  <2>6. Abs!Cardinality(Abs!Held) + 1 # curr_height
    BY <2>1, HeldInside
  <2>7. Abs!Arrive(t)
    BY <2>1, <2>4, <2>5, <2>6, SMTT(30) DEF Abs!Arrive
  <2> QED
    BY <2>7 DEF Abs!AbsNext
<1>5. CASE Trip(t)
  <2>1. /\ pc[t] = "enter" /\ total_height <= Flag /\ Arrived = curr_height
        /\ total_height' = Arrived + Flag - 1 /\ pc' = [pc EXCEPT ![t] = "unlockS"]
        /\ UNCHANGED curr_height
    BY <1>5 DEF Trip, GoTo
  <2>2. ~(total_height' < Flag)
    BY <1>1, <2>1 DEF Arrived
  <2>3. total_height = Flag => \A u \in Threads : pc[u] \notin {"loop", "lcond"}
    BY NobodyInside DEF Inside
  <2>4. AbsState[t] = "out"
    BY <2>1 DEF AbsState
  <2>5. AbsState' = [u \in Threads |-> IF u = t THEN "serial"
                                       ELSE IF u \in Abs!Held THEN "free" ELSE AbsState[u]]
    BY <1>1, <2>1, <2>2, <2>3 DEF AbsState, Abs!Held
  <2>6. Abs!Cardinality(Abs!Held) + 1 = curr_height
    BY <2>1, HeldInside
  <2>7. Abs!Trip(t)
    BY <2>1, <2>4, <2>5, <2>6 DEF Abs!Trip
  <2> QED
    BY <2>7, SMTT(30) DEF Abs!AbsNext
<1>6. CASE LeaveLoop(t)
  <2>1. /\ pc[t] = "loop" /\ pc' = [pc EXCEPT ![t] = "unlock"]
        /\ ~(total_height < Flag) /\ ~(total_height' < Flag) /\ UNCHANGED curr_height
    <3>1. total_height > Flag
      BY <1>6, LeaverCounted
    <3> QED
      BY <3>1, <1>1, <1>6 DEF LeaveLoop, GoTo
  <2> QED
    BY <1>1, <2>1 DEF AbsState
<1>7. CASE BarrierUnlock(t)
  <2>1. /\ pc[t] \in {"unlock", "unlockS"} /\ pc' = [pc EXCEPT ![t] = "out"]
        /\ UNCHANGED <<total_height, curr_height>>
    BY <1>7 DEF BarrierUnlock, GoTo
  <2>2. AbsState[t] \in {"free", "serial"} /\ AbsState' = [AbsState EXCEPT ![t] = "out"]
    BY <1>1, <2>1, Zenon DEF AbsState
  <2> QED
    BY <2>1, <2>2, Zenon DEF Abs!AbsNext, Abs!Leave
<1> QED
  BY <1>2, <1>3, <1>4, <1>5, <1>6, <1>7, SMTT(30) DEF BarrierWait

\* The same for all steps of the barrier with its destroyer, which clears
\* the barrier when the abstract one has nobody at it.
LEMMA AbsStep == DInv /\ [DNext]_allVars => [Abs!AbsNext]_<<curr_height, AbsState>>
<1> SUFFICES ASSUME DInv, [DNext]_allVars PROVE [Abs!AbsNext]_<<curr_height, AbsState>>
  OBVIOUS
<1>1. CASE UNCHANGED allVars
  BY <1>1 DEF allVars, vars, barrierVars, AbsState
<1>2. ASSUME NEW t \in Threads, DStep(t) PROVE [Abs!AbsNext]_<<curr_height, AbsState>>
  <2>1. BarrierWait(t) \/ CondStep(t)
    BY <1>2 DEF DStep
  <2>2. CASE dpc = "done"
    BY <2>1, <2>2, PassedStep DEF DInv, DestroyInv, barrierVars, AbsState
  <2>3. CASE dpc # "done"
    BY <2>1, <2>3, AbsBarrierStep DEF DInv
  <2> QED
    BY <2>2, <2>3
<1>3. CASE DestroyTry \/ DestroyCheck \/ DestroyCond
  BY <1>3 DEF DestroyTry, DestroyCheck, DestroyCond, vars, barrierVars, AbsState
<1>4. CASE DestroyMutex
  <2>1. AllPassed /\ UNCHANGED pc /\ curr_height' = 0
    BY <1>4 DEF DestroyMutex, DInv, DestroyInv
  <2>2. (\A t \in Threads : AbsState[t] = "out") /\ UNCHANGED AbsState
    BY <2>1 DEF AllPassed, AbsState
  <2> QED
    BY <2>1, <2>2 DEF Abs!AbsNext, Abs!Destroy
<1> QED
  BY <1>1, <1>2, <1>3, <1>4 DEF DNext, DTerminated, pthread_barrier_destroy

\* pthread_barrier_wait with pthread_barrier_destroy implements the abstract
\* barrier: threads are held until as many as the barrier counts have
\* arrived, exactly these go free, one of them as the serial thread.
THEOREM BarrierRefinement == DSpec => ImplementsAbstractBarrier
<1>1. DInit => Abs!AbsInit
  BY BarrierAssumption DEF DInit, Init, Abs!AbsInit, AbsState
<1> QED
  BY <1>1, DInitInv, DNextInv, AbsStep, PTL DEF DSpec, ImplementsAbstractBarrier, Abs!AbsSpec

=============================================================================
