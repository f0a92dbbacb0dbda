--------------------------- MODULE PosixSemProofs ---------------------------
(***************************************************************************)
(* The semaphore for any number of threads, any scripts and any timeouts,  *)
(* cancellations and CTRL-C: its calls are those of AbstractSem, and while *)
(* nobody destroys it, counter and waiters_count change only under the     *)
(* mutex and waiters_count is exact.  If the thread that takes the last    *)
(* token destroys it, nobody else is left in a call when anything is       *)
(* freed: DestroyInv counts the tokens that were posted and taken.         *)
(***************************************************************************)
EXTENDS PosixSem, CondProofs

SemTypes ==
    /\ use \in Scenario
    /\ value \in 0..SEM_VALUE_MAX
    /\ pc \in [Threads -> Labels]
    /\ ip \in [Threads -> Nat]
    /\ res \in [Threads -> SemResults]

\* The mutex is held wherever the code relies on it, and a thread is in a
\* condition wait exactly when the code of the semaphore says so.
LockOK(t) ==
    /\ pc[t] = "cond" <=> cpc[t] # "idle"
    /\ pc[t] \in {"body", "loop", "unlock", "read", "release"} => owner = t

\* The call in progress can be told from the place in the code, and its
\* result is an error only once it is decided.
ResOK(t) ==
    /\ pc[t] \notin {"next", "loop", "unlock", "done"} => res[t] = "OK"
    /\ pc[t] = "read" => CurrentOp(t) = "getvalue"
    /\ pc[t] \in {"release", "dmutex", "dcond", "dzero"} => CurrentOp(t) = "destroy"
    /\ pc[t] \in {"loop", "cond"} => CurrentOp(t) \in {"wait", "timedwait"}
    /\ pc[t] = "loop" /\ res[t] # "OK" => CurrentOp(t) = "timedwait"

\* Only sem_timedwait meets a timer.
TimerOK(t) ==
    /\ pc[t] # "next" /\ CurrentOp(t) # "timedwait" => abstime[t] = "none"
    /\ armed[t] \/ "timer" \in sig[t] =>
          cpc[t] \notin {"idle", "ret", "exited"} /\ CurrentOp(t) = "timedwait"
    /\ cpc[t] \in {"relock", "remove", "ret"} /\ CurrentOp(t) # "timedwait" =>
          cret[t] \in {"OK", "CTRL_C"}
    /\ cpc[t] = "ret" => cret[t] # "CTRL_C"

ThreadOK(t) == LockOK(t) /\ ResOK(t) /\ TimerOK(t)

SemInv == CondInv /\ SemTypes /\ \A t \in Threads : ThreadOK(t)

-----------------------------------------------------------------------------
(* The invariant *)

\* sem_init
LEMMA SemInitInv == Init => SemInv
<1> SUFFICES ASSUME Init PROVE SemInv
  OBVIOUS
<1>1. CondInv
  <2>1. CondTypeOK
    BY DEF Init, CondInit, CondTypeOK, CallStates, AbsTimes, Results
  <2>2. HoldsMutex
    BY DEF Init, CondInit, HoldsMutex
  <2>3. WaitersExact
    BY DEF Init, CondInit, WaitersExact, Linked, IsInjective, Range
  <2>4. IncondExact
    <3>1. {t \in Threads : cpc[t] \in {"wait", "relock"}} = {}
      BY DEF Init, CondInit
    <3> QED
      BY <3>1, FS_EmptySet, Zenon DEF Init, CondInit, IncondExact
  <2> QED
    BY <2>1, <2>2, <2>3, <2>4 DEF CondInv
<1>2. SemTypes
  BY SemAssumption DEF Init, SemTypes, Scenario, Labels, SemResults, Results
<1>3. \A t \in Threads : ThreadOK(t)
  BY DEF Init, CondInit, ThreadOK, LockOK, ResOK, TimerOK
<1> QED
  BY <1>1, <1>2, <1>3 DEF SemInv

\* What holds of a thread goes on to hold while the others leave it alone:
\* they may signal it, but nobody sets its timer bit.
LEMMA OthersOK ==
    ASSUME NEW u \in Threads, ThreadOK(u),
           use' = use, pc'[u] = pc[u], ip'[u] = ip[u], res'[u] = res[u],
           cpc'[u] = cpc[u], cret'[u] = cret[u], armed'[u] = armed[u],
           abstime'[u] = abstime[u], owner = u => owner' = u,
           "timer" \in sig'[u] => "timer" \in sig[u]
    PROVE  ThreadOK(u)'
<1>1. CurrentOp(u)' = CurrentOp(u)
  BY DEF CurrentOp
<1> QED
  BY <1>1 DEF ThreadOK, LockOK, ResOK, TimerOK

\* The steps of the condition variable and of its environment.
LEMMA CondStepInv ==
    ASSUME SemInv, NEW t \in Threads, CondStep(t)
    PROVE  SemInv'
<1>1. CondInv'
  BY CondWaitStepInv, EnvironmentInv DEF SemInv, CondStep
<1>2. UNCHANGED <<use, value, pc, ip, res>> /\ \A u \in Threads : CurrentOp(u)' = CurrentOp(u)
  BY DEF CondStep, semVars, CurrentOp
<1>3. SemTypes'
  BY <1>2 DEF SemInv, SemTypes
<1>4. ThreadOK(t) /\ CondTypeOK
  BY DEF SemInv, CondInv
<1>5. CASE CondWaitStep(t)
  <2>1. /\ cpc[t] \notin {"idle", "ret", "exited"} /\ cpc'[t] # "idle"
        /\ UNCHANGED abstime
        /\ \A u \in Threads : u # t =>
              /\ cpc'[u] = cpc[u] /\ armed'[u] = armed[u] /\ sig'[u] = sig[u] /\ cret'[u] = cret[u]
              /\ owner = u => owner' = u
    <3>1. CASE Enqueue(t)
      BY <3>1, <1>4 DEF Enqueue, CondTypeOK
    <3>2. CASE UnlockToWait(t)
      BY <3>2, <1>4 DEF UnlockToWait, MutexRelease, CondTypeOK
    <3>3. CASE Wake(t)
      BY <3>3, <1>4 DEF Wake, CondTypeOK
    <3>4. CASE Relock(t)
      BY <3>4, <1>4, ThreadsAssumption DEF Relock, MutexObtain, Free, CondTypeOK
    <3>5. CASE Dequeue(t)
      BY <3>5, <1>4 DEF Dequeue, CondTypeOK
    <3> QED
      BY <1>5, <3>1, <3>2, <3>3, <3>4, <3>5 DEF CondWaitStep
  <2>2. ASSUME NEW u \in Threads, u # t PROVE ThreadOK(u)'
    BY <1>2, <2>1, <2>2, OthersOK DEF SemInv
  <2>3. pc[t] = "cond"
    BY <1>4, <2>1 DEF ThreadOK, LockOK
  <2>4. LockOK(t)' /\ ResOK(t)'
    BY <1>2, <1>4, <2>1, <2>3 DEF ThreadOK, LockOK, ResOK
  <2>5. TimerOK(t)'
    <3>1. CASE Enqueue(t) \/ UnlockToWait(t)
      BY <1>2, <1>4, <3>1 DEF Enqueue, UnlockToWait, ThreadOK, TimerOK, CondTypeOK
    <3>2. CASE Wake(t)
      <4>1. /\ cpc[t] = "wait" /\ cpc'[t] = "relock" /\ sig'[t] = {} /\ UNCHANGED <<armed, abstime>>
            /\ "timer" \notin sig[t] => cret'[t] \in {"OK", "CTRL_C"}
        BY <1>4, <3>2 DEF Wake, CondTypeOK
      <4> QED
        BY <1>2, <1>4, <4>1 DEF ThreadOK, TimerOK
    <3>3. CASE Relock(t)
      BY <1>2, <1>4, <3>3 DEF Relock, ThreadOK, TimerOK, CondTypeOK
    <3>4. CASE Dequeue(t)
      <4>1. /\ cpc[t] = "remove" /\ cpc'[t] \in {"ret", "exited"} /\ UNCHANGED abstime
            /\ armed'[t] = FALSE /\ "timer" \notin sig'[t]
            /\ cret'[t] = IF cret[t] = "CTRL_C" THEN "OK" ELSE cret[t]
        BY <1>4, <3>4 DEF Dequeue, CondTypeOK
      <4> QED
        BY <1>2, <1>4, <4>1 DEF ThreadOK, TimerOK
    <3> QED
      BY <1>5, <3>1, <3>2, <3>3, <3>4 DEF CondWaitStep
  <2>6. \A u \in Threads : ThreadOK(u)'
    BY <2>2, <2>4, <2>5 DEF ThreadOK
  <2> QED
    BY <1>1, <1>3, <2>6 DEF SemInv
<1>6. CASE Environment(t)
  <2>1. /\ UNCHANGED <<owner, cpc, cret>>
        /\ \A u \in Threads : armed'[u] => armed[u]
        /\ \A u \in Threads : abstime[u] = "none" => abstime'[u] = "none"
        /\ \A u \in Threads : "timer" \in sig'[u] => "timer" \in sig[u] \/ armed[u]
    BY <1>4, <1>6, SMTT(30) DEF Environment, Tick, TimerExpires, Break, Cancel, Raise, CondTypeOK
  <2>2. ASSUME NEW u \in Threads PROVE ThreadOK(u)'
    BY <1>2, <2>1 DEF SemInv, ThreadOK, LockOK, ResOK, TimerOK
  <2> QED
    BY <1>1, <1>3, <2>2 DEF SemInv
<1> QED
  BY <1>5, <1>6 DEF CondStep

\* A step of the semaphore's code keeps what CondVar guarantees.
LEMMA SemCondInv ==
    ASSUME SemInv, NEW t \in Threads, SemStep(t)
    PROVE  CondInv'
<1>1. CondInv /\ CondTypeOK /\ ThreadOK(t)
  BY DEF SemInv, CondInv
<1>2. pc[t] # "cond" => cpc[t] = "idle"
  BY <1>1 DEF ThreadOK, LockOK
<1>3. CASE UNCHANGED CondVars
  BY <1>1, <1>3, ClientInv DEF CondVars, CondTypeOK
<1>4. CASE Call(t)
  <2>1. abstime' \in [Threads -> AbsTimes]
    BY <1>1, <1>4, TimeoutsAssumption, ZenonT(30) DEF Call, CondTypeOK, AbsTimes
  <2> QED
    BY <1>1, <1>4, <2>1, ClientInv DEF Call
<1>5. CASE SemLock(t)
  BY <1>1, <1>5, ClientInv DEF SemLock, CondTypeOK
<1>6. CASE SemUnlock(t)
  BY <1>1, <1>2, <1>6, ClientInv DEF SemUnlock, CondTypeOK
<1>7. CASE sem_post(t)
  BY <1>1, <1>7, ClientInv, SMTT(30) DEF sem_post, CondTypeOK
<1>8. CASE WaitMore(t)
  <2>1. owner = t /\ cpc[t] = "idle" /\ abstime[t] \in AbsTimes
    BY <1>1, <1>2, <1>8, SMTT(30) DEF WaitMore, ThreadOK, LockOK, CondTypeOK
  <2> QED
    BY <1>1, <1>8, <2>1, CallInv, SMTT(30) DEF WaitMore
<1>9. CASE WaitReturned(t)
  BY <1>1, <1>9, ReturnInv, Zenon DEF WaitReturned, CondTypeOK
<1>10. CASE GetvalueTry(t)
  BY <1>1, <1>10, ClientInv DEF GetvalueTry, CondTypeOK
<1>11. CASE DestroyTry(t)
  <2>1. MutexObtain(t) \/ UNCHANGED owner
    BY <1>11 DEF DestroyTry, MutexObtain
  <2> QED
    BY <1>1, <1>11, <2>1, ClientInv DEF DestroyTry, CondTypeOK
<1>12. CASE DestroyRelease(t)
  BY <1>1, <1>2, <1>12, ClientInv DEF DestroyRelease, CondTypeOK
<1> QED
  BY <1>3, <1>4, <1>5, <1>6, <1>7, <1>8, <1>9, <1>10, <1>11, <1>12, Zenon
     DEF SemStep, sem_trywait, WaitEnter, WaitLeave, GetvalueRead, pthread_mutex_destroy,
         pthread_cond_destroy, DestroyZero, Done, CondVars

\* A step of the semaphore's code leaves the other threads alone.
LEMMA SemFrame ==
    ASSUME SemInv, NEW t \in Threads, SemStep(t)
    PROVE  /\ use' = use
           /\ \A u \in Threads : u # t =>
                 /\ pc'[u] = pc[u] /\ ip'[u] = ip[u] /\ res'[u] = res[u]
                 /\ cpc'[u] = cpc[u] /\ cret'[u] = cret[u] /\ armed'[u] = armed[u]
                 /\ abstime'[u] = abstime[u] /\ (owner = u => owner' = u)
                 /\ ("timer" \in sig'[u] => "timer" \in sig[u])
<1>1. CondTypeOK /\ SemTypes
  BY DEF SemInv, CondInv
<1>2. /\ use' = use
      /\ \A u \in Threads : u # t => pc'[u] = pc[u] /\ ip'[u] = ip[u] /\ res'[u] = res[u]
  BY <1>1, Zenon
     DEF SemTypes, SemStep, Call, SemLock, SemUnlock, sem_trywait, sem_post, WaitEnter, WaitMore,
         WaitReturned, WaitLeave, GetvalueTry, GetvalueRead, DestroyTry, DestroyRelease,
         pthread_mutex_destroy, pthread_cond_destroy, DestroyZero, Done, GoTo, SetRes, Leave
<1>3. \A u \in Threads : u # t =>
         /\ cpc'[u] = cpc[u] /\ cret'[u] = cret[u] /\ armed'[u] = armed[u]
         /\ abstime'[u] = abstime[u]
  BY <1>1, ZenonT(30)
     DEF CondTypeOK, CondVars, SemStep, Call, SemLock, SemUnlock, sem_trywait, sem_post, WaitEnter,
         WaitMore, CallCondWait, WaitReturned, WaitLeave, GetvalueTry, GetvalueRead, DestroyTry,
         DestroyRelease, pthread_mutex_destroy, pthread_cond_destroy, DestroyZero, Done
<1>4. \A u \in Threads : u # t => (owner = u => owner' = u)
  BY ThreadsAssumption, Zenon
     DEF CondVars, SemStep, Call, SemLock, SemUnlock, sem_trywait, sem_post, WaitEnter,
         WaitMore, CallCondWait, WaitReturned, WaitLeave, GetvalueTry, GetvalueRead, DestroyTry,
         DestroyRelease, pthread_mutex_destroy, pthread_cond_destroy, DestroyZero, Done,
         MutexObtain, MutexRelease, Free
<1>5. \A u \in Threads : u # t => ("timer" \in sig'[u] => "timer" \in sig[u])
  <2>1. sig' = sig \/ CondSignal
    BY Zenon DEF CondVars, SemStep, Call, SemLock, SemUnlock, sem_trywait, sem_post, WaitEnter,
         WaitMore, CallCondWait, WaitReturned, WaitLeave, GetvalueTry, GetvalueRead, DestroyTry,
         DestroyRelease, pthread_mutex_destroy, pthread_cond_destroy, DestroyZero, Done
  <2> QED
    BY <2>1 DEF CondSignal, Raise
<1> QED
  BY <1>2, <1>3, <1>4, <1>5

\* A step of the semaphore's code keeps the types and the counter in range.
LEMMA SemTypesStep ==
    ASSUME SemInv, NEW t \in Threads, SemStep(t)
    PROVE  SemTypes'
<1>1. SemTypes /\ CondTypeOK
  BY DEF SemInv, CondInv
<1>2. use' = use /\ pc' \in [Threads -> Labels]
  BY <1>1, ZenonT(30)
     DEF SemTypes, SemStep, Call, SemLock, SemUnlock, sem_trywait, sem_post, WaitEnter, WaitMore,
         WaitReturned, WaitLeave, GetvalueTry, GetvalueRead, DestroyTry, DestroyRelease,
         pthread_mutex_destroy, pthread_cond_destroy, DestroyZero, Done, GoTo, Leave, Labels
<1>3. value' \in 0..SEM_VALUE_MAX
  <2>1. value \in Nat /\ value <= SEM_VALUE_MAX /\ SEM_VALUE_MAX \in Nat
    BY <1>1, SemAssumption DEF SemTypes
  <2>2. CASE sem_trywait(t) \/ WaitLeave(t) \/ DestroyZero(t)
    BY <2>1, <2>2, SMTT(30) DEF sem_trywait, WaitLeave, DestroyZero
  <2>3. CASE sem_post(t)
    BY <2>1, <2>3 DEF sem_post
  <2>4. CASE UNCHANGED value
    BY <2>1, <2>4
  <2> QED
    BY <2>2, <2>3, <2>4, Zenon
     DEF SemStep, Call, SemLock, SemUnlock, WaitEnter, WaitMore, WaitReturned, GetvalueTry,
         GetvalueRead, DestroyTry, DestroyRelease, pthread_mutex_destroy, pthread_cond_destroy, Done
<1>4. ip' \in [Threads -> Nat]
  <2>1. ip' = ip \/ Leave(t)
    BY Zenon DEF SemStep, Call, SemLock, SemUnlock, sem_trywait, sem_post, WaitEnter, WaitMore,
         WaitReturned, WaitLeave, GetvalueTry, GetvalueRead, DestroyTry, DestroyRelease,
         pthread_mutex_destroy, pthread_cond_destroy, DestroyZero, Done
  <2> QED
    BY <1>1, <2>1 DEF SemTypes, Leave
<1>5. res' \in [Threads -> SemResults]
  <2>1. \A r : r \in {"OK", "EAGAIN", "EOVERFLOW", "EBUSY", cret[t]} => r \in SemResults
    BY <1>1, SMTT(30) DEF CondTypeOK, SemResults, Results
  <2> QED
    BY <1>1, <2>1, Zenon
     DEF SemTypes, SemStep, Call, SemLock, SemUnlock, sem_trywait, sem_post, WaitEnter, WaitMore,
         WaitReturned, WaitLeave, GetvalueTry, GetvalueRead, DestroyTry, DestroyRelease,
         pthread_mutex_destroy, pthread_cond_destroy, DestroyZero, Done, SetRes
<1> QED
  BY <1>1, <1>2, <1>3, <1>4, <1>5 DEF SemTypes

\* A step of the semaphore's code leaves the thread that makes it where the
\* invariant says.
LEMMA SemThreadOK ==
    ASSUME SemInv, NEW t \in Threads, SemStep(t)
    PROVE  ThreadOK(t)'
<1>1. CondTypeOK /\ SemTypes /\ LockOK(t) /\ ResOK(t) /\ TimerOK(t) /\ HoldsMutex
  BY DEF SemInv, CondInv, ThreadOK
<1>2. use' = use /\ (ip' = ip => CurrentOp(t)' = CurrentOp(t))
  BY SemFrame DEF CurrentOp
<1>3. ASSUME NEW from \in Labels \ {"cond"}, NEW to \in Labels \ {"next", "cond"},
             pc[t] = from, pc' = [pc EXCEPT ![t] = to],
             to \in {"body", "loop", "unlock", "read", "release"} => owner' = t,
             UNCHANGED <<ip, cpc, armed, cret>>,
             sig' = sig \/ CondSignal,
             CurrentOp(t) # "timedwait" => abstime'[t] = "none",
             to \notin {"loop", "unlock", "done"} => res'[t] = "OK",
             to = "read" => CurrentOp(t) = "getvalue",
             to \in {"release", "dmutex", "dcond", "dzero"} => CurrentOp(t) = "destroy",
             to = "loop" => CurrentOp(t) \in {"wait", "timedwait"} /\ res'[t] = "OK"
      PROVE  ThreadOK(t)'
  <2>1. pc'[t] = to /\ to # "cond" /\ cpc[t] = "idle" /\ CurrentOp(t)' = CurrentOp(t)
    BY <1>1, <1>2, <1>3, SMTT(30) DEF SemTypes, LockOK
  <2>2. ~armed[t] /\ "timer" \notin sig[t]
    BY <1>1, <2>1 DEF TimerOK
  <2>3. "timer" \notin sig'[t]
    BY <1>3, <2>2 DEF CondSignal, Raise
  <2>4. LockOK(t)' /\ ResOK(t)'
    BY <1>3, <2>1, SMTT(30) DEF LockOK, ResOK
  <2>5. TimerOK(t)'
    BY <1>3, <2>1, <2>2, <2>3 DEF TimerOK
  <2> QED
    BY <2>4, <2>5 DEF ThreadOK
<1>4. CASE Call(t)
  <2>1. PICK to \in {"try", "lock"} : pc' = [pc EXCEPT ![t] = to]
    BY <1>4, Zenon DEF Call, GoTo
  <2>2. CurrentOp(t) # "timedwait" => abstime'[t] = "none"
    BY <1>1, <1>4, Zenon DEF Call, CondTypeOK
  <2>3. res'[t] = "OK"
    BY <1>1, <1>4, Zenon DEF Call, SetRes, SemTypes
  <2> QED
    BY <1>3, <1>4, <2>1, <2>2, <2>3, Zenon DEF Call, Labels
<1>5. CASE SemUnlock(t) \/ Done(t)
  <2>1. /\ pc'[t] = "next" /\ pc[t] # "cond" /\ UNCHANGED <<cpc, armed, cret, sig>>
    BY <1>1, <1>5, SMTT(30) DEF SemUnlock, Done, Leave, GoTo, CondVars, SemTypes
  <2>2. cpc[t] = "idle" /\ ~armed[t] /\ "timer" \notin sig[t]
    BY <1>1, <2>1, Zenon DEF LockOK, TimerOK
  <2> QED
    BY <2>1, <2>2, Zenon DEF ThreadOK, LockOK, ResOK, TimerOK
<1>6. CASE WaitMore(t)
  <2>1. /\ pc[t] = "loop" /\ pc'[t] = "cond" /\ ip' = ip /\ res' = res /\ res[t] = "OK"
        /\ CallCondWait(t, abstime[t])
    BY <1>1, <1>6 DEF WaitMore, GoTo, SemTypes
  <2>2. cpc[t] = "idle" /\ ~armed[t] /\ "timer" \notin sig[t]
    BY <1>1, <2>1, SMTT(30) DEF LockOK, TimerOK
  <2>3. /\ abstime'[t] = abstime[t] /\ sig' = sig
        /\ cpc'[t] \in {"ret", "enqueue"}
        /\ cpc'[t] = "ret" => abstime[t] # "none" /\ armed' = armed /\ cret'[t] # "CTRL_C"
        /\ armed'[t] => abstime[t] = "future" /\ cpc'[t] = "enqueue"
    BY <1>1, <2>1, <2>2, Zenon DEF CallCondWait, CondTypeOK
  <2>4. CurrentOp(t) # "timedwait" => abstime[t] = "none"
    BY <1>1, <2>1, Zenon DEF TimerOK
  <2>5. CurrentOp(t) \in {"wait", "timedwait"}
    BY <1>1, <2>1, Zenon DEF ResOK
  <2> QED
    BY <1>2, <2>1, <2>2, <2>3, <2>4, <2>5, Zenon DEF ThreadOK, LockOK, ResOK, TimerOK
<1>7. CASE WaitReturned(t)
  <2>1. /\ pc[t] = "cond" /\ pc'[t] = "loop" /\ ip' = ip /\ res'[t] = cret[t]
        /\ cpc[t] = "ret" /\ cpc'[t] = "idle"
        /\ UNCHANGED <<owner, sig, armed, abstime>>
    BY <1>1, <1>7 DEF WaitReturned, GoTo, SetRes, SemTypes, CondTypeOK
  <2>2. owner = t
    BY <1>1, <2>1, SMTT(30) DEF HoldsMutex
  <2>3. /\ ~armed[t] /\ "timer" \notin sig[t]
        /\ CurrentOp(t) # "timedwait" => abstime[t] = "none" /\ cret[t] = "OK"
    BY <1>1, <2>1, Zenon DEF TimerOK
  <2>4. CurrentOp(t) \in {"wait", "timedwait"}
    BY <1>1, <2>1, Zenon DEF ResOK
  <2> QED
    BY <1>2, <2>1, <2>2, <2>3, <2>4, Zenon DEF ThreadOK, LockOK, ResOK, TimerOK
<1>8. ASSUME pc[t] \notin {"next", "cond"}
      PROVE  CurrentOp(t) # "timedwait" => abstime[t] = "none"
  BY <1>1, <1>8 DEF TimerOK
<1>9. ASSUME pc[t] \in {"lock", "try", "body", "read", "release", "dmutex", "dcond", "dzero"}
      PROVE  res[t] = "OK"
  BY <1>1, <1>9 DEF ResOK
<1>10. ASSUME pc[t] \in {"body", "loop", "read"} PROVE owner = t
  BY <1>1, <1>10 DEF LockOK
<1>11. CASE SemLock(t)
  BY <1>3, <1>8, <1>9, <1>11, Zenon DEF SemLock, MutexObtain, GoTo, Labels
<1>12. CASE sem_trywait(t) \/ GetvalueRead(t) \/ WaitLeave(t)
  BY <1>3, <1>8, <1>10, <1>12, Zenon DEF sem_trywait, GetvalueRead, WaitLeave, CondVars, GoTo, Labels
<1>13. CASE sem_post(t)
  BY <1>3, <1>8, <1>10, <1>13, Zenon DEF sem_post, GoTo, Labels
<1>14. CASE WaitEnter(t)
  BY <1>3, <1>8, <1>9, <1>10, <1>14, Zenon DEF WaitEnter, CondVars, GoTo, Labels
<1>15. CASE GetvalueTry(t)
  BY <1>3, <1>8, <1>9, <1>15, Zenon DEF GetvalueTry, MutexObtain, GoTo, Labels
<1>16. CASE DestroyTry(t)
  <2>1. \/ owner' = t /\ pc' = [pc EXCEPT ![t] = "release"] /\ res' = [res EXCEPT ![t] = "OK"]
        \/ pc' = [pc EXCEPT ![t] = "done"]
    BY <1>16, Zenon DEF DestroyTry, GoTo, SetRes
  <2>2. pc[t] = "try" /\ CurrentOp(t) = "destroy" /\ UNCHANGED <<ip, cpc, armed, cret, sig, abstime>>
    BY <1>16 DEF DestroyTry
  <2>3. res' = [res EXCEPT ![t] = "OK"] => res'[t] = "OK"
    BY <1>1 DEF SemTypes
  <2> QED
    BY <1>3, <1>8, <2>1, <2>2, <2>3, SMTT(30) DEF Labels
<1>17. CASE DestroyRelease(t)
  <2>1. CurrentOp(t) = "destroy"
    BY <1>1, <1>17, Zenon DEF DestroyRelease, ResOK
  <2> QED
    BY <1>3, <1>8, <1>9, <1>17, <2>1, Zenon DEF DestroyRelease, GoTo, Labels
<1>18. CASE pthread_mutex_destroy(t) \/ pthread_cond_destroy(t) \/ DestroyZero(t)
  <2>1. CurrentOp(t) = "destroy"
    BY <1>1, <1>18, Zenon DEF pthread_mutex_destroy, pthread_cond_destroy, DestroyZero, ResOK
  <2> QED
    BY <1>3, <1>8, <1>9, <1>18, <2>1, Zenon
       DEF pthread_mutex_destroy, pthread_cond_destroy, DestroyZero, CondVars, GoTo, Labels
<1> QED
  BY <1>4, <1>5, <1>6, <1>7, <1>11, <1>12, <1>13, <1>14, <1>15, <1>16, <1>17, <1>18, SMTT(30) DEF SemStep

\* Every step keeps the invariant.
LEMMA SemNextInv ==
    ASSUME SemInv, [Next]_vars
    PROVE  SemInv'
<1>1. ASSUME NEW t \in Threads, SemStep(t) PROVE SemInv'
  <2>1. ASSUME NEW u \in Threads, u # t PROVE ThreadOK(u)'
    <3>1. ThreadOK(u)
      BY DEF SemInv
    <3> QED
      BY <1>1, <2>1, <3>1, SemFrame, OthersOK, Zenon
  <2>2. ThreadOK(t)' /\ SemTypes' /\ CondInv'
    BY <1>1, SemThreadOK, SemTypesStep, SemCondInv
  <2> QED
    BY <2>1, <2>2 DEF SemInv
<1>2. ASSUME NEW t \in Threads, CondStep(t) PROVE SemInv'
  BY <1>2, CondStepInv
<1>3. CASE UNCHANGED vars
  <2>1. CondInv'
    BY <1>3, ClientInv, Zenon DEF SemInv, vars, CondVars, CondInv, CondTypeOK, HoldsMutex, WaitersExact, IncondExact
  <2>2. SemTypes'
    BY <1>3 DEF SemInv, SemTypes, vars, semVars
  <2>3. \A u \in Threads : ThreadOK(u)'
    BY <1>3, OthersOK, SMTT(30) DEF SemInv, vars, semVars, CondVars
  <2> QED
    BY <2>1, <2>2, <2>3 DEF SemInv
<1> QED
  BY <1>1, <1>2, <1>3 DEF Next, Terminated

-----------------------------------------------------------------------------
(* The refinement *)

\* What AbstractSem sees of the other threads does not change.
LEMMA AbsFrame ==
    ASSUME SemInv, NEW t \in Threads, SemStep(t)
    PROVE  /\ AbsOp' = [AbsOp EXCEPT ![t] = AbsOp'[t]]
           /\ AbsPhase' = [AbsPhase EXCEPT ![t] = AbsPhase'[t]]
           /\ ip'[t] = ip[t] /\ pc'[t] # "next" => AbsOp'[t] = CurrentOp(t)
           /\ pc[t] # "next" => AbsOp[t] = CurrentOp(t)
<1>1. use' = use /\ \A u \in Threads : u # t => pc'[u] = pc[u] /\ ip'[u] = ip[u] /\ res'[u] = res[u]
  BY SemFrame
<1>2. \A u \in Threads : u # t => AbsOp'[u] = AbsOp[u] /\ AbsPhase'[u] = AbsPhase[u]
  BY <1>1, Zenon DEF AbsOp, AbsPhase, CurrentOp
<1>3. /\ AbsOp = [u \in Threads |-> AbsOp[u]] /\ AbsOp' = [u \in Threads |-> AbsOp'[u]]
      /\ AbsPhase = [u \in Threads |-> AbsPhase[u]]
      /\ AbsPhase' = [u \in Threads |-> AbsPhase'[u]]
  BY SMTT(30) DEF AbsOp, AbsPhase
<1>4. /\ AbsOp' = [AbsOp EXCEPT ![t] = AbsOp'[t]]
      /\ AbsPhase' = [AbsPhase EXCEPT ![t] = AbsPhase'[t]]
  BY <1>2, <1>3
<1>5. pc[t] # "next" => AbsOp[t] = CurrentOp(t)
  BY DEF AbsOp
<1>6. ip'[t] = ip[t] /\ pc'[t] # "next" => AbsOp'[t] = CurrentOp(t)
  BY <1>1 DEF AbsOp, CurrentOp
<1> QED
  BY <1>4, <1>5, <1>6

\* How far a call is, by the place in the code.
LEMMA AbsPhaseAt ==
    ASSUME NEW t \in Threads
    PROVE  /\ pc[t] = "next" => AbsPhase[t] = "out"
           /\ pc[t] \notin {"next", "unlock", "done"} => AbsPhase[t] = "in"
           /\ pc[t] \in {"unlock", "done"} =>
                 AbsPhase[t] = IF res[t] = "OK" THEN "ok" ELSE "failed"
           /\ pc'[t] = "next" => AbsPhase'[t] = "out" /\ AbsOp'[t] = "none"
           /\ pc'[t] \notin {"next", "unlock", "done"} => AbsPhase'[t] = "in"
           /\ pc'[t] \in {"unlock", "done"} =>
                 AbsPhase'[t] = IF res'[t] = "OK" THEN "ok" ELSE "failed"
BY SMTT(30) DEF AbsPhase, AbsOp

\* A step that decides a call makes AbstractSem's step of the same outcome.
LEMMA AbsBecomes ==
    ASSUME SemInv, NEW t \in Threads, SemStep(t), ip' = ip,
           pc[t] \notin {"next", "unlock", "done"}, pc'[t] \in {"unlock", "done"}
    PROVE  /\ Abs!Becomes(t, IF res'[t] = "OK" THEN "ok" ELSE "failed")
           /\ AbsOp[t] = CurrentOp(t)
<1>1. AbsPhase[t] = "in" /\ AbsPhase'[t] = IF res'[t] = "OK" THEN "ok" ELSE "failed"
  BY AbsPhaseAt, SMTT(30)
<1>2. AbsOp'[t] = CurrentOp(t) /\ AbsOp[t] = CurrentOp(t)
  BY AbsFrame
<1>3. AbsOp' = AbsOp
  <2>1. AbsOp' = [AbsOp EXCEPT ![t] = AbsOp[t]]
    BY <1>2, AbsFrame
  <2> QED
    BY <2>1, Zenon DEF AbsOp
<1>4. AbsPhase' = [AbsPhase EXCEPT ![t] = IF res'[t] = "OK" THEN "ok" ELSE "failed"]
  BY <1>1, AbsFrame
<1> QED
  BY <1>1, <1>2, <1>3, <1>4, SMTT(30) DEF Abs!Becomes

\* A step that decides nothing is none of AbstractSem's.
LEMMA AbsStutter ==
    ASSUME SemInv, NEW t \in Threads, SemStep(t), UNCHANGED <<ip, value>>,
           pc[t] \notin {"next", "unlock", "done"}, pc'[t] \notin {"next", "unlock", "done"}
    PROVE  UNCHANGED Abs!absvars
<1>1. AbsPhase[t] = "in" /\ AbsPhase'[t] = "in"
  BY AbsPhaseAt
<1>2. AbsOp'[t] = AbsOp[t]
  BY AbsFrame
<1>3. AbsOp' = [AbsOp EXCEPT ![t] = AbsOp[t]] /\ AbsPhase' = [AbsPhase EXCEPT ![t] = AbsPhase[t]]
  BY <1>1, <1>2, AbsFrame
<1>4. AbsOp' = AbsOp /\ AbsPhase' = AbsPhase
  BY <1>3, ZenonT(30) DEF AbsOp, AbsPhase
<1> QED
  BY <1>4 DEF Abs!absvars

\* Each step of the code is a step of AbstractSem, or none.
LEMMA AbsSemStep ==
    ASSUME SemInv, NEW t \in Threads, SemStep(t)
    PROVE  \/ UNCHANGED Abs!absvars
           \/ Abs!Call(t) \/ Abs!Take(t) \/ Abs!Give(t) \/ Abs!Observe(t)
           \/ Abs!Destroy(t) \/ Abs!Fail(t) \/ Abs!Return(t)
<1>1. SemTypes /\ ThreadOK(t)
  BY DEF SemInv
<1>2. value \in Nat /\ value <= SEM_VALUE_MAX /\ SEM_VALUE_MAX \in Nat
  BY <1>1, SemAssumption DEF SemTypes
<1>3. CASE Call(t)
  <2>1. pc[t] = "next" /\ pc'[t] \in {"try", "lock"} /\ ip' = ip /\ value' = value
    BY <1>1, <1>3, SMTT(30) DEF Call, GoTo, SemTypes
  <2>2. CurrentOp(t) \in SemOps
    <3>1. ip[t] \in DOMAIN use.script[t] /\ use.script[t] \in Seq(SemOps)
      BY <1>1, <1>3, Zenon DEF Call, SemTypes, Scenario
    <3> QED
      BY <3>1 DEF CurrentOp
  <2>3. AbsPhase[t] = "out" /\ AbsPhase' = [AbsPhase EXCEPT ![t] = "in"]
    BY <2>1, AbsPhaseAt, AbsFrame, Zenon
  <2>4. AbsOp' = [AbsOp EXCEPT ![t] = CurrentOp(t)]
    BY <2>1, AbsFrame, Zenon
  <2>5. Abs!Call(t)
    BY <2>1, <2>2, <2>3, <2>4, Zenon DEF Abs!Call, Abs!AbsOps, SemOps
  <2> QED
    BY <2>5, SMTT(30)
<1>4. CASE SemUnlock(t) \/ Done(t)
  <2>1. pc[t] \in {"unlock", "done"} /\ pc'[t] = "next" /\ value' = value
    BY <1>1, <1>4, Zenon DEF SemUnlock, Done, Leave, GoTo, SemTypes
  <2>2. AbsPhase[t] \in {"ok", "failed"} /\ AbsPhase' = [AbsPhase EXCEPT ![t] = "out"]
    BY <2>1, AbsPhaseAt, AbsFrame, SMTT(30)
  <2>3. AbsOp' = [AbsOp EXCEPT ![t] = "none"]
    BY <2>1, AbsPhaseAt, AbsFrame, SMTT(30)
  <2>4. Abs!Return(t)
    BY <2>1, <2>2, <2>3 DEF Abs!Return
  <2> QED
    BY <2>4
<1>5. CASE SemLock(t) \/ WaitEnter(t) \/ WaitMore(t) \/ WaitReturned(t) \/ DestroyRelease(t)
           \/ pthread_mutex_destroy(t) \/ pthread_cond_destroy(t)
  <2>1. UNCHANGED <<ip, value>> /\ pc[t] \notin {"next", "unlock", "done"}
        /\ pc'[t] \notin {"next", "unlock", "done"}
    BY <1>1, <1>5, Zenon DEF SemLock, WaitEnter, WaitMore, WaitReturned, DestroyRelease,
           pthread_mutex_destroy, pthread_cond_destroy, GoTo, SemTypes
  <2> QED
    BY <2>1, AbsStutter, Zenon
<1>6. CASE sem_trywait(t)
  <2>1. /\ pc[t] = "body" /\ pc'[t] = "unlock" /\ ip' = ip /\ CurrentOp(t) = "trywait"
        /\ \/ value > 0 /\ value' = value - 1 /\ res'[t] = res[t]
           \/ value = 0 /\ value' = value /\ res'[t] = "EAGAIN"
    BY <1>1, <1>6 DEF sem_trywait, GoTo, SetRes, SemTypes
  <2>2. res[t] = "OK"
    BY <1>1, <2>1, SMTT(30) DEF ThreadOK, ResOK
  <2>3. Abs!Becomes(t, IF res'[t] = "OK" THEN "ok" ELSE "failed") /\ AbsOp[t] = "trywait"
    BY <2>1, AbsBecomes
  <2>4. Abs!Take(t) \/ Abs!Fail(t)
    BY <2>1, <2>2, <2>3 DEF Abs!Take, Abs!Fail
  <2> QED
    BY <2>4
<1>7. CASE sem_post(t)
  <2>1. /\ pc[t] = "body" /\ pc'[t] = "unlock" /\ ip' = ip /\ CurrentOp(t) = "post"
        /\ \/ value >= SEM_VALUE_MAX /\ value' = value /\ res'[t] = "EOVERFLOW"
           \/ value < SEM_VALUE_MAX /\ value' = value + 1 /\ res'[t] = res[t]
    BY <1>1, <1>7, SMTT(30) DEF sem_post, GoTo, SetRes, SemTypes
  <2>2. res[t] = "OK"
    BY <1>1, <2>1, Zenon DEF ThreadOK, ResOK
  <2>3. Abs!Becomes(t, IF res'[t] = "OK" THEN "ok" ELSE "failed") /\ AbsOp[t] = "post"
    BY <2>1, AbsBecomes, SMTT(30)
  <2>4. Abs!Give(t) \/ Abs!Fail(t)
    BY <1>2, <2>1, <2>2, <2>3 DEF Abs!Give, Abs!Fail
  <2> QED
    BY <2>4
<1>8. CASE WaitLeave(t)
  <2>1. /\ pc[t] = "loop" /\ pc'[t] = "unlock" /\ ip' = ip /\ res' = res
        /\ \/ value > 0 /\ value' = value - 1 /\ res[t] = "OK"
           \/ value' = value /\ res[t] # "OK"
    BY <1>1, <1>8 DEF WaitLeave, GoTo, SemTypes
  <2>2. /\ CurrentOp(t) \in {"wait", "timedwait"}
        /\ res[t] # "OK" => CurrentOp(t) = "timedwait"
    BY <1>1, <2>1, Zenon DEF ThreadOK, ResOK
  <2>3. Abs!Becomes(t, IF res'[t] = "OK" THEN "ok" ELSE "failed") /\ AbsOp[t] = CurrentOp(t)
    BY <2>1, AbsBecomes, SMTT(30)
  <2>4. Abs!Take(t) \/ Abs!Fail(t)
    BY <2>1, <2>2, <2>3 DEF Abs!Take, Abs!Fail
  <2> QED
    BY <2>4
<1>9. CASE GetvalueTry(t) \/ GetvalueRead(t)
  <2>1. /\ pc[t] \in {"try", "read"} /\ pc'[t] \in {"read", "done", "unlock"}
        /\ UNCHANGED <<ip, value, res>>
        /\ pc[t] = "try" => CurrentOp(t) = "getvalue"
    BY <1>1, <1>9, SMTT(30) DEF GetvalueTry, GetvalueRead, GoTo, SemTypes
  <2>2. res[t] = "OK" /\ CurrentOp(t) = "getvalue"
    BY <1>1, <2>1, Zenon DEF ThreadOK, ResOK
  <2>3. CASE pc'[t] = "read"
    BY <2>1, <2>3, AbsStutter, SMTT(30)
  <2>4. CASE pc'[t] # "read"
    <3>1. Abs!Becomes(t, IF res'[t] = "OK" THEN "ok" ELSE "failed") /\ AbsOp[t] = "getvalue"
      BY <2>1, <2>2, <2>4, AbsBecomes, Zenon
    <3>2. Abs!Observe(t)
      BY <2>1, <2>2, <3>1, SMTT(30) DEF Abs!Observe
    <3> QED
      BY <3>2
  <2> QED
    BY <2>3, <2>4, SMTT(30)
<1>10. CASE DestroyTry(t)
  <2>1. /\ pc[t] = "try" /\ UNCHANGED <<ip, value>> /\ CurrentOp(t) = "destroy"
        /\ \/ pc'[t] = "release"
           \/ pc'[t] = "done" /\ res'[t] = "EBUSY"
    BY <1>1, <1>10 DEF DestroyTry, GoTo, SetRes, SemTypes
  <2>2. CASE pc'[t] = "release"
    BY <2>1, <2>2, AbsStutter, SMTT(30)
  <2>3. CASE pc'[t] = "done"
    <3>1. Abs!Becomes(t, IF res'[t] = "OK" THEN "ok" ELSE "failed") /\ AbsOp[t] = "destroy"
      BY <2>1, <2>3, AbsBecomes, Zenon
    <3>2. Abs!Fail(t)
      BY <2>1, <2>3, <3>1, SMTT(30) DEF Abs!Fail
    <3> QED
      BY <3>2
  <2> QED
    BY <2>1, <2>2, <2>3, SMTT(30)
<1>11. CASE DestroyZero(t)
  <2>1. pc[t] = "dzero" /\ pc'[t] = "done" /\ UNCHANGED <<ip, res>> /\ value' = 0
    BY <1>1, <1>11, SMTT(30) DEF DestroyZero, GoTo, SemTypes
  <2>2. res[t] = "OK" /\ CurrentOp(t) = "destroy"
    BY <1>1, <2>1, SMTT(30) DEF ThreadOK, ResOK
  <2>3. Abs!Becomes(t, IF res'[t] = "OK" THEN "ok" ELSE "failed") /\ AbsOp[t] = "destroy"
    BY <2>1, <2>2, AbsBecomes, SMTT(30)
  <2>4. Abs!Destroy(t)
    BY <2>1, <2>2, <2>3, SMTT(30) DEF Abs!Destroy
  <2> QED
    BY <2>4
<1> QED
  BY <1>3, <1>4, <1>5, <1>6, <1>7, <1>8, <1>9, <1>10, <1>11, Zenon DEF SemStep

\* For any number of threads, any scripts of calls and any interference by
\* timers, CTRL-C and cancellation, each semaphore call takes effect once,
\* atomically, and reports what it did.
THEOREM SemRefinement == Spec => ImplementsAbstractSem
<1>1. Init => Abs!AbsInit
  <2> SUFFICES ASSUME Init PROVE Abs!AbsInit
    OBVIOUS
  <2>1. value \in 0..SEM_VALUE_MAX
    BY SemInitInv DEF SemInv, SemTypes
  <2>2. AbsOp = [t \in Threads |-> "none"] /\ AbsPhase = [t \in Threads |-> "out"]
    BY DEF Init, AbsOp, AbsPhase
  <2> QED
    BY <2>1, <2>2 DEF Abs!AbsInit
<1>2. SemInv /\ [Next]_vars => [Abs!AbsNext]_(Abs!absvars)
  <2> SUFFICES ASSUME SemInv, [Next]_vars PROVE Abs!AbsNext \/ UNCHANGED Abs!absvars
    OBVIOUS
  <2>1. ASSUME NEW t \in Threads, SemStep(t) PROVE Abs!AbsNext \/ UNCHANGED Abs!absvars
    BY <2>1, AbsSemStep, SMTT(30) DEF Abs!AbsNext
  <2>2. CASE UNCHANGED semVars
    BY <2>2, SMTT(30) DEF semVars, Abs!absvars, AbsOp, AbsPhase, CurrentOp
  <2> QED
    BY <2>1, <2>2 DEF Next, CondStep, Terminated, vars
<1>3. SemInv /\ [Next]_vars => SemInv'
  BY SemNextInv
<1> QED
  BY SemInitInv, <1>1, <1>2, <1>3, PTL DEF Spec, ImplementsAbstractSem, Abs!AbsSpec

-----------------------------------------------------------------------------
(* A semaphore that nobody destroys *)

NeverDestroyed ==
    \A s \in Scenarios : \A t \in Threads : \A i \in DOMAIN s.script[t] : s.script[t][i] # "destroy"

Waits == {t \in Threads : InWait(t)}

CountInv ==
    /\ SemInv
    /\ use \in Scenarios
    /\ \A t \in Threads : pc[t] # "next" => ip[t] \in DOMAIN use.script[t]
    /\ WaitersCounted

\* The counter and the count of waiters change only while the thread that
\* changes them has the mutex: what sem_wait found is true when it acts.
ChangedUnderMutex ==
    value' # value \/ waiters_count' # waiters_count =>
        \E t \in Threads : owner = t /\ owner' = t

\* Nobody is in the code of sem_destroy.
LEMMA NobodyDestroys ==
    ASSUME CountInv, NeverDestroyed, NEW t \in Threads
    PROVE  /\ pc[t] # "next" => CurrentOp(t) # "destroy"
           /\ pc[t] \notin {"release", "dmutex", "dcond", "dzero"}
<1>1. pc[t] # "next" => CurrentOp(t) # "destroy"
  BY DEF CountInv, NeverDestroyed, CurrentOp
<1>2. pc[t] \in {"release", "dmutex", "dcond", "dzero"} => CurrentOp(t) = "destroy"
  BY SMTT(30) DEF CountInv, SemInv, ThreadOK, ResOK
<1> QED
  BY <1>1, <1>2

\* The steps of sem_wait, sem_trywait and sem_post that change the counts are
\* steps of the owner of the mutex.
LEMMA OwnerChanges ==
    ASSUME CountInv, NeverDestroyed, [Next]_vars
    PROVE  ChangedUnderMutex
<1>1. ASSUME NEW t \in Threads, SemStep(t) PROVE ChangedUnderMutex
  <2>1. pc[t] # "dzero"
    BY NobodyDestroys
  <2>2. CASE sem_trywait(t) \/ sem_post(t) \/ WaitEnter(t) \/ WaitLeave(t)
    <3>1. pc[t] \in {"body", "loop"} /\ owner' = owner
      BY <2>2, Zenon DEF sem_trywait, sem_post, WaitEnter, WaitLeave, CondVars
    <3>2. owner = t
      BY <3>1 DEF CountInv, SemInv, ThreadOK, LockOK
    <3> QED
      BY <3>1, <3>2 DEF ChangedUnderMutex
  <2>3. CASE UNCHANGED <<value, waiters_count>>
    BY <2>3 DEF ChangedUnderMutex
  <2> QED
    BY <1>1, <2>1, <2>2, <2>3, Zenon
       DEF SemStep, Call, SemLock, SemUnlock, WaitMore, WaitReturned, GetvalueTry, GetvalueRead,
           DestroyTry, DestroyRelease, pthread_mutex_destroy, pthread_cond_destroy, DestroyZero, Done
<1>2. CASE UNCHANGED semVars
  BY <1>2 DEF ChangedUnderMutex, semVars
<1> QED
  BY <1>1, <1>2 DEF Next, CondStep, Terminated, vars

\* Every step keeps waiters_count exact.
LEMMA CountNextInv ==
    ASSUME CountInv, NeverDestroyed, [Next]_vars
    PROVE  CountInv'
<1>1. SemInv'
  BY SemNextInv DEF CountInv
<1>2. IsFiniteSet(Waits) /\ Cardinality(Waits) \in Nat /\ waiters_count = Cardinality(Waits)
  BY ThreadsAssumption, FS_Subset, FS_CardinalityType, Zenon DEF Waits, CountInv, WaitersCounted
<1>3. waiters_count' = Cardinality(Waits') <=> WaitersCounted'
  BY DEF Waits, WaitersCounted
<1>4. ASSUME NEW t \in Threads, SemStep(t) PROVE CountInv'
  <2>1. /\ use' = use
        /\ \A u \in Threads : u # t => pc'[u] = pc[u] /\ ip'[u] = ip[u]
    BY <1>4, SemFrame, SMTT(30) DEF CountInv
  <2>2. SemTypes /\ ThreadOK(t) /\ pc[t] \notin {"release", "dmutex", "dcond", "dzero"}
        /\ (pc[t] # "next" => CurrentOp(t) # "destroy")
    BY NobodyDestroys, SMTT(30) DEF CountInv, SemInv
  <2>3. pc'[t] # "next" => ip'[t] = ip[t] /\ ip[t] \in DOMAIN use.script[t]
    <3>1. CASE Call(t)
      BY <3>1, SMTT(30) DEF Call
    <3>2. CASE SemUnlock(t) \/ Done(t)
      BY <2>2, <3>2, Zenon DEF SemUnlock, Done, Leave, GoTo, SemTypes
    <3>3. CASE ~Call(t) /\ ~(SemUnlock(t) \/ Done(t))
      <4>1. pc[t] # "next" /\ ip' = ip
        BY <1>4, <3>3, Zenon
           DEF SemStep, SemLock, sem_trywait, sem_post, WaitEnter, WaitMore, WaitReturned, WaitLeave,
               GetvalueTry, GetvalueRead, DestroyTry, DestroyRelease, pthread_mutex_destroy,
               pthread_cond_destroy, DestroyZero
      <4> QED
        BY <4>1 DEF CountInv
    <3> QED
      BY <3>1, <3>2, <3>3, SMTT(30)
  <2>4. use' \in Scenarios /\ \A u \in Threads : pc'[u] # "next" => ip'[u] \in DOMAIN use'.script[u]
    BY <2>1, <2>3 DEF CountInv
  <2>5. \A u \in Threads : u # t => (u \in Waits' <=> u \in Waits)
    BY <2>1, Zenon DEF Waits, InWait
  <2>6. waiters_count' = Cardinality(Waits')
    <3>1. CASE WaitEnter(t)
      <4>1. pc[t] = "body" /\ pc'[t] = "loop" /\ waiters_count' = waiters_count + 1
        BY <2>2, <3>1 DEF WaitEnter, GoTo, SemTypes
      <4>2. t \notin Waits /\ Waits' = Waits \cup {t}
        BY <2>5, <4>1 DEF Waits, InWait
      <4> QED
        BY <1>2, <4>1, <4>2, FS_AddElement, Zenon
    <3>2. CASE WaitLeave(t)
      <4>1. pc[t] = "loop" /\ pc'[t] = "unlock" /\ waiters_count' = waiters_count - 1
        BY <2>2, <3>2 DEF WaitLeave, GoTo, SemTypes
      <4>2. t \in Waits /\ Waits' = Waits \ {t}
        BY <2>5, <4>1 DEF Waits, InWait
      <4> QED
        BY <1>2, <4>1, <4>2, FS_RemoveElement, Zenon
    <3>3. CASE ~WaitEnter(t) /\ ~WaitLeave(t)
      <4>1. /\ waiters_count' = waiters_count
            /\ pc'[t] \in {"loop", "cond"} <=> pc[t] \in {"loop", "cond"}
        BY <1>4, <2>2, <3>3, ZenonT(30)
           DEF SemStep, Call, SemLock, SemUnlock, sem_trywait, sem_post, WaitMore, WaitReturned,
               GetvalueTry, GetvalueRead, DestroyTry, DestroyRelease, pthread_mutex_destroy,
               pthread_cond_destroy, DestroyZero, Done, GoTo, Leave, SemTypes
      <4>2. Waits' = Waits
        BY <2>5, <4>1, SMTT(30) DEF Waits, InWait
      <4> QED
        BY <1>2, <4>1, <4>2, SMTT(30)
    <3> QED
      BY <3>1, <3>2, <3>3
  <2> QED
    BY <1>1, <1>3, <2>4, <2>6, Zenon DEF CountInv
<1>5. CASE UNCHANGED semVars
  <2>1. UNCHANGED <<use, pc, ip, waiters_count>> /\ Waits' = Waits
    BY <1>5 DEF semVars, Waits, InWait
  <2>2. waiters_count' = Cardinality(Waits')
    BY <1>2, <2>1
  <2> QED
    BY <1>1, <1>3, <2>1, <2>2, Zenon DEF CountInv
<1> QED
  BY <1>4, <1>5 DEF Next, CondStep, Terminated, vars

\* sem_init
LEMMA CountInitInv == Init => CountInv
<1> SUFFICES ASSUME Init PROVE CountInv
  OBVIOUS
<1>1. SemInv
  BY SemInitInv
<1>2. {t \in Threads : InWait(t)} = {}
  BY DEF Init, InWait
<1>3. WaitersCounted
  BY <1>2, FS_EmptySet DEF Init, WaitersCounted
<1> QED
  BY <1>1, <1>3 DEF CountInv, Init

\* Until the semaphore is destroyed, waiters_count is the number of threads
\* in sem_wait and sem_timedwait, however their waits end: a sem_post that
\* finds it zero and does not signal leaves nobody asleep.
THEOREM SemWaitersCounted ==
    ASSUME NeverDestroyed
    PROVE  Spec => []WaitersCounted
<1>1. CountInv /\ [Next]_vars => CountInv'
  BY CountNextInv
<1>2. CountInv => WaitersCounted
  BY DEF CountInv
<1> QED
  BY CountInitInv, <1>1, <1>2, PTL DEF Spec

\* Until the semaphore is destroyed, its two counts change only under the
\* mutex, which the thread that changes them keeps in that step.
THEOREM SemGuarded ==
    ASSUME NeverDestroyed
    PROVE  Spec => [][ChangedUnderMutex]_vars
<1>1. CountInv /\ [Next]_vars => CountInv'
  BY CountNextInv
<1>2. CountInv /\ [Next]_vars => [ChangedUnderMutex]_vars
  BY OwnerChanges
<1> QED
  BY CountInitInv, <1>1, <1>2, PTL DEF Spec

-----------------------------------------------------------------------------
(* The destruction by the last user *)

\* Which call a thread is in, by where it is.
PlaceOK(t) ==
    /\ ip[t] > 0
    /\ pc[t] # "next" => ip[t] \in DOMAIN use.script[t]
    /\ pc[t] \in {"try", "done"} => CurrentOp(t) \in {"getvalue", "destroy"}
    /\ pc[t] \in {"lock", "body", "unlock"} => CurrentOp(t) # "destroy"

\* The posts that have taken effect, or have failed, and the tokens taken.
Made(p) == p[2] < ip[p[1]] \/ (p[2] = ip[p[1]] /\ pc[p[1]] = "unlock")
Posted(d) == {p \in Posts(d) : Made(p)}
Taken(d) == IF pc[d] = "unlock" THEN ip[d] ELSE ip[d] - 1

\* There are not more tokens than were posted, and when d has taken the last
\* one, still with the mutex, the others have left.
TokensOK(d) ==
    ip[d] < Len(use.script[d]) => value + Taken(d) =< use.init + Cardinality(Posted(d))
OthersGone(d) ==
    Taken(d) >= Len(use.script[d]) - 1 => \A t \in Threads \ {d} : ip[t] > Len(use.script[t])
FreedLast(d) ==
    freed # {} => \/ ip[d] > Len(use.script[d])
                  \/ ip[d] = Len(use.script[d]) /\ pc[d] \in {"dcond", "dzero", "done"}
LastOK(d) == TokensOK(d) /\ OthersGone(d) /\ FreedLast(d)

\* Somebody is to destroy the semaphore.
Destroyer == \E t \in Threads : \E i \in DOMAIN use.script[t] : use.script[t][i] = "destroy"

\* Invariant of all scenarios, also of those in which others destroy.
DestroyInv ==
    /\ SemInv
    /\ \A t \in Threads : PlaceOK(t)
    /\ freed # {} => Destroyer
    /\ \A d \in Threads : LastUser(d) => LastOK(d)

\* The scripts are finite, and so are the posts of all threads.
LEMMA PostsFinite ==
    ASSUME SemTypes, NEW d \in Threads
    PROVE  IsFiniteSet(Posts(d))
<1> DEFINE S == Threads \ {d}
           f == [t \in S |-> {t} \X DOMAIN use.script[t]]
           T == {{t} \X DOMAIN use.script[t] : t \in S}
<1>1. IsFiniteSet(S)
  BY ThreadsAssumption, FS_Subset
<1>2. f \in Surjection(S, T)
  BY DEF Surjection
<1>3. IsFiniteSet(T)
  <2> HIDE DEF S, f, T
  <2> QED
    BY <1>1, <1>2, FS_Surjection
<1>4. ASSUME NEW t \in S
      PROVE  IsFiniteSet({t} \X DOMAIN use.script[t])
  <2>1. use.script[t] \in Seq(SemOps)
    BY DEF SemTypes, Scenario
  <2>2. DOMAIN use.script[t] = 1..Len(use.script[t]) /\ Len(use.script[t]) \in Int
    BY <2>1
  <2>3. IsFiniteSet(1..Len(use.script[t]))
    BY <2>2, FS_Interval
  <2> QED
    BY <2>2, <2>3, FS_Singleton, FS_Product
<1>5. \A x \in T : IsFiniteSet(x)
  BY <1>4
<1> QED
  BY <1>3, <1>5, FS_UNION DEF Posts

\* Who is in a call is where its script says.
LEMMA PlaceKept ==
    ASSUME SemInv, NEW t \in Threads, SemStep(t), \A u \in Threads : PlaceOK(u)
    PROVE  \A u \in Threads : PlaceOK(u)'
<1>1. SemTypes /\ ThreadOK(t) /\ PlaceOK(t)
  BY Zenon DEF SemInv
<1>2. use' = use /\ \A u \in Threads : u # t => pc'[u] = pc[u] /\ ip'[u] = ip[u]
  BY SemFrame, Zenon
<1>3. \A u \in Threads : u # t => PlaceOK(u)'
  <2>1. \A u \in Threads : u # t => CurrentOp(u)' = CurrentOp(u)
    BY <1>2 DEF CurrentOp
  <2> QED
    BY <1>2, <2>1, SMTT(30) DEF PlaceOK
<1>4. CASE SemUnlock(t) \/ Done(t)
  <2>1. pc'[t] = "next" /\ ip'[t] > 0
    BY <1>1, <1>4, SMTT(30) DEF SemUnlock, Done, Leave, GoTo, SemTypes
  <2> QED
    BY <1>3, <2>1, SMTT(30) DEF PlaceOK
<1>5. CASE ip' = ip
  <2>1. CurrentOp(t)' = CurrentOp(t) /\ ip'[t] = ip[t]
    BY <1>2, <1>5, Zenon DEF CurrentOp
  <2>2. CASE Call(t)
    <3>1. /\ ip[t] \in DOMAIN use.script[t] /\ pc'[t] \in {"try", "lock"}
          /\ pc'[t] = "try" <=> CurrentOp(t) \in {"getvalue", "destroy"}
      BY <1>1, <2>2 DEF Call, GoTo, SemTypes
    <3>2. PlaceOK(t)'
      <4>1. /\ pc'[t] \in {"try", "done"} => pc'[t] = "try"
            /\ pc'[t] \in {"lock", "body", "unlock"} => pc'[t] # "try"
        BY ONLY <3>1, Zenon
      <4> QED
        BY <1>1, <1>2, <2>1, <3>1, <4>1, Zenon DEF PlaceOK
    <3> QED
      BY <1>3, <3>2, Zenon
  <2>3. CASE pc[t] # "next" /\ pc'[t] \notin {"try", "done", "lock", "body", "unlock"}
    <3>1. PlaceOK(t)'
      BY <1>1, <1>2, <2>1, <2>3, SMTT(30) DEF PlaceOK
    <3> QED
      BY <1>3, <3>1
  <2>4. ASSUME pc[t] # "next",
               pc'[t] \in {"try", "done"} => CurrentOp(t) \in {"getvalue", "destroy"},
               pc'[t] \in {"lock", "body", "unlock"} => CurrentOp(t) # "destroy"
        PROVE  \A u \in Threads : PlaceOK(u)'
    <3>1. PlaceOK(t)'
      BY <1>1, <1>2, <2>1, <2>4, Zenon DEF PlaceOK
    <3> QED
      BY <1>3, <3>1
  <2>5. CASE SemLock(t) \/ sem_trywait(t) \/ sem_post(t)
    <3>1. pc[t] \in {"lock", "body"} /\ pc'[t] \in {"body", "unlock"}
      BY <1>1, <2>5, Zenon DEF SemLock, sem_trywait, sem_post, GoTo, SemTypes
    <3> QED
      BY <1>1, <2>4, <3>1 DEF PlaceOK
  <2>6. CASE WaitEnter(t) \/ WaitMore(t) \/ WaitReturned(t)
    <3>1. pc[t] \in {"body", "loop", "cond"} /\ pc'[t] \in {"loop", "cond"}
      BY <1>1, <2>6, Zenon DEF WaitEnter, WaitMore, WaitReturned, GoTo, SemTypes
    <3> QED
      BY <2>3, <3>1
  <2>7. CASE WaitLeave(t)
    <3>1. pc[t] = "loop" /\ pc'[t] = "unlock"
      BY <1>1, <2>7, Zenon DEF WaitLeave, GoTo, SemTypes
    <3> QED
      BY <1>1, <2>4, <3>1 DEF ThreadOK, ResOK
  <2>8. CASE GetvalueTry(t) \/ GetvalueRead(t)
    <3>1. pc[t] \in {"try", "read"} /\ pc'[t] \in {"read", "done", "unlock"} /\ CurrentOp(t) = "getvalue"
      BY <1>1, <2>8, Zenon DEF GetvalueTry, GetvalueRead, GoTo, SemTypes, ThreadOK, ResOK
    <3> QED
      BY <2>4, <3>1
  <2>9. CASE DestroyTry(t) \/ DestroyRelease(t) \/ pthread_mutex_destroy(t)
             \/ pthread_cond_destroy(t) \/ DestroyZero(t)
    <3>1. /\ pc[t] \in {"try", "release", "dmutex", "dcond", "dzero"} /\ CurrentOp(t) = "destroy"
          /\ pc'[t] \in {"release", "done", "dmutex", "dcond", "dzero"}
      BY <1>1, <2>9, Zenon
         DEF DestroyTry, DestroyRelease, pthread_mutex_destroy, pthread_cond_destroy, DestroyZero,
             GoTo, SemTypes, ThreadOK, ResOK
    <3> QED
      BY <2>4, <3>1
  <2> QED
    BY <1>4, <2>2, <2>5, <2>6, <2>7, <2>8, <2>9, Zenon DEF SemStep
<1> QED
  BY <1>4, <1>5, Zenon
     DEF SemStep, Call, SemLock, sem_trywait, sem_post, WaitEnter, WaitMore, WaitReturned, WaitLeave,
         GetvalueTry, GetvalueRead, DestroyTry, DestroyRelease, pthread_mutex_destroy,
         pthread_cond_destroy, DestroyZero

\* What a scenario with a last user says of the calls in progress.
LEMMA LastCalls ==
    ASSUME SemInv, \A t \in Threads : PlaceOK(t), NEW d \in Threads, LastUser(d)
    PROVE  /\ pc[d] # "next" =>
                 /\ ip[d] \in 1..Len(use.script[d])
                 /\ CurrentOp(d) = IF ip[d] = Len(use.script[d]) THEN "destroy" ELSE "wait"
           /\ \A t \in Threads \ {d} : pc[t] # "next" =>
                 /\ ip[t] \in 1..Len(use.script[t]) /\ CurrentOp(t) = "post"
                 /\ pc[t] \in {"lock", "body", "unlock"}
           /\ \A t \in Threads : Len(use.script[t]) \in Nat /\ ip[t] \in Nat
                                  /\ DOMAIN use.script[t] = 1..Len(use.script[t])
           /\ use.loop = {} /\ Len(use.script[d]) > 0
<1>1. \A t \in Threads : /\ ip[t] \in Nat /\ Len(use.script[t]) \in Nat
                         /\ DOMAIN use.script[t] = 1..Len(use.script[t])
  <2>1. \A t \in Threads : ip[t] \in Nat /\ use.script[t] \in Seq(SemOps)
    BY DEF SemInv, SemTypes, Scenario
  <2> QED
    BY <2>1
<1>2. \A t \in Threads : pc[t] # "next" => ip[t] \in 1..Len(use.script[t])
  BY <1>1, Zenon DEF PlaceOK
<1>3. pc[d] # "next" => CurrentOp(d) = IF ip[d] = Len(use.script[d]) THEN "destroy" ELSE "wait"
  BY <1>1, <1>2 DEF LastUser, CurrentOp
<1>4. \A t \in Threads \ {d} : pc[t] # "next" => CurrentOp(t) = "post"
  <2>1. \A t \in Threads \ {d} : \A i \in DOMAIN use.script[t] : use.script[t][i] = "post"
    BY Zenon DEF LastUser
  <2> QED
    BY <1>1, <1>2, <2>1, Zenon DEF CurrentOp
<1>5. ASSUME NEW t \in Threads \ {d}, pc[t] # "next"
      PROVE  pc[t] \in {"lock", "body", "unlock"}
  <2>1. CurrentOp(t) = "post" /\ pc[t] \in Labels /\ ThreadOK(t) /\ PlaceOK(t)
    BY <1>4, <1>5 DEF SemInv, SemTypes
  <2> QED
    BY <1>5, <2>1 DEF ThreadOK, ResOK, PlaceOK, Labels
<1> QED
  BY <1>1, <1>2, <1>3, <1>4, <1>5, Zenon DEF LastUser

\* A post adds at most one token, and is counted.
LEMMA TokenAdded ==
    \A v, w, k, i \in Int : \A c, e \in Nat :
        /\ v + k =< i + c
        /\ (w = v /\ e = c) \/ (w =< v + 1 /\ e = c + 1)
        => w + k =< i + e
  OBVIOUS

\* Another thread posts, or is on its way; d has not taken the last token.
LEMMA LastOther ==
    ASSUME DestroyInv, NEW d \in Threads, LastUser(d), NEW t \in Threads \ {d}, SemStep(t)
    PROVE  LastOK(d)'
<1>0. TokensOK(d) /\ OthersGone(d) /\ FreedLast(d)
  BY Zenon DEF DestroyInv, LastOK
<1>1. SemInv /\ SemTypes /\ \A u \in Threads : PlaceOK(u)
  BY Zenon DEF DestroyInv, SemInv
<1>2. /\ use' = use /\ pc'[d] = pc[d] /\ ip'[d] = ip[d]
      /\ \A u \in Threads : u # t => pc'[u] = pc[u] /\ ip'[u] = ip[u]
  BY <1>1, SemFrame, Zenon
<1>3. /\ pc[t] # "next" => /\ ip[t] \in 1..Len(use.script[t]) /\ CurrentOp(t) = "post"
                           /\ pc[t] \in {"lock", "body", "unlock"}
      /\ \A u \in Threads : /\ Len(use.script[u]) \in Nat /\ ip[u] \in Nat
                             /\ DOMAIN use.script[u] = 1..Len(use.script[u])
      /\ use.loop = {}
  BY <1>1, LastCalls, Zenon
<1>4. Call(t) \/ SemLock(t) \/ sem_post(t) \/ SemUnlock(t)
  BY <1>3, ZenonT(30)
     DEF SemStep, Call, SemLock, sem_trywait, sem_post, WaitEnter, WaitMore, WaitReturned, WaitLeave,
         GetvalueTry, GetvalueRead, DestroyTry, DestroyRelease, pthread_mutex_destroy,
         pthread_cond_destroy, DestroyZero, Done
<1>5. ip[t] \in 1..Len(use.script[t]) /\ freed' = freed
  BY <1>3, <1>4, Zenon DEF Call, SemLock, sem_post, SemUnlock
<1>6. /\ ~(Taken(d) >= Len(use.script[d]) - 1) /\ Taken(d) \in Int
      /\ ip[d] < Len(use.script[d]) /\ ~(ip[d] > Len(use.script[d])) /\ ip[d] # Len(use.script[d])
  <2>1. ~(ip[t] > Len(use.script[t]))
    BY <1>3, <1>5
  <2>2. ~(Taken(d) >= Len(use.script[d]) - 1)
    BY <1>0, <2>1, Zenon DEF OthersGone
  <2> QED
    BY <1>3, <2>2 DEF Taken
<1>7. Taken(d)' = Taken(d) /\ freed' = {}
  <2>1. Taken(d)' = Taken(d)
    BY <1>2, Zenon DEF Taken
  <2>2. freed = {}
    BY <1>0, <1>6, Zenon DEF FreedLast
  <2> QED
    BY <1>5, <2>1, <2>2, Zenon
<1>8. Posts(d)' = Posts(d) /\ IsFiniteSet(Posts(d))
  BY <1>1, <1>2, PostsFinite, Zenon DEF Posts
<1>9. /\ IsFiniteSet(Posted(d)) /\ Cardinality(Posted(d)) \in Nat
      /\ IsFiniteSet(Posted(d)') /\ Cardinality(Posted(d)') \in Nat
  <2>1. Posted(d) \subseteq Posts(d) /\ Posted(d)' \subseteq Posts(d)
    BY <1>8 DEF Posted
  <2> QED
    BY <1>8, <2>1, FS_Subset, FS_CardinalityType, Zenon
<1>10. /\ \A p \in Posts(d) : p = <<p[1], p[2]>> /\ p[1] \in Threads /\ p[2] \in Nat
       /\ <<t, ip[t]>> \in Posts(d)
  BY <1>3, <1>5 DEF Posts
<1>11. \/ value' = value /\ Posted(d)' = Posted(d)
       \/ value' =< value + 1 /\ Cardinality(Posted(d)') = Cardinality(Posted(d)) + 1
  <2>1. \A p \in Posts(d) : p[1] # t => (Made(p)' <=> Made(p))
    BY <1>2, <1>10 DEF Made
  <2>2. CASE Call(t) \/ SemLock(t)
    <3>1. value' = value /\ ip' = ip /\ pc[t] # "unlock" /\ pc'[t] # "unlock"
      BY <1>1, <2>2 DEF Call, SemLock, GoTo, SemTypes
    <3>2. \A p \in Posts(d) : Made(p)' <=> Made(p)
      BY <2>1, <3>1 DEF Made
    <3>3. \A p : p \in Posted(d)' <=> p \in Posted(d)
      BY <1>8, <3>2, Zenon DEF Posted
    <3> QED
      BY <3>1, <3>3, Zenon
  <2>3. CASE SemUnlock(t)
    <3>1. value' = value /\ ip'[t] = ip[t] + 1 /\ pc[t] = "unlock" /\ pc'[t] = "next"
      BY <1>1, <1>3, <2>3 DEF SemUnlock, Leave, GoTo, SemTypes
    <3>2. \A p \in Posts(d) : p[1] = t => (Made(p)' <=> Made(p))
      BY <1>3, <1>10, <3>1 DEF Made
    <3>3. \A p : p \in Posted(d)' <=> p \in Posted(d)
      BY <1>8, <2>1, <3>2, Zenon DEF Posted
    <3> QED
      BY <3>1, <3>3, Zenon
  <2>4. CASE sem_post(t)
    <3>1. /\ value' \in {value, value + 1} /\ value \in Nat
          /\ ip' = ip /\ pc[t] = "body" /\ pc'[t] = "unlock"
      BY <1>1, <2>4, SemAssumption DEF sem_post, GoTo, SemTypes
    <3>2. PICK x : x = <<t, ip[t]>> /\ x \in Posts(d) /\ x[1] = t /\ x[2] = ip[t]
      BY <1>10
    <3>3. x \notin Posted(d)
      BY <1>3, <3>1, <3>2 DEF Posted, Made
    <3>4. \A p \in Posts(d) : p[1] = t => (Made(p)' <=> Made(p) \/ p = x)
      BY <1>3, <1>10, <3>1, <3>2 DEF Made
    <3>5. Made(x)'
      BY <3>1, <3>2 DEF Made
    <3>6. \A p : p \in Posted(d)' <=> p \in Posted(d) \cup {x}
      BY <1>8, <2>1, <3>2, <3>4, <3>5, Zenon DEF Posted
    <3>7. Posted(d)' = Posted(d) \cup {x}
      BY <3>6, Zenon
    <3>8. Cardinality(Posted(d)') = Cardinality(Posted(d)) + 1
      BY <1>9, <3>3, <3>7, FS_AddElement, Zenon
    <3>9. value' =< value + 1
      BY <3>1
    <3> QED
      BY <3>8, <3>9, Zenon
  <2> QED
    BY <1>4, <2>2, <2>3, <2>4, Zenon
<1>12. value' + Taken(d) =< use.init + Cardinality(Posted(d)')
  <2>1. value + Taken(d) =< use.init + Cardinality(Posted(d))
    BY <1>0, <1>6, Zenon DEF TokensOK
  <2>2. value \in Int /\ value' \in Int /\ use.init \in Int
    <3>1. SemTypes'
      BY <1>1, SemNextInv, Zenon DEF Next, SemInv
    <3> QED
      BY <1>1, <3>1, SemAssumption DEF SemTypes, Scenario
  <2> QED
    <3>1. (value' = value /\ Cardinality(Posted(d)') = Cardinality(Posted(d)))
          \/ (value' =< value + 1 /\ Cardinality(Posted(d)') = Cardinality(Posted(d)) + 1)
      BY ONLY <1>11, Zenon
    <3> QED
      BY ONLY <1>6, <1>9, <2>1, <2>2, <3>1, TokenAdded, Zenon
<1>13. TokensOK(d)'
  BY <1>2, <1>7, <1>12, Zenon DEF TokensOK
<1>14. OthersGone(d)'
  BY <1>2, <1>6, <1>7, Zenon DEF OthersGone
<1> QED
  BY <1>7, <1>13, <1>14, Zenon DEF LastOK, FreedLast

\* A step of the last user.
LEMMA LastSelf ==
    ASSUME DestroyInv, NEW d \in Threads, LastUser(d), SemStep(d)
    PROVE  LastOK(d)'
<1>0. TokensOK(d) /\ OthersGone(d) /\ FreedLast(d)
  BY Zenon DEF DestroyInv, LastOK
<1>1. SemInv /\ SemTypes /\ \A u \in Threads : PlaceOK(u) /\ ThreadOK(u)
  BY Zenon DEF DestroyInv, SemInv
<1>2. use' = use /\ \A u \in Threads : u # d => pc'[u] = pc[u] /\ ip'[u] = ip[u]
  BY <1>1, SemFrame, Zenon
<1>3. PICK last \in Nat : last = Len(use.script[d]) /\ last > 0
  BY <1>1, LastCalls, Zenon
<1>4. /\ pc[d] # "next" => /\ ip[d] \in 1..last
                           /\ CurrentOp(d) = IF ip[d] = last THEN "destroy" ELSE "wait"
      /\ \A u \in Threads : /\ Len(use.script[u]) \in Nat /\ ip[u] \in Nat
                             /\ DOMAIN use.script[u] = 1..Len(use.script[u])
      /\ use.loop = {}
  BY <1>1, <1>3, LastCalls, Zenon
<1>5. Posts(d)' = Posts(d) /\ IsFiniteSet(Posts(d))
  BY <1>1, <1>2, PostsFinite, Zenon DEF Posts
<1>6. \A p \in Posts(d) : /\ p = <<p[1], p[2]>> /\ p[1] \in Threads /\ p[1] # d
                          /\ p[2] \in DOMAIN use.script[p[1]]
  BY DEF Posts
<1>7. Posted(d)' = Posted(d)
  <2>1. \A p \in Posts(d) : Made(p)' <=> Made(p)
    BY <1>2, <1>6 DEF Made
  <2>2. \A p : p \in Posted(d)' <=> p \in Posted(d)
    BY <1>5, <2>1, Zenon DEF Posted
  <2> QED
    BY <2>2, Zenon
<1>8. PICK n \in Nat : n = Cardinality(Posted(d))
  <2>1. Posted(d) \subseteq Posts(d)
    BY DEF Posted
  <2> QED
    BY <1>5, <2>1, FS_Subset, FS_CardinalityType, Zenon
<1>9. value \in Nat /\ use.init \in Nat
  BY <1>1, SemAssumption DEF SemTypes, Scenario
<1>10. CASE WaitLeave(d)
  <2>1. /\ pc[d] = "loop" /\ pc'[d] = "unlock" /\ ip' = ip /\ freed' = freed
        /\ ip[d] \in 1..last /\ CurrentOp(d) = "wait"
    BY <1>1, <1>4, <1>10 DEF WaitLeave, GoTo, SemTypes, ThreadOK, ResOK
  <2>2. value > 0 /\ value' = value - 1
    BY <1>1, <1>10, <2>1 DEF WaitLeave, ThreadOK, ResOK
  <2>3. ip[d] < last /\ Taken(d) = ip[d] - 1 /\ Taken(d)' = ip[d] /\ ip[d] \in Nat
    <3>1. ip[d] # last /\ Taken(d) = ip[d] - 1 /\ Taken(d)' = ip[d]
      BY <1>4, <2>1, Zenon DEF Taken
    <3>2. ip[d] < last /\ ip[d] \in Nat
      BY <2>1, <3>1
    <3> QED
      BY <3>1, <3>2, Zenon
  <2>4. value + (ip[d] - 1) =< use.init + n
    BY <1>0, <1>3, <1>8, <2>3, Zenon DEF TokensOK
  <2>5. value' + ip[d] =< use.init + n
    BY <1>9, <2>2, <2>3, <2>4
  <2>6. freed' = {}
    <3>1. ~(ip[d] > last) /\ ip[d] # last
      BY <2>3
    <3> QED
      BY <1>0, <1>3, <2>1, <3>1, Zenon DEF FreedLast
  <2>7. ASSUME ip[d] >= last - 1, NEW u \in Threads \ {d}
        PROVE  ip[u] > Len(use.script[u])
    <3>1. n >= Cardinality(Posts(d)) /\ Cardinality(Posts(d)) \in Nat
      <4>1. last - 1 = use.init + Cardinality(Posts(d)) /\ Cardinality(Posts(d)) \in Nat
        BY <1>3, <1>5, FS_CardinalityType, Zenon DEF LastUser
      <4> QED
        BY <1>9, <2>2, <2>3, <2>4, <2>7, <4>1
    <3>2. Posted(d) \subseteq Posts(d)
      BY DEF Posted
    <3>3. n =< Cardinality(Posts(d)) /\ (Cardinality(Posts(d)) = n => Posts(d) = Posted(d))
      BY <1>5, <1>8, <3>2, FS_Subset, Zenon
    <3>4. Posts(d) = Posted(d)
      BY <3>1, <3>3
    <3>5. pc[u] # "unlock"
      BY <1>1, <2>1 DEF ThreadOK, LockOK
    <3>6. ASSUME NEW i \in DOMAIN use.script[u]
          PROVE  i < ip[u]
      <4>1. <<u, i>> \in Posts(d)
        BY DEF Posts
      <4>2. Made(<<u, i>>)
        BY <3>4, <4>1 DEF Posted
      <4> QED
        BY <3>5, <4>2 DEF Made
    <3>7. PICK m \in Nat : m = Len(use.script[u]) /\ DOMAIN use.script[u] = 1..m
      BY <1>4
    <3>8. ip[u] \in Nat /\ ip[u] > 0
      BY <1>1, <1>4 DEF PlaceOK
    <3> QED
      BY <3>6, <3>7, <3>8
  <2> QED
    <3>1. TokensOK(d)'
      BY <1>2, <1>7, <1>8, <2>3, <2>5, Zenon DEF TokensOK
    <3>2. OthersGone(d)'
      BY <1>2, <1>3, <2>1, <2>3, <2>7, Zenon DEF OthersGone
    <3> QED
      BY <2>6, <3>1, <3>2, Zenon DEF LastOK, FreedLast
<1>11. ASSUME ip' = ip, value' = value, freed' = freed, pc[d] # "unlock", pc'[d] # "unlock",
              freed # {} => pc'[d] \in {"dcond", "dzero", "done"} \/ ip[d] > last
       PROVE  LastOK(d)'
  <2>1. Taken(d)' = Taken(d)
    BY <1>11 DEF Taken
  <2> QED
    <3>1. TokensOK(d)'
      BY <1>0, <1>2, <1>7, <1>11, <2>1, Zenon DEF TokensOK
    <3>2. OthersGone(d)'
      BY <1>0, <1>2, <1>11, <2>1, Zenon DEF OthersGone
    <3>3. FreedLast(d)'
      BY <1>0, <1>2, <1>3, <1>11, Zenon DEF FreedLast
    <3> QED
      BY <3>1, <3>2, <3>3, Zenon DEF LastOK
<1>12. CASE Call(d) \/ SemLock(d) \/ WaitEnter(d) \/ WaitMore(d) \/ WaitReturned(d)
  <2>1. /\ ip' = ip /\ value' = value /\ freed' = freed /\ pc'[d] # "unlock"
        /\ pc[d] \in {"next", "lock", "body", "loop", "cond"} /\ ip[d] \in 1..last
    BY <1>1, <1>3, <1>4, <1>12 DEF Call, SemLock, WaitEnter, WaitMore, WaitReturned, GoTo, SemTypes
  <2>2. freed = {}
    <3>1. ~(ip[d] > last) /\ pc[d] \notin {"dcond", "dzero", "done"}
      BY <2>1
    <3> QED
      BY <1>0, <1>3, <3>1, Zenon DEF FreedLast
  <2> QED
    BY <1>11, <2>1, <2>2
<1>13. CASE SemUnlock(d)
  <2>1. /\ pc[d] = "unlock" /\ pc'[d] = "next" /\ ip'[d] = ip[d] + 1
        /\ value' = value /\ freed' = freed
    BY <1>1, <1>4, <1>13 DEF SemUnlock, Leave, GoTo, SemTypes
  <2>2. ip[d] \in 1..last /\ ip[d] # last
    BY <1>1, <1>4, <2>1 DEF PlaceOK
  <2>3. Taken(d) = ip[d] /\ Taken(d)' = ip[d]
    BY <2>1, <2>2 DEF Taken
  <2>4. ip[d] < last /\ ~(ip[d] > last)
    BY <2>2
  <2>5. freed' = {}
    BY <1>0, <1>3, <2>1, <2>2, <2>4, Zenon DEF FreedLast
  <2>6. TokensOK(d)'
    BY <1>0, <1>2, <1>3, <1>7, <2>1, <2>3, <2>4, Zenon DEF TokensOK
  <2>7. OthersGone(d)'
    BY <1>0, <1>2, <2>3, Zenon DEF OthersGone
  <2> QED
    BY <2>5, <2>6, <2>7, Zenon DEF LastOK, FreedLast
<1>14. ASSUME ip[d] = last, ip'[d] = last \/ ip'[d] = last + 1, pc[d] # "unlock", pc'[d] # "unlock",
              freed' # {} => ip'[d] > last \/ pc'[d] \in {"dcond", "dzero", "done"}
       PROVE  LastOK(d)'
  <2>1. Taken(d) = last - 1
    BY <1>14 DEF Taken
  <2>2. \A u \in Threads \ {d} : ip'[u] > Len(use.script[u])
    <3>1. Taken(d) >= last - 1
      BY <2>1
    <3> QED
      BY <1>0, <1>2, <1>3, <3>1, Zenon DEF OthersGone
  <2>3. ~(ip'[d] < last) /\ (ip'[d] = last \/ ip'[d] > last)
    BY <1>14
  <2>4. TokensOK(d)' /\ OthersGone(d)'
    BY <1>2, <1>3, <2>2, <2>3, Zenon DEF TokensOK, OthersGone
  <2>5. FreedLast(d)'
    BY <1>2, <1>3, <1>14, <2>3, Zenon DEF FreedLast
  <2> QED
    BY <2>4, <2>5, Zenon DEF LastOK
<1>15. CASE DestroyTry(d) \/ DestroyRelease(d)
  <2>1. /\ pc[d] \in {"try", "release"} /\ pc'[d] \in {"release", "done", "dmutex"}
        /\ ip' = ip /\ freed' = freed /\ CurrentOp(d) = "destroy"
    BY <1>1, <1>15 DEF DestroyTry, DestroyRelease, GoTo, SemTypes, ThreadOK, ResOK
  <2>2. ip[d] = last /\ ~(ip[d] > last) /\ pc[d] \notin {"dcond", "dzero", "done"}
    <3>1. ip[d] = last /\ pc[d] \notin {"dcond", "dzero", "done"}
      BY <1>4, <2>1, Zenon
    <3>2. ~(ip[d] > last)
      BY <3>1
    <3> QED
      BY <3>1, <3>2, Zenon
  <2>3. freed = {}
    BY <1>0, <1>3, <2>2, Zenon DEF FreedLast
  <2> QED
    BY <1>14, <2>1, <2>2, <2>3
<1>16. CASE pthread_mutex_destroy(d) \/ pthread_cond_destroy(d) \/ DestroyZero(d)
  <2>1. /\ pc[d] \in {"dmutex", "dcond", "dzero"} /\ pc'[d] \in {"dcond", "dzero", "done"}
        /\ ip' = ip /\ CurrentOp(d) = "destroy"
    BY <1>1, <1>16
       DEF pthread_mutex_destroy, pthread_cond_destroy, DestroyZero, GoTo, SemTypes, ThreadOK, ResOK
  <2>2. ip[d] = last
    BY <1>4, <2>1
  <2> QED
    BY <1>14, <2>1, <2>2
<1>17. CASE Done(d)
  <2>1. pc[d] = "done" /\ pc'[d] = "next" /\ ip'[d] = ip[d] + 1
    BY <1>1, <1>4, <1>17 DEF Done, Leave, GoTo, SemTypes
  <2>2. ip[d] = last
    BY <1>1, <1>4, <2>1 DEF PlaceOK
  <2>3. ip'[d] = last + 1 /\ ip'[d] > last
    BY <1>3, <2>1, <2>2
  <2> QED
    BY <1>14, <2>1, <2>2, <2>3, Zenon
<1>18. ~(sem_trywait(d) \/ sem_post(d) \/ GetvalueTry(d) \/ GetvalueRead(d))
  <2>1. pc[d] # "next" => CurrentOp(d) \in {"wait", "destroy"}
    BY <1>4
  <2> QED
    BY <1>1, <2>1, Zenon DEF sem_trywait, sem_post, GetvalueTry, GetvalueRead, ThreadOK, ResOK
<1> QED
  BY <1>10, <1>12, <1>13, <1>15, <1>16, <1>17, <1>18, Zenon DEF SemStep

\* sem_init
LEMMA DestroyInitInv == Init => DestroyInv
<1> SUFFICES ASSUME Init PROVE DestroyInv
  OBVIOUS
<1>1. SemInv /\ SemTypes
  BY SemInitInv DEF SemInv
<1>2. \A t \in Threads : PlaceOK(t) /\ ip[t] = 1 /\ pc[t] = "next"
  BY DEF Init, PlaceOK
<1>3. freed = {} /\ value = use.init
  BY DEF Init
<1>4. ASSUME NEW d \in Threads, LastUser(d)
      PROVE  LastOK(d)
  <2>1. Taken(d) = 0 /\ use.init \in Nat
    BY <1>1, <1>2, SemAssumption DEF Taken, SemTypes, Scenario
  <2>2. IsFiniteSet(Posted(d)) /\ Cardinality(Posted(d)) \in Nat
    <3>1. Posted(d) \subseteq Posts(d)
      BY DEF Posted
    <3> QED
      BY <1>1, <3>1, PostsFinite, FS_Subset, FS_CardinalityType, Zenon
  <2>3. value + Taken(d) =< use.init + Cardinality(Posted(d))
    BY <1>3, <2>1, <2>2
  <2>4. ASSUME Taken(d) >= Len(use.script[d]) - 1, NEW t \in Threads \ {d}
        PROVE  ip[t] > Len(use.script[t])
    <3>1. Len(use.script[d]) \in Nat /\ Len(use.script[d]) > 0 /\ Len(use.script[t]) \in Nat
          /\ DOMAIN use.script[t] = 1..Len(use.script[t])
      BY <1>1, <1>2, <1>4, LastCalls, Zenon
    <3>2. Cardinality(Posts(d)) = 0
      <4>1. IsFiniteSet(Posts(d)) /\ Cardinality(Posts(d)) \in Nat
        BY <1>1, PostsFinite, FS_CardinalityType, Zenon
      <4>2. Len(use.script[d]) - 1 = use.init + Cardinality(Posts(d))
        BY <1>4 DEF LastUser
      <4> QED
        BY <2>1, <2>4, <3>1, <4>1, <4>2
    <3>3. Posts(d) = {}
      BY <1>1, <3>2, PostsFinite, FS_EmptySet, Zenon
    <3>4. ~(1 \in DOMAIN use.script[t])
      <4> SUFFICES ASSUME 1 \in DOMAIN use.script[t]
                   PROVE  FALSE
        OBVIOUS
      <4>1. <<t, 1>> \in Posts(d)
        BY DEF Posts
      <4> QED
        BY <3>3, <4>1
    <3> QED
      BY <1>2, <3>1, <3>4
  <2> QED
    BY <1>3, <2>3, <2>4, Zenon DEF LastOK, TokensOK, OthersGone, FreedLast
<1> QED
  BY <1>1, <1>2, <1>3, <1>4, Zenon DEF DestroyInv

\* Every step of every scenario keeps the invariant.
LEMMA DestroyNextInv ==
    ASSUME DestroyInv, [Next]_vars
    PROVE  DestroyInv'
<1>1. SemInv /\ SemInv'
  BY SemNextInv, Zenon DEF DestroyInv
<1>2. ASSUME NEW t \in Threads, SemStep(t)
      PROVE  DestroyInv'
  <2>1. \A u \in Threads : PlaceOK(u)'
    BY <1>1, <1>2, PlaceKept, Zenon DEF DestroyInv
  <2>2. use' = use
    BY <1>1, <1>2, SemFrame, Zenon
  <2>3. freed' # {} => Destroyer'
    <3>1. CASE pthread_mutex_destroy(t) \/ pthread_cond_destroy(t)
      <4>1. CurrentOp(t) = "destroy" /\ ip[t] \in DOMAIN use.script[t]
        BY <1>1, <3>1, Zenon
           DEF pthread_mutex_destroy, pthread_cond_destroy, SemInv, ThreadOK, ResOK, DestroyInv, PlaceOK
      <4> QED
        BY <2>2, <4>1, Zenon DEF Destroyer, CurrentOp
    <3>2. CASE freed' = freed
      BY <2>2, <3>2, Zenon DEF DestroyInv, Destroyer
    <3> QED
      BY <1>2, <3>1, <3>2, Zenon
         DEF SemStep, Call, SemLock, SemUnlock, sem_trywait, sem_post, WaitEnter, WaitMore,
             WaitReturned, WaitLeave, GetvalueTry, GetvalueRead, DestroyTry, DestroyRelease,
             DestroyZero, Done
  <2>4. ASSUME NEW d \in Threads, LastUser(d)'
        PROVE  LastOK(d)'
    <3>1. LastUser(d)
      BY <2>2, <2>4 DEF LastUser, Posts
    <3> QED
      BY <1>2, <3>1, LastOther, LastSelf, Zenon
  <2> QED
    BY <1>1, <2>1, <2>3, <2>4, Zenon DEF DestroyInv
<1>3. CASE UNCHANGED semVars
  <2>1. UNCHANGED <<use, value, pc, ip, freed>>
    BY <1>3 DEF semVars
  <2>2. /\ \A u \in Threads : PlaceOK(u)' <=> PlaceOK(u)
        /\ Destroyer' <=> Destroyer
    BY <2>1, Zenon DEF PlaceOK, CurrentOp, Destroyer
  <2>3. ASSUME NEW d \in Threads
        PROVE  (LastUser(d)' <=> LastUser(d)) /\ (LastOK(d)' <=> LastOK(d))
    <3>1. Posts(d)' = Posts(d) /\ Posted(d)' = Posted(d) /\ Taken(d)' = Taken(d)
      BY <2>1 DEF Posts, Posted, Made, Taken
    <3> QED
      BY <2>1, <3>1, Zenon DEF LastUser, LastOK, TokensOK, OthersGone, FreedLast
  <2> QED
    BY <1>1, <2>1, <2>2, <2>3, Zenon DEF DestroyInv
<1> QED
  BY <1>2, <1>3 DEF Next, CondStep, Terminated, vars

\* When the last user of a semaphore destroys it, for any number of threads
\* and of posts, the mutex and the condition are freed only after every
\* sem_post has returned; without a sem_destroy they are never freed.
THEOREM SemDestroySafe == Spec => []DestroySafe
<1>1. DestroyInv => DestroySafe
  <2> SUFFICES ASSUME DestroyInv, DestroyedLast, freed # {}, NEW t \in Threads
               PROVE  pc[t] \in {"next", "dmutex", "dcond", "dzero", "done"}
    BY Zenon DEF DestroySafe
  <2>1. PICK d \in Threads : LastUser(d)
    BY Zenon DEF DestroyInv, Destroyer, DestroyedLast
  <2>2. OthersGone(d) /\ FreedLast(d) /\ SemInv /\ \A u \in Threads : PlaceOK(u)
    BY <2>1, Zenon DEF DestroyInv, LastOK
  <2>3. /\ \A u \in Threads : Len(use.script[u]) \in Nat /\ ip[u] \in Nat
        /\ \A u \in Threads : pc[u] # "next" => ip[u] \in 1..Len(use.script[u])
    BY <2>1, <2>2, LastCalls, Zenon
  <2>4. CASE t = d
    BY <2>2, <2>3, <2>4 DEF FreedLast
  <2>5. CASE t # d
    <3>1. Taken(d) >= Len(use.script[d]) - 1
      BY <2>2, <2>3 DEF FreedLast, Taken
    <3>2. ip[t] > Len(use.script[t])
      BY <2>2, <2>5, <3>1, Zenon DEF OthersGone
    <3> QED
      BY <2>3, <3>2
  <2> QED
    BY <2>4, <2>5
<1>2. DestroyInv /\ [Next]_vars => DestroyInv'
  BY DestroyNextInv
<1> QED
  BY DestroyInitInv, <1>1, <1>2, PTL DEF Spec

=============================================================================
