------------------------------ MODULE CondVar ------------------------------
(***************************************************************************)
(* The pthread mutex and condition variable of library/pthread, one of     *)
(* each, on top of exec signals.  A waiter puts a node that lives on its   *)
(* own stack at the tail of cond->waiters, releases the mutex and sleeps   *)
(* in exec's Wait() until its condition bit, its timer bit or CTRL-C is    *)
(* pending; then it takes the mutex again and unlinks its node.            *)
(*                                                                         *)
(* cond->semaphore only brackets AddTail, Remove and the signalling loop,  *)
(* none of which blocks while holding it, so each bracketed section is one *)
(* step here and the semaphore itself is not a variable.                   *)
(*                                                                         *)
(* This module holds the state, the calls and their internal steps, and    *)
(* what holds of them under every client.  CondMonitor closes it with the  *)
(* most general client; PosixSem and Barrier compose it with the code that *)
(* uses it in the library.                                                 *)
(***************************************************************************)
EXTENDS Naturals, FiniteSets, Sequences, Functions

CONSTANTS
    Threads,     \* the tasks that share the mutex and the condition
    NoThread,    \* "nobody owns the mutex"
    Timeouts,    \* the abstime arguments that each thread may pass
    Cancelable,  \* the threads somebody may cancel
    Breakable    \* the threads somebody may send CTRL-C to

ASSUME ThreadsAssumption == /\ IsFiniteSet(Threads)
                            /\ NoThread \notin Threads
ASSUME CancelableAssumption == Cancelable \subseteq Threads /\ Breakable \subseteq Threads

\* An absolute time as the code can tell it from now.  timersub yields zero
\* only for "now"; the difference to a time that is "past" wraps in the
\* unsigned Seconds and asks the timer for some 136 years.
AbsTimes == {"none", "future", "now", "past"}
ASSUME TimeoutsAssumption == Timeouts \in [Threads -> SUBSET AbsTimes]

VARIABLES
    owner,       \* the task that holds mutex->mutex, or NoThread
    incond,      \* mutex->incond
    waiters,     \* cond->waiters, head first
    sig,         \* tc_SigRecvd of every task: pending "cond", "timer", "brk"
    cpc,         \* where a task is in _pthread_cond_timedwait
    abstime,     \* the abstime argument of the call in progress
    armed,       \* a timer request of the task will expire at its abstime
    cret,        \* what the last wait returned
    canceled     \* ThreadInfo.canceled

CondVars == <<owner, incond, waiters, sig, cpc, abstime, armed, cret, canceled>>

Signals == {"cond", "timer", "brk"}
CallStates == {"idle", "enqueue", "unlock", "wait", "relock", "remove",
               "ret", "exited"}
Results == {"OK", "ETIMEDOUT", "EINVAL", "CTRL_C"}

\* The tasks whose node is linked in cond->waiters.
Linked == {"unlock", "wait", "relock", "remove"}

CondTypeOK ==
    /\ owner \in Threads \cup {NoThread}
    /\ incond \in Nat
    /\ waiters \in Seq(Threads)
    /\ sig \in [Threads -> SUBSET Signals]
    /\ cpc \in [Threads -> CallStates]
    /\ abstime \in [Threads -> AbsTimes]
    /\ armed \in [Threads -> BOOLEAN]
    /\ cret \in [Threads -> Results]
    /\ canceled \in [Threads -> BOOLEAN]

CondInit ==
    /\ owner = NoThread
    /\ incond = 0
    /\ waiters = <<>>
    /\ sig = [t \in Threads |-> {}]
    /\ cpc = [t \in Threads |-> "idle"]
    /\ abstime = [t \in Threads |-> "none"]
    /\ armed = [t \in Threads |-> FALSE]
    /\ cret = [t \in Threads |-> "OK"]
    /\ canceled = [t \in Threads |-> FALSE]

-----------------------------------------------------------------------------
(* The mutex: of the default kind, so a non-recursive exec mutex.          *)

Free == owner = NoThread

\* MutexObtain: blocks until the mutex is free.
MutexObtain(t) == Free /\ owner' = t

\* MutexRelease by the owner.
MutexRelease(t) == owner = t /\ owner' = NoThread

-----------------------------------------------------------------------------
(* _pthread_cond_timedwait, step by step. *)

\* The call, up to the point where the node is ready: an abstime that is
\* exactly now returns at once, opening timer.device may fail, and an
\* abstime in the past arms a timer that never expires in practice.
CallCondWait(t, at) ==
    /\ abstime' = [abstime EXCEPT ![t] = at]
    /\ \/ /\ at = "now"
          /\ cpc' = [cpc EXCEPT ![t] = "ret"]
          /\ cret' = [cret EXCEPT ![t] = "ETIMEDOUT"]
          /\ UNCHANGED armed
       \/ /\ at # "none"
          /\ cpc' = [cpc EXCEPT ![t] = "ret"]
          /\ cret' = [cret EXCEPT ![t] = "EINVAL"]
          /\ UNCHANGED armed
       \/ /\ at # "now"
          /\ cpc' = [cpc EXCEPT ![t] = "enqueue"]
          /\ armed' = [armed EXCEPT ![t] = at = "future"]
          /\ UNCHANGED cret
    /\ UNCHANGED <<owner, incond, waiters, sig, canceled>>

\* AddTail under cond->semaphore.
Enqueue(t) ==
    /\ cpc[t] = "enqueue"
    /\ waiters' = Append(waiters, t)
    /\ cpc' = [cpc EXCEPT ![t] = "unlock"]
    /\ UNCHANGED <<owner, incond, sig, abstime, armed, cret, canceled>>

\* mutex->incond++ and pthread_mutex_unlock, both while the mutex is held.
UnlockToWait(t) ==
    /\ cpc[t] = "unlock"
    /\ incond' = incond + 1
    /\ MutexRelease(t)
    /\ cpc' = [cpc EXCEPT ![t] = "wait"]
    /\ UNCHANGED <<waiters, sig, abstime, armed, cret, canceled>>

\* Mutant: the mask of Wait() lacks the condition bit.
Wake_NoCondBit(t) ==
    /\ cpc[t] = "wait"
    /\ sig[t] \cap {"timer", "brk"} # {}
    /\ sig' = [sig EXCEPT ![t] = @ \cap {"cond"}]
    /\ cret' = [cret EXCEPT ![t] = IF "timer" \in sig[t] THEN "ETIMEDOUT" ELSE "CTRL_C"]
    /\ cpc' = [cpc EXCEPT ![t] = "relock"]
    /\ UNCHANGED <<owner, incond, waiters, abstime, armed, canceled>>

\* Mutant: a condition bit is tested before CTRL-C.
Wake_CondFirst(t) ==
    /\ cpc[t] = "wait"
    /\ sig[t] # {}
    /\ sig' = [sig EXCEPT ![t] = {}]
    /\ cret' = [cret EXCEPT ![t] = CASE "timer" \in sig[t] -> "ETIMEDOUT"
                                     [] sig[t] = {"brk"} -> "CTRL_C"
                                     [] OTHER -> "OK"]
    /\ cpc' = [cpc EXCEPT ![t] = "relock"]
    /\ UNCHANGED <<owner, incond, waiters, abstime, armed, canceled>>

\* Wait() returns, and consumes, whatever is pending.  The bits decide the
\* result that Dequeue delivers: the timer bit wins over CTRL-C.
Wake(t) ==
    /\ cpc[t] = "wait"
    /\ sig[t] # {}
    /\ sig' = [sig EXCEPT ![t] = {}]
    /\ cret' = [cret EXCEPT ![t] = CASE "timer" \in sig[t] -> "ETIMEDOUT"
                                     [] sig[t] \in {{"brk"}, {"brk", "cond"}} -> "CTRL_C"
                                     [] OTHER -> "OK"]
    /\ cpc' = [cpc EXCEPT ![t] = "relock"]
    /\ UNCHANGED <<owner, incond, waiters, abstime, armed, canceled>>

\* Mutant: the wait returns without the mutex.
Relock_NoLock(t) ==
    /\ cpc[t] = "relock"
    /\ incond' = incond - 1
    /\ cpc' = [cpc EXCEPT ![t] = "remove"]
    /\ UNCHANGED <<owner, waiters, sig, abstime, armed, cret, canceled>>

\* Mutant: a wait that was not notified leaves the count as it is.
Relock_KeepsCount(t) ==
    /\ cpc[t] = "relock"
    /\ MutexObtain(t)
    /\ incond' = IF cret[t] = "OK" THEN incond - 1 ELSE incond
    /\ cpc' = [cpc EXCEPT ![t] = "remove"]
    /\ UNCHANGED <<waiters, sig, abstime, armed, cret, canceled>>

\* pthread_mutex_lock and mutex->incond--.
Relock(t) ==
    /\ cpc[t] = "relock"
    /\ MutexObtain(t)
    /\ incond' = incond - 1
    /\ cpc' = [cpc EXCEPT ![t] = "remove"]
    /\ UNCHANGED <<waiters, sig, abstime, armed, cret, canceled>>

\* The waiter's node leaves the list wherever it stands.
Unlink(s, t) ==
    LET k == CHOOSE i \in DOMAIN s : s[i] = t
    IN  SubSeq(s, 1, k - 1) \o SubSeq(s, k + 1, Len(s))

\* Mutant: a canceled thread exits before its node is removed.
Dequeue_CancelFirst(t) ==
    /\ cpc[t] = "remove"
    /\ waiters' = IF cret[t] = "CTRL_C" THEN waiters ELSE Unlink(waiters, t)
    /\ sig' = [sig EXCEPT ![t] = @ \ {"cond", "timer"}]
    /\ armed' = [armed EXCEPT ![t] = FALSE]
    /\ cpc' = [cpc EXCEPT ![t] =
                 IF cret[t] = "CTRL_C" /\ canceled[t] THEN "exited" ELSE "ret"]
    /\ cret' = [cret EXCEPT ![t] = IF @ = "CTRL_C" THEN "OK" ELSE @]
    /\ UNCHANGED <<owner, incond, abstime, canceled>>

\* Remove under cond->semaphore, the signal bits and the timer are given
\* back, and the call returns.  After a CTRL-C pthread_testcancel ends the
\* thread here if it was canceled; otherwise the wait returns 0.
Dequeue(t) ==
    /\ cpc[t] = "remove"
    /\ waiters' = Unlink(waiters, t)
    /\ sig' = [sig EXCEPT ![t] = @ \ {"cond", "timer"}]
    /\ armed' = [armed EXCEPT ![t] = FALSE]
    /\ cpc' = [cpc EXCEPT ![t] =
                 IF cret[t] = "CTRL_C" /\ canceled[t] THEN "exited" ELSE "ret"]
    /\ cret' = [cret EXCEPT ![t] = IF @ = "CTRL_C" THEN "OK" ELSE @]
    /\ UNCHANGED <<owner, incond, abstime, canceled>>

CondWaitStep(t) ==
    \/ Enqueue(t)
    \/ UnlockToWait(t)
    \/ Wake(t)
    \/ Relock(t)
    \/ Dequeue(t)

-----------------------------------------------------------------------------
(* Waking: the signalling loop, the timer, CTRL-C. *)

\* Signal(): sets a bit in each of the tasks.
Raise(tasks, bit) ==
    sig' = [t \in Threads |-> IF t \in tasks THEN sig[t] \cup {bit} ELSE sig[t]]

\* _pthread_cond_broadcast(cond, FALSE).  The nodes stay linked.
CondBroadcast == Raise(Range(waiters), "cond")

\* _pthread_cond_broadcast(cond, TRUE): only the node at the head.
CondSignal == Raise({t \in Range(waiters) : t = Head(waiters)}, "cond")

\* Time goes by: the abstime of a call in progress becomes now, then past.
Tick(t) ==
    /\ abstime[t] \in {"future", "now"}
    /\ cpc[t] \notin {"idle", "exited"}
    /\ abstime' = [abstime EXCEPT ![t] = IF @ = "future" THEN "now" ELSE "past"]
    /\ UNCHANGED <<owner, incond, waiters, sig, cpc, armed, cret, canceled>>

\* timer.device replies to an armed request once its time has come.
TimerExpires(t) ==
    /\ armed[t]
    /\ abstime[t] # "future"
    /\ armed' = [armed EXCEPT ![t] = FALSE]
    /\ Raise({t}, "timer")
    /\ UNCHANGED <<owner, incond, waiters, cpc, abstime, cret, canceled>>

\* The user, or the system, sends CTRL-C to a task.
Break(t) ==
    /\ cpc[t] # "exited"
    /\ Raise({t}, "brk")
    /\ UNCHANGED <<owner, incond, waiters, cpc, abstime, armed, cret, canceled>>

\* pthread_cancel of a thread with deferred cancellation.
Cancel(t) ==
    /\ cpc[t] # "exited"
    /\ ~canceled[t]
    /\ canceled' = [canceled EXCEPT ![t] = TRUE]
    /\ Raise({t}, "brk")
    /\ UNCHANGED <<owner, incond, waiters, cpc, abstime, armed, cret>>

Environment(t) ==
    \/ Tick(t)
    \/ TimerExpires(t)
    \/ t \in Breakable /\ Break(t)
    \/ t \in Cancelable /\ Cancel(t)

-----------------------------------------------------------------------------
(* What every client may rely on. *)

\* Every state of the call in which the code relies on the mutex is one in
\* which the caller holds it; in particular when the wait returns, and when
\* it ends a canceled thread whose cleanup handler will unlock the mutex.
HoldsMutex ==
    \A t \in Threads :
        cpc[t] \in {"enqueue", "unlock", "remove", "ret"} => owner = t

\* cond->waiters links exactly the tasks between AddTail and Remove, each
\* once: no node outlives the stack frame it is part of, whichever way the
\* wait ended (signal, timeout, CTRL-C, cancellation).
WaitersExact ==
    /\ IsInjective(waiters)
    /\ Range(waiters) = {t \in Threads : cpc[t] \in Linked}

\* mutex->incond counts the tasks that released the mutex in a wait and do
\* not have it back, which is what pthread_mutex_destroy relies on to refuse
\* a mutex that somebody will take again.
IncondExact ==
    incond = Cardinality({t \in Threads : cpc[t] \in {"wait", "relock"}})

\* A thread that makes no timed waits and was canceled cannot go to sleep in
\* a wait for good: the CTRL-C of pthread_cancel is still pending when it
\* reaches Wait().  (A timed wait that times out drops it, see Wake.)
CancelPending ==
    \A t \in Threads :
        ( /\ Timeouts[t] = {"none"}
          /\ canceled[t]
          /\ cpc[t] \in {"idle", "enqueue", "unlock", "wait", "ret"} )
        => "brk" \in sig[t]

=============================================================================
