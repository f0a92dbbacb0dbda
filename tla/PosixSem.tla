------------------------------ MODULE PosixSem ------------------------------
(***************************************************************************)
(* The POSIX semaphore of library/pthread/semaphore.c: a counter, a count  *)
(* of waiters, a mutex and a condition variable (those of CondVar).  Each  *)
(* thread runs a script of semaphore calls, once or for ever.              *)
(***************************************************************************)
EXTENDS CondVar, Integers

CONSTANTS
    SEM_VALUE_MAX,   \* the largest value (a bound of the code, small here)
    Scenarios        \* the uses of the semaphore to consider

SemOps == {"wait", "timedwait", "trywait", "post", "getvalue", "destroy"}

\* The value given to sem_init, the calls each thread makes, in order, and
\* the threads that start over at the end of their script.
Scenario == [init : 0..SEM_VALUE_MAX, script : [Threads -> Seq(SemOps)], loop : SUBSET Threads]

ASSUME SemAssumption ==
    /\ SEM_VALUE_MAX \in Nat \ {0}
    /\ Scenarios \subseteq Scenario

VARIABLES
    use,             \* the scenario the threads follow
    value,           \* sem->value
    waiters_count,   \* sem->waiters_count
    pc,              \* where a thread is in the call it makes
    ip,              \* the index of that call in the thread's script
    res,             \* the local variable "result", and the outcome returned
    sval,            \* what sem_getvalue last stored for the thread
    freed            \* which of the mutex and the condition were destroyed

semVars == <<use, value, waiters_count, pc, ip, res, sval, freed>>
vars == <<CondVars, semVars>>

Labels == {"next", "lock", "body", "loop", "cond", "unlock", "try", "read",
           "release", "dmutex", "dcond", "dzero", "done"}
SemResults == Results \cup {"EAGAIN", "EOVERFLOW", "EBUSY"}

TypeOK ==
    /\ CondTypeOK
    /\ use \in Scenario
    /\ value \in 0..SEM_VALUE_MAX
    /\ waiters_count \in Nat
    /\ pc \in [Threads -> Labels]
    /\ ip \in [Threads -> Nat]
    /\ res \in [Threads -> SemResults]
    /\ sval \in [Threads -> Int]
    /\ freed \subseteq {"mutex", "cond"}

\* sem_init
Init ==
    /\ CondInit
    /\ use \in Scenarios
    /\ value = use.init
    /\ waiters_count = 0
    /\ pc = [t \in Threads |-> "next"]
    /\ ip = [t \in Threads |-> 1]
    /\ res = [t \in Threads |-> "OK"]
    /\ sval = [t \in Threads |-> 0]
    /\ freed = {}

CurrentOp(t) == use.script[t][ip[t]]
GoTo(t, label) == pc' = [pc EXCEPT ![t] = label]
SetRes(t, r) == res' = [res EXCEPT ![t] = r]

-----------------------------------------------------------------------------
(* The calls. *)

\* A thread enters its next call; sem_getvalue and sem_destroy begin with a
\* pthread_mutex_trylock, all others with a pthread_mutex_lock.
Call(t) ==
    /\ pc[t] = "next"
    /\ ip[t] \in DOMAIN use.script[t]
    /\ GoTo(t, IF CurrentOp(t) \in {"getvalue", "destroy"} THEN "try" ELSE "lock")
    /\ SetRes(t, "OK")
    /\ \E at \in IF CurrentOp(t) = "timedwait" THEN Timeouts[t] ELSE {"none"} :
          abstime' = [abstime EXCEPT ![t] = at]
    /\ UNCHANGED <<owner, incond, waiters, sig, cpc, armed, cret, canceled>>
    /\ UNCHANGED <<use, value, waiters_count, ip, sval, freed>>

\* Back to the caller, which goes on to the next call of its script.
Leave(t) ==
    /\ GoTo(t, "next")
    /\ ip' = [ip EXCEPT ![t] = IF @ = Len(use.script[t]) /\ t \in use.loop THEN 1 ELSE @ + 1]

SemLock(t) ==
    /\ pc[t] = "lock"
    /\ MutexObtain(t)
    /\ GoTo(t, "body")
    /\ UNCHANGED <<incond, waiters, sig, cpc, abstime, armed, cret, canceled>>
    /\ UNCHANGED <<use, value, waiters_count, ip, res, sval, freed>>

SemUnlock(t) ==
    /\ pc[t] = "unlock"
    /\ MutexRelease(t)
    /\ Leave(t)
    /\ UNCHANGED <<incond, waiters, sig, cpc, abstime, armed, cret, canceled>>
    /\ UNCHANGED <<use, value, waiters_count, res, sval, freed>>

sem_trywait(t) ==
    /\ pc[t] = "body"
    /\ CurrentOp(t) = "trywait"
    /\ \/ /\ value > 0
          /\ value' = value - 1
          /\ UNCHANGED res
       \/ /\ value = 0
          /\ SetRes(t, "EAGAIN")
          /\ UNCHANGED value
    /\ GoTo(t, "unlock")
    /\ UNCHANGED <<CondVars, use, waiters_count, ip, sval, freed>>

\* Mutant: sem_post does not signal the condition.
sem_post_NoSignal(t) ==
    /\ pc[t] = "body"
    /\ CurrentOp(t) = "post"
    /\ value' = IF value < SEM_VALUE_MAX THEN value + 1 ELSE value
    /\ SetRes(t, IF value < SEM_VALUE_MAX THEN res[t] ELSE "EOVERFLOW")
    /\ GoTo(t, "unlock")
    /\ UNCHANGED <<CondVars, use, waiters_count, ip, sval, freed>>

\* Mutant: the mutex is released before the post is complete.
sem_post_UnlockFirst(t) ==
    /\ pc[t] = "body"
    /\ CurrentOp(t) = "post"
    /\ value < SEM_VALUE_MAX
    /\ value' = value + 1
    /\ MutexRelease(t)
    /\ GoTo(t, "unlock")
    /\ UNCHANGED <<incond, waiters, sig, cpc, abstime, armed, cret, canceled>>
    /\ UNCHANGED <<use, waiters_count, ip, res, sval, freed>>

\* The condition is signalled only when somebody is counted as waiting.
sem_post(t) ==
    /\ pc[t] = "body"
    /\ CurrentOp(t) = "post"
    /\ \/ /\ value >= SEM_VALUE_MAX
          /\ SetRes(t, "EOVERFLOW")
          /\ UNCHANGED <<value, sig>>
       \/ /\ value < SEM_VALUE_MAX
          /\ value' = value + 1
          /\ IF waiters_count > 0 THEN CondSignal ELSE UNCHANGED sig
          /\ UNCHANGED res
    /\ GoTo(t, "unlock")
    /\ UNCHANGED <<owner, incond, waiters, cpc, abstime, armed, cret, canceled>>
    /\ UNCHANGED <<use, waiters_count, ip, sval, freed>>

\* sem_timedwait, and sem_wait, which is sem_timedwait without an abstime.
WaitEnter(t) ==
    /\ pc[t] = "body"
    /\ CurrentOp(t) \in {"wait", "timedwait"}
    /\ waiters_count' = waiters_count + 1
    /\ GoTo(t, "loop")
    /\ UNCHANGED <<CondVars, use, value, ip, res, sval, freed>>

\* while (value == 0 && result == 0): another wait on the condition, with
\* the abstime of the call.
WaitMore(t) ==
    /\ pc[t] = "loop"
    /\ value = 0 /\ res[t] = "OK"
    /\ CallCondWait(t, abstime[t])
    /\ GoTo(t, "cond")
    /\ UNCHANGED <<use, value, waiters_count, ip, res, sval, freed>>

WaitReturned(t) ==
    /\ pc[t] = "cond"
    /\ cpc[t] = "ret"
    /\ cpc' = [cpc EXCEPT ![t] = "idle"]
    /\ SetRes(t, cret[t])
    /\ GoTo(t, "loop")
    /\ UNCHANGED <<owner, incond, waiters, sig, abstime, armed, cret, canceled>>
    /\ UNCHANGED <<use, value, waiters_count, ip, sval, freed>>

\* Mutant: the token is not taken.
WaitLeave_NoTake(t) ==
    /\ pc[t] = "loop"
    /\ value > 0 \/ res[t] # "OK"
    /\ waiters_count' = waiters_count - 1
    /\ GoTo(t, "unlock")
    /\ UNCHANGED <<CondVars, use, value, ip, res, sval, freed>>

\* The loop is over: an error is returned even if the value is positive now.
WaitLeave(t) ==
    /\ pc[t] = "loop"
    /\ value > 0 \/ res[t] # "OK"
    /\ waiters_count' = waiters_count - 1
    /\ value' = IF res[t] = "OK" THEN value - 1 ELSE value
    /\ GoTo(t, "unlock")
    /\ UNCHANGED <<CondVars, use, ip, res, sval, freed>>

\* sem_getvalue: with the mutex, the value or minus the number of waiters;
\* without it (somebody else is inside), minus the number of waiters.
GetvalueTry(t) ==
    /\ pc[t] = "try"
    /\ CurrentOp(t) = "getvalue"
    /\ \/ /\ MutexObtain(t)
          /\ GoTo(t, "read")
          /\ UNCHANGED sval
       \/ /\ ~Free
          /\ sval' = [sval EXCEPT ![t] = -waiters_count]
          /\ GoTo(t, "done")
          /\ UNCHANGED owner
    /\ UNCHANGED <<incond, waiters, sig, cpc, abstime, armed, cret, canceled>>
    /\ UNCHANGED <<use, value, waiters_count, ip, res, freed>>

GetvalueRead(t) ==
    /\ pc[t] = "read"
    /\ sval' = [sval EXCEPT ![t] = IF incond > 0 THEN -waiters_count ELSE value]
    /\ GoTo(t, "unlock")
    /\ UNCHANGED <<CondVars, use, value, waiters_count, ip, res, freed>>

\* sem_destroy gives up only when the mutex is held; what the two destroy
\* calls below return is ignored.
DestroyTry(t) ==
    /\ pc[t] = "try"
    /\ CurrentOp(t) = "destroy"
    /\ owner' = IF Free THEN t ELSE owner
    /\ GoTo(t, IF Free THEN "release" ELSE "done")
    /\ SetRes(t, IF Free THEN "OK" ELSE "EBUSY")
    /\ UNCHANGED <<incond, waiters, sig, cpc, abstime, armed, cret, canceled>>
    /\ UNCHANGED <<use, value, waiters_count, ip, sval, freed>>

DestroyRelease(t) ==
    /\ pc[t] = "release"
    /\ MutexRelease(t)
    /\ GoTo(t, "dmutex")
    /\ UNCHANGED <<incond, waiters, sig, cpc, abstime, armed, cret, canceled>>
    /\ UNCHANGED <<use, value, waiters_count, ip, res, sval, freed>>

\* pthread_mutex_destroy: EBUSY when the mutex is held or waited with.
pthread_mutex_destroy(t) ==
    /\ pc[t] = "dmutex"
    /\ freed' = IF Free /\ incond = 0 THEN freed \cup {"mutex"} ELSE freed
    /\ GoTo(t, "dcond")
    /\ UNCHANGED <<CondVars, use, value, waiters_count, ip, res, sval>>

\* pthread_cond_destroy: EBUSY when the list of waiters is not empty.
pthread_cond_destroy(t) ==
    /\ pc[t] = "dcond"
    /\ freed' = IF waiters = <<>> THEN freed \cup {"cond"} ELSE freed
    /\ GoTo(t, "dzero")
    /\ UNCHANGED <<CondVars, use, value, waiters_count, ip, res, sval>>

DestroyZero(t) ==
    /\ pc[t] = "dzero"
    /\ value' = 0
    /\ waiters_count' = 0
    /\ GoTo(t, "done")
    /\ UNCHANGED <<CondVars, use, ip, res, sval, freed>>

Done(t) ==
    /\ pc[t] = "done"
    /\ Leave(t)
    /\ UNCHANGED <<CondVars, use, value, waiters_count, res, sval, freed>>

SemStep(t) ==
    \/ Call(t)
    \/ SemLock(t)
    \/ SemUnlock(t)
    \/ sem_trywait(t)
    \/ sem_post(t)
    \/ WaitEnter(t)
    \/ WaitMore(t)
    \/ WaitReturned(t)
    \/ WaitLeave(t)
    \/ GetvalueTry(t)
    \/ GetvalueRead(t)
    \/ DestroyTry(t)
    \/ DestroyRelease(t)
    \/ pthread_mutex_destroy(t)
    \/ pthread_cond_destroy(t)
    \/ DestroyZero(t)
    \/ Done(t)

\* A step of the condition variable or of its environment.
CondStep(t) == (CondWaitStep(t) \/ Environment(t)) /\ UNCHANGED semVars

\* Every thread has made the calls of its script.
Finished == \A t \in Threads : ip[t] > Len(use.script[t]) \/ cpc[t] = "exited"
Terminated == Finished /\ UNCHANGED vars

Next == (\E t \in Threads : SemStep(t) \/ CondStep(t)) \/ Terminated

Spec == Init /\ [][Next]_vars

\* Tasks run, time passes, and exec grants a mutex in the order of arrival.
FairSpec ==
    /\ Spec
    /\ \A t \in Threads :
          /\ WF_vars(SemStep(t))
          /\ WF_vars(CondWaitStep(t) /\ UNCHANGED semVars)
          /\ WF_vars(Tick(t) /\ UNCHANGED semVars)
          /\ WF_vars(TimerExpires(t) /\ UNCHANGED semVars)
          /\ SF_vars(SemLock(t))
          /\ SF_vars(Relock(t) /\ UNCHANGED semVars)

-----------------------------------------------------------------------------
(* Properties *)

InWait(t) == pc[t] \in {"loop", "cond"}

\* sem->waiters_count counts the threads inside sem_wait and sem_timedwait,
\* so a sem_post that finds it zero and does not signal leaves no sleeper.
WaitersCounted == waiters_count = Cardinality({t \in Threads : InWait(t)})

\* The call a thread makes, and how far it is, as AbstractSem sees it.
AbsOp == [t \in Threads |-> IF pc[t] = "next" THEN "none" ELSE CurrentOp(t)]
AbsPhase ==
    [t \in Threads |-> IF pc[t] = "next" THEN "out"
                       ELSE IF pc[t] \notin {"unlock", "done"} THEN "in"
                       ELSE IF res[t] = "OK" THEN "ok" ELSE "failed"]

Abs == INSTANCE AbstractSem WITH val <- value, op <- AbsOp, phase <- AbsPhase

\* Every semaphore call takes effect atomically, once, and reports what it
\* did: the implementation is the counter of AbstractSem.
ImplementsAbstractSem == Abs!AbsSpec

\* The scenarios in which the semaphore is a lock.
UsedAsLock ==
    /\ use.init = 1
    /\ \A t \in Threads : \A i \in DOMAIN use.script[t] :
          use.script[t][i] = IF i % 2 = 1 THEN "wait" ELSE "post"

\* A thread asleep in sem_wait does not stay asleep while the semaphore has
\* tokens: it wakes up, or somebody else takes them.
NoStuckWaiter ==
    \A t \in Threads : (cpc[t] = "wait" /\ value > 0) ~> (cpc[t] # "wait" \/ value = 0)

\* Threads that use the semaphore as a lock all get through: no wake-up that
\* matters is lost.
AllFinish == UsedAsLock => <>Finished

\* The calls of the threads other than d.
Posts(d) == UNION {{t} \X DOMAIN use.script[t] : t \in Threads \ {d}}

\* Thread d takes every token there will be, the last of them in the knowledge
\* that the last sem_post was made, and then destroys the semaphore.
LastUser(d) ==
    LET last == Len(use.script[d])
    IN  /\ use.loop = {}
        /\ last > 0 /\ use.script[d][last] = "destroy"
        /\ \A i \in 1..(last - 1) : use.script[d][i] = "wait"
        /\ \A t \in Threads \ {d} : \A i \in DOMAIN use.script[t] : use.script[t][i] = "post"
        /\ last - 1 = use.init + Cardinality(Posts(d))

\* The scenarios in which nobody destroys the semaphore, or its last user.
DestroyedLast ==
    \/ \A t \in Threads : \A i \in DOMAIN use.script[t] : use.script[t][i] # "destroy"
    \/ \E d \in Threads : LastUser(d)

\* sem_destroy, called by the thread that has taken the last token, frees the
\* mutex and the condition only when no thread is still inside a call.
DestroySafe ==
    DestroyedLast /\ freed # {} =>
        \A t \in Threads : pc[t] \in {"next", "dmutex", "dcond", "dzero", "done"}

=============================================================================
