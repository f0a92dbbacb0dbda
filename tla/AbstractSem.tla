---------------------------- MODULE AbstractSem ----------------------------
(***************************************************************************)
(* What semaphore.h promises: a counter between 0 and SEM_VALUE_MAX, and   *)
(* operations that each take effect once, atomically, between the call and *)
(* the return, or fail without an effect and for a reason.                 *)
(***************************************************************************)
EXTENDS Integers

CONSTANTS Threads, SEM_VALUE_MAX

VARIABLES
    val,      \* the value of the semaphore
    op,       \* the operation a thread is executing, or "none"
    phase     \* "out" of the library, "in" a call, or its outcome

absvars == <<val, op, phase>>

AbsOps == {"wait", "timedwait", "trywait", "post", "getvalue", "destroy"}
Phases == {"out", "in", "ok", "failed"}

AbsInit ==
    /\ val \in 0..SEM_VALUE_MAX
    /\ op = [t \in Threads |-> "none"]
    /\ phase = [t \in Threads |-> "out"]

Call(t) ==
    /\ phase[t] = "out"
    /\ \E o \in AbsOps : op' = [op EXCEPT ![t] = o]
    /\ phase' = [phase EXCEPT ![t] = "in"]
    /\ UNCHANGED val

Becomes(t, outcome) ==
    /\ phase[t] = "in"
    /\ phase' = [phase EXCEPT ![t] = outcome]
    /\ UNCHANGED op

Take(t) ==
    /\ op[t] \in {"wait", "timedwait", "trywait"}
    /\ val > 0
    /\ val' = val - 1
    /\ Becomes(t, "ok")

Give(t) ==
    /\ op[t] = "post"
    /\ val < SEM_VALUE_MAX
    /\ val' = val + 1
    /\ Becomes(t, "ok")

Observe(t) ==
    /\ op[t] = "getvalue"
    /\ Becomes(t, "ok")
    /\ UNCHANGED val

\* A destroyed semaphore is zero.
Destroy(t) ==
    /\ op[t] = "destroy"
    /\ val' = 0
    /\ Becomes(t, "ok")

\* sem_trywait fails only on an empty semaphore, sem_post only on a full
\* one, sem_wait never; a timed wait may always be too late, and
\* sem_destroy may always come too early.
Fail(t) ==
    /\ \/ op[t] = "trywait" /\ val = 0
       \/ op[t] = "post" /\ val = SEM_VALUE_MAX
       \/ op[t] \in {"timedwait", "destroy"}
    /\ Becomes(t, "failed")
    /\ UNCHANGED val

Return(t) ==
    /\ phase[t] \in {"ok", "failed"}
    /\ phase' = [phase EXCEPT ![t] = "out"]
    /\ op' = [op EXCEPT ![t] = "none"]
    /\ UNCHANGED val

AbsNext ==
    \E t \in Threads :
        Call(t) \/ Take(t) \/ Give(t) \/ Observe(t) \/ Destroy(t) \/ Fail(t) \/ Return(t)

AbsSpec == AbsInit /\ [][AbsNext]_absvars

=============================================================================
