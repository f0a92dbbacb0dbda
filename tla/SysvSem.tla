------------------------------ MODULE SysvSem ------------------------------
(***************************************************************************)
(* System V semaphore sets: semget, semop, and of semctl SETVAL and        *)
(* IPC_RMID.  semop locks the key map, finds the set, locks the set,       *)
(* releases the key map, checks all operations and then performs them one  *)
(* by one, waking the tasks that wait for what each has changed.  semctl   *)
(* has only the key map locked, so it runs between any two steps of a      *)
(* semop that has the set locked, and a semaphore is loaded and stored in  *)
(* two steps.                                                              *)
(*                                                                         *)
(* A set is known by perm.seq.  A task that goes on working on a set that  *)
(* has been freed works on what was there; nothing else is modelled to     *)
(* happen to the memory.  Operations name semaphores that exist, or so     *)
(* large a number that semop refuses it.                                   *)
(***************************************************************************)
EXTENDS IpcKeyMap, Sequences, SequencesExt

CONSTANTS
    Tasks,          \* the processes, of one task each
    Programs,       \* the sequences of calls that they may make
    NoTask,         \* nobody holds the lock
    Polite          \* semctl is not called while a semop has the set locked

ASSUME SemAssumption ==
    /\ NoTask \notin Tasks
    /\ Polite \in BOOLEAN
    /\ \A p \in Programs :
          /\ DOMAIN p = Tasks
          /\ \A t \in Tasks : \A i \in DOMAIN p[t] :
                p[t][i].op \in {"get", "semop", "setval", "rmid"}

VARIABLES
    map,            \* semcx.keymap
    mapLock,        \* the task that holds its lock
    set,            \* set[s]: the set with perm.seq = s
    pc,             \* where every task is
    call,           \* its call
    si,             \* the set it has found
    at,             \* the operation of the list it is at
    tmp,            \* the value it has loaded
    waited,         \* zW, nW and n: the list it was on, and of which semaphore and set
    undo,           \* the chain of UndoInfo of the process
    ret,            \* what its last call returned
    todo            \* the calls it has still to make

locals == <<call, si, at, tmp, waited, undo, ret, todo>>
vars == <<map, mapLock, set, pc, locals>>

Wakers == {"wakeZ", "wakeN"}
PCs == {"idle", "enter", "found", "check", "load", "store", "suspend", "suspended",
        "destroy", "hung", "exited"} \cup Wakers
Lists == {"zList", "nList"}

\* wasSet records that SETVAL was used, stray how often a counter was lowered
\* by a task that had raised that of another set.
SemType ==
    [semval : Int, semncnt : Int, semzcnt : Int, zList : Seq(Tasks), nList : Seq(Tasks),
     wasSet : BOOLEAN, stray : [Lists -> Nat]]

TypeOK ==
    /\ IsKeyMap(map)
    /\ mapLock \in Tasks \cup {NoTask}
    /\ DOMAIN set = 0..(map.idx - 1)
    /\ \A s \in DOMAIN set :
          /\ set[s].alive \in BOOLEAN /\ set[s].lock \in Tasks \cup {NoTask}
          /\ \A n \in DOMAIN set[s].sems : set[s].sems[n] \in SemType
    /\ pc \in [Tasks -> PCs]
    /\ si \in [Tasks -> {-1} \cup DOMAIN set]
    /\ waited \in [Tasks -> {<<>>} \cup (Lists \X Nat \X DOMAIN set)]

Init ==
    /\ map = IPCMapInit
    /\ mapLock = NoTask
    /\ set = [s \in {} |-> NULL]
    /\ pc = [t \in Tasks |-> "idle"]
    /\ call = [t \in Tasks |-> [op |-> "none"]]
    /\ si = [t \in Tasks |-> -1]
    /\ at = [t \in Tasks |-> 0]
    /\ tmp = [t \in Tasks |-> 0]
    /\ waited = [t \in Tasks |-> <<>>]
    /\ undo = [t \in Tasks |-> <<>>]
    /\ ret = [t \in Tasks |-> "none"]
    /\ todo \in Programs

GoTo(t, p) == pc' = [pc EXCEPT ![t] = p]
Return(t, r) == GoTo(t, "idle") /\ ret' = [ret EXCEPT ![t] = r]

Call(t) ==
    /\ pc[t] = "idle"
    /\ todo[t] # <<>>
    /\ call' = [call EXCEPT ![t] = Head(todo[t])]
    /\ todo' = [todo EXCEPT ![t] = Tail(@)]
    /\ si' = [si EXCEPT ![t] = -1]
    /\ at' = [at EXCEPT ![t] = 0]
    /\ waited' = [waited EXCEPT ![t] = <<>>]
    /\ GoTo(t, "enter")
    /\ UNCHANGED <<map, mapLock, set, tmp, undo, ret>>

\* libClose: the records of SEM_UNDO are freed, not applied.
Exit(t) ==
    /\ pc[t] = "idle"
    /\ todo[t] = <<>>
    /\ undo' = [undo EXCEPT ![t] = <<>>]
    /\ GoTo(t, "exited")
    /\ UNCHANGED <<map, mapLock, set, call, si, at, tmp, waited, ret, todo>>

-----------------------------------------------------------------------------
(* semget *)

sem_setup ==
    [semval |-> 1, semncnt |-> 0, semzcnt |-> 0, zList |-> <<>>, nList |-> <<>>,
     wasSet |-> FALSE, stray |-> [list \in Lists |-> 0]]

sem_construct(nsems) ==
    [alive |-> TRUE, lock |-> NoTask, sems |-> [n \in 0..(nsems - 1) |-> sem_setup]]

\* A new set gets its semaphores, or is removed again for want of memory.
semget(t) ==
    /\ pc[t] = "enter" /\ call[t].op = "get"
    /\ mapLock = NoTask
    /\ \E r \in GetIPCKeyId(map, call[t].key, call[t].creat, call[t].excl) :
          /\ \/ map' = r.map /\ Return(t, r.errno)
             \/ /\ r.map.nused > map.nused
                /\ map' = IPCRmId(r.map, r.id)
                /\ Return(t, "ENOMEM")
          /\ set' = [s \in 0..(r.map.idx - 1) |->
                        IF s < map.idx THEN set[s]
                        ELSE [sem_construct(call[t].nsems) EXCEPT !.alive = map'.nused > map.nused]]
    /\ UNCHANGED <<mapLock, call, si, at, tmp, waited, undo, todo>>

-----------------------------------------------------------------------------
(* semop *)

Set(t) == set[si[t]]
SetSet(t, s) == set' = [set EXCEPT ![si[t]] = s]
Ops(t) == call[t].ops

\* Mutant: a call whose set is gone tries again.
Lookup_Redo(t) ==
    /\ pc[t] = "enter" /\ call[t].op = "semop"
    /\ mapLock = NoTask
    /\ LET o == GetIPCById(map, call[t].id)
       IN  IF o = NULL
           THEN UNCHANGED <<pc, mapLock, si>>
           ELSE /\ GoTo(t, "found")
                /\ mapLock' = t
                /\ si' = [si EXCEPT ![t] = o.seq]
    /\ UNCHANGED <<map, set, call, at, tmp, waited, undo, ret, todo>>

Lookup(t) ==
    /\ pc[t] = "enter" /\ call[t].op = "semop"
    /\ mapLock = NoTask
    /\ LET o == GetIPCById(map, call[t].id)
       IN  IF o = NULL
           THEN Return(t, "EIDRM") /\ UNCHANGED <<mapLock, si>>
           ELSE /\ GoTo(t, "found")
                /\ mapLock' = t
                /\ si' = [si EXCEPT ![t] = o.seq]
                /\ UNCHANGED ret
    /\ UNCHANGED <<map, set, call, at, tmp, waited, undo, todo>>

LockSet(t) ==
    /\ pc[t] = "found"
    /\ Set(t).lock = NoTask
    /\ SetSet(t, [Set(t) EXCEPT !.lock = t])
    /\ mapLock' = NoTask
    /\ GoTo(t, "check")
    /\ UNCHANGED <<map, locals>>

Passes(sems, o) ==
    /\ o.num \in DOMAIN sems
    /\ o.op < 0 => sems[o.num].semval >= -o.op
    /\ o.op = 0 => sems[o.num].semval <= 0

ListFor(o) == IF o.op < 0 THEN "nList" ELSE "zList"
CountFor(list) == IF list = "nList" THEN "semncnt" ELSE "semzcnt"

\* Mutant: the count of waiters is not reduced by a task that retries.
Retried_NoCount(t) == Set(t)

\* The set after the counter that the task raised when it went to wait is
\* lowered again.  If its set was removed, the task may have found another
\* one under the same id, and lowers the counter there; what is behind the
\* last semaphore of that set is not modelled.
Retried(t) ==
    LET list == waited[t][1]
        n == waited[t][2]
        strays == IF waited[t][3] = si[t] THEN 0 ELSE 1
    IN  IF waited[t] = <<>> \/ n \notin DOMAIN Set(t).sems THEN Set(t)
        ELSE [Set(t) EXCEPT !.sems[n][CountFor(list)] = @ - 1,
                            !.sems[n].stray[list] = @ + strays]

\* GetUndo never moves on in the chain: it ends if the chain is empty or
\* its first record is for this set.
GetUndoEnds(t) == undo[t] = <<>> \/ Head(undo[t]).id = call[t].id

WithUndo(t) ==
    IF undo[t] # <<>> THEN undo[t]
    ELSE <<[id |-> call[t].id, Adj |-> [n \in DOMAIN Set(t).sems |-> 0]]>>

\* The first operation that cannot be performed, and whether one up to it
\* asks for SEM_UNDO.
Refused(t) == {j \in DOMAIN Ops(t) : ~Passes(Set(t).sems, Ops(t)[j])}
NeedsUndo(t) ==
    \E j \in DOMAIN Ops(t) :
        /\ Ops(t)[j].undo /\ Ops(t)[j].num \in DOMAIN Set(t).sems
        /\ \A k \in Refused(t) : j <= k

\* Mutant: the loop ends one operation early.
NextOp_Short(t, s) ==
    IF at[t] >= Len(Ops(t)) - 1
    THEN /\ SetSet(t, [s EXCEPT !.lock = NoTask])
         /\ Return(t, "0") /\ UNCHANGED at
    ELSE /\ SetSet(t, s)
         /\ at' = [at EXCEPT ![t] = @ + 1]
         /\ GoTo(t, "load") /\ UNCHANGED ret

\* On to the next operation; the set is unlocked after the last one.
NextOp(t, s) ==
    IF at[t] = Len(Ops(t))
    THEN /\ SetSet(t, [s EXCEPT !.lock = NoTask])
         /\ Return(t, "0") /\ UNCHANGED at
    ELSE /\ SetSet(t, s)
         /\ at' = [at EXCEPT ![t] = @ + 1]
         /\ GoTo(t, "load") /\ UNCHANGED ret

\* Without a refused operation the task goes on to perform them.  Otherwise
\* the call fails, or the task joins the waiters of that semaphore; either
\* way the set is unlocked.
Check(t) ==
    /\ pc[t] = "check"
    /\ LET o == Ops(t)[Min(Refused(t))]
           list == ListFor(o)
           unlocked == [Retried(t) EXCEPT !.lock = NoTask]
       IN  IF NeedsUndo(t) /\ ~GetUndoEnds(t)
           THEN /\ SetSet(t, Retried(t))
                /\ waited' = [waited EXCEPT ![t] = <<>>]
                /\ GoTo(t, "hung") /\ UNCHANGED <<at, undo, ret>>
           ELSE /\ undo' = [undo EXCEPT ![t] = IF NeedsUndo(t) THEN WithUndo(t) ELSE @]
                /\ IF Refused(t) = {}
                   THEN /\ NextOp(t, Retried(t))
                        /\ waited' = [waited EXCEPT ![t] = <<>>]
                   ELSE IF o.num \notin DOMAIN Set(t).sems \/ o.nowait
                   THEN /\ SetSet(t, unlocked)
                        /\ waited' = [waited EXCEPT ![t] = <<>>]
                        /\ Return(t, IF o.num \in DOMAIN Set(t).sems THEN "EAGAIN" ELSE "EFBIG")
                        /\ UNCHANGED at
                   ELSE /\ SetSet(t, [unlocked EXCEPT !.sems[o.num][CountFor(list)] = @ + 1,
                                                      !.sems[o.num][list] = Append(@, t)])
                        /\ waited' = [waited EXCEPT ![t] = <<list, o.num, si[t]>>]
                        /\ GoTo(t, "suspend") /\ UNCHANGED <<at, ret>>
    /\ UNCHANGED <<map, mapLock, call, si, tmp, todo>>

SuspendTask(t) ==
    /\ pc[t] = "suspend"
    /\ GoTo(t, "suspended")
    /\ UNCHANGED <<map, mapLock, set, locals>>

Op(t) == Ops(t)[at[t]]

Load(t) ==
    /\ pc[t] = "load"
    /\ tmp' = [tmp EXCEPT ![t] = Set(t).sems[Op(t).num].semval]
    /\ GoTo(t, "store")
    /\ UNCHANGED <<map, mapLock, set, call, si, at, waited, undo, ret, todo>>

\* Mutant: an increment wakes nobody.
WhomToWake_NotN(o, val) == IF val = 0 THEN "wakeZ" ELSE "nobody"

\* Who is woken: those that wait for zero, those that wait for more, nobody.
WhomToWake(o, val) ==
    IF val = 0 THEN "wakeZ" ELSE IF o.op > 0 THEN "wakeN" ELSE "nobody"

Store(t) ==
    /\ pc[t] = "store"
    /\ LET val == tmp[t] + Op(t).op
           s == [Set(t) EXCEPT !.sems[Op(t).num].semval = val]
           whom == WhomToWake(Op(t), val)
       IN  /\ IF whom = "nobody" THEN NextOp(t, s)
              ELSE SetSet(t, s) /\ GoTo(t, whom) /\ UNCHANGED <<at, ret>>
           /\ undo' = IF Op(t).undo
                      THEN [undo EXCEPT ![t][1].Adj[Op(t).num] = @ - Op(t).op]
                      ELSE undo
    /\ UNCHANGED <<map, mapLock, call, si, tmp, waited, todo>>

\* WakeList on a list: the first waiter is restarted once it is suspended.
WakeFirst(t, n, list) ==
    /\ Set(t).sems[n][list] # <<>>
    /\ LET w == Head(Set(t).sems[n][list])
       IN  pc[w] = "suspended" /\ GoTo(w, "enter")
    /\ SetSet(t, [Set(t) EXCEPT !.sems[n][list] = Tail(@)])
    /\ UNCHANGED <<map, mapLock, locals>>

WakeList(t) ==
    /\ pc[t] \in Wakers
    /\ LET list == IF pc[t] = "wakeZ" THEN "zList" ELSE "nList"
       IN  \/ WakeFirst(t, Op(t).num, list)
           \/ /\ Set(t).sems[Op(t).num][list] = <<>>
              /\ NextOp(t, Set(t))
              /\ UNCHANGED <<map, mapLock, call, si, tmp, waited, undo, todo>>

-----------------------------------------------------------------------------
(* semctl *)

\* SETVAL wakes nobody, whatever the value; IPC_RMID goes on to the waiters.
semctl(t) ==
    /\ pc[t] = "enter" /\ call[t].op \in {"setval", "rmid"}
    /\ mapLock = NoTask
    /\ LET o == GetIPCById(map, call[t].id)
       IN  IF o = NULL
           THEN Return(t, "EIDRM") /\ UNCHANGED <<mapLock, set, si, undo>>
           ELSE /\ Polite => set[o.seq].lock = NoTask
                /\ si' = [si EXCEPT ![t] = o.seq]
                /\ IF ~GetUndoEnds(t)
                   THEN GoTo(t, "hung") /\ mapLock' = t /\ UNCHANGED <<set, undo, ret>>
                   ELSE IF call[t].op = "rmid"
                   THEN GoTo(t, "destroy") /\ mapLock' = t /\ UNCHANGED <<set, undo, ret>>
                   ELSE IF call[t].num \notin DOMAIN set[o.seq].sems
                   THEN Return(t, "EINVAL") /\ UNCHANGED <<mapLock, set, undo>>
                   ELSE /\ set' = [set EXCEPT ![o.seq].sems[call[t].num] =
                                      [@ EXCEPT !.semval = call[t].val, !.wasSet = TRUE]]
                        /\ undo' = IF undo[t] = <<>> THEN undo
                                   ELSE [undo EXCEPT ![t][1].Adj[call[t].num] = 0]
                        /\ Return(t, "0") /\ UNCHANGED mapLock
    /\ UNCHANGED <<map, call, at, tmp, waited, todo>>

\* sem_destroy wakes the waiters of one semaphore after the other.
Before(n, list, m, other) == m < n \/ (m = n /\ list = "nList" /\ other = "zList")

sem_destroy(t) ==
    /\ pc[t] = "destroy"
    /\ LET sems == Set(t).sems
       IN  \/ \E n \in DOMAIN sems, list \in Lists :
                /\ \A m \in DOMAIN sems, other \in Lists :
                      Before(n, list, m, other) => sems[m][other] = <<>>
                /\ WakeFirst(t, n, list)
           \/ /\ \A n \in DOMAIN sems, list \in Lists : sems[n][list] = <<>>
              /\ SetSet(t, [Set(t) EXCEPT !.alive = FALSE])
              /\ map' = IPCRmId(map, call[t].id)
              /\ mapLock' = NoTask
              /\ Return(t, "0")
              /\ UNCHANGED <<call, si, at, tmp, waited, undo, todo>>

-----------------------------------------------------------------------------

Step(t) ==
    \/ Exit(t) \/ semget(t)
    \/ Lookup(t) \/ LockSet(t) \/ Check(t) \/ SuspendTask(t)
    \/ Load(t) \/ Store(t) \/ WakeList(t)
    \/ semctl(t) \/ sem_destroy(t)

Hung == \E t \in Tasks : pc[t] = "hung"

\* Everybody has exited or waits, or a task loops in GetUndo with a lock.
Quiet ==
    /\ Hung \/ \A t \in Tasks : pc[t] \in {"suspended", "exited"}
    /\ UNCHANGED vars

Next == (\E t \in Tasks : Call(t) \/ Step(t)) \/ Quiet

Spec == Init /\ [][Next]_vars

\* Every process makes its calls, and every task is scheduled.
FairSpec == Spec /\ \A t \in Tasks : WF_vars(Call(t) \/ Step(t))

-----------------------------------------------------------------------------
(* Properties *)

Asleep(t) == pc[t] \in {"suspend", "suspended"}
Alive == {s \in DOMAIN set : set[s].alive}

\* The lists of a semaphore hold exactly the tasks that sleep on it or are
\* about to, and nobody sleeps on a set that is gone.
SleepersListed ==
    /\ \A t \in Tasks : Asleep(t) => si[t] \in Alive
    /\ \A s \in Alive : \A n \in DOMAIN set[s].sems, list \in Lists :
          LET l == set[s].sems[n][list]
          IN  /\ IsInjective(l)
              /\ ToSet(l) = {t \in Tasks : Asleep(t) /\ si[t] = s /\ waited[t] = <<list, n, s>>}

\* semncnt and semzcnt, which GETNCNT and GETZCNT return, count the tasks
\* that wait, and those that were woken until they have looked again; less
\* one, for ever, for each task that came from a set that was removed.
CountsExact ==
    \A s \in Alive : \A n \in DOMAIN set[s].sems, list \in Lists :
        set[s].sems[n][CountFor(list)] + set[s].sems[n].stray[list] =
            Cardinality({t \in Tasks : waited[t] = <<list, n, s>>
                                       /\ pc[t] \notin {"idle", "exited"}})

\* The lists are exact, and while nobody works on the set, a task that sleeps
\* on a semaphore could not perform its operation on it: no wake-up is missed,
\* unless SETVAL, which wakes nobody, has made the operation possible.
NobodyStuck ==
    /\ SleepersListed
    /\ \A t \in Tasks :
          Asleep(t) /\ Set(t).lock = NoTask /\ (\A u \in Tasks : pc[u] # "destroy") =>
              \/ Set(t).sems[waited[t][2]].wasSet
              \/ \E j \in Refused(t) : waited[t] = <<ListFor(Ops(t)[j]), Ops(t)[j].num, si[t]>>

\* A call that does not sleep comes to its end or to sleep, unless a task is
\* caught in GetUndo.
CallsProgress ==
    \A t \in Tasks :
        pc[t] \notin {"idle", "suspend", "suspended", "exited"} ~>
            pc[t] \in {"idle", "suspend", "suspended"} \/ Hung

\* The operations that a semop has still to store.
Pending(s) ==
    UNION {{Ops(t)[j] : j \in {j \in DOMAIN Ops(t) :
                                   j > at[t] \/ (j = at[t] /\ pc[t] \in {"load", "store"})}} :
              t \in {t \in Tasks : si[t] = s /\ pc[t] \in {"load", "store"} \cup Wakers}}

\* The values that are promised: a list of operations counts from its check.
Promised(s) ==
    [n \in DOMAIN set[s].sems |->
        set[s].sems[n].semval + MapThenSumSet(LAMBDA o : o.op, {o \in Pending(s) : o.num = n})]

AllCalls == UNION {ToSet(p[t]) : p \in Programs, t \in Tasks}

Abstract ==
    INSTANCE AbstractSysvSem WITH
        vals <- [s \in Alive |-> Promised(s)],
        Sizes <- {c.nsems : c \in {c \in AllCalls : c.op = "get"}},
        OpLists <- {c.ops : c \in {c \in AllCalls : c.op = "semop"}},
        SetVals <- {c.val : c \in {c \in AllCalls : c.op = "setval"}}

\* semop is atomic: it performs all operations of its list at once or none,
\* although it stores and wakes one by one.
ImplementsAbstractSysvSem == Abstract!Spec

=============================================================================
