------------------------------ MODULE Threads ------------------------------
(***************************************************************************)
(* The life of a thread: pthread_create, StarterFunc, pthread_exit,        *)
(* pthread_join and the exit function of the library, on the table         *)
(* threads[] of ThreadInfo slots.  A thread is a process of its own, which *)
(* finds its slot through tc_UserData; everybody else, and pthread_self,   *)
(* finds it through the task pointer in the slot.                          *)
(*                                                                         *)
(* Each bracketed section of thread_sem is short and does not block, so it *)
(* is one step.  Detached threads are left out: the README of the          *)
(* directory calls them unsupported.                                       *)
(***************************************************************************)
EXTENDS Naturals, FiniteSets

CONSTANTS
    Main,           \* the process that runs main(), slot 0
    Procs,          \* the processes that CreateNewProc can make
    Creators,       \* the tasks that call pthread_create
    Strangers,      \* the tasks that also join threads they have not created
    NoTask,         \* NULL
    MaxThreads,     \* PTHREAD_THREADS_MAX, a small number here
    Endings,        \* how threads may end: by "return", by pthread_"exit"
    Patient         \* main() returns only when the threads it created run

Tasks == {Main} \cup Procs
Slots == 1..(MaxThreads - 1)

ASSUME ThreadsAssumption ==
    /\ IsFiniteSet(Procs)
    /\ Main \notin Procs /\ NoTask \notin Tasks
    /\ Creators \subseteq Tasks /\ Strangers \subseteq Tasks
    /\ MaxThreads \in Nat \ {0}
    /\ Endings \subseteq {"return", "exit"}
    /\ Patient \in BOOLEAN

VARIABLES
    slot,           \* threads[1..]: task, parent and status
    tpc,            \* what every task does
    mine,           \* tc_UserData: the slot a process was started with
    arg,            \* the slot a task creates or joins
    child,          \* the process CreateNewProc returned to a task
    known,          \* the thread ids a task got from pthread_create
    parentSig,      \* SIGF_PARENT is pending
    joined,         \* the processes whose slot pthread_join cleared
    exitAt,         \* the slot the exit function is at, 0 before it is called
    marked,         \* the processes whose slot pthread_exit marked DESTRUCT
    overtaken       \* those of them that were joined before they were gone

vars == <<slot, tpc, mine, arg, child, known, parentSig, joined, exitAt, marked, overtaken>>

Cleared == [task |-> NoTask, parent |-> NoTask, status |-> "IDLE"]

SlotType == [task : Tasks \cup {NoTask}, parent : Tasks \cup {NoTask},
             status : {"IDLE", "RUNNING", "DESTRUCT"}]
TaskStates == {"none", "starting", "running", "picked", "prepared", "spawned",
               "joining", "waiting", "clearing", "cleanup", "dead", "exiting", "exited"}

TypeOK ==
    /\ slot \in [Slots -> SlotType]
    /\ tpc \in [Tasks -> TaskStates]
    /\ mine \in [Procs -> Slots \cup {0}]
    /\ arg \in [Tasks -> 0..MaxThreads]
    /\ child \in [Tasks -> Procs \cup {NoTask}]
    /\ known \in [Tasks -> SUBSET Slots]
    /\ parentSig \in [Tasks -> BOOLEAN]
    /\ joined \subseteq Procs
    /\ exitAt \in 0..MaxThreads
    /\ marked \subseteq Procs
    /\ overtaken \subseteq marked

\* __pthread_init_func
Init ==
    /\ slot = [i \in Slots |-> Cleared]
    /\ tpc = [t \in Tasks |-> IF t = Main THEN "running" ELSE "none"]
    /\ mine = [p \in Procs |-> 0]
    /\ arg = [t \in Tasks |-> 0]
    /\ child = [t \in Tasks |-> NoTask]
    /\ known = [t \in Tasks |-> {}]
    /\ parentSig = [t \in Tasks |-> FALSE]
    /\ joined = {}
    /\ exitAt = 0
    /\ marked = {}
    /\ overtaken = {}

GoTo(t, state) == tpc' = [tpc EXCEPT ![t] = state]

-----------------------------------------------------------------------------
(* pthread_create *)

\* GetThreadId: the first slot with the task, MaxThreads if there is none.
GetThreadId(t) ==
    LET found == {i \in Slots : slot[i].task = t}
    IN  IF found = {} THEN MaxThreads ELSE CHOOSE i \in found : \A j \in found : i <= j

\* The slot is looked for under thread_sem, but not taken.  (On a full table
\* the semaphore is released a second time, by a task that does not hold it;
\* what exec does then is not modelled.)
PickSlot(t) ==
    /\ t \in Creators
    /\ tpc[t] = "running"
    /\ \E p \in Procs : tpc[p] = "none"
    /\ arg' = [arg EXCEPT ![t] = GetThreadId(NoTask)]
    /\ GoTo(t, IF arg'[t] = MaxThreads THEN "running" ELSE "picked")
    /\ UNCHANGED <<slot, mine, child, known, parentSig, joined, exitAt, marked, overtaken>>

PrepareSlot(t) ==
    /\ tpc[t] = "picked"
    /\ slot' = [slot EXCEPT ![arg[t]] = [Cleared EXCEPT !.parent = t]]
    /\ GoTo(t, "prepared")
    /\ UNCHANGED <<mine, arg, child, known, parentSig, joined, exitAt, marked, overtaken>>

\* CreateNewProc starts the process, or fails; its result is stored only
\* afterwards, when the process may already run.
CreateProc(t) ==
    /\ tpc[t] = "prepared"
    /\ \/ \E p \in Procs :
             /\ tpc[p] = "none"
             /\ tpc' = [tpc EXCEPT ![t] = "spawned", ![p] = "starting"]
             /\ mine' = [mine EXCEPT ![p] = arg[t]]
             /\ child' = [child EXCEPT ![t] = p]
             /\ UNCHANGED slot
       \/ /\ slot' = [slot EXCEPT ![arg[t]] = [@ EXCEPT !.task = NoTask, !.parent = NoTask]]
          /\ GoTo(t, "running")
          /\ UNCHANGED <<mine, child>>
    /\ UNCHANGED <<arg, known, parentSig, joined, exitAt, marked, overtaken>>

StoreTask(t) ==
    /\ tpc[t] = "spawned"
    /\ slot' = [slot EXCEPT ![arg[t]].task = child[t]]
    /\ known' = [known EXCEPT ![t] = @ \cup {arg[t]}]
    /\ child' = [child EXCEPT ![t] = NoTask]
    /\ arg' = [arg EXCEPT ![t] = 0]
    /\ GoTo(t, "running")
    /\ UNCHANGED <<mine, parentSig, joined, exitAt, marked, overtaken>>

-----------------------------------------------------------------------------
(* StarterFunc and pthread_exit *)

Start(p) ==
    /\ tpc[p] = "starting"
    /\ slot' = [slot EXCEPT ![mine[p]].status = "RUNNING"]
    /\ GoTo(p, "running")
    /\ UNCHANGED <<mine, arg, child, known, parentSig, joined, exitAt, marked, overtaken>>

\* The thread function returns, with every thread it created joined.
ReturnFromStart(p) ==
    /\ p \in Procs
    /\ "return" \in Endings
    /\ tpc[p] = "running" /\ known[p] = {}
    /\ GoTo(p, "cleanup")
    /\ UNCHANGED <<slot, mine, arg, child, known, parentSig, joined, exitAt, marked, overtaken>>

\* pthread_self: slot 0, the main thread, if the task is in no slot.
pthread_self(t) == IF GetThreadId(t) = MaxThreads THEN 0 ELSE GetThreadId(t)

\* pthread_exit marks the slot DESTRUCT before the cleanup is done.  When
\* the parent has not stored the task yet, it takes the caller for the main
\* thread and returns; the thread function then comes to its own end.
pthread_exit(p) ==
    /\ p \in Procs
    /\ "exit" \in Endings
    /\ tpc[p] = "running" /\ known[p] = {}
    /\ LET i == pthread_self(p)
       IN  IF i # 0 /\ slot[i].status = "RUNNING"
           THEN /\ slot' = [slot EXCEPT ![i].status = "DESTRUCT"]
                /\ marked' = marked \cup {p}
           ELSE UNCHANGED <<slot, marked>>
    /\ GoTo(p, "cleanup")
    /\ UNCHANGED <<mine, arg, child, known, parentSig, joined, exitAt, overtaken>>

\* Mutant: the parent is not signalled.
Finish_NoSignal(p) ==
    /\ tpc[p] = "cleanup"
    /\ slot' = [slot EXCEPT ![mine[p]].status = "DESTRUCT"]
    /\ GoTo(p, "dead")
    /\ UNCHANGED <<mine, arg, child, known, parentSig, joined, exitAt, marked, overtaken>>

\* Cleanup handler and TLS destructors have run.  Under Forbid, which lasts
\* until the process is gone, the slot is marked and the parent signalled.
Finish(p) ==
    /\ tpc[p] = "cleanup"
    /\ slot' = [slot EXCEPT ![mine[p]].status = "DESTRUCT"]
    /\ parentSig' = [t \in Tasks |-> parentSig[t] \/ t = slot[mine[p]].parent]
    /\ GoTo(p, "dead")
    /\ UNCHANGED <<mine, arg, child, known, joined, exitAt, marked, overtaken>>

-----------------------------------------------------------------------------
(* pthread_join and __pthread_exit_func *)

\* A task in pthread_join.
Joining == {"joining", "waiting", "clearing"}

\* The ids that t may join: the threads it created, for a stranger those of
\* the others too.  Two tasks that join one thread at a time are left out.
Joinable(t) ==
    {i \in Slots :
        /\ i \in known[t] \/ (t \in Strangers /\ \E u \in Tasks : i \in known[u])
        /\ \A u \in Tasks : tpc[u] \in Joining => arg[u] # i}

\* The wait begins, whoever the parent is.  A slot without a parent (ESRCH)
\* and the caller's own (EDEADLK) end the call with nothing changed.
JoinCall(t) ==
    /\ tpc[t] = "running"
    /\ \E i \in Joinable(t) :
          /\ slot[i].parent # NoTask
          /\ slot[i].task # t
          /\ arg' = [arg EXCEPT ![t] = i]
    /\ GoTo(t, "joining")
    /\ UNCHANGED <<slot, mine, child, known, parentSig, joined, exitAt, marked, overtaken>>

\* The loop tests the status; a task that goes on to Wait() does not see
\* the status change, only SIGF_PARENT.
JoinTest(t) ==
    /\ tpc[t] = "joining"
    /\ GoTo(t, IF slot[arg[t]].status = "DESTRUCT" THEN "clearing" ELSE "waiting")
    /\ UNCHANGED <<slot, mine, arg, child, known, parentSig, joined, exitAt, marked, overtaken>>

\* Mutant: any SIGF_PARENT ends the wait (if instead of while).
JoinWait_If(t) ==
    /\ tpc[t] = "waiting"
    /\ parentSig[t]
    /\ parentSig' = [parentSig EXCEPT ![t] = FALSE]
    /\ GoTo(t, "clearing")
    /\ UNCHANGED <<slot, mine, arg, child, known, joined, exitAt, marked, overtaken>>

\* Wait(SIGF_PARENT) returns, for this child or for another one.
JoinWait(t) ==
    /\ tpc[t] = "waiting"
    /\ parentSig[t]
    /\ parentSig' = [parentSig EXCEPT ![t] = FALSE]
    /\ GoTo(t, "joining")
    /\ UNCHANGED <<slot, mine, arg, child, known, joined, exitAt, marked, overtaken>>

JoinClear(t) ==
    /\ tpc[t] = "clearing"
    /\ joined' = joined \cup ({slot[arg[t]].task} \ {NoTask})
    /\ overtaken' = overtaken \cup {p \in marked : p = slot[arg[t]].task /\ tpc[p] # "dead"}
    /\ slot' = [slot EXCEPT ![arg[t]] = Cleared]
    /\ known' = [u \in Tasks |-> known[u] \ {arg[t]}]
    /\ arg' = [arg EXCEPT ![t] = 0]
    /\ GoTo(t, IF t = Main /\ exitAt > 0 THEN "exiting" ELSE "running")
    /\ UNCHANGED <<mine, child, parentSig, exitAt, marked>>

ExitCall ==
    /\ tpc[Main] = "running"
    /\ Patient => \A p \in Procs : tpc[p] # "starting"
    /\ GoTo(Main, "exiting")
    /\ exitAt' = 1
    /\ UNCHANGED <<slot, mine, arg, child, known, parentSig, joined, marked, overtaken>>

\* Mutant: the loop ends one slot early.
ExitVisit_Short ==
    /\ tpc[Main] = "exiting"
    /\ exitAt \in Slots
    /\ IF /\ slot[exitAt].status = "RUNNING" /\ slot[exitAt].parent # NoTask
          /\ exitAt < MaxThreads - 1
       THEN /\ arg' = [arg EXCEPT ![Main] = exitAt]
            /\ GoTo(Main, "joining")
       ELSE UNCHANGED <<arg, tpc>>
    /\ exitAt' = exitAt + 1
    /\ UNCHANGED <<slot, mine, child, known, parentSig, joined, marked, overtaken>>

\* A slot that is RUNNING is joined, any other one is passed over.
ExitVisit ==
    /\ tpc[Main] = "exiting"
    /\ exitAt \in Slots
    /\ IF slot[exitAt].status = "RUNNING" /\ slot[exitAt].parent # NoTask
       THEN /\ arg' = [arg EXCEPT ![Main] = exitAt]
            /\ GoTo(Main, "joining")
       ELSE UNCHANGED <<arg, tpc>>
    /\ exitAt' = exitAt + 1
    /\ UNCHANGED <<slot, mine, child, known, parentSig, joined, marked, overtaken>>

ExitReturn ==
    /\ tpc[Main] = "exiting"
    /\ exitAt = MaxThreads
    /\ GoTo(Main, "exited")
    /\ UNCHANGED <<slot, mine, arg, child, known, parentSig, joined, exitAt, marked, overtaken>>

-----------------------------------------------------------------------------

\* What a task does next without having a choice.
Create(t) == PrepareSlot(t) \/ CreateProc(t) \/ StoreTask(t)
Join(t) == JoinTest(t) \/ JoinWait(t) \/ JoinClear(t)
Run(p) == Start(p) \/ ReturnFromStart(p) \/ pthread_exit(p) \/ Finish(p)
Exit == ExitVisit \/ ExitReturn

Terminated == tpc[Main] = "exited" /\ UNCHANGED vars

Next ==
    \/ \E t \in Tasks : PickSlot(t) \/ Create(t) \/ JoinCall(t) \/ Join(t)
    \/ \E p \in Procs : Run(p)
    \/ ExitCall
    \/ Exit
    \/ Terminated

Spec == Init /\ [][Next]_vars

\* Every task is scheduled, and every thread function comes to an end.
FairSpec ==
    /\ Spec
    /\ \A t \in Tasks : WF_vars(Create(t)) /\ WF_vars(Join(t))
    /\ \A p \in Procs : WF_vars(Run(p))
    /\ WF_vars(Exit)

-----------------------------------------------------------------------------
(* Properties *)

Alive(p) == tpc[p] \notin {"none", "dead"}

\* No two live threads have the same ThreadInfo, and none has one that a
\* pthread_create in progress regards as empty.  This is claimed until
\* pthread_join overtakes a thread that has called pthread_exit: the slot is
\* then used again while that thread still runs its cleanup and marks it.
SlotsExclusive ==
    overtaken = {} =>
        \A p \in Procs : Alive(p) =>
            /\ \A q \in Procs : Alive(q) /\ mine[p] = mine[q] => p = q
            /\ \A t \in Tasks : tpc[t] \in {"picked", "prepared"} => arg[t] # mine[p]

\* When pthread_join has returned, the thread is gone: it executes no code
\* and touches no ThreadInfo any more.  It does not hold for threads that
\* call pthread_exit, which are marked DESTRUCT before their cleanup.
JoinedIsGone == \A p \in joined : tpc[p] = "dead"

\* The same of threads that return, and of those that have called
\* pthread_exit as long as no pthread_join overtook one of them.
JoinedIsDone == overtaken = {} => JoinedIsGone

\* After the exit function no thread executes code that is about to be
\* unloaded, if main() returned when the threads it had created were running
\* (Patient), except those in the cleanup after their pthread_exit, which the
\* exit function takes for gone.
ExitWaits ==
    overtaken = {} /\ tpc[Main] = "exited" =>
        \A p \in Procs : Alive(p) => p \in marked /\ tpc[p] = "cleanup"

\* Whoever is in pthread_join will be signalled: a thread signals its creator.
JoinedByCreator == \A t \in Tasks : tpc[t] \in Joining => slot[arg[t]].parent = t

\* pthread_join returns, also when SIGF_PARENT was set for another child, in a
\* program in which every thread is joined by its creator.  Another task gets
\* no signal and may wait for ever.
JoinReturns ==
    []JoinedByCreator => \A t \in Tasks : tpc[t] = "joining" ~> tpc[t] = "clearing"

=============================================================================
