-------------------------------- MODULE Aio --------------------------------
(***************************************************************************)
(* Asynchronous I/O (rt/): requests wait in one chain per descriptor, the  *)
(* heads of the chains that no thread works on are in the run list, and a  *)
(* bounded number of helper threads takes requests from the run list, does *)
(* the I/O without the mutex and looks for more work, idling for a while   *)
(* before it ends.  aio_suspend links an entry on its stack into the       *)
(* waiting list of every request it waits for.                             *)
(*                                                                         *)
(* Every section between pthread_mutex_lock and pthread_mutex_unlock of    *)
(* __aio_requests_mutex is one step; I/O and both waits are outside.  The  *)
(* element of the pool that stands for a request is identified with its    *)
(* aiocb, of which it is the only one while the request is in progress.    *)
(***************************************************************************)
EXTENDS Integers, Sequences, SequencesExt, FiniteSets

CONSTANTS
    Reqs,           \* the control blocks (struct aiocb) of the program
    Fds,            \* descriptors
    Fd,             \* aio_fildes of a control block
    Prio,           \* __abs_prio of a control block
    Workers,        \* the threads that can be created
    AioThreads,     \* optim.aio_threads
    Suspenders,     \* threads that call aio_suspend
    MaxCalls        \* bound on the number of calls that enqueue

ASSUME AioAssumption ==
    /\ Fd \in [Reqs -> Fds] /\ Prio \in [Reqs -> Int]
    /\ IsFiniteSet(Workers) /\ AioThreads \in Nat \ {0}
    /\ Reqs \cap {"none", "start", "idle"} = {}
    /\ MaxCalls \in Nat

VARIABLES
    chain,          \* requests: next_fd and next_prio as one sequence per descriptor
    runlist,        \* linked by next_run
    running,        \* running of the request's element
    error,          \* __error_code of the control block, all but EINPROGRESS as "ended"
    stamp,          \* when a request was enqueued (history)
    waiting,        \* who has an entry in the waiting list of a request
    worker,         \* the request a thread works on, or what else it does
    nthreads,
    idle,           \* the threads that wait for __aio_new_request_notification
    woken,          \* those of them whose signal bit is set
    list,           \* what a thread in aio_suspend waits for, {} if it is not there
    noted,          \* the threads in aio_suspend whose signal bit is set
    calls           \* number of calls so far that enqueue

vars == <<chain, runlist, running, error, stamp, waiting, worker, nthreads, idle, woken,
          list, noted, calls>>
suspendVars == <<list, noted>>

Init ==
    /\ chain = [f \in Fds |-> <<>>]
    /\ runlist = <<>>
    /\ running = [r \in Reqs |-> "no"]
    /\ error = [r \in Reqs |-> "ended"]
    /\ stamp = [r \in Reqs |-> 0]
    /\ waiting = [r \in Reqs |-> {}]
    /\ worker = [w \in Workers |-> "none"]
    /\ nthreads = 0
    /\ idle = <<>>
    /\ woken = {}
    /\ list = [s \in Suspenders |-> {}]
    /\ noted = {}
    /\ calls = 0

-----------------------------------------------------------------------------
(* Lists *)

Passes(s, r) == Prio[s] >= Prio[r]

\* r goes behind the entries from position from on that it passes.
Insert(s, from, r) ==
    InsertAt(s, from + Cardinality({i \in from..Len(s) : \A j \in from..i : Passes(s[j], r)}), r)

add_request_to_runlist(rl, r) == Insert(rl, 1, r)

\* Mutant: the run list is not looked at.
Unlisted_Not(S) == runlist

\* __aio_remove_request also takes a runnable request out of the run list.
Unlisted(S) == SelectSeq(runlist, LAMBDA x : x \notin S)

\* Mutant: no idle thread is told.
Signalled_None(idlers) == {}

\* pthread_cond_signal wakes the first of the idle threads, which stays first
\* until it has the mutex again.
Signalled(idlers) == IF idlers = <<>> THEN {} ELSE {Head(idlers)}

\* Mutant: nobody is woken.
Waiters_None(S) == {}

Waiters(S) == UNION {waiting[r] : r \in S}

\* The requests in S end, and who waits for one of them is woken.
__aio_notify(S) ==
    /\ error' = [r \in Reqs |-> IF r \in S THEN "ended" ELSE error[r]]
    /\ stamp' = [r \in Reqs |-> IF r \in S THEN 0 ELSE stamp[r]]
    /\ noted' = noted \cup Waiters(S)
    /\ waiting' = [r \in Reqs |-> IF r \in S THEN {} ELSE waiting[r]]

-----------------------------------------------------------------------------
(* aio_read, aio_write, aio_fsync: __aio_enqueue_request *)

Created(w, what) == worker' = [worker EXCEPT ![w] = what] /\ nthreads' = nthreads + 1

\* The descriptor is worked on: the request goes behind the first one.
EnqueueBehind(r) ==
    /\ chain[Fd[r]] # <<>>
    /\ chain' = [chain EXCEPT ![Fd[r]] = Insert(@, 2, r)]
    /\ running' = [running EXCEPT ![r] = "queued"]
    /\ UNCHANGED <<runlist, worker, nthreads, woken>>

\* A helper thread of its own is created for the request.
EnqueueWithThread(r) ==
    /\ chain[Fd[r]] = <<>>
    /\ nthreads < AioThreads /\ idle = <<>>
    /\ \E w \in Workers : worker[w] = "none" /\ Created(w, r)
    /\ chain' = [chain EXCEPT ![Fd[r]] = <<r>>]
    /\ running' = [running EXCEPT ![r] = "allocated"]
    /\ UNCHANGED <<runlist, woken>>

\* No thread is needed, allowed or to be had; but there are others.
EnqueueForOthers(r) ==
    /\ chain[Fd[r]] = <<>>
    /\ nthreads > 0
    /\ chain' = [chain EXCEPT ![Fd[r]] = <<r>>]
    /\ running' = [running EXCEPT ![r] = "yes"]
    /\ runlist' = add_request_to_runlist(runlist, r)
    /\ woken' = woken \cup Signalled(idle)
    /\ UNCHANGED <<worker, nthreads>>

\* Otherwise the call fails: an invalid priority, no memory, or no thread to be
\* had and none there.  It undoes what it did and the request has ended.
__aio_enqueue_request(r) ==
    /\ error[r] # "EINPROGRESS"
    /\ calls < MaxCalls
    /\ calls' = calls + 1
    /\ error' = [error EXCEPT ![r] = "EINPROGRESS"]
    /\ stamp' = [stamp EXCEPT ![r] = calls']
    /\ waiting' = [waiting EXCEPT ![r] = {}]
    /\ EnqueueBehind(r) \/ EnqueueWithThread(r) \/ EnqueueForOthers(r)
    /\ UNCHANGED <<idle, suspendVars>>

-----------------------------------------------------------------------------
(* handle_fildes_io *)

\* Mutant: a thread that has found work does not care for the rest.
Roused_None(rest, idlers) == {}

\* If there is more to do than the request just taken, an idle thread is woken.
Roused(rest, idlers) == IF rest = <<>> THEN {} ELSE Signalled(idlers)

\* The second half of the loop, entered with the mutex held: take the first
\* request of the run list and, if there are more, wake an idle thread or
\* create one; or wait for work once, and end when there still is none.
GetWork(w, rl, rn, idlers, tired) ==
    \/ /\ rl # <<>>
       /\ runlist' = Tail(rl)
       /\ running' = [rn EXCEPT ![Head(rl)] = "allocated"]
       /\ woken' = (woken \ {w}) \cup Roused(Tail(rl), idlers)
       /\ LET serving == [worker EXCEPT ![w] = Head(rl)]
          IN  \/ worker' = serving /\ UNCHANGED nthreads
              \/ /\ Tail(rl) # <<>> /\ idlers = <<>> /\ nthreads < AioThreads
                 /\ \E n \in Workers : worker[n] = "none" /\ worker' = [serving EXCEPT ![n] = "start"]
                 /\ nthreads' = nthreads + 1
       /\ idle' = idlers
    \/ /\ rl = <<>>
       /\ runlist' = rl /\ running' = rn
       /\ worker' = [worker EXCEPT ![w] = IF tired THEN "none" ELSE "idle"]
       /\ nthreads' = IF tired THEN nthreads - 1 ELSE nthreads
       /\ idle' = IF tired THEN idlers ELSE Append(idlers, w)
       /\ woken' = woken \ {w}

\* A thread that was created without a request.
Begin(w) ==
    /\ worker[w] = "start"
    /\ GetWork(w, runlist, running, idle, FALSE)
    /\ UNCHANGED <<chain, error, stamp, waiting, suspendVars, calls>>

\* Mutant: the next request of the descriptor is only marked as runnable.
WithNext_Not(rest) == runlist

WithNext(rest) == IF rest = <<>> THEN runlist ELSE add_request_to_runlist(runlist, Head(rest))

\* The requests that are left of a chain whose head was removed.
Promoted(rn, rest) == IF rest = <<>> THEN rn ELSE [rn EXCEPT ![Head(rest)] = "yes"]

\* The I/O is done.  The next request of the descriptor becomes runnable.
Finish(w) ==
    /\ worker[w] \in Reqs
    /\ LET r == worker[w]
           rest == Tail(chain[Fd[r]])
       IN  /\ __aio_notify({r})
           /\ chain' = [chain EXCEPT ![Fd[r]] = rest]
           /\ GetWork(w, WithNext(rest), Promoted([running EXCEPT ![r] = "no"], rest), idle, FALSE)
    /\ UNCHANGED <<list, calls>>

EndIdle(w) ==
    /\ GetWork(w, runlist, running, SelectSeq(idle, LAMBDA x : x # w), TRUE)
    /\ UNCHANGED <<chain, error, stamp, waiting, suspendVars, calls>>

\* pthread_cond_timedwait returns because of a signal, or of the timer.
Notified(w) == worker[w] = "idle" /\ w \in woken /\ EndIdle(w)
TimedOut(w) == worker[w] = "idle" /\ w \notin woken /\ EndIdle(w)

-----------------------------------------------------------------------------
(* aio_cancel *)

\* Mutant: a request that a thread works on is removed as well.
Cancellable_Any(r) == error[r] = "EINPROGRESS"

Cancellable(r) == error[r] = "EINPROGRESS" /\ running[r] # "allocated"

\* __aio_remove_request of the head: the next one is marked runnable, but only
\* the worker that ends a request puts it into the run list.
CancelOne(r) ==
    /\ Cancellable(r)
    /\ LET c == chain[Fd[r]]
           rest == SelectSeq(c, LAMBDA x : x # r)
           freed == [running EXCEPT ![r] = "no"]
       IN  /\ chain' = [chain EXCEPT ![Fd[r]] = rest]
           /\ running' = IF r = Head(c) THEN Promoted(freed, rest) ELSE freed
    /\ runlist' = Unlisted({r})
    /\ __aio_notify({r})
    /\ UNCHANGED <<worker, nthreads, idle, woken, list, calls>>

\* All requests of a descriptor but the one a thread works on.
CancelAll(f) ==
    /\ chain[f] # <<>>
    /\ LET kept == IF running[Head(chain[f])] = "allocated" THEN <<Head(chain[f])>> ELSE <<>>
           gone == ToSet(chain[f]) \ ToSet(kept)
       IN  /\ chain' = [chain EXCEPT ![f] = kept]
           /\ running' = [r \in Reqs |-> IF r \in gone THEN "no" ELSE running[r]]
           /\ runlist' = Unlisted(gone)
           /\ __aio_notify(gone)
    /\ UNCHANGED <<worker, nthreads, idle, woken, list, calls>>

-----------------------------------------------------------------------------
(* aio_suspend *)

\* The call waits if all requests of the list are in progress, and returns at
\* once, with no trace, if one is not.
Suspend(s, L) ==
    /\ list[s] = {}
    /\ L # {} /\ \A r \in L : error[r] = "EINPROGRESS"
    /\ waiting' = [r \in Reqs |-> IF r \in L THEN waiting[r] \cup {s} ELSE waiting[r]]
    /\ list' = [list EXCEPT ![s] = L]
    /\ UNCHANGED <<chain, runlist, running, error, stamp, worker, nthreads, idle, woken,
                   noted, calls>>

\* Mutant: only the entries of requests that have ended are unlinked.
StillLinked_Pending(r) == error[r] # "EINPROGRESS"

\* The requests whose waiting list has to be searched for one's entry.
StillLinked(r) == error[r] = "EINPROGRESS"

\* The wait is over, and the entries of requests in progress are unlinked.
Resume(s) ==
    /\ list[s] # {}
    /\ waiting' = [r \in Reqs |-> IF r \in list[s] /\ StillLinked(r)
                                  THEN waiting[r] \ {s} ELSE waiting[r]]
    /\ list' = [list EXCEPT ![s] = {}]
    /\ noted' = noted \ {s}
    /\ UNCHANGED <<chain, runlist, running, error, stamp, worker, nthreads, idle, woken, calls>>

\* It ends because a request has ended, or with CTRL-C.  The timeout is taken
\* from the time since boot and compared with the time of day: it never comes.
ResumeNoted(s) == s \in noted /\ Resume(s)
Interrupted(s) == s \notin noted /\ Resume(s)

-----------------------------------------------------------------------------

Worker(w) == Begin(w) \/ Finish(w) \/ Notified(w)

Done == calls = MaxCalls /\ (\A r \in Reqs : error[r] # "EINPROGRESS") /\ UNCHANGED vars

Next ==
    \/ \E r \in Reqs : __aio_enqueue_request(r) \/ CancelOne(r)
    \/ \E f \in Fds : CancelAll(f)
    \/ \E w \in Workers : Worker(w) \/ TimedOut(w)
    \/ \E s \in Suspenders : (\E L \in SUBSET Reqs : Suspend(s, L)) \/ ResumeNoted(s) \/ Interrupted(s)
    \/ Done

Spec == Init /\ [][Next]_vars

\* I/O ends, and a thread whose signal bit is set is scheduled.  Nothing is
\* assumed of the timer: clock_gettime may leave its time unset.
FairSpec ==
    /\ Spec
    /\ \A w \in Workers : WF_vars(Worker(w))
    /\ \A s \in Suspenders : WF_vars(ResumeNoted(s))

-----------------------------------------------------------------------------
(* Properties *)

Orphaned(f) ==
    /\ chain[f] # <<>>
    /\ running[Head(chain[f])] = "yes" /\ Head(chain[f]) \notin ToSet(runlist)

InProgress(r) == error[r] = "EINPROGRESS"

\* Behind its head, a chain is in the order of priority and, among equals, of
\* arrival; the run list is in the order of priority.
OrderKept ==
    /\ \A f \in Fds : \A i, j \in 2..Len(chain[f]) : i < j =>
          \/ Prio[chain[f][i]] > Prio[chain[f][j]]
          \/ Prio[chain[f][i]] = Prio[chain[f][j]] /\ stamp[chain[f][i]] < stamp[chain[f][j]]
    /\ \A i, j \in DOMAIN runlist : i < j => Prio[runlist[i]] >= Prio[runlist[j]]

\* A request is in progress exactly while it is in the chain of its
\* descriptor, once; only the first of a chain is worked on or runnable, the
\* others are queued; the run list holds runnable heads, each once; and both
\* are in order.
QueueExact ==
    /\ \A r \in Reqs, f \in Fds :
          Cardinality({i \in DOMAIN chain[f] : chain[f][i] = r})
              = IF f = Fd[r] /\ InProgress(r) THEN 1 ELSE 0
    /\ \A f \in Fds : \A i \in DOMAIN chain[f] :
          running[chain[f][i]] \in IF i = 1 THEN {"yes", "allocated"} ELSE {"queued"}
    /\ IsInjective(runlist)
    /\ \A r \in ToSet(runlist) : running[r] = "yes" /\ InProgress(r)
    /\ OrderKept

\* A request is allocated exactly while one thread works on it, so that no two
\* threads do I/O on one descriptor; nthreads counts the threads there are,
\* within the limit; and the idle ones wait for a signal, each once.
WorkersExact ==
    /\ \A r \in Reqs :
          Cardinality({w \in Workers : worker[w] = r}) = IF running[r] = "allocated" THEN 1 ELSE 0
    /\ nthreads = Cardinality({w \in Workers : worker[w] # "none"})
    /\ nthreads <= AioThreads
    /\ IsInjective(idle) /\ ToSet(idle) = {w \in Workers : worker[w] = "idle"}
    /\ woken \subseteq ToSet(idle)

\* No lost signal: while there is a request in the run list there is a thread
\* that will look at it, and an idle one, if there is any, has its signal bit
\* set.  Two requests may have sent their signals to the same idle thread,
\* which wakes the next one when it takes the first of them.
WorkNotForgotten ==
    runlist # <<>> => nthreads > 0 /\ (idle # <<>> => woken # {})

\* The waiting lists, whose entries are on the stacks of the threads in
\* aio_suspend, refer only to threads that are still there and wait for the
\* request; and a thread that has not been woken is on the list of every
\* request it waits for, none of which has ended.
SuspendersListed ==
    \A s \in Suspenders :
        /\ \A r \in Reqs : s \in waiting[r] => r \in list[s]
        /\ s \notin noted => \A r \in list[s] : InProgress(r) /\ s \in waiting[r]

\* Only the cancellation of one request can leave the rest of its chain out of
\* the run list: a thread that ends a request, and a cancellation of all the
\* requests of a descriptor, do not.
OrphanedByCancel ==
    [][\A f \in Fds : Orphaned(f)' => Orphaned(f) \/ \E r \in Reqs : Fd[r] = f /\ CancelOne(r)]_vars

\* A request that is accepted ends, unless its descriptor has been orphaned.
RequestsEnd == \A r \in Reqs : InProgress(r) ~> (~InProgress(r) \/ Orphaned(Fd[r]))

\* aio_suspend returns once a request it waits for has ended.
SuspendReturns == \A s \in Suspenders :
    (\E r \in list[s] : ~InProgress(r)) ~> list[s] = {}

=============================================================================
