# A TLA+ model of the concurrent parts of clib4 and of its allocator

clib4 is the C runtime library of AmigaOS 4. Most of it is sequential: strings, mathematics,
formatting, locale, regular expressions. The parts in which several tasks meet, and in which a
test can hardly reach all orders of events, are the pthread library, POSIX semaphores, System V
IPC, asynchronous I/O and record locks; and the allocator below `malloc` is sequential, but its
boundary tags and free lists go through orders of calls that no test writes down. This project
models them from their source, checks them with TLC on small instances and proves central
properties with TLAPS for every instance. Paths below are relative to `src/library/`.

## 1. Inventory

### What everything rests on

The library uses `exec`, the kernel of AmigaOS, which is not in the repository; it is modelled
from how the code uses it and marked external in the map:

- a task has a set of pending *signal bits*; `Signal(task, bits)` adds to it, `Wait(mask)` sleeps
  until one of the bits in the mask is pending, and takes those bits;
- `Mutex` and `SignalSemaphore` are locks granted in the order of the requests;
- `timer.device` replies to a request after a time, which sets the signal bit of a port;
- `SuspendTask` and `RestartTask` stop and continue a task.

### The parts with concurrency

| part | state | operations | what is hard about it |
|---|---|---|---|
| condition variables, `pthread/pthread.c:143-275` | list `waiters` of nodes on the waiters' stacks, `incond` of the mutex, signal bits, a timer request per wait | `_pthread_cond_timedwait`, `_pthread_cond_broadcast` (for all, or for the first) | the window between unlock and `Wait`; four causes that end a wait, in any combination; a woken node stays linked until its task has the mutex |
| mutexes, `pthread_mutex_*.c` | exec mutex, kind, `incond` | lock, trylock, timedlock, unlock, destroy | static initialisation by the first user; kinds |
| POSIX semaphores, `semaphore.c` | `value`, `waiters_count`, a mutex and a condition | wait, timedwait, trywait, post, getvalue, destroy; named: open, close, unlink | timeout against post; destroy against a poster that has not left |
| barriers, `pthread_barrier_*.c` | `curr_height`, `total_height`, a mutex and a condition | wait, destroy | one counter with two meanings; the next round begins while the last one leaves |
| thread life cycle, `pthread_create.c`, `pthread_exit.c`, `pthread_join.c`, `pthread.c:296-340` | `threads[]` of slots with task, parent, status | create, the start function, exit, join, the exit function of the library | who finds a slot by which pointer, and when it is written; one SIGF_PARENT for all children |
| cancellation, TLS, once, spin, rwlock | flags, `tls` keys and values, exec semaphores | as in POSIX | destructors and handlers on the way out |
| System V key map, `posix/sysv_idkey.c` | slots `objv`, `nobj`, `nused`, `vlen`, `idx` | find or create by key, find by id, remove | slots, and with them ids, are used again |
| message queues, `posix/sysv_msg*.c` | messages, `msg_cbytes`, `msg_qnum`, two lists of waiters, a lock | msgget, msgsnd, msgrcv, msgctl | two locks handed over; a waiter suspends itself after it entered the list; a waiter looks for its queue again by id |
| semaphore sets, `posix/sysv_sem*.c` | values, counts and lists of waiters, a lock, undo chain per process | semget, semop, semctl | all operations or none; semctl does not take the lock of the set |
| shared memory, `posix/sysv_shm*.c` | segments, attach counts, `totshm` | shmget, shmat, shmdt, shmctl | removal delayed until the last detach |
| asynchronous I/O, `rt/aio_*.c` | lists of requests by descriptor and priority, worker threads | enqueue, worker, cancel, suspend | helper threads end after a timeout while work arrives; requests are canceled under them; waiters link entries on their stacks |
| record locks and descriptors, `stdio/record_locking.c`, `fcntl/close.c`, `unistd/dup*.c`, `stdio/*fd*.c` | regions of a file, each owned by a task; descriptors, their aliases, cleanup function and mark | fcntl, open, dup, dup2, close | retry loops; what the last close removes depends on flags that wander between aliases |
| block allocator, `wmem/wmem_allocator_block.c`, `stdlib/{malloc,free,realloc}.c` | rows of chunks with boundary tags, recycler and master list | malloc, free, realloc, jumbo allocations | two copies of each length, rests that are too small for a list, growth in place |

The correctness properties per part are those of section 4, with the code they guard listed under
`hazards` in `PROJECT.json`. The sequential remainder of the library is listed there under
`components` with the reason for leaving it out.

### How the parts interact

    Threads      CondMonitor     PosixSem --- AbstractSem
                       \            |
                        ------- CondVar ------- Barrier --- AbstractBarrier
                                                   |
                                             BarrierDestroy
    SysvMsg ---- IpcKeyMap ---- SysvSem --- AbstractSysvSem

    Aio          RecordLock          BlockAlloc

Semaphores and barriers are monitors written with the mutex and the condition variable, so their
modules EXTEND `CondVar` and interleave its steps with their own. The two IPC modules share the
key map. The life cycle of threads uses none of these. `Aio` uses the mutex and the condition
variable as `CondVar` shows them to behave: a signal goes to the first waiter, which stays first
until it has the mutex again. Descriptors and record locks are one module, because what close does
to the regions depends on what dup did to the descriptors. The allocator stands alone, under one
lock.

## 2. Modules and the code

| module | models | state and actions |
|---|---|---|
| `CondVar` | `_pthread_cond_timedwait`, `_pthread_cond_broadcast`, the default mutex, exec's signals | `owner`, `incond`, `waiters`, `sig` (pending bits), `armed` (timer request), `cpc` (where a call is). The call is cut where it gives others a chance: `CallCondWait`, `Enqueue` (AddTail), `UnlockToWait` (incond++, unlock), `Wake` (Wait returns), `Relock`, `Dequeue` (incond--, Remove, result or cancellation). `Environment`: `Tick`, `TimerExpires`, `Break` (CTRL-C), `Cancel` |
| `CondMonitor` | no code: the most general client of a mutex and a condition | lock, wait, notify, unlock in any order, as the interface allows |
| `PosixSem` | `semaphore.c` | `value`, `waiters_count`, `pc`; every thread follows a script of calls |
| `AbstractSem` | what a semaphore promises: an atomic counter | |
| `Barrier`, `BarrierDestroy` | `pthread_barrier_wait.c`, `pthread_barrier_destroy.c` | `curr_height`, `total_height`, `pc`, rounds `left`; then `dpc` and what is `freed` |
| `AbstractBarrier` | what a barrier promises: nobody leaves a round before all are in it | |
| `Threads` | creation, start, end, join and exit function | `slot` (`threads[]`), `tpc`, `mine` (tc_UserData), `parentSig`, what each task knows, and, as history, who is `marked` DESTRUCT by pthread_exit and whom pthread_join has `overtaken`. Slot lookup, preparation, CreateNewProc and the store of the task pointer are four steps |
| `IpcKeyMap` | `sysv_idkey.c` | operators on a record of the map |
| `SysvMsg` | `sysv_msg{get,snd,rcv,ctl}.c` | `map`, `mapLock`, `queue`, and per task `pc`, `call`, `qi`. A section under a lock is one step, WakeList one step per waiter |
| `SysvSem` | `sysv_sem{get,op,ctl}.c` | the same; as semctl does not take the lock of the set, the check of all operations, and the load and the store of each semaphore, are steps of their own |
| `AbstractSysvSem` | what semaphore sets promise: all operations of a list at once or none | |
| `Aio` | `rt/aio_misc.c`, `aio_cancel.c`, `aio_notify.c`, `aio_suspend.c` | `chain` (the requests of a descriptor), `runlist`, `running`, `worker`, `nthreads`, `idle` and `woken` threads, `waiting` lists. A section under `__aio_requests_mutex` is one step: `__aio_enqueue_request`, `Begin`, `Finish`, `Notified` and `TimedOut` of a helper thread, `CancelOne`, `CancelAll`, `Suspend`, `ResumeNoted`, `Interrupted` |
| `RecordLock` | `record_locking.c` and the descriptor table of `close`, `dup`, `dup2` | `family` (an original and its aliases, in the order of the list), `cleanup` (fd_Cleanup set), `locked` (FDF_IS_LOCKED), `regions`, and who is `polling` in F_SETLKW. fcntl finds a descriptor before it locks it, so in a program with several tasks it may work on an alias (`Found`) |
| `BlockAlloc` | `wmem_allocator_block.c` below malloc, free and realloc | `allocator` (`len`, `prev`, `last`, `used` of the chunks, `recycler`, `master`), `jumbo` blocks, and `live`, what the program holds. A call is one step, built from operators with the names of the functions |
| `CondProofs` | invariant and lemmas of `CondVar`, for any client, and the theorems of `CondMonitor` | |
| `PosixSemProofs`, `BarrierProofs`, `ThreadsProofs`, `SysvMsgProofs`, `SysvMsgQueueProofs`, `RecordLockProofs`, `BlockAllocProofs` | the theorems | |

`MC...` modules give constants their values for TLC. An operator with an underscore suffix
(`WaitLeave_NoTake`) is a variant with a plausible mistake; no specification uses it. It is
listed under `mutants` with the property that it breaks.

Abstractions that all modules make: names, payloads and error texts are model values; a section
that is protected by a lock which every reader and writer takes is one step; memory is always
available; time is not measured. A time limit is in the future, now or past; the difference to a
past one wraps in its unsigned fields, so that the timer never expires, as `timersub` has it.

## 3. Runs

| run | instance | distinct states | shows |
|---|---|---|---|
| `cond` | 2 threads, one cancelable without timeouts, one with timed waits, the time past, now or to come, both receive CTRL-C | 10,770 states | a wait returns with the mutex, list and counter are exact, no cancellation or wake-up is lost, waits end for a time that was to come |
| `sem` | 3 threads; as a lock, all calls mixed, destroy after the last of two posters; maximum 1 | 99,864 states | the semaphore implements the atomic counter, its users get through, destroy is safe |
| `barrier` | 3 threads, counts 2 and 3, 2 rounds, then destroy | 17,860 states | the barrier implements the abstract one; everybody gets through; nothing is freed too early |
| `threads` | main and 3 processes, 2 slots; threads return or call pthread_exit, main and two of them join | 150,308 states | slots have one thread, join and exit wait for the threads, until a join overtakes a pthread_exit; joins by the creator return |
| `msg` | 4 tasks, 5 programs | 85,524 states | no use of freed queues, exact accounting, order per type, no missed wake-up |
| `sysvsem` | 3 processes, 4 programs | 28,172 states | semop is atomic, counts are exact, no missed wake-up |
| `sem_producer` | 2 waiters, 2 posts | violation | a waiter sleeps although the value is 1 |
| `threads_race` | main and a thread create threads | violation | two threads in one slot |
| `aio` | 4 requests on 2 descriptors, at most 2 helper threads of 3, 1 thread in aio_suspend, 4 calls | 83,071 states | chains, run list and threads agree; no work is forgotten; requests end unless aio_cancel orphaned their descriptor |
| `reclock` | 2 programs, one with two threads, 2 descriptors each | 240,810 states | no conflicting regions; regions are marked to go with the last close, and nobody but the owner takes one away |
| `alloc` | 2 blocks of 20 units, sizes below, at and above what a block holds | 158,807 states | tags, lists and allocations stay exact |
| `alloc_jumbo` | the same, and the system moves a block when it is reallocated | violation | realloc loses the contents of a large allocation |

Bounds and why they are enough:

- two threads at a condition show every pair of causes in every order; `sem` and `barrier` repeat
  it with three, where a third task can come between waker and woken;
- a barrier of 2 among 3 threads makes one thread wait outside while others leave, two rounds make
  threads meet the ones of the round before; `Flag = 8` is greater than any count, as
  `PTHREAD_BARRIER_FLAG` is;
- `SEM_VALUE_MAX = 1` makes the limit a case that happens;
- three processes for two slots make slots be reused and the table be full;
- queues of two bytes and messages of 0 to 3 bytes make queues full, messages too long, and, after
  IPC_SET, the free space negative; `Word` stands for 2^32 in the comparison that mixes signed and
  unsigned;
- tasks run fixed programs, not arbitrary calls, each written for one class of situations;
- two descriptors for four requests of two priorities make chains of three with a choice of place,
  and two helper threads for them make one idle while the other has two requests to leave behind;
- two descriptors per program make an original with an alias in both orders of closing; `LongMax`
  is 3, so that a length of 0 reaches beyond every other region;
- blocks of 20 units with headers of 2 and links of 2 hold up to four chunks: rests with room for
  the links and without, merges to both sides, growth that takes a whole chunk or a part, a master
  chunk that is too small.

Constants restrict the clients or the system where a property needs it:

- `Patient` (`Threads`): main() returns when the threads it created are running. Without it
  `ExitWaits` fails, since the exit function looks for threads that are RUNNING: set it to
  FALSE in `Threads.cfg` to see it.
- `Strangers` (`Threads`): tasks that join threads they did not create. A thread signals its
  creator, so such a join may wait for ever: the run does not check for deadlock, and `JoinReturns`
  is for the behaviours without one (`JoinedByCreator`).
- `Polite` (`SysvSem`): semctl does not begin while a semop has the set locked. Without it the
  unlocked store of SETVAL is lost or makes values negative, and removal frees the set in use;
  no run does without it, because the code says nothing that this would contradict.
- `MovesJumbo` (`BlockAlloc`): whether the system may return other memory than what was just freed
  when a large allocation is resized. `alloc` assumes it does not, `alloc_jumbo` that it may.

Fairness:

- weak fairness of the steps of each task: exec schedules every ready task;
- strong fairness of obtaining a mutex: exec grants it in the order of requests. `SysvMsg` and
  `SysvSem` need no more than weak fairness, because a task makes a bounded number of calls;
- weak fairness of `Tick` and `TimerExpires`: time passes and the device replies;
- `Aio`: I/O ends and signalled threads run (weak fairness of `Worker` and `ResumeNoted`); nothing
  is assumed of the time limits, which `clock_gettime` may leave unset;
- clients: the ones of `CondMonitor` do not keep the mutex for ever, thread functions return
  (`Threads`), processes make the calls of their program (`SysvSem`). CTRL-C and cancellation are
  never assumed to come.

## 4. Properties

- Condition variable. `HoldsMutex`: a thread owns the mutex before it is asleep in a wait, and again
  when its node is removed and when the wait returns. `WaitersExact`: the list has exactly the
  nodes of the threads between AddTail and Remove. `CancelPending`: an untimed wait does not swallow
  the CTRL-C of a cancellation. `IncondExact`: incond is the number of threads that have released
  the mutex to wait and not taken it again. `WaitsReturn`: waits return that were notified, or
  whose timer was set for a time to come; a time that is past is excluded because its timer
  never expires.
- Semaphore. `DestroySafe`: when the thread that takes the last token destroys, nothing is
  freed that a call still uses. `AllFinish`: a semaphore used
  as a lock lets everybody through. Refinement: `ImplementsAbstractSem`.
- Barrier. `HeightExact`: `total_height` tells exactly how many threads are held, or have still to
  leave. `FreedWhenEmpty`, `AllGetThrough` and the refinement `ImplementsAbstractBarrier`.
- Threads. `SlotsExclusive`: no two live threads have the same slot. `JoinedIsDone`: a thread that
  was joined is gone. `ExitWaits`: when the exit function has returned, no thread is left but those
  in the cleanup after pthread_exit. The three are claimed until pthread_join overtakes a thread
  that has called pthread_exit (`overtaken`): from then on that thread runs its cleanup in a slot
  that was cleared and may be somebody else's. `JoinedIsGone` is `JoinedIsDone` without this
  condition, and TLC refutes it. `JoinReturns`: pthread_join ends, in a program in which every
  thread is joined by its creator.
- Message queues. `LockedAlive`: nobody works on a freed queue or waits for its lock.
  `KeyMapExact`: one slot per key, exact counters, no slot with a freed queue. `Accounting`: bytes
  and messages are those in the queue plus the ones that msgrcv dropped with E2BIG. `NobodyStuck`:
  the lists of waiters are exact and nobody is forgotten, with two exceptions that the code makes:
  room made by IPC_SET, and a receiver that looks again after it slept with a negative mtype, which
  msgrcv has negated meanwhile (`posix/sysv_msgrcv.c:58`), so that it now waits for one type only.
  `FifoPerType`, `CallsProgress`.
- Semaphore sets. `CountsExact` (less what tasks from a removed set have lowered, `stray`),
  `NobodyStuck` (with SETVAL as the one exception that the code
  makes), `CallsProgress` (with GetUndo's loop as the exception) and the refinement
  `ImplementsAbstractSysvSem`.
- Asynchronous I/O. `QueueExact`: a request is in progress exactly while it is in its chain, once,
  the run list has runnable heads only, and both are in the order of priority and, behind the head
  of a chain, of arrival among equals. `WorkersExact`: one thread per allocated request, and
  exact counts. `WorkNotForgotten`: no signal to an idle thread is lost. `SuspendersListed`: the entries on the stacks of waiting threads.
  `OrphanedByCancel`, `RequestsEnd`, `SuspendReturns`: requests and waits end, unless aio_cancel
  removed the head of a chain, which is the only way to orphan one.
- Record locks. `NoConflict`: two tasks never hold conflicting regions. `GivenUpByOwner`: a
  region goes only by a call of its owner, the close of the last descriptor of a family or an unlock
  of just its bytes. `WillBeRemoved`: what a program of one task holds is marked for removal by the
  last close on one of its originals. That an unlock releases bytes is not claimed, because it does
  not (section 6).
- Allocator. `Tiled`: the tags describe rows of chunks that fill the blocks. `NoAdjacentFree`: free
  space is merged. `ListsExact`: every free chunk with room for the links is on one list, once.
  `LiveExact`: the used chunks are what the program holds, each as large as asked for.

## 5. Theorems

All of them hold for every finite set of threads or tasks and every value of the other constants
that the named assumptions admit (`ThreadsAssumption`, `CancelableAssumption`,
`TimeoutsAssumption`, `SemAssumption`, `BarrierAssumption`, `DestroyerAssumption`,
`KeyMapAssumption`, `MsgAssumption`, `RecordLockAssumption`, `BlockAssumption`). They say that
constants have the types of the C code, that sets of threads are finite where they are counted, and
that placeholders such as `NULL` and `NoTask` are not among the values they stand apart from.

- `CondProofs!CondSafety`, `CondWaitersExact`: `CondTypeOK`, `HoldsMutex`, `WaitersExact` and
  `IncondExact` are invariants. None is inductive alone: that Dequeue leaves an exact list needs the
  list to have no node twice, that incond stays a natural number needs it to count the threads after UnlockToWait,
  and both need the type of the rest. `CondInv` is their conjunction. The lemmas in `CondProofs` are
  about the steps of `CondVar` alone, so that every monitor built on it can cite them:
  `AddTailProperties` and `UnlinkProperties` say what the two list operations do to a sequence
  without repetition, `WaitingCount` how the count changes, `CondWaitStepInv` and `EnvironmentInv`
  that each step keeps the invariant.
- `CondProofs!CancelSafety`: `CancelPending` is an invariant. It needs two more facts: a
  thread without timed waits has no armed timer and no pending timer bit, so the branch that
  swallows the CTRL-C is never taken.
- `BarrierProofs!BarrierSafety`: `HeightExact` is an invariant for any count, any number of threads
  and rounds, with CTRL-C at any time. The inductive invariant adds to `CondInv` where each call of
  the condition variable is for the state of the barrier (`PcInv`), and splits the count by the two
  readings of `total_height` (`HeightInv`).
- `SysvMsgProofs!MsgLockedAlive`: `LockedAlive` is an invariant for any number of tasks, keys,
  queues and calls. The argument is the hand-over of locks: a call gets the lock of the queue while
  it has the one of the key map, and a task that removes a queue has both, so a task that works on
  a queue excludes its remover. The inductive invariant says who has which lock at which point
  (`HasMap`, `HasQueue`), that the slots of the map refer to different, existing queues (`MapInv`),
  and that the remover's id still leads to its queue (`SlotOf`).
- `BarrierProofs!BarrierDestroySafety`: `FreedWhenEmpty` for any number of threads and rounds. What
  the destroyer sees is only `total_height`; that it is not above the flag means that everybody has
  left because all threads are in the same round. `RoundInv` says so: the waits that a thread has
  not begun, and the one in which it has yet to be released (`ToOpen`), are the same number for all
  threads when the barrier counts them all. It is kept because the thread that opens the barrier is
  the only one that is not inside (`LastArrives`).
- `BarrierProofs!BarrierRefinement`: the barrier with its destroyer implements `AbstractBarrier`.
  `Arrive`, `Trip`, `BarrierUnlock` and `DestroyMutex` are the steps of the abstract barrier
  (`AbsBarrierStep`), everything else is invisible to it.
- `RecordLockProofs!RecordsExclusive`, `RecordsRemoved`, `RecordsHeld`: `NoConflict`,
  `WillBeRemoved` and `GivenUpByOwner` for any programs, tasks, descriptors and requests. The
  inductive invariant adds that the families of a program are disjoint lists without repetition
  (`FamiliesProper`) and that a family through which the only task of a program polls has its
  cleanup function already (`PollersRemembered`). `DuplicateKeeps` and `CloseAliasedKeeps` say that the fields of an original
  survive in it or in its successor.
- `BlockAllocProofs!BlocksTiled`, `FreeSpaceMerged`, `FreeListsExact`, `AllocationsKept`: the four
  invariants of the allocator for every block size, alignment, header size and sequence of calls.
  They are inductive only together and with `Good(a, c)`, the state of the allocator in the middle
  of a call, when chunk `c` is neither used nor in a list; `Holds` ties the chunks to the
  allocations. Every function of the allocator has a lemma that takes `Good` to `Good`. That a block
  without its first chunk has no chunk (`Founded`) makes room for a block from the system.
- `PosixSemProofs!SemRefinement`: the semaphore implements `AbstractSem` for any threads, scripts of
  calls, timeouts, CTRL-C and cancellations, with or without a destroyer. `AbsOp` and `AbsPhase`
  are the mapping: the call a thread is in, and whether it has not begun, is under way or has its
  result. The inductive invariant `SemInv` is `CondInv` with, per thread, who has the mutex where
  (`LockOK`), which results a place in the code admits (`ResOK`) and that only sem_timedwait meets a
  timer (`TimerOK`): without the last one an untimed wait might return as if it had timed out.
- `PosixSemProofs!SemWaitersCounted`, `SemGuarded`: while nobody destroys the semaphore
  (`NeverDestroyed`), waiters_count is the number of threads that have counted themselves in and
  not out, and it and the value are changed by the owner of the mutex only. With a destroyer
  neither holds, as sem_destroy clears the object after it has released the mutex.
- `ThreadsProofs!SlotSafety`, `JoinSafety`, `ExitSafety`: `SlotsExclusive`, `JoinedIsDone` and
  `ExitWaits` for any table and any number of threads that return or call pthread_exit, whoever joins
  them, when `Creators = {Main}`; the last one also assumes `Patient`. As in the run, they hold until
  a pthread_join overtakes a thread that has called pthread_exit, which nothing prevents. The slot that main() found stays empty until it stores the task pointer, which
  may be after the new thread runs (`CreateInv`), so a slot is in the name of its thread or about to
  be (`AliveInv`); the exit function has no thread left in the slots behind it (`ExitInv`). With a
  second creator the first step of the argument fails, which is what `threads_race` shows.
- `PosixSemProofs!SemDestroySafe`: `DestroySafe` for any threads and any number of posts, when the
  thread that destroys the semaphore has taken every token there will ever be (`LastUser`). That is
  the usual way to end with a semaphore, and it is safe only because sem_post gives its token away
  while it still has the mutex and does nothing after it has released it. `DestroyInv` counts: the
  tokens left and those taken (`Taken`) are never more than were there at first or posted
  (`Posted`, `TokensOK`), so that when the last one is taken every other thread has released the
  mutex for the last time (`OthersGone`), and nothing is freed before that (`FreedLast`).
- `SysvMsgQueueProofs!MsgKeyMapExact`, `MsgAccounting`, `MsgNobodyStuck`, `MsgFifo`: the four other
  safety properties of message queues, for any tasks, programs, keys and sizes. They rest on
  `MsgInv` of `SysvMsgProofs` (who has which lock where) and on `QueueInv`, which says of every
  living queue (`AtQueue`) that its books balance (`Book`), that its two lists hold exactly its
  sleepers (`Listed`), that a removal leaves the lists empty that it has gone through (`Drained`), and
  that a sleeper has a reason to sleep (`Reasons`); and, of every task, that its call has the
  arguments it needs (`CallsOK`). `NobodyStuck` is not inductive without `Drained`: IPC_RMID wakes
  the senders before the receivers, and when it frees the queue both lists must be empty. `KeyInv`
  is about the key map alone. There is no induction over the messages: `TotalSize` is stated with a
  function of running sums, which `TotalAppend` and `TotalRemove` turn into the one of the longer or
  shorter queue.

Only model-checked:

- all liveness (`WaitsReturn`, `AllFinish`, `AllGetThrough`, `JoinReturns`, `CallsProgress`,
  `RequestsEnd`, `SuspendReturns`), which needs fairness;
- semaphore sets: `CountsExact` and `NobodyStuck` have the pattern of `QueueInv` and are the next to
  be proved; the mapping to `AbstractSysvSem` adds up the operations that a semop has still to store,
  and a sum over a set is a fold, about which the provers can show nothing for every set;
- asynchronous I/O: `QueueExact`, `WorkersExact`, `WorkNotForgotten`,
  `SuspendersListed` and `OrphanedByCancel`. Requests and threads are unlinked with `SelectSeq`, whose
  result for every sequence is again an induction that the provers do not make.

## 6. What the checks found

- `pthread/pthread.c:251`: a signal goes to the first node, which stays linked until its task has
  the mutex. Two posts in a row wake one waiter (`sem_producer`).
- `pthread/pthread_create.c:117`: a slot is found under the lock, and taken after it was released
  (`threads_race`).
- `wmem/wmem_core.c:83`: realloc of memory taken from the system frees it and asks for other memory;
  nothing is copied, and the headers of the block are taken from whatever it gets (`alloc_jumbo`).

The models show the following as well; a run that is restricted, or a property with an exception,
names each:

- `pthread/pthread.c:183`: the difference to a time that is past wraps and is not zero, so a wait
  until then is not ended by its timer (`armed` in `WaitsReturn`).
- `pthread/pthread_exit.c:49`: a thread that called pthread_exit counts as gone while its cleanup
  runs. A join returns before that is over (`overtaken`; `JoinedIsGone` as an invariant of `threads`
  fails), and the exit function passes over it.
- `pthread/pthread.c:321`: the exit function passes over threads that do not run yet (`Patient`).
- `pthread/pthread_create.c:95`: a thread signals its creator, whoever joins it (`JoinedByCreator`).
- `stdio/record_locking.c:594`: F_UNLCK ends as "not a lock request" and releases nothing, neither
  for fcntl nor for flock and lockf (`Unlock`).
- `posix/sysv_msgctl.c:55`: IPC_SET may lower msg_qbytes below what the queue holds; the free space
  is then negative, becomes a large unsigned number, and every message fits (`Fits`).
- `posix/sysv_msgctl.c:70`: after IPC_RMID a NULL pointer is used while the key map is locked, and
  waiters find another queue under the same id instead of failing (`Halted` in `CallsProgress`).
- `posix/sysv_semctl.c:61`: sets are removed, and values set, without the lock of the set
  (`Polite`).
- `posix/sysv_semop.c:45`: a task that waited on a set that was removed may find another set under
  the same id, and lowers the count of waiters there (`stray` in `CountsExact`).
- `rt/aio_misc.c:224`: when aio_cancel removes the head of a chain, the next request is marked
  runnable and is in no list that anybody looks at (`OrphanedByCancel`).
- `rt/lio_listio.c:46`: lio_listio locks a mutex that it holds.
- `stdio/record_locking.c:610`: F_GETLK does nothing; `stdio/record_locking.c:520`: regions
  belong to the thread that locked them, so a close by another thread leaves them (`Alone` in
  `WillBeRemoved`).

## 7. Not modelled, and the plan

Left out of the modelled parts: static initialisation of mutexes and conditions; the fallback
signal when a task has no free bit; named semaphores; detached threads, which
`pthread/README.md` calls unsupported; two joins of one thread at a time; the second release of
thread_sem when the table of threads is full (`pthread/pthread_create.c:123`); allocation failures; the commands of msgctl and semctl that
only read, SETALL, semtimedop (always EINVAL); operation lists that name one semaphore twice, and
the semaphore number that is one too large and passes the test in semop; lio_listio, the sigevent
of a request and the threads' end at exit; how record locks find that two descriptors are of one
file, and calls that use a descriptor while another thread is in the middle of closing it; memory exhaustion, memalign, free_all and gc of the allocator.

Next, in this order:

1. `Mutex`: kinds, trylock and timedlock, with the static initialisation; `RwLock` with
   `pthread_obtain_sema_timed`; `Once`.
2. `SysvShm` over `IpcKeyMap`: attach, detach and delayed removal.
3. `Tls`: keys, destructors and cleanup handlers, composed with `Threads`.
4. Proofs: semaphore sets (`CountsExact`, `NobodyStuck`) with the lemmas of `SysvMsgQueueProofs`, then
   `QueueExact` and `WorkersExact` of asynchronous I/O.

The sequential rest of the library (strings, mathematics, locale, regular expressions, formatted
I/O, sockets) is listed in `PROJECT.json` with its reason: data without control that TLC could
explore, or glue to libraries outside the repository.
