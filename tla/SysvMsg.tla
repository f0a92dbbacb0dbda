------------------------------ MODULE SysvMsg ------------------------------
(***************************************************************************)
(* System V message queues: msgget, msgsnd, msgrcv and msgctl.  A call     *)
(* locks the key map, finds its queue, locks the queue and only then       *)
(* releases the key map (msgctl keeps it).  A sender that finds the queue  *)
(* full and a receiver that finds no message enter themselves in WList or  *)
(* RList, release the queue, suspend themselves and begin again when a     *)
(* WakeList has restarted them.                                            *)
(*                                                                         *)
(* A queue is known by perm.seq, so that a pointer to a queue that has     *)
(* been freed differs from one to a queue that was made later in the same  *)
(* slot.  Fields of a queue change only under its lock, so what a call     *)
(* does between ObtainSemaphore and WakeList or ReleaseSemaphore is one    *)
(* step.  A message is its type and its size.                              *)
(***************************************************************************)
EXTENDS IpcKeyMap, Sequences, Functions

CONSTANTS
    Tasks,          \* the tasks that use message queues
    Programs,       \* the sequences of calls that the tasks may make
    NoTask,         \* nobody holds the lock
    DEFAULT_QSIZE,  \* msg_qbytes of a new queue
    Word            \* 2^32 in the code: sizes are unsigned

\* The calls and their arguments; size is that of the message, of the
\* buffer, or the new msg_qbytes.
Calls ==
    [op : {"get"}, key : Keys, creat : BOOLEAN, excl : BOOLEAN]
    \cup [op : {"snd", "rcv"}, id : Int, type : Int, size : Nat,
          nowait : BOOLEAN, noerror : BOOLEAN]
    \cup [op : {"set", "stat", "rmid"}, id : Int, size : Nat]

ASSUME MsgAssumption ==
    /\ NoTask \notin Tasks
    /\ {DEFAULT_QSIZE, Word} \subseteq Nat \ {0} /\ DEFAULT_QSIZE < Word
    /\ Programs \subseteq [Tasks -> Seq(Calls)]

VARIABLES
    map,            \* msgcx.keymap
    mapLock,        \* the task that holds its lock
    queue,          \* queue[s]: the queue with perm.seq = s
    pc,             \* where every task is
    call,           \* its call; msgrcv changes its copy of mtype
    qi,             \* the queue it has found, kept while it retries
    ret,            \* what its last call returned
    todo            \* the calls it has still to make

vars == <<map, mapLock, queue, pc, call, qi, ret, todo>>

Wakers == {"wakeR", "wakeW", "rmidW", "rmidR"}
PCs == {"idle", "enter", "found", "suspend", "suspended", "remove", "halted"} \cup Wakers
Results == {"none", "0", "-1", "EIDRM", "EEXIST", "ENOENT", "EPERM", "ENOMEM", "EINVAL",
            "EAGAIN", "E2BIG", "ENOMSG"}

Messages == [type : Int, size : Nat]

\* lostNum and lostBytes record the messages that msgrcv has unlinked but
\* not subtracted, resized that msg_qbytes was set.
QueueType ==
    [alive : BOOLEAN, msgs : Seq(Messages), cbytes : Nat, qnum : Nat, qbytes : Nat \ {0},
     WList : Seq(Tasks), RList : Seq(Tasks), lock : Tasks \cup {NoTask},
     lostNum : Nat, lostBytes : Nat, resized : BOOLEAN]

TypeOK ==
    /\ IsKeyMap(map)
    /\ mapLock \in Tasks \cup {NoTask}
    /\ queue \in [0..(map.idx - 1) -> QueueType]
    /\ pc \in [Tasks -> PCs]
    /\ DOMAIN call = Tasks
    /\ qi \in [Tasks -> 0..(map.idx - 1) \cup {-1}]
    /\ ret \in [Tasks -> Results]
    /\ DOMAIN todo = Tasks

Init ==
    /\ map = IPCMapInit
    /\ mapLock = NoTask
    /\ queue = [s \in {} |-> NULL]
    /\ pc = [t \in Tasks |-> "idle"]
    /\ call = [t \in Tasks |-> [op |-> "none"]]
    /\ qi = [t \in Tasks |-> -1]
    /\ ret = [t \in Tasks |-> "none"]
    /\ todo \in Programs

GoTo(t, at) == pc' = [pc EXCEPT ![t] = at]
Return(t, r) == GoTo(t, "idle") /\ ret' = [ret EXCEPT ![t] = r]

Call(t) ==
    /\ pc[t] = "idle"
    /\ todo[t] # <<>>
    /\ call' = [call EXCEPT ![t] = Head(todo[t])]
    /\ todo' = [todo EXCEPT ![t] = Tail(@)]
    /\ qi' = [qi EXCEPT ![t] = -1]
    /\ GoTo(t, "enter")
    /\ UNCHANGED <<map, mapLock, queue, ret>>

-----------------------------------------------------------------------------
(* msgget *)

msg_construct ==
    [alive |-> TRUE, msgs |-> <<>>, cbytes |-> 0, qnum |-> 0, qbytes |-> DEFAULT_QSIZE,
     WList |-> <<>>, RList |-> <<>>, lock |-> NoTask,
     lostNum |-> 0, lostBytes |-> 0, resized |-> FALSE]

\* A queue that was constructed but not entered in the map is never used.
msgget(t) ==
    /\ pc[t] = "enter" /\ call[t].op = "get"
    /\ mapLock = NoTask
    /\ \E r \in GetIPCKeyId(map, call[t].key, call[t].creat, call[t].excl) :
          /\ map' = r.map
          /\ queue' = [s \in 0..(r.map.idx - 1) |->
                          IF s < map.idx THEN queue[s] ELSE msg_construct]
          /\ Return(t, r.errno)
    /\ UNCHANGED <<mapLock, call, qi, todo>>

-----------------------------------------------------------------------------
(* The common part of the other calls *)

\* Mutant: the key map is released before the queue is locked.
Lookup_NoHandOver(t) ==
    /\ pc[t] = "enter" /\ call[t].op # "get"
    /\ mapLock = NoTask
    /\ LET o == GetIPCById(map, call[t].id)
       IN  IF o = NULL
           THEN Return(t, "EIDRM") /\ UNCHANGED qi
           ELSE /\ GoTo(t, "found")
                /\ qi' = [qi EXCEPT ![t] = o.seq]
                /\ UNCHANGED ret
    /\ UNCHANGED <<map, mapLock, queue, call, todo>>

\* Mutant: a call whose queue is gone tries again.
Lookup_Redo(t) ==
    /\ pc[t] = "enter" /\ call[t].op # "get"
    /\ mapLock = NoTask
    /\ LET o == GetIPCById(map, call[t].id)
       IN  IF o = NULL
           THEN UNCHANGED <<pc, mapLock, qi>>
           ELSE /\ GoTo(t, "found")
                /\ mapLock' = t
                /\ qi' = [qi EXCEPT ![t] = o.seq]
    /\ UNCHANGED <<map, queue, call, ret, todo>>

\* The caller finds its queue and goes on to wait for the lock of the queue
\* with the key map locked; it releases the key map if there is none.
Lookup(t) ==
    /\ pc[t] = "enter" /\ call[t].op # "get"
    /\ mapLock = NoTask
    /\ LET o == GetIPCById(map, call[t].id)
       IN  IF o = NULL
           THEN Return(t, "EIDRM") /\ UNCHANGED <<mapLock, qi>>
           ELSE /\ GoTo(t, "found")
                /\ mapLock' = t
                /\ qi' = [qi EXCEPT ![t] = o.seq]
                /\ UNCHANGED ret
    /\ UNCHANGED <<map, queue, call, todo>>

Locks(t, op) ==
    /\ pc[t] = "found" /\ call[t].op = op
    /\ queue[qi[t]].lock = NoTask

Queue(t) == queue[qi[t]]
SetQueue(t, q) == queue' = [queue EXCEPT ![qi[t]] = q]

\* RequestWakeup; the queue is released and the task about to suspend itself.
RequestWakeup(t, list) ==
    /\ SetQueue(t, [Queue(t) EXCEPT ![list] = Append(@, t)])
    /\ GoTo(t, "suspend")
    /\ UNCHANGED ret

SuspendTask(t) ==
    /\ pc[t] = "suspend"
    /\ GoTo(t, "suspended")
    /\ UNCHANGED <<map, mapLock, queue, call, qi, ret, todo>>

ListOf(t) == IF pc[t] \in {"wakeR", "rmidR"} THEN "RList" ELSE "WList"

\* WakeList: the first waiter is unlinked and restarted, once it is seen to
\* be suspended; until then the caller spins, with the queue locked.
WakeFirst(t) ==
    /\ pc[t] \in Wakers
    /\ Queue(t)[ListOf(t)] # <<>>
    /\ LET w == Head(Queue(t)[ListOf(t)])
       IN  pc[w] = "suspended" /\ GoTo(w, "enter")
    /\ SetQueue(t, [Queue(t) EXCEPT ![ListOf(t)] = Tail(@)])
    /\ UNCHANGED <<map, mapLock, call, qi, ret, todo>>

\* The list is empty: msgsnd and msgrcv release the queue and return 0, the
\* removal of a queue goes on.
WakeDone(t) ==
    /\ pc[t] \in Wakers
    /\ Queue(t)[ListOf(t)] = <<>>
    /\ \/ /\ pc[t] \in {"wakeR", "wakeW"}
          /\ SetQueue(t, [Queue(t) EXCEPT !.lock = NoTask])
          /\ Return(t, "0")
       \/ /\ pc[t] \in {"rmidW", "rmidR"}
          /\ GoTo(t, IF pc[t] = "rmidW" THEN "rmidR" ELSE "remove")
          /\ UNCHANGED <<queue, ret>>
    /\ UNCHANGED <<map, mapLock, call, qi, todo>>

-----------------------------------------------------------------------------
(* msgsnd *)

\* bleft >= mlen: the int bleft is converted to the unsigned type of mlen.
Fits(q, mlen) == (q.qbytes - q.cbytes) % Word >= mlen

Sent(t) ==
    [Queue(t) EXCEPT !.msgs = Append(@, [type |-> call[t].type, size |-> call[t].size]),
                     !.qnum = @ + 1, !.cbytes = @ + call[t].size]

Accept(t) ==
    /\ SetQueue(t, [Sent(t) EXCEPT !.lock = t])
    /\ GoTo(t, "wakeR")
    /\ UNCHANGED ret

\* The message is queued, or refused because there is no memory, it is too
\* large for the queue, or there is no room for it at present.
msgsnd(t) ==
    /\ Locks(t, "snd")
    /\ mapLock' = NoTask
    /\ \/ Fits(Queue(t), call[t].size) /\ Accept(t)
       \/ Fits(Queue(t), call[t].size) /\ Return(t, "ENOMEM") /\ UNCHANGED queue
       \/ /\ ~Fits(Queue(t), call[t].size)
          /\ call[t].size > Queue(t).qbytes
          /\ Return(t, IF call[t].noerror THEN "0" ELSE "EINVAL")
          /\ UNCHANGED queue
       \/ /\ ~Fits(Queue(t), call[t].size)
          /\ call[t].size <= Queue(t).qbytes
          /\ IF call[t].nowait THEN Return(t, "EAGAIN") /\ UNCHANGED queue
                               ELSE RequestWakeup(t, "WList")
    /\ UNCHANGED <<map, call, qi, todo>>

-----------------------------------------------------------------------------
(* msgrcv *)

Matches(m, mtype) ==
    CASE mtype = 0 -> TRUE
      [] mtype > 0 -> m.type = mtype
      [] mtype < 0 -> m.type <= -mtype

Matching(q, mtype) == {i \in DOMAIN q.msgs : Matches(q.msgs[i], mtype)}

\* Mutant: the last message that matches is taken.
Select_Last(q, mtype) == Max(Matching(q, mtype))

\* The first message that matches, also for a negative mtype.
Select(q, mtype) == Min(Matching(q, mtype))

\* exec's Remove() of the i-th message of the list.
Unlinked(msgs, i) == SubSeq(msgs, 1, i - 1) \o SubSeq(msgs, i + 1, Len(msgs))

\* Mutant: the number of messages is not reduced.
Received_NoCount(q, i) ==
    [q EXCEPT !.msgs = Unlinked(@, i), !.cbytes = @ - q.msgs[i].size]

Received(q, i) ==
    [q EXCEPT !.msgs = Unlinked(@, i), !.cbytes = @ - q.msgs[i].size, !.qnum = @ - 1]

\* E2BIG: the message is unlinked already and the counters stay.
TooBig(q, i) ==
    [q EXCEPT !.msgs = Unlinked(@, i),
              !.lostNum = @ + 1, !.lostBytes = @ + q.msgs[i].size]

\* Mutant: the writers are not woken.
Deliver_NoWake(t, i) ==
    /\ SetQueue(t, Received(Queue(t), i))
    /\ Return(t, "0")

Deliver(t, i) ==
    /\ SetQueue(t, [Received(Queue(t), i) EXCEPT !.lock = t])
    /\ GoTo(t, "wakeW")
    /\ UNCHANGED ret

\* A negative mtype is negated in the caller's variable, so that a retry
\* looks for that type alone.
msgrcv(t) ==
    /\ Locks(t, "rcv")
    /\ mapLock' = NoTask
    /\ call' = [call EXCEPT ![t].type = IF @ < 0 THEN -@ ELSE @]
    /\ LET q == Queue(t)
           i == Select(q, call[t].type)
       IN  IF Matching(q, call[t].type) = {}
           THEN IF call[t].nowait THEN Return(t, "ENOMSG") /\ UNCHANGED queue
                                  ELSE RequestWakeup(t, "RList")
           ELSE IF q.msgs[i].size <= call[t].size \/ call[t].noerror
                THEN Deliver(t, i)
                ELSE SetQueue(t, TooBig(q, i)) /\ Return(t, "E2BIG")
    /\ UNCHANGED <<map, qi, todo>>

-----------------------------------------------------------------------------
(* msgctl, which returns -1 whatever it does *)

IPC_SET(t) ==
    /\ Locks(t, "set")
    /\ mapLock' = NoTask
    /\ IF call[t].size > 0
       THEN /\ SetQueue(t, [Queue(t) EXCEPT !.qbytes = call[t].size, !.resized = TRUE])
            /\ Return(t, "-1")
       ELSE Return(t, "EINVAL") /\ UNCHANGED queue
    /\ UNCHANGED <<map, call, qi, todo>>

IPC_STAT(t) ==
    /\ Locks(t, "stat")
    /\ mapLock' = NoTask
    /\ Return(t, "-1")
    /\ UNCHANGED <<map, queue, call, qi, todo>>

IPC_RMID(t) ==
    /\ Locks(t, "rmid")
    /\ SetQueue(t, [Queue(t) EXCEPT !.lock = t])
    /\ GoTo(t, "rmidW")
    /\ UNCHANGED <<map, mapLock, call, qi, ret, todo>>

msg_destroy(q) == [q EXCEPT !.alive = FALSE, !.msgs = <<>>, !.lock = NoTask]

\* With the queue gone, qi is NULL when its Lock is to be released.  Either
\* the access halts the task, which has the key map locked, or it does no
\* harm and the call goes on.
RemoveQueue(t) ==
    /\ pc[t] = "remove"
    /\ map' = IPCRmId(map, call[t].id)
    /\ SetQueue(t, msg_destroy(Queue(t)))
    /\ \/ GoTo(t, "halted") /\ UNCHANGED <<mapLock, ret>>
       \/ Return(t, "-1") /\ mapLock' = NoTask
    /\ UNCHANGED <<call, qi, todo>>

-----------------------------------------------------------------------------

Step(t) ==
    \/ msgget(t) \/ Lookup(t) \/ SuspendTask(t) \/ WakeFirst(t) \/ WakeDone(t)
    \/ msgsnd(t) \/ msgrcv(t)
    \/ IPC_SET(t) \/ IPC_STAT(t) \/ IPC_RMID(t) \/ RemoveQueue(t)

Halted == \E t \in Tasks : pc[t] = "halted"

\* Nothing is left to do: the calls are over, or wait for one that is not
\* made, or for the lock of the key map that a halted task has.
Quiet ==
    /\ \/ Halted
       \/ \A t \in Tasks : pc[t] = "suspended" \/ (pc[t] = "idle" /\ todo[t] = <<>>)
    /\ UNCHANGED vars

Next == (\E t \in Tasks : Call(t) \/ Step(t)) \/ Quiet

Spec == Init /\ [][Next]_vars

\* Every task is scheduled; exec grants a semaphore in the order of requests.
FairSpec == Spec /\ \A t \in Tasks : WF_vars(Step(t))

-----------------------------------------------------------------------------
(* Properties *)

Asleep(t) == pc[t] \in {"suspend", "suspended"}
Alive == {s \in DOMAIN queue : queue[s].alive}

\* Nobody waits for the lock of a freed queue or works on one: msgctl cannot
\* free a queue between the lookup of a call and its end.
LockedAlive == \A t \in Tasks : pc[t] \in {"found", "remove"} \cup Wakers => qi[t] \in Alive

\* The counters of the key map, the uniqueness of keys, and every object of
\* the map is a queue that has not been freed.
KeyMapExact ==
    /\ MapExact(map)
    /\ \A i \in Used(map) : map.objv[i].seq \in Alive

\* The running sums of the sizes of the messages end with n.
TotalSize(msgs, n) ==
    \E sum \in [0..Len(msgs) -> 0..n] :
        /\ sum[0] = 0 /\ sum[Len(msgs)] = n
        /\ \A i \in 1..Len(msgs) : sum[i] = sum[i - 1] + msgs[i].size

\* msg_qnum and msg_cbytes count the messages in the queue and, for ever,
\* those that msgrcv refused with E2BIG.
Accounting ==
    \A s \in Alive :
        /\ queue[s].qnum = Len(queue[s].msgs) + queue[s].lostNum
        /\ TotalSize(queue[s].msgs, queue[s].cbytes - queue[s].lostBytes)

\* The waiting lists of a queue hold exactly the tasks that sleep or are
\* about to: no restart is lost and nobody sleeps on a queue that is gone.
SleepersListed ==
    /\ \A t \in Tasks : Asleep(t) => qi[t] \in Alive
    /\ \A s \in Alive :
          LET listed(op) == {t \in Tasks : Asleep(t) /\ qi[t] = s /\ call[t].op = op}
          IN  /\ IsInjective(queue[s].WList) /\ Range(queue[s].WList) = listed("snd")
              /\ IsInjective(queue[s].RList) /\ Range(queue[s].RList) = listed("rcv")

Waking(s, lists) == \E t \in Tasks : qi[t] = s /\ pc[t] \in lists

\* The lists are exact, and no sender sleeps while its message fits, unless
\* somebody is waking the senders or IPC_SET, which wakes nobody, has made
\* the room; no receiver sleeps while there is a message of the type it has
\* come to look for, unless somebody is waking the receivers.
NobodyStuck ==
    /\ SleepersListed
    /\ \A t \in Tasks : Asleep(t) =>
           /\ call[t].op = "snd" /\ Fits(Queue(t), call[t].size) =>
                  Waking(qi[t], {"wakeW", "rmidW"}) \/ Queue(t).resized
           /\ call[t].op = "rcv" /\ Matching(Queue(t), call[t].type) # {} =>
                  Waking(qi[t], {"wakeR", "rmidW", "rmidR"})

\* The message that has left was the oldest of its type.
InOrder(old, new) ==
    \/ new = old
    \/ Len(new) > Len(old) /\ SubSeq(new, 1, Len(old)) = old
    \/ \E i \in DOMAIN old :
          /\ new = Unlinked(old, i)
          /\ \A j \in 1..(i - 1) : old[j].type # old[i].type

\* A queue only grows at its end, and a message leaves it only when no
\* older one of the same type is left, until the queue is removed.
FifoStep == \A s \in Alive : ~queue'[s].alive \/ InOrder(queue[s].msgs, queue'[s].msgs)
FifoPerType == [][FifoStep]_vars

\* A call that does not sleep comes to its end or to sleep: the two locks
\* and the spinning in WakeList hold nobody up for ever, as long as no task
\* was halted.
CallsProgress ==
    \A t \in Tasks :
        pc[t] \in {"enter", "found", "remove"} \cup Wakers ~>
            pc[t] \in {"idle", "suspend", "suspended"} \/ Halted

=============================================================================
