--------------------------- MODULE SysvMsgProofs ---------------------------
(***************************************************************************)
(* Proof that no call of the System V message queues works on a queue that *)
(* has been freed, for any number of tasks, queues and calls; and what the *)
(* functions on the key map and on one queue do, on which the proofs of    *)
(* SysvMsgQueueProofs rest.                                                *)
(*                                                                         *)
(* LockedAlive is not inductive.  What protects a queue is that the lock   *)
(* of the key map is handed over to the lock of the queue: a task between  *)
(* its lookup and its lock has the key map locked (HasMap), one that works *)
(* on the queue has the queue locked (HasQueue), and a removal has both.   *)
(* That a removal frees the queue of its own slot needs SlotOf and that    *)
(* slots refer to different queues that exist (MapInv).                    *)
(***************************************************************************)
EXTENDS SysvMsg, FiniteSetTheorems, SequenceTheorems, WellFoundedInduction, TLAPS

MapUsers == {"found", "rmidW", "rmidR", "remove", "halted"}
QueueUsers == Wakers \cup {"remove"}

Shape ==
    /\ mapLock \in Tasks \cup {NoTask}
    /\ pc \in [Tasks -> PCs]
    /\ qi \in [Tasks -> Int]
    /\ DOMAIN call = Tasks
    /\ DOMAIN queue = 0..(map.idx - 1)
    /\ \A s \in DOMAIN queue : {"alive", "lock"} \subseteq DOMAIN queue[s]

HasMap == \A t \in Tasks : pc[t] \in MapUsers => mapLock = t
HasQueue == \A t \in Tasks : pc[t] \in QueueUsers => queue[qi[t]].lock = t
SlotOf ==
    \A t \in Tasks :
        pc[t] \in MapUsers \ {"halted"} =>
            call[t].id \in Used(map) /\ map.objv[call[t].id].seq = qi[t]

MapShape(m) ==
    /\ {"nobj", "idx", "objv", "nused"} \subseteq DOMAIN m
    /\ m.nobj \in Nat /\ m.idx \in Nat
    /\ DOMAIN m.objv = 0..(m.nobj - 1)

MapInv ==
    /\ MapShape(map)
    /\ \A i \in Used(map) : map.objv[i].seq \in Alive
    /\ \A i, j \in Used(map) : map.objv[i].seq = map.objv[j].seq => i = j

MsgInv == Shape /\ HasMap /\ HasQueue /\ SlotOf /\ LockedAlive /\ MapInv

-----------------------------------------------------------------------------

\* Min picks the least element of a non-empty set of natural numbers:
\* GetIPCKeyId finds the first slot with the key and the first free one, and
\* msgrcv the first message that matches.
LEMMA MinIsLeast ==
    ASSUME NEW S, S \subseteq Nat, S # {}
    PROVE  Min(S) \in S /\ \A x \in S : Min(S) =< x
<1> DEFINE less == {ss \in Nat \X Nat : ss[1] < ss[2]}
<1>1. less = OpToRel(<, Nat)
  BY Zenon DEF OpToRel
<1>2. IsWellFoundedOn(less, Nat)
  BY <1>1, NatLessThanWellFounded, Zenon
<1>3. \E x \in S : \A y \in S : ~(<<y, x>> \in less)
  <2> HIDE DEF less
  <2> QED
    BY <1>2, WFMin, Zenon
<1>4. \E x \in S : \A y \in S : x =< y
  <2>1. PICK x \in S : \A y \in S : ~(<<y, x>> \in less)
    BY <1>3
  <2>2. ASSUME NEW y \in S
        PROVE  x =< y
    <3>1. <<y, x>> \in Nat \X Nat /\ ~(<<y, x>> \in less)
      BY <2>1
    <3>2. ~(y < x)
      BY <3>1
    <3> QED
      BY <3>1, <3>2
  <2> QED
    BY <2>2
<1> QED
  BY <1>4, Zenon DEF Min

\* The new slot of the key map is a free one or the one behind the last.
LEMMA NewIndexFree ==
    ASSUME NEW m, MapShape(m), NEW key
    PROVE  NewIndex(m, key) \in 0..m.nobj /\ NewIndex(m, key) \notin Used(m)
<1> DEFINE free == {i \in 0..(m.nobj - 1) : m.objv[i] = NULL}
<1>1. m.nobj \in Nat
  BY DEF MapShape
<1>2. CASE key = IPC_PRIVATE \/ free = {}
  BY <1>1, <1>2 DEF NewIndex, Used
<1>3. CASE ~(key = IPC_PRIVATE \/ free = {})
  <2>1. free \subseteq Nat /\ free # {}
    BY <1>1, <1>3
  <2>2. Min(free) \in free
    <3> HIDE DEF free
    <3> QED
      BY <2>1, MinIsLeast, Zenon
  <2> QED
    BY <1>1, <1>3, <2>2 DEF NewIndex, Used
<1> QED
  BY <1>2, <1>3

\* What GetIPCKeyId does to the key map: objects stay in their slots, and at
\* most one new object, with the next number, is entered.
LEMMA KeyIdOutcome ==
    ASSUME NEW m, MapShape(m), NEW key, NEW creat, NEW excl,
           NEW r \in GetIPCKeyId(m, key, creat, excl)
    PROVE  /\ MapShape(r.map)
           /\ r.map.idx \in {m.idx, m.idx + 1}
           /\ \A i \in Used(m) : i \in Used(r.map) /\ r.map.objv[i] = m.objv[i]
           /\ \A i \in Used(r.map) \ Used(m) :
                 /\ i = NewIndex(m, key)
                 /\ r.map.objv[i].seq = m.idx
                 /\ r.map.idx = m.idx + 1
<1> DEFINE new == NewIndex(m, key)
           e == Entered(m, key)
<1>1. new \in 0..m.nobj /\ new \notin Used(m)
  BY NewIndexFree
<1>2. /\ m.nobj \in Nat /\ m.idx \in Nat
      /\ DOMAIN m.objv = 0..(m.nobj - 1)
  BY DEF MapShape
<1>3. \/ r.map = m
      \/ r.map = [m EXCEPT !.idx = @ + 1]
      \/ r.map = e
  BY DEF GetIPCKeyId, Failed
<1>4. CASE r.map = m
  BY <1>2, <1>4
<1>5. CASE r.map = [m EXCEPT !.idx = @ + 1]
  <2>1. r.map.objv = m.objv /\ r.map.nobj = m.nobj /\ r.map.idx = m.idx + 1
        /\ DOMAIN r.map = DOMAIN m
    BY <1>5 DEF MapShape
  <2> QED
    BY <1>2, <2>1 DEF MapShape, Used
<1>6. CASE r.map = e
  <2> DEFINE obj == [key |-> key, seq |-> m.idx]
  <2>1. /\ e.idx = m.idx + 1
        /\ e.nobj = IF new = m.nobj THEN m.nobj + 1 ELSE m.nobj
        /\ e.objv = [i \in DOMAIN m.objv \cup {new} |-> IF i = new THEN obj ELSE m.objv[i]]
        /\ {"nobj", "idx", "objv", "nused"} \subseteq DOMAIN e
    BY DEF Entered
  <2>2. obj.seq = m.idx
    OBVIOUS
  <2> HIDE DEF new, e, obj
  <2>3. DOMAIN e.objv = 0..(e.nobj - 1) /\ e.nobj \in Nat
    BY <1>1, <1>2, <2>1
  <2>4. \A i \in 0..(m.nobj - 1) : i \in 0..(e.nobj - 1) /\ (i # new => e.objv[i] = m.objv[i])
    BY <1>1, <1>2, <2>1
  <2>5. \A i \in 0..(e.nobj - 1) : i \in 0..(m.nobj - 1) \/ i = new
    BY <1>1, <1>2, <2>1
  <2>6. new \in 0..(e.nobj - 1) /\ e.objv[new] = obj
    BY <1>1, <1>2, <2>1
  <2>7. MapShape(e)
    BY <1>2, <2>1, <2>3 DEF MapShape
  <2>8. \A i \in Used(m) : i \in Used(e) /\ e.objv[i] = m.objv[i]
    BY <1>1, <2>4 DEF Used
  <2>9. \A i \in Used(e) \ Used(m) : i = new
    BY <2>4, <2>5 DEF Used
  <2> QED
    BY <1>6, <2>1, <2>2, <2>6, <2>7, <2>8, <2>9, Zenon DEF new
<1> QED
  BY <1>3, <1>4, <1>5, <1>6

-----------------------------------------------------------------------------

\* A step that frees no queue and leaves the key map alone leaves MapInv.
LEMMA MapKept ==
    ASSUME MapInv, map' = map, DOMAIN queue' = DOMAIN queue,
           \A s \in DOMAIN queue : queue'[s].alive = queue[s].alive
    PROVE  Alive' = Alive /\ MapInv'
<1>1. Alive' = Alive
  BY Zenon DEF Alive
<1> QED
  BY <1>1 DEF MapInv

\* Steps of a task that has found its queue: it takes the lock, works, wakes
\* others and releases, but frees nothing.
LEMMA QueueStep ==
    ASSUME MsgInv, NEW t \in Tasks, NEW q,
           pc[t] \in {"found"} \cup Wakers,
           pc[t] = "found" => Queue(t).lock = NoTask,
           DOMAIN queue' = DOMAIN queue, queue'[qi[t]] = q,
           \A s \in DOMAIN queue \ {qi[t]} : queue'[s] = queue[s],
           {"alive", "lock"} \subseteq DOMAIN q, q.alive = Queue(t).alive,
           map' = map, qi' = qi,
           DOMAIN call' = Tasks, \A u \in Tasks \ {t} : call'[u] = call[u],
           pc' \in [Tasks -> PCs], \A u \in Tasks \ {t} : pc'[u] \in {pc[u], "enter"},
           mapLock' = mapLock \/ (mapLock' = NoTask /\ pc[t] = "found"),
           pc'[t] \in QueueUsers => q.lock = t,
           pc'[t] \in {"idle", "suspend"} \cup QueueUsers,
           pc'[t] \in MapUsers => mapLock' = mapLock /\ pc[t] \in MapUsers /\ call'[t] = call[t]
    PROVE  MsgInv'
<1> USE DEF MsgInv
<1>1. /\ pc[t] \in PCs /\ qi[t] \in DOMAIN queue
      /\ pc[t] \in Wakers => queue[qi[t]].lock = t
  BY SMTT(30) DEF LockedAlive, Alive, HasQueue, QueueUsers, Shape
<1>2. Shape'
  BY <1>1, MsgAssumption, SMTT(30) DEF Shape
<1>3. Alive' = Alive /\ MapInv'
  <2>1. \A s \in DOMAIN queue : queue'[s].alive = queue[s].alive
    BY <1>1 DEF Queue
  <2> QED
    BY <2>1, MapKept, SMTT(30)
<1>4. HasMap'
  BY SMTT(30) DEF HasMap, MapUsers
<1>5. HasQueue'
  <2> SUFFICES ASSUME NEW u \in Tasks, pc'[u] \in QueueUsers
               PROVE  queue'[qi[u]].lock = u
    BY SMTT(30) DEF HasQueue
  <2>1. CASE u = t
    BY <2>1
  <2>2. CASE u # t
    <3>1. pc[u] \in QueueUsers
      BY <2>2 DEF QueueUsers, Wakers
    <3>2. queue[qi[u]].lock = u /\ qi[u] \in DOMAIN queue
      BY <3>1 DEF HasQueue, LockedAlive, Alive, QueueUsers
    <3>3. qi[u] # qi[t]
      BY <1>1, <2>2, <3>2, MsgAssumption, SMTT(30) DEF Queue
    <3> QED
      BY <3>2, <3>3
  <2> QED
    BY <2>1, <2>2
<1>6. SlotOf'
  <2> SUFFICES ASSUME NEW u \in Tasks, pc'[u] \in MapUsers \ {"halted"}
               PROVE  call'[u].id \in Used(map) /\ map.objv[call'[u].id].seq = qi[u]
    BY Zenon DEF SlotOf, Used
  <2>1. pc[u] \in MapUsers \ {"halted"}
    BY SMTT(30) DEF MapUsers, Wakers
  <2>2. call'[u] = call[u]
    BY DEF MapUsers
  <2> QED
    BY <2>1, <2>2, SMTT(30) DEF SlotOf
<1>7. LockedAlive'
  <2> SUFFICES ASSUME NEW u \in Tasks, pc'[u] \in {"found", "remove"} \cup Wakers
               PROVE  qi[u] \in Alive
    BY <1>3 DEF LockedAlive
  <2>1. pc[u] \in {"found", "remove"} \cup Wakers
    BY SMTT(30) DEF Wakers
  <2> QED
    BY <2>1, SMTT(30) DEF LockedAlive
<1> QED
  BY <1>2, <1>3, <1>4, <1>5, <1>6, <1>7

\* What is known of the queue of a task that has found one.
LEMMA FoundFacts ==
    ASSUME MsgInv, NEW t \in Tasks, pc[t] \in {"found", "remove"} \cup Wakers
    PROVE  /\ qi[t] \in DOMAIN queue
           /\ {"alive", "lock"} \subseteq DOMAIN Queue(t)
           /\ pc \in [Tasks -> PCs] /\ DOMAIN call = Tasks
BY DEF MsgInv, LockedAlive, Alive, Shape, Queue

\* What SetQueue does to the function of queues.
LEMMA SetQueueFacts ==
    ASSUME NEW t \in Tasks, NEW q, qi[t] \in DOMAIN queue, SetQueue(t, q)
    PROVE  /\ DOMAIN queue' = DOMAIN queue /\ queue'[qi[t]] = q
           /\ \A s \in DOMAIN queue \ {qi[t]} : queue'[s] = queue[s]
BY DEF SetQueue

\* A call that returns, or goes to sleep in one of the lists.
LEMMA LeaveInv ==
    ASSUME MsgInv, NEW t \in Tasks, NEW q, NEW p \in {"idle", "suspend"},
           pc[t] = "found", Queue(t).lock = NoTask,
           (SetQueue(t, q) \/ (UNCHANGED queue /\ q = Queue(t))),
           {"alive", "lock"} \subseteq DOMAIN q, q.alive = Queue(t).alive,
           map' = map, qi' = qi, mapLock' = NoTask,
           DOMAIN call' = Tasks, \A u \in Tasks \ {t} : call'[u] = call[u],
           GoTo(t, p)
    PROVE  MsgInv'
<1>1. /\ qi[t] \in DOMAIN queue /\ pc \in [Tasks -> PCs]
  BY FoundFacts
<1>2. /\ DOMAIN queue' = DOMAIN queue /\ queue'[qi[t]] = q
      /\ \A s \in DOMAIN queue \ {qi[t]} : queue'[s] = queue[s]
  BY <1>1, SetQueueFacts DEF Queue
<1>3. /\ pc' \in [Tasks -> PCs] /\ pc'[t] = p
      /\ \A u \in Tasks \ {t} : pc'[u] \in {pc[u], "enter"}
  BY <1>1, SMTT(30) DEF GoTo, PCs
<1>4. pc'[t] \notin QueueUsers /\ pc'[t] \notin MapUsers /\ pc'[t] \in {"idle", "suspend"}
  BY <1>3 DEF QueueUsers, MapUsers, Wakers
<1> QED
  BY <1>2, <1>3, <1>4, QueueStep, SMTT(30)

\* msgsnd, msgrcv or IPC_RMID has taken the lock and goes on to wake others.
LEMMA BeginWakeInv ==
    ASSUME MsgInv, NEW t \in Tasks, NEW q, NEW p \in {"wakeR", "wakeW", "rmidW"},
           pc[t] = "found", Queue(t).lock = NoTask,
           SetQueue(t, q),
           {"alive", "lock"} \subseteq DOMAIN q, q.alive = Queue(t).alive, q.lock = t,
           map' = map, qi' = qi,
           mapLock' = mapLock \/ (mapLock' = NoTask /\ p # "rmidW"),
           DOMAIN call' = Tasks, \A u \in Tasks \ {t} : call'[u] = call[u],
           p = "rmidW" => call' = call,
           GoTo(t, p)
    PROVE  MsgInv'
<1>1. /\ qi[t] \in DOMAIN queue /\ pc \in [Tasks -> PCs]
  BY FoundFacts, Zenon
<1>2. /\ DOMAIN queue' = DOMAIN queue /\ queue'[qi[t]] = q
      /\ \A s \in DOMAIN queue \ {qi[t]} : queue'[s] = queue[s]
  BY <1>1, SetQueueFacts
<1>3. /\ pc' \in [Tasks -> PCs] /\ pc'[t] = p
      /\ \A u \in Tasks \ {t} : pc'[u] \in {pc[u], "enter"}
  BY <1>1 DEF GoTo, PCs, Wakers
<1>4. /\ pc'[t] \in QueueUsers
      /\ pc'[t] \in MapUsers => p = "rmidW" /\ pc[t] \in MapUsers
  BY <1>3 DEF QueueUsers, MapUsers, Wakers
<1> QED
  BY <1>2, <1>3, <1>4, QueueStep

\* msgsnd: the message is queued, refused, or the task goes to sleep.
LEMMA msgsndInv ==
    ASSUME MsgInv, NEW t \in Tasks, msgsnd(t)
    PROVE  MsgInv'
<1>1. /\ pc[t] = "found" /\ Queue(t).lock = NoTask
      /\ mapLock' = NoTask /\ map' = map /\ qi' = qi /\ call' = call
  BY DEF msgsnd, Locks, Queue
<1>2. /\ {"alive", "lock"} \subseteq DOMAIN Queue(t)
      /\ DOMAIN call = Tasks
  BY <1>1, FoundFacts
<1>3. CASE Accept(t)
  <2> DEFINE q == [Sent(t) EXCEPT !.lock = t]
  <2>1. {"alive", "lock"} \subseteq DOMAIN q /\ q.alive = Queue(t).alive /\ q.lock = t
    BY <1>2 DEF Sent
  <2>2. SetQueue(t, q) /\ GoTo(t, "wakeR")
    BY <1>3 DEF Accept
  <2> HIDE DEF q
  <2> QED
    BY <1>1, <1>2, <2>1, <2>2, BeginWakeInv
<1>4. CASE UNCHANGED queue /\ \E r \in {"ENOMEM", "0", "EINVAL", "EAGAIN"} : Return(t, r)
  BY <1>1, <1>2, <1>4, LeaveInv DEF Return
<1>5. CASE RequestWakeup(t, "WList")
  <2> DEFINE q == [Queue(t) EXCEPT !["WList"] = Append(@, t)]
  <2>1. {"alive", "lock"} \subseteq DOMAIN q /\ q.alive = Queue(t).alive
    BY <1>2
  <2>2. SetQueue(t, q) /\ GoTo(t, "suspend")
    BY <1>5 DEF RequestWakeup
  <2> HIDE DEF q
  <2> QED
    BY <1>1, <1>2, <2>1, <2>2, LeaveInv
<1> QED
  BY <1>3, <1>4, <1>5, SMTT(30) DEF msgsnd

\* msgrcv: a message is delivered or dropped, or the task fails or sleeps.
LEMMA msgrcvInv ==
    ASSUME MsgInv, NEW t \in Tasks, msgrcv(t)
    PROVE  MsgInv'
<1>1. /\ pc[t] = "found" /\ Queue(t).lock = NoTask
      /\ mapLock' = NoTask /\ map' = map /\ qi' = qi
  BY Zenon DEF msgrcv, Locks, Queue
<1>2. /\ {"alive", "lock"} \subseteq DOMAIN Queue(t)
      /\ DOMAIN call = Tasks
  BY <1>1, FoundFacts, SMTT(30)
<1>3. DOMAIN call' = Tasks /\ \A u \in Tasks \ {t} : call'[u] = call[u]
  BY <1>2, SMTT(30) DEF msgrcv
<1>4. ASSUME NEW i, Deliver(t, i)
      PROVE  MsgInv'
  <2> DEFINE q == [Received(Queue(t), i) EXCEPT !.lock = t]
  <2>1. {"alive", "lock"} \subseteq DOMAIN q /\ q.alive = Queue(t).alive /\ q.lock = t
    BY <1>2 DEF Received
  <2>2. SetQueue(t, q) /\ GoTo(t, "wakeW")
    BY <1>4 DEF Deliver
  <2> HIDE DEF q
  <2> QED
    BY <1>1, <1>3, <2>1, <2>2, BeginWakeInv
<1>5. ASSUME NEW i, SetQueue(t, TooBig(Queue(t), i)), Return(t, "E2BIG")
      PROVE  MsgInv'
  <2> DEFINE q == TooBig(Queue(t), i)
  <2>1. {"alive", "lock"} \subseteq DOMAIN q /\ q.alive = Queue(t).alive
    BY <1>2 DEF TooBig
  <2>2. SetQueue(t, q) /\ GoTo(t, "idle")
    BY <1>5 DEF Return
  <2> HIDE DEF q
  <2> QED
    BY <1>1, <1>3, <2>1, <2>2, LeaveInv, SMTT(30)
<1>6. CASE Return(t, "ENOMSG") /\ UNCHANGED queue
  BY <1>1, <1>2, <1>3, <1>6, LeaveInv DEF Return
<1>7. CASE RequestWakeup(t, "RList")
  <2> DEFINE q == [Queue(t) EXCEPT !["RList"] = Append(@, t)]
  <2>1. {"alive", "lock"} \subseteq DOMAIN q /\ q.alive = Queue(t).alive
    BY <1>2
  <2>2. SetQueue(t, q) /\ GoTo(t, "suspend")
    BY <1>7 DEF RequestWakeup
  <2> HIDE DEF q
  <2> QED
    BY <1>1, <1>3, <2>1, <2>2, LeaveInv, SMTT(30)
<1> QED
  BY <1>4, <1>5, <1>6, <1>7 DEF msgrcv

\* msgctl up to the point where IPC_RMID has locked the queue.
LEMMA msgctlInv ==
    ASSUME MsgInv, NEW t \in Tasks, IPC_SET(t) \/ IPC_STAT(t) \/ IPC_RMID(t)
    PROVE  MsgInv'
<1>1. /\ pc[t] = "found" /\ Queue(t).lock = NoTask
      /\ map' = map /\ qi' = qi /\ call' = call
  BY SMTT(30) DEF IPC_SET, IPC_STAT, IPC_RMID, Locks, Queue
<1>2. /\ {"alive", "lock"} \subseteq DOMAIN Queue(t)
      /\ DOMAIN call = Tasks
  BY <1>1, FoundFacts, SMTT(30)
<1>3. CASE IPC_SET(t)
  <2>1. CASE UNCHANGED queue
    BY <1>1, <1>2, <1>3, <2>1, LeaveInv DEF IPC_SET, Return
  <2>2. CASE call[t].size > 0
    <3> DEFINE q == [Queue(t) EXCEPT !.qbytes = call[t].size, !.resized = TRUE]
    <3>1. {"alive", "lock"} \subseteq DOMAIN q /\ q.alive = Queue(t).alive
      BY <1>2
    <3>2. SetQueue(t, q) /\ GoTo(t, "idle") /\ mapLock' = NoTask
      BY <1>3, <2>2 DEF IPC_SET, Return
    <3> HIDE DEF q
    <3> QED
      BY <1>1, <1>2, <3>1, <3>2, LeaveInv
  <2> QED
    BY <1>3, <2>1, <2>2 DEF IPC_SET
<1>4. CASE IPC_STAT(t)
  BY <1>1, <1>2, <1>4, LeaveInv, SMTT(30) DEF IPC_STAT, Return
<1>5. CASE IPC_RMID(t)
  <2> DEFINE q == [Queue(t) EXCEPT !.lock = t]
  <2>1. {"alive", "lock"} \subseteq DOMAIN q /\ q.alive = Queue(t).alive /\ q.lock = t
    BY <1>2
  <2>2. SetQueue(t, q) /\ GoTo(t, "rmidW") /\ mapLock' = mapLock
    BY <1>5 DEF IPC_RMID
  <2> HIDE DEF q
  <2> QED
    BY <1>1, <1>2, <2>1, <2>2, BeginWakeInv
<1> QED
  BY <1>3, <1>4, <1>5

\* WakeList: a waiter is restarted, or the list is empty.
LEMMA WakeInv ==
    ASSUME MsgInv, NEW t \in Tasks, WakeFirst(t) \/ WakeDone(t)
    PROVE  MsgInv'
<1>1. /\ pc[t] \in Wakers /\ pc[t] # "found"
      /\ map' = map /\ qi' = qi /\ call' = call /\ mapLock' = mapLock
  BY DEF WakeFirst, WakeDone, Wakers
<1>2. /\ qi[t] \in DOMAIN queue
      /\ {"alive", "lock"} \subseteq DOMAIN Queue(t)
      /\ pc \in [Tasks -> PCs] /\ DOMAIN call = Tasks
  BY <1>1, FoundFacts
<1>3. Queue(t).lock = t
  BY <1>1 DEF MsgInv, HasQueue, QueueUsers, Queue
<1>4. CASE WakeFirst(t)
  <2> DEFINE w == Head(Queue(t)[ListOf(t)])
             q == [Queue(t) EXCEPT ![ListOf(t)] = Tail(@)]
  <2>1. /\ {"alive", "lock"} \subseteq DOMAIN q
        /\ q.alive = Queue(t).alive /\ q.lock = t
    BY <1>2, <1>3 DEF ListOf
  <2>2. SetQueue(t, q) /\ pc[w] = "suspended" /\ pc' = [pc EXCEPT ![w] = "enter"]
    BY <1>4, SMTT(30) DEF WakeFirst, GoTo
  <2>3. w # t
    BY <1>1, <2>2, SMTT(30) DEF Wakers
  <2> HIDE DEF w, q
  <2>4. /\ DOMAIN queue' = DOMAIN queue /\ queue'[qi[t]] = q
        /\ \A s \in DOMAIN queue \ {qi[t]} : queue'[s] = queue[s]
    BY <1>2, <2>2, SetQueueFacts, SMTT(30)
  <2>5. /\ pc' \in [Tasks -> PCs] /\ pc'[t] = pc[t]
        /\ \A u \in Tasks \ {t} : pc'[u] \in {pc[u], "enter"}
    BY <1>2, <2>2, <2>3, Zenon DEF PCs
  <2>6. pc'[t] \in QueueUsers
    BY <1>1, <2>5 DEF QueueUsers
  <2> QED
    BY <1>1, <1>2, <2>1, <2>4, <2>5, <2>6, QueueStep, SMTT(30)
<1>5. CASE WakeDone(t) /\ pc[t] \in {"wakeR", "wakeW"}
  <2> DEFINE q == [Queue(t) EXCEPT !.lock = NoTask]
  <2>1. {"alive", "lock"} \subseteq DOMAIN q /\ q.alive = Queue(t).alive
    BY <1>2
  <2>2. SetQueue(t, q) /\ GoTo(t, "idle")
    BY <1>5, SMTT(30) DEF WakeDone, Return
  <2> HIDE DEF q
  <2>3. /\ DOMAIN queue' = DOMAIN queue /\ queue'[qi[t]] = q
        /\ \A s \in DOMAIN queue \ {qi[t]} : queue'[s] = queue[s]
    BY <1>2, <2>2, SetQueueFacts, Zenon
  <2>4. /\ pc' \in [Tasks -> PCs] /\ pc'[t] = "idle"
        /\ \A u \in Tasks \ {t} : pc'[u] \in {pc[u], "enter"}
    BY <1>2, <2>2 DEF GoTo, PCs
  <2>5. pc'[t] \notin QueueUsers /\ pc'[t] \notin MapUsers
    BY <2>4 DEF QueueUsers, MapUsers, Wakers
  <2> QED
    BY <1>1, <1>2, <2>1, <2>3, <2>4, <2>5, QueueStep, SMTT(30)
<1>6. CASE WakeDone(t) /\ pc[t] \in {"rmidW", "rmidR"}
  <2>1. queue' = queue /\ \E p \in {"rmidR", "remove"} : GoTo(t, p)
    BY <1>6 DEF WakeDone
  <2>2. /\ pc' \in [Tasks -> PCs] /\ pc'[t] \in {"rmidR", "remove"}
        /\ \A u \in Tasks \ {t} : pc'[u] \in {pc[u], "enter"}
    BY <1>2, <2>1, SMTT(30) DEF GoTo, PCs, Wakers
  <2>3. pc'[t] \in QueueUsers /\ pc[t] \in MapUsers
    BY <1>6, <2>2 DEF QueueUsers, MapUsers, Wakers
  <2> QED
    BY <1>1, <1>2, <1>3, <2>1, <2>2, <2>3, QueueStep, Zenon DEF Queue
<1> QED
  BY <1>4, <1>5, <1>6 DEF WakeDone

\* A call begins, a task suspends itself, or msgget or a lookup finds nothing
\* that changes the key map: no lock is taken and no queue touched.
LEMMA OutsideInv ==
    ASSUME MsgInv, NEW t \in Tasks, NEW p \in {"idle", "enter", "suspended"},
           GoTo(t, p), UNCHANGED <<map, mapLock, queue>>,
           qi' \in [Tasks -> Int], \A u \in Tasks \ {t} : qi'[u] = qi[u],
           DOMAIN call' = Tasks, \A u \in Tasks \ {t} : call'[u] = call[u]
    PROVE  MsgInv'
<1> USE DEF MsgInv
<1>1. /\ pc' \in [Tasks -> PCs] /\ pc'[t] = p
      /\ \A u \in Tasks \ {t} : pc'[u] = pc[u]
  BY DEF Shape, GoTo, PCs
<1>2. p \notin MapUsers /\ p \notin QueueUsers
  BY DEF MapUsers, QueueUsers, Wakers
<1>3. Shape'
  BY <1>1 DEF Shape
<1>4. Alive' = Alive /\ MapInv'
  BY MapKept, SMTT(30)
<1>5. HasMap' /\ HasQueue'
  BY <1>1, <1>2 DEF HasMap, HasQueue
<1>6. SlotOf'
  BY <1>1, <1>2, SMTT(30) DEF SlotOf, Used
<1>7. LockedAlive'
  <2> SUFFICES ASSUME NEW u \in Tasks, pc'[u] \in {"found", "remove"} \cup Wakers
               PROVE  qi'[u] \in Alive
    BY <1>4, SMTT(30) DEF LockedAlive
  <2>1. u # t
    BY <1>1, <1>2, SMTT(30) DEF MapUsers, QueueUsers
  <2> QED
    BY <1>1, <2>1, SMTT(30) DEF LockedAlive
<1> QED
  BY <1>3, <1>4, <1>5, <1>6, <1>7

\* Lookup: the key map is locked, and the queue of the slot is alive.
LEMMA LookupInv ==
    ASSUME MsgInv, NEW t \in Tasks, Lookup(t)
    PROVE  MsgInv'
<1> USE DEF MsgInv
<1> DEFINE o == GetIPCById(map, call[t].id)
<1>1. /\ mapLock = NoTask /\ map' = map /\ queue' = queue /\ call' = call
      /\ pc \in [Tasks -> PCs] /\ qi \in [Tasks -> Int] /\ DOMAIN call = Tasks
  BY Zenon DEF Lookup, Shape
<1>2. CASE o = NULL
  <2>1. GoTo(t, "idle") /\ mapLock' = mapLock /\ qi' = qi
    BY <1>2, Zenon DEF Lookup, Return
  <2> QED
    BY <1>1, <2>1, OutsideInv, SMTT(30)
<1>3. CASE o # NULL
  <2>1. GoTo(t, "found") /\ mapLock' = t /\ qi' = [qi EXCEPT ![t] = o.seq]
    BY <1>3, Zenon DEF Lookup
  <2>2. call[t].id \in Used(map) /\ o = map.objv[call[t].id]
    BY <1>3 DEF GetIPCById
  <2>3. o.seq \in Alive /\ o.seq \in DOMAIN queue
    BY <2>2, Zenon DEF MapInv, Alive
  <2> HIDE DEF o
  <2>4. o.seq \in Int
    BY <2>3, SMTT(30) DEF Shape, MapInv, MapShape
  <2>5. \A u \in Tasks : pc[u] \notin MapUsers
    BY <1>1, MsgAssumption DEF HasMap
  <2>6. /\ pc' \in [Tasks -> PCs] /\ pc'[t] = "found"
        /\ \A u \in Tasks \ {t} : pc'[u] = pc[u]
        /\ qi' \in [Tasks -> Int] /\ qi'[t] = o.seq
        /\ \A u \in Tasks \ {t} : qi'[u] = qi[u]
    BY <1>1, <2>1, <2>4 DEF GoTo, PCs
  <2>7. Shape'
    BY <1>1, <2>1, <2>6, Zenon DEF Shape
  <2>8. Alive' = Alive /\ MapInv'
    BY <1>1, MapKept, SMTT(30)
  <2>9. HasMap'
    BY <2>1, <2>5, <2>6, SMTT(30) DEF HasMap
  <2>10. HasQueue'
    BY <1>1, <2>6, SMTT(30) DEF HasQueue, QueueUsers, Wakers
  <2>11. SlotOf'
    BY <1>1, <2>2, <2>5, <2>6, Zenon DEF SlotOf, Used
  <2>12. LockedAlive'
    BY <2>3, <2>6, <2>8 DEF LockedAlive
  <2> QED
    BY <2>7, <2>8, <2>9, <2>10, <2>11, <2>12
<1> QED
  BY <1>2, <1>3

\* msgget: nobody is between a lookup and a lock, no queue is freed and the
\* new one gets a number that no slot has.
LEMMA msggetInv ==
    ASSUME MsgInv, NEW t \in Tasks, msgget(t)
    PROVE  MsgInv'
<1> USE DEF MsgInv
<1>1. PICK r \in GetIPCKeyId(map, call[t].key, call[t].creat, call[t].excl) :
          /\ map' = r.map
          /\ queue' = [s \in 0..(r.map.idx - 1) |->
                          IF s < map.idx THEN queue[s] ELSE msg_construct]
          /\ Return(t, r.errno)
  BY Zenon DEF msgget
<1>2. mapLock = NoTask /\ mapLock' = NoTask /\ call' = call /\ qi' = qi
  BY Zenon DEF msgget
<1> DEFINE key == call[t].key
<1>3. /\ MapShape(map')
      /\ map'.idx \in {map.idx, map.idx + 1}
      /\ \A i \in Used(map) : i \in Used(map') /\ map'.objv[i] = map.objv[i]
      /\ \A i \in Used(map') \ Used(map) :
            i = NewIndex(map, key) /\ map'.objv[i].seq = map.idx /\ map'.idx = map.idx + 1
  BY <1>1, KeyIdOutcome, SMTT(30) DEF MapInv
<1> HIDE DEF key
<1>4. map.idx \in Nat /\ map'.idx \in Nat /\ DOMAIN queue = 0..(map.idx - 1)
  BY <1>3, Zenon DEF MapInv, MapShape, Shape
<1>5. /\ DOMAIN queue' = 0..(map'.idx - 1)
      /\ \A s \in DOMAIN queue : s \in DOMAIN queue' /\ queue'[s] = queue[s]
      /\ \A s \in DOMAIN queue' \ DOMAIN queue : s = map.idx /\ queue'[s] = msg_construct
      /\ map'.idx = map.idx + 1 => map.idx \in DOMAIN queue' /\ queue'[map.idx] = msg_construct
  <2>1. queue' = [s \in 0..(map'.idx - 1) |-> IF s < map.idx THEN queue[s] ELSE msg_construct]
    BY <1>1, Zenon
  <2>2. map'.idx \in {map.idx, map.idx + 1}
    BY <1>3, Zenon
  <2>3. DOMAIN queue' = 0..(map'.idx - 1)
        /\ \A s \in 0..(map'.idx - 1) : queue'[s] = IF s < map.idx THEN queue[s] ELSE msg_construct
    BY <2>1, Zenon
  <2>4. /\ \A s \in 0..(map.idx - 1) : s \in 0..(map'.idx - 1) /\ s < map.idx
        /\ \A s \in 0..(map'.idx - 1) \ 0..(map.idx - 1) : s = map.idx /\ ~(s < map.idx)
        /\ map'.idx = map.idx + 1 => map.idx \in 0..(map'.idx - 1) /\ ~(map.idx < map.idx)
    BY <1>4, <2>2
  <2> QED
    BY <1>4, <2>3, <2>4, Zenon
<1>6. {"alive", "lock"} \subseteq DOMAIN msg_construct /\ msg_construct.alive = TRUE
  BY Zenon DEF msg_construct
<1>7. /\ Alive \subseteq Alive'
      /\ map'.idx = map.idx + 1 => map.idx \in Alive'
  BY <1>5, <1>6, Zenon DEF Alive
<1>8. /\ pc' \in [Tasks -> PCs] /\ pc'[t] = "idle"
      /\ \A u \in Tasks \ {t} : pc'[u] = pc[u]
  BY <1>1, Zenon DEF Return, GoTo, PCs, Shape
<1>9. Shape'
  BY <1>2, <1>5, <1>6, <1>8, SMTT(30) DEF Shape
<1>10. \A u \in Tasks : pc[u] \notin MapUsers /\ pc'[u] \notin MapUsers
  BY <1>2, <1>8, MsgAssumption, Zenon DEF HasMap, MapUsers
<1>11. HasMap' /\ SlotOf'
  BY <1>10, Zenon DEF HasMap, SlotOf
<1>12. HasQueue'
  <2> SUFFICES ASSUME NEW u \in Tasks, pc'[u] \in QueueUsers
               PROVE  queue'[qi[u]].lock = u
    BY <1>2, Zenon DEF HasQueue
  <2>1. pc[u] \in QueueUsers
    BY <1>8, Zenon DEF QueueUsers, Wakers
  <2>2. qi[u] \in DOMAIN queue /\ queue[qi[u]].lock = u
    BY <2>1, Zenon DEF HasQueue, LockedAlive, Alive, QueueUsers
  <2> QED
    BY <1>5, <2>2, Zenon
<1>13. LockedAlive'
  BY <1>2, <1>7, <1>8, Zenon DEF LockedAlive, Wakers
<1>14. MapInv'
  <2>1. \A i \in Used(map') : map'.objv[i].seq \in Alive'
    BY <1>3, <1>7, Zenon DEF MapInv
  <2>2. \A i \in Used(map) : map.objv[i].seq \in 0..(map.idx - 1)
    BY <1>4, Zenon DEF MapInv, Alive
  <2>3. \A i, j \in Used(map') : map'.objv[i].seq = map'.objv[j].seq => i = j
    BY <1>3, <1>4, <2>2, SMTT(30) DEF MapInv
  <2> QED
    BY <1>3, <2>1, <2>3, Zenon DEF MapInv
<1> QED
  BY <1>9, <1>11, <1>12, <1>13, <1>14

\* The end of IPC_RMID: the remover has both locks, so that nobody else uses
\* the queue, and no other slot refers to it.
LEMMA RemoveQueueInv ==
    ASSUME MsgInv, NEW t \in Tasks, RemoveQueue(t)
    PROVE  MsgInv'
<1> USE DEF MsgInv
<1> DEFINE id == call[t].id
           q == msg_destroy(Queue(t))
<1>1. /\ pc[t] = "remove" /\ mapLock = t /\ queue[qi[t]].lock = t
      /\ id \in Used(map) /\ map.objv[id].seq = qi[t]
  BY Zenon DEF RemoveQueue, HasMap, HasQueue, SlotOf, MapUsers, QueueUsers
<1>2. /\ qi[t] \in DOMAIN queue /\ {"alive", "lock"} \subseteq DOMAIN Queue(t)
      /\ pc \in [Tasks -> PCs] /\ DOMAIN call = Tasks
  BY <1>1, FoundFacts, Zenon
<1>3. call' = call /\ qi' = qi /\ SetQueue(t, q)
  BY Zenon DEF RemoveQueue
<1>4. {"alive", "lock"} \subseteq DOMAIN q
  BY <1>2 DEF msg_destroy
<1>5. map' = [map EXCEPT !.objv[id] = NULL, !.nused = @ - 1]
  BY <1>1 DEF RemoveQueue, IPCRmId
<1> HIDE DEF id, q
<1>6. /\ DOMAIN queue' = DOMAIN queue /\ queue'[qi[t]] = q
      /\ \A s \in DOMAIN queue \ {qi[t]} : queue'[s] = queue[s]
  BY <1>2, <1>3, SetQueueFacts, Zenon
<1>7. \A s \in Alive \ {qi[t]} : s \in Alive'
  BY <1>6, SMTT(30) DEF Alive
<1>8. /\ MapShape(map') /\ map'.idx = map.idx
      /\ Used(map') = Used(map) \ {id}
      /\ \A i \in Used(map') : map'.objv[i] = map.objv[i]
  <2>1. /\ map'.nobj = map.nobj /\ map'.idx = map.idx
        /\ map'.objv = [map.objv EXCEPT ![id] = NULL]
        /\ DOMAIN map' = DOMAIN map
    BY <1>5 DEF MapInv, MapShape
  <2> QED
    BY <2>1, Zenon DEF MapInv, MapShape, Used
<1>9. /\ pc' \in [Tasks -> PCs]
      /\ \A u \in Tasks \ {t} : pc'[u] = pc[u]
      /\ \/ pc'[t] = "halted" /\ mapLock' = t
         \/ pc'[t] = "idle" /\ mapLock' = NoTask
  BY <1>1, <1>2, Zenon DEF RemoveQueue, Return, GoTo, PCs
<1>10. \A u \in Tasks \ {t} : pc'[u] \notin MapUsers
  BY <1>1, <1>9, Zenon DEF HasMap
<1>11. \A u \in Tasks \ {t} : pc'[u] \in QueueUsers => qi[u] # qi[t]
  BY <1>1, <1>9, SMTT(30) DEF HasQueue
<1>12. Shape'
  BY <1>2, <1>3, <1>4, <1>6, <1>8, <1>9, Zenon DEF Shape
<1>13. HasMap' /\ SlotOf'
  BY <1>9, <1>10, SMTT(30) DEF HasMap, SlotOf, MapUsers
<1>14. HasQueue'
  <2> SUFFICES ASSUME NEW u \in Tasks, pc'[u] \in QueueUsers
               PROVE  queue'[qi[u]].lock = u
    BY <1>3, SMTT(30) DEF HasQueue
  <2>1. u # t
    BY <1>9 DEF QueueUsers, Wakers
  <2>2. pc[u] \in QueueUsers /\ qi[u] # qi[t]
    BY <1>9, <1>11, <2>1
  <2>3. queue[qi[u]].lock = u /\ qi[u] \in DOMAIN queue
    BY <2>2 DEF HasQueue, LockedAlive, Alive, QueueUsers
  <2> QED
    BY <1>6, <2>2, <2>3
<1>15. LockedAlive'
  <2> SUFFICES ASSUME NEW u \in Tasks, pc'[u] \in {"found", "remove"} \cup Wakers
               PROVE  qi[u] \in Alive'
    BY <1>3 DEF LockedAlive
  <2>1. u # t
    BY <1>9 DEF Wakers
  <2>2. pc'[u] \in QueueUsers /\ pc[u] = pc'[u]
    BY <1>9, <1>10, <2>1 DEF MapUsers, QueueUsers
  <2>3. qi[u] # qi[t] /\ qi[u] \in Alive
    BY <1>11, <2>1, <2>2 DEF LockedAlive
  <2> QED
    BY <1>7, <2>3
<1>16. MapInv'
  <2>1. \A i \in Used(map') : map'.objv[i].seq # qi[t]
    BY <1>1, <1>8, Zenon DEF MapInv
  <2>2. \A i \in Used(map') : map'.objv[i].seq \in Alive'
    BY <1>7, <1>8, <2>1, Zenon DEF MapInv
  <2> QED
    BY <1>8, <2>2, SMTT(30) DEF MapInv
<1> QED
  BY <1>12, <1>13, <1>14, <1>15, <1>16

-----------------------------------------------------------------------------

\* The system starts without queues and without callers.
LEMMA MsgInitInv == Init => MsgInv
<1> SUFFICES ASSUME Init PROVE MsgInv
  OBVIOUS
<1>1. \A t \in Tasks : pc[t] = "idle"
  BY SMTT(30) DEF Init
<1>2. MapShape(map) /\ map.idx = 0 /\ Used(map) = {}
  BY SMTT(30) DEF Init, IPCMapInit, MapShape, Used
<1>3. Shape
  BY <1>2, SMTT(30) DEF Init, Shape, PCs
<1>4. HasMap /\ HasQueue /\ SlotOf /\ LockedAlive
  BY <1>1, Zenon DEF HasMap, HasQueue, SlotOf, LockedAlive, MapUsers, QueueUsers, Wakers
<1>5. MapInv
  BY <1>2 DEF MapInv
<1> QED
  BY <1>3, <1>4, <1>5 DEF MsgInv

\* Every step of every call keeps the invariant.
LEMMA MsgNextInv == MsgInv /\ [Next]_vars => MsgInv'
<1> SUFFICES ASSUME MsgInv, [Next]_vars PROVE MsgInv'
  OBVIOUS
<1>1. qi \in [Tasks -> Int] /\ DOMAIN call = Tasks
  BY DEF MsgInv, Shape
<1>2. ASSUME NEW t \in Tasks, Call(t)
      PROVE  MsgInv'
  <2>1. /\ GoTo(t, "enter") /\ UNCHANGED <<map, mapLock, queue>>
        /\ qi' \in [Tasks -> Int] /\ \A u \in Tasks \ {t} : qi'[u] = qi[u]
        /\ DOMAIN call' = Tasks /\ \A u \in Tasks \ {t} : call'[u] = call[u]
    BY <1>1, <1>2, SMTT(30) DEF Call
  <2> QED
    BY <2>1, OutsideInv, Zenon
<1>3. ASSUME NEW t \in Tasks, SuspendTask(t)
      PROVE  MsgInv'
  BY <1>1, <1>3, OutsideInv, SMTT(30) DEF SuspendTask
<1>4. CASE UNCHANGED vars
  <2> USE <1>4 DEF vars
  <2>1. Alive' = Alive
    BY DEF Alive
  <2>2. MapInv' /\ LockedAlive'
    BY <2>1, SMTT(30) DEF MsgInv, MapInv, LockedAlive
  <2>3. Shape' /\ HasMap' /\ HasQueue' /\ SlotOf'
    BY Zenon DEF MsgInv, Shape, HasMap, HasQueue, SlotOf
  <2> QED
    BY <2>2, <2>3, SMTT(30) DEF MsgInv
<1> QED
  BY <1>2, <1>3, <1>4, LookupInv, msggetInv, WakeInv, msgsndInv, msgrcvInv, msgctlInv, Zenon,
     RemoveQueueInv DEF Next, Step, Quiet

\* No call of msgsnd, msgrcv or msgctl works on a queue that a concurrent
\* IPC_RMID has freed, for any number of tasks, keys and calls.
THEOREM MsgLockedAlive == Spec => []LockedAlive
<1>1. MsgInv => LockedAlive
  BY DEF MsgInv
<1> QED
  BY <1>1, MsgInitInv, MsgNextInv, PTL DEF Spec

-----------------------------------------------------------------------------
(* The key map *)

MapNumbers(m) ==
    /\ DOMAIN m = {"nobj", "vlen", "idx", "nused", "objv"}
    /\ {m.nobj, m.vlen, m.idx, m.nused} \subseteq Nat
    /\ DOMAIN m.objv = 0..(m.nobj - 1)
    /\ \A i \in Used(m) : m.objv[i].seq \in 0..(m.idx - 1)

\* Natural numbers add up to natural numbers.
LEMMA SumIsNat ==
    ASSUME NEW x \in Nat, NEW y \in Nat
    PROVE  x + 1 \in Nat /\ x + y \in Nat
OBVIOUS

\* The slots in use are finitely many.
LEMMA UsedFinite ==
    ASSUME NEW m, MapNumbers(m)
    PROVE  IsFiniteSet(Used(m))
<1>1. IsFiniteSet(0..(m.nobj - 1))
  BY FS_Interval DEF MapNumbers
<1> QED
  BY <1>1, FS_Subset DEF Used

\* A new object fills one slot, and no other object has its number or, unless
\* it is IPC_PRIVATE, its key.
LEMMA EnteredExact ==
    ASSUME NEW m, MapNumbers(m), MapExact(m), NEW key \in Keys, WithKey(m, key) = {}
    PROVE  MapNumbers(Entered(m, key)) /\ MapExact(Entered(m, key))
<1> DEFINE new == NewIndex(m, key)
           e == Entered(m, key)
           obj == [key |-> key, seq |-> m.idx]
<1>1. /\ m.nobj \in Nat /\ m.vlen \in Nat /\ m.idx \in Nat /\ m.nused \in Nat
      /\ DOMAIN m.objv = 0..(m.nobj - 1)
      /\ VEXTEND \in Nat /\ VEXTEND > 0
  BY KeyMapAssumption DEF MapNumbers
<1>2. new \in 0..m.nobj /\ new \notin Used(m)
  BY <1>1, NewIndexFree DEF MapNumbers, MapShape
<1>3. obj # NULL /\ obj.key = key /\ obj.seq = m.idx
  <2>1. obj \in [key : Keys, seq : Nat]
    BY <1>1
  <2> QED
    BY <2>1, KeyMapAssumption
<1>4. /\ e.idx = m.idx + 1
      /\ e.nused = m.nused + 1
      /\ e.nobj = IF new = m.nobj THEN m.nobj + 1 ELSE m.nobj
      /\ e.vlen = IF m.nobj = m.vlen THEN m.vlen + VEXTEND ELSE m.vlen
      /\ e.objv = [i \in DOMAIN m.objv \cup {new} |-> IF i = new THEN obj ELSE m.objv[i]]
      /\ DOMAIN e = {"nobj", "vlen", "idx", "nused", "objv"}
  BY DEF Entered
<1> HIDE DEF new, e, obj
<1>5. DOMAIN e.objv = 0..(e.nobj - 1) /\ e.nobj \in Nat /\ e.vlen \in Nat
  <2>0. /\ e.nobj = IF new = m.nobj THEN m.nobj + 1 ELSE m.nobj
        /\ e.vlen = m.vlen + VEXTEND \/ e.vlen = m.vlen
    BY <1>4, Zenon
  <2>1. e.nobj \in Nat /\ e.vlen \in Nat
    <3>1. m.nobj + 1 \in Nat /\ m.vlen + VEXTEND \in Nat
      BY <1>1, SumIsNat, Zenon
    <3> QED BY <1>1, <2>0, <3>1, Zenon
  <2>2. 0..(e.nobj - 1) = 0..(m.nobj - 1) \cup {new}
    BY <1>1, <1>2, <2>0
  <2>3. DOMAIN e.objv = DOMAIN m.objv \cup {new}
    BY <1>4, Zenon
  <2> QED
    BY <1>1, <2>1, <2>2, <2>3, Zenon
<1>6. Used(e) = Used(m) \cup {new}
      /\ e.objv[new] = obj /\ \A i \in Used(m) : e.objv[i] = m.objv[i]
  <2>1. \A i \in 0..(m.nobj - 1) : i \in 0..(e.nobj - 1) /\ (i # new => e.objv[i] = m.objv[i])
    BY <1>1, <1>2, <1>4
  <2>2. \A i \in 0..(e.nobj - 1) : i \in 0..(m.nobj - 1) \/ i = new
    BY <1>1, <1>2, <1>4
  <2>3. new \in 0..(e.nobj - 1) /\ e.objv[new] = obj
    BY <1>1, <1>2, <1>4
  <2>4. \A i \in Used(m) : i \in Used(e) /\ e.objv[i] = m.objv[i]
    BY <1>2, <2>1 DEF Used
  <2>5. new \in Used(e)
    BY <1>3, <2>3 DEF Used
  <2>6. \A i \in Used(e) : i \in Used(m) \/ i = new
    BY <2>1, <2>2 DEF Used
  <2> QED
    BY <2>3, <2>4, <2>5, <2>6
<1>7. \A i \in Used(m) : e.objv[i].seq \in 0..(e.idx - 1)
  <2>1. e.idx = m.idx + 1
    BY <1>4
  <2>2. \A i \in Used(m) : m.objv[i].seq \in 0..(m.idx - 1)
    BY DEF MapNumbers
  <2> QED
    BY <1>1, <1>6, <2>1, <2>2
<1>8. \A i \in Used(e) : e.objv[i].seq \in 0..(e.idx - 1)
  <2>1. obj.seq \in 0..(e.idx - 1)
    BY <1>1, <1>3, <1>4
  <2> QED
    BY <1>6, <1>7, <2>1
<1>9. MapNumbers(e)
  <2>1. e.idx \in Nat /\ e.nused \in Nat /\ DOMAIN e = {"nobj", "vlen", "idx", "nused", "objv"}
    BY <1>1, <1>4
  <2> QED
    BY <1>5, <1>8, <2>1 DEF MapNumbers
<1>10. e.nused = Cardinality(Used(e))
  <2>1. e.nused = m.nused + 1 /\ m.nused = Cardinality(Used(m))
    BY <1>4 DEF MapExact
  <2> QED
    BY <1>2, <1>6, <2>1, UsedFinite, FS_AddElement
<1>11. e.nobj <= e.vlen
  BY <1>1, <1>4 DEF MapExact
<1>12. \A i \in Used(m) : m.objv[i].seq # obj.seq
  BY <1>1, <1>3 DEF MapNumbers
<1>13. \A i \in Used(m) : m.objv[i].key = obj.key => obj.key = IPC_PRIVATE
  BY <1>3 DEF WithKey
<1>14. ASSUME NEW i \in Used(e), NEW j \in Used(e), i # j
       PROVE  /\ e.objv[i].seq # e.objv[j].seq
              /\ e.objv[i].key = e.objv[j].key => e.objv[i].key = IPC_PRIVATE
  <2>1. CASE i = new
    BY <1>6, <1>12, <1>13, <1>14, <2>1
  <2>2. CASE j = new
    BY <1>6, <1>12, <1>13, <1>14, <2>2
  <2>3. CASE i \in Used(m) /\ j \in Used(m)
    BY <1>6, <1>14, <2>3 DEF MapExact
  <2> QED
    BY <1>6, <2>1, <2>2, <2>3
<1> QED
  BY <1>9, <1>10, <1>11, <1>14 DEF MapExact, e

\* GetIPCKeyId, whatever it returns, leaves the key map exact.
LEMMA KeyIdExact ==
    ASSUME NEW m, MapNumbers(m), MapExact(m), NEW key \in Keys, NEW creat, NEW excl,
           NEW r \in GetIPCKeyId(m, key, creat, excl)
    PROVE  MapNumbers(r.map) /\ MapExact(r.map)
<1>1. \/ r.map = m
      \/ r.map = [m EXCEPT !.idx = @ + 1]
      \/ r.map = Entered(m, key) /\ WithKey(m, key) = {}
  BY DEF GetIPCKeyId, Failed
<1>2. CASE r.map = [m EXCEPT !.idx = @ + 1]
  <2>1. /\ r.map.objv = m.objv /\ r.map.nobj = m.nobj /\ r.map.idx = m.idx + 1
        /\ r.map.nused = m.nused /\ r.map.vlen = m.vlen /\ DOMAIN r.map = DOMAIN m
    BY <1>2 DEF MapNumbers
  <2>2. Used(r.map) = Used(m)
    BY <2>1 DEF Used
  <2>3. MapExact(r.map)
    BY <2>1, <2>2 DEF MapExact
  <2>4. MapNumbers(r.map)
    BY <2>1, <2>2 DEF MapNumbers
  <2> QED
    BY <2>3, <2>4
<1> QED
  BY <1>1, <1>2, EnteredExact

\* IPCRmId empties one slot and leaves the others.
LEMMA RmIdExact ==
    ASSUME NEW m, MapNumbers(m), MapExact(m), NEW id \in Used(m)
    PROVE  /\ MapNumbers(IPCRmId(m, id)) /\ MapExact(IPCRmId(m, id))
<1> DEFINE e == IPCRmId(m, id)
<1>1. /\ m.nobj \in Nat /\ m.vlen \in Nat /\ m.idx \in Nat /\ m.nused \in Nat
      /\ DOMAIN m.objv = 0..(m.nobj - 1)
  BY DEF MapNumbers
<1>2. /\ e.nobj = m.nobj /\ e.idx = m.idx /\ e.vlen = m.vlen /\ e.nused = m.nused - 1
      /\ e.objv = [m.objv EXCEPT ![id] = NULL]
      /\ DOMAIN e = DOMAIN m
  BY DEF IPCRmId, MapNumbers
<1> HIDE DEF e
<1>3. Used(e) = Used(m) \ {id} /\ \A i \in Used(e) : e.objv[i] = m.objv[i]
  BY <1>1, <1>2 DEF Used
<1>4. e.nused = Cardinality(Used(e))
  BY <1>2, <1>3, UsedFinite, FS_RemoveElement, ZenonT(30) DEF MapExact
<1>5. e.nused \in Nat
  <2>1. IsFiniteSet(Used(e))
    BY <1>3, UsedFinite, FS_RemoveElement, Zenon
  <2> QED
    BY <1>4, <2>1, FS_CardinalityType, Zenon
<1>6. MapNumbers(e)
  BY <1>1, <1>2, <1>3, <1>5 DEF MapNumbers
<1>7. MapExact(e)
  <2>1. Used(e) \subseteq Used(m) /\ e.nobj =< e.vlen
    BY <1>2, <1>3, Zenon DEF MapExact
  <2> QED
    BY <1>3, <1>4, <2>1, ZenonT(30) DEF MapExact
<1> QED
  BY <1>6, <1>7 DEF e

-----------------------------------------------------------------------------
(* Sequences *)

\* A sequence without one of its elements.
LEMMA UnlinkedFacts ==
    ASSUME NEW M, NEW s \in Seq(M), NEW i \in 1..Len(s)
    PROVE  /\ Unlinked(s, i) \in Seq(M)
           /\ Len(Unlinked(s, i)) = Len(s) - 1
           /\ \A j \in 1..(Len(s) - 1) :
                 Unlinked(s, i)[j] = IF j < i THEN s[j] ELSE s[j + 1]
<1> DEFINE a == SubSeq(s, 1, i - 1)
           b == SubSeq(s, i + 1, Len(s))
<1>1. Len(s) \in Nat /\ \A j \in 1..Len(s) : s[j] \in M
  OBVIOUS
<1>2. a \in Seq(M) /\ Len(a) = i - 1 /\ \A j \in 1..(i - 1) : a[j] = s[j]
  BY <1>1, SubSeqProperties
<1>3. b \in Seq(M) /\ Len(b) = Len(s) - i /\ \A j \in 1..(Len(s) - i) : b[j] = s[i + j]
  BY <1>1, SubSeqProperties
<1>4. Unlinked(s, i) = a \o b
  BY DEF Unlinked
<1> HIDE DEF a, b
<1>5. /\ a \o b \in Seq(M) /\ Len(a \o b) = Len(a) + Len(b)
      /\ \A j \in 1..(Len(a) + Len(b)) : (a \o b)[j] = IF j <= Len(a) THEN a[j] ELSE b[j - Len(a)]
  BY <1>2, <1>3, ConcatProperties, Zenon
<1>6. Len(a) + Len(b) = Len(s) - 1
  BY <1>1, <1>2, <1>3
<1>7. ASSUME NEW j \in 1..(Len(s) - 1)
      PROVE  (a \o b)[j] = IF j < i THEN s[j] ELSE s[j + 1]
  <2>1. (a \o b)[j] = IF j <= i - 1 THEN a[j] ELSE b[j - (i - 1)]
    BY <1>2, <1>5, <1>6, Zenon
  <2>2. CASE j < i
    BY <1>1, <1>2, <2>1, <2>2
  <2>3. CASE ~(j < i)
    <3>1. j - (i - 1) \in 1..(Len(s) - i) /\ i + (j - (i - 1)) = j + 1 /\ ~(j <= i - 1)
      BY <1>1, <2>3
    <3> QED
      BY <1>3, <2>1, <2>3, <3>1, Zenon
  <2> QED
    BY <2>2, <2>3
<1> QED
  BY <1>4, <1>5, <1>6, <1>7

\* A task that is not in a list is entered at its end.
LEMMA InjectiveAppend ==
    ASSUME NEW M, NEW s \in Seq(M), NEW e \in M, e \notin Range(s), IsInjective(s)
    PROVE  /\ Append(s, e) \in Seq(M)
           /\ IsInjective(Append(s, e))
           /\ Range(Append(s, e)) = Range(s) \cup {e}
<1>1. /\ Append(s, e) \in Seq(M) /\ DOMAIN Append(s, e) = 1..(Len(s) + 1)
      /\ DOMAIN s = 1..Len(s) /\ Len(s) \in Nat
      /\ Append(s, e)[Len(s) + 1] = e
      /\ \A i \in 1..Len(s) : Append(s, e)[i] = s[i]
  OBVIOUS
<1> DEFINE a == Append(s, e)
<1> HIDE DEF a
<1>2. \A i \in DOMAIN a : i \in DOMAIN s \/ i = Len(s) + 1
  BY <1>1 DEF a
<1>3. \A i \in DOMAIN s : s[i] # e
  BY DEF Range
<1>4. IsInjective(a)
  BY <1>1, <1>2, <1>3 DEF a, IsInjective
<1>5. \A x : x \in Range(a) <=> x \in Range(s) \cup {e}
  BY <1>1, <1>2 DEF a, Range
<1> QED
  BY <1>1, <1>4, <1>5 DEF a

\* The first task of a list is unlinked.
LEMMA InjectiveTail ==
    ASSUME NEW M, NEW s \in Seq(M), s # <<>>, IsInjective(s)
    PROVE  /\ Tail(s) \in Seq(M) /\ Head(s) \in Range(s) /\ Head(s) \in M
           /\ IsInjective(Tail(s))
           /\ Range(Tail(s)) = Range(s) \ {Head(s)}
<1>1. /\ Tail(s) \in Seq(M) /\ DOMAIN Tail(s) = 1..(Len(s) - 1)
      /\ DOMAIN s = 1..Len(s) /\ Len(s) \in Nat \ {0}
      /\ Head(s) = s[1] /\ Head(s) \in M
      /\ \A i \in 1..(Len(s) - 1) : Tail(s)[i] = s[i + 1]
  OBVIOUS
<1> DEFINE a == Tail(s)
<1> HIDE DEF a
<1>2. IsInjective(a)
  BY <1>1 DEF a, IsInjective
<1>3. ASSUME NEW x \in Range(a)
      PROVE  x \in Range(s) /\ x # Head(s)
  BY <1>1 DEF a, Range, IsInjective
<1>4. ASSUME NEW x \in Range(s), x # Head(s)
      PROVE  x \in Range(a)
  <2>1. PICK i \in DOMAIN s : x = s[i]
    BY DEF Range
  <2>2. i - 1 \in DOMAIN a /\ a[i - 1] = x
    BY <1>1, <1>4, <2>1 DEF a
  <2> QED
    BY <2>2 DEF Range
<1>5. Head(s) \in Range(s)
  BY <1>1 DEF Range
<1> QED
  BY <1>1, <1>2, <1>3, <1>4, <1>5 DEF a

-----------------------------------------------------------------------------
(* Sizes of the messages *)

\* The messages of a queue have sizes.
LEMMA SizeIsNat ==
    ASSUME NEW ms \in Seq(Messages), NEW k \in 1..Len(ms)
    PROVE  ms[k] \in Messages /\ ms[k].size \in Nat /\ ms[k].type \in Int
<1>1. ms[k] \in Messages
  OBVIOUS
<1> QED
  BY <1>1 DEF Messages

\* Running sums grow.
LEMMA SumsGrow ==
    ASSUME NEW ms \in Seq(Messages), NEW n \in Int, NEW sum \in [0..Len(ms) -> 0..n],
           \A i \in 1..Len(ms) : sum[i] = sum[i - 1] + ms[i].size,
           NEW i \in 0..Len(ms), NEW j \in i..Len(ms)
    PROVE  sum[i] =< sum[j]
<1> DEFINE S == {k \in i..Len(ms) : ~(sum[i] =< sum[k])}
<1>1. CASE S = {}
  BY <1>1
<1>2. CASE S # {}
  <2>1. S \subseteq Nat
    OBVIOUS
  <2>2. Min(S) \in S /\ \A x \in S : Min(S) =< x
    <3> HIDE DEF S
    <3> QED
      BY <1>2, <2>1, MinIsLeast
  <2> DEFINE k == Min(S)
  <2> HIDE DEF k
  <2>3. k \in i..Len(ms) /\ ~(sum[i] =< sum[k])
    BY <2>2 DEF k
  <2>4. k # i
    BY <2>3
  <2>5. k - 1 \in i..Len(ms) /\ k \in 1..Len(ms)
    BY <2>3, <2>4
  <2>6. k - 1 \notin S
    <3>1. \A x \in S : k =< x
      BY <2>2 DEF k
    <3> HIDE DEF S
    <3> QED
      BY <2>5, <3>1
  <2>7. sum[i] =< sum[k - 1]
    BY <2>5, <2>6
  <2>8. ms[k].size \in Nat /\ sum[k] = sum[k - 1] + ms[k].size
    BY <2>5, SizeIsNat
  <2>9. sum[i] \in Int /\ sum[k - 1] \in Int /\ sum[k] \in Int
    <3>1. \A x \in 0..Len(ms) : sum[x] \in Int
      OBVIOUS
    <3>2. k - 1 \in 0..Len(ms) /\ k \in 0..Len(ms)
      BY <2>5
    <3> QED
      BY <3>1, <3>2
  <2> QED
    BY <2>3, <2>7, <2>8, <2>9
<1> QED
  BY <1>1, <1>2

\* No message is larger than all of them.
LEMMA TotalBounds ==
    ASSUME NEW ms \in Seq(Messages), NEW n \in Int, TotalSize(ms, n)
    PROVE  n \in Nat
BY DEF TotalSize

\* One message more.
LEMMA TotalAppend ==
    ASSUME NEW ms \in Seq(Messages), NEW n \in Int, TotalSize(ms, n), NEW m \in Messages
    PROVE  TotalSize(Append(ms, m), n + m.size)
<1> DEFINE a == Append(ms, m)
           N == n + m.size
<1>1. /\ Len(a) = Len(ms) + 1 /\ Len(ms) \in Nat /\ a[Len(ms) + 1] = m
      /\ \A i \in 1..Len(ms) : a[i] = ms[i]
  OBVIOUS
<1>2. m.size \in Nat /\ N = n + m.size
  BY DEF Messages
<1>3. PICK sum \in [0..Len(ms) -> 0..n] :
          /\ sum[0] = 0 /\ sum[Len(ms)] = n
          /\ \A i \in 1..Len(ms) : sum[i] = sum[i - 1] + ms[i].size
  BY DEF TotalSize
<1>4. n \in Nat
  BY <1>1, <1>3
<1> DEFINE new == [i \in 0..Len(a) |-> IF i = Len(a) THEN N ELSE sum[i]]
<1> HIDE DEF a, N
<1>5. new \in [0..Len(a) -> 0..N]
  BY <1>1, <1>2, <1>3, <1>4
<1>6. new[0] = 0 /\ new[Len(a)] = N
  BY <1>1, <1>3
<1>7. ASSUME NEW i \in 1..Len(a)
      PROVE  new[i] = new[i - 1] + a[i].size
  <2>1. CASE i = Len(a)
    <3>1. new[i] = N /\ new[i - 1] = sum[Len(ms)] /\ a[i] = m
      BY <1>1, <2>1
    <3> QED
      BY <1>2, <1>3, <3>1
  <2>2. CASE i # Len(a)
    <3>1. i \in 1..Len(ms) /\ new[i] = sum[i] /\ new[i - 1] = sum[i - 1] /\ a[i] = ms[i]
      BY <1>1, <2>2
    <3> QED
      BY <1>3, <3>1
  <2> QED
    BY <2>1, <2>2
<1> HIDE DEF new
<1>8. TotalSize(a, N)
  BY <1>5, <1>6, <1>7 DEF TotalSize
<1> QED
  BY <1>8 DEF a, N

\* Sizes are integers, as the arithmetic of the sums needs them.
LEMMA SizesAreIntegers == \A x \in Nat : x \in Int
OBVIOUS

\* Sums and differences of the counters and the sizes.
LEMMA IntegerSums ==
    /\ \A x, y \in Int : x + y \in Int /\ x - y \in Int
    /\ \A x, y \in Nat : x + y \in Nat
    /\ \A x \in Int : x + 1 \in Int /\ x - 1 \in Int
OBVIOUS

\* One more of the one is one more of both.
LEMMA OneMore ==
    ASSUME NEW x \in Int, NEW y \in Int
    PROVE  (x + y) + 1 = (x + 1) + y
OBVIOUS

\* What was added and taken away again.
LEMMA AddedAndTaken ==
    ASSUME NEW x \in Int, NEW z \in Int
    PROVE  (x + z) - z = x
OBVIOUS

\* Two subtractions are the subtraction of the sum.
LEMMA TakenTwice ==
    ASSUME NEW x \in Int, NEW y \in Int, NEW z \in Int
    PROVE  x - (y + z) = (x - y) - z
OBVIOUS

\* Arithmetic of the running sums: z is the size of the message that left.
LEMMA ShiftedSums ==
    ASSUME NEW x \in Int, NEW y \in Int, NEW z \in Int
    PROVE  (x + y) - z = (x - z) + y
OBVIOUS

\* The same for the sum just behind that message.
LEMMA ShiftedBack ==
    ASSUME NEW x \in Int, NEW y \in Int, NEW z \in Int
    PROVE  ((x + z) + y) - z = x + y
OBVIOUS

\* The sums before the message that left are within the new total.
LEMMA EarlierBounds ==
    ASSUME NEW n \in Int, NEW N, NEW x \in 0..n, NEW y \in Int, NEW z \in Int, NEW w \in 0..n,
           N = n - z, y = w + z, y =< n, x =< w
    PROVE  x \in 0..N
OBVIOUS

\* Shifted sums stay within the new total.
LEMMA ShiftedBounds ==
    ASSUME NEW n \in Int, NEW N, NEW x \in 0..n, NEW y \in Int, NEW z \in Int, NEW w \in 0..n,
           N = n - z, y = w + z, y =< x
    PROVE  x - z \in 0..N
OBVIOUS

\* One message less.
LEMMA TotalRemove ==
    ASSUME NEW ms \in Seq(Messages), NEW n \in Int, TotalSize(ms, n), NEW i \in 1..Len(ms)
    PROVE  TotalSize(Unlinked(ms, i), n - ms[i].size)
<1> DEFINE a == Unlinked(ms, i)
           N == n - ms[i].size
<1>1. /\ Len(a) = Len(ms) - 1 /\ Len(ms) \in Nat
      /\ \A j \in 1..(Len(ms) - 1) : a[j] = IF j < i THEN ms[j] ELSE ms[j + 1]
  BY UnlinkedFacts
<1>2. ms[i].size \in Nat /\ N = n - ms[i].size
  BY SizeIsNat
<1>3. PICK sum \in [0..Len(ms) -> 0..n] :
          /\ sum[0] = 0 /\ sum[Len(ms)] = n
          /\ \A k \in 1..Len(ms) : sum[k] = sum[k - 1] + ms[k].size
  BY DEF TotalSize
<1>4. n \in Nat /\ \A k \in 0..Len(ms) : sum[k] \in 0..n
  <2>1. \A k \in 0..Len(ms) : sum[k] \in 0..n
    BY <1>3
  <2> QED
    BY <1>1, <2>1
<1>5. \A k \in i..Len(ms) : sum[i] =< sum[k]
  <2>1. i \in 0..Len(ms)
    BY <1>1
  <2> QED
    BY <1>3, <2>1, SumsGrow
<1>6. \A k \in 0..(i - 1) : sum[k] =< sum[i - 1]
  <2>1. \A k \in 0..(i - 1) : k \in 0..Len(ms) /\ i - 1 \in k..Len(ms)
    BY <1>1
  <2> QED
    BY <1>3, <2>1, SumsGrow
<1>7. sum[i] = sum[i - 1] + ms[i].size /\ sum[i] =< n
  BY <1>3, <1>4
<1>8. ASSUME NEW k \in 1..(Len(ms) - 1)
       PROVE  /\ sum[k + 1] = sum[k] + ms[k + 1].size
              /\ sum[k] \in Int /\ ms[k + 1].size \in Nat
  <2>1. k + 1 \in 1..Len(ms) /\ (k + 1) - 1 = k /\ k \in 0..Len(ms)
    BY <1>1
  <2>2. \A j \in 1..Len(ms) : sum[j] = sum[j - 1] + ms[j].size
    BY <1>3
  <2>3. sum[k + 1] = sum[(k + 1) - 1] + ms[k + 1].size
    BY <2>1, <2>2, Zenon
  <2>4. sum[k] \in 0..n
    BY <1>4, <2>1
  <2> QED
    BY <2>1, <2>3, <2>4, SizeIsNat
<1> DEFINE new == [k \in 0..Len(a) |-> IF k < i THEN sum[k] ELSE sum[k + 1] - ms[i].size]
<1> HIDE DEF a, N
<1>9. ASSUME NEW k \in 0..Len(a)
      PROVE  (IF k < i THEN sum[k] ELSE sum[k + 1] - ms[i].size) \in 0..N
  <2>1. CASE k < i
    <3>1. sum[k] \in 0..n /\ sum[k] =< sum[i - 1] /\ sum[i - 1] \in 0..n
      BY <1>1, <1>4, <1>6, <2>1
    <3>2. n \in Int /\ ms[i].size \in Int /\ sum[i] \in Int
      BY <1>2, <1>4, <1>7, <3>1, SizesAreIntegers
    <3>3. sum[k] \in 0..N
      BY <1>2, <1>7, <3>1, <3>2, EarlierBounds, ZenonT(30)
    <3> QED
      BY <2>1, <3>3, Zenon
  <2>2. CASE ~(k < i)
    <3>1. sum[k + 1] \in 0..n /\ sum[i] =< sum[k + 1] /\ sum[i - 1] \in 0..n
      BY <1>1, <1>4, <1>5, <2>2
    <3>2. n \in Int /\ sum[i] \in Int
      BY <1>1, <1>4
    <3>3. sum[i] = sum[i - 1] + ms[i].size /\ ms[i].size \in Int
      BY <1>2, <1>7
    <3>4. sum[k + 1] - ms[i].size \in 0..N
      BY <1>2, <3>1, <3>2, <3>3, ShiftedBounds, SMTT(30)
    <3> QED
      BY <2>2, <3>4
  <2> QED
    BY <2>1, <2>2
<1>10. new \in [0..Len(a) -> 0..N]
  BY <1>9
<1>11. \A k \in 0..Len(a) : new[k] = IF k < i THEN sum[k] ELSE sum[k + 1] - ms[i].size
  OBVIOUS
<1> HIDE DEF new
<1>12. new[0] = 0 /\ new[Len(a)] = N
  <2>1. CASE Len(a) < i
    <3>1. i = Len(ms) /\ Len(a) = i - 1
      BY <1>1, <2>1
    <3>2. new[0] = sum[0] /\ new[Len(a)] = sum[i - 1]
      BY <1>1, <1>11, <2>1, <3>1
    <3>3. sum[i - 1] \in Int /\ ms[i].size \in Int
      <4>1. i - 1 \in 0..Len(ms)
        BY <1>1
      <4>2. sum[i - 1] \in 0..n
        BY <1>4, <4>1, Zenon
      <4> QED
        BY <1>2, <4>2, SizesAreIntegers
    <3>4. (sum[i - 1] + ms[i].size) - ms[i].size = sum[i - 1]
      BY <3>3, AddedAndTaken, ZenonT(30)
    <3>5. sum[i] = n
      BY <1>3, <3>1, Zenon
    <3> QED
      BY <1>2, <1>3, <1>7, <3>2, <3>4, <3>5, Zenon
  <2>2. CASE ~(Len(a) < i)
    <3>1. new[0] = sum[0] /\ new[Len(a)] = sum[Len(ms)] - ms[i].size
      BY <1>1, <1>11, <2>2
    <3> QED
      BY <1>2, <1>3, <3>1
  <2> QED
    BY <2>1, <2>2
<1>13. ASSUME NEW k \in 1..Len(a)
       PROVE  new[k] = new[k - 1] + a[k].size
  <2>1. CASE k < i
    <3>1. new[k] = sum[k] /\ new[k - 1] = sum[k - 1] /\ a[k] = ms[k] /\ k \in 1..Len(ms)
      BY <1>1, <1>11, <2>1
    <3> QED
      BY <1>3, <3>1
  <2>2. CASE k = i
    <3>1. new[k] = sum[k + 1] - ms[i].size /\ new[k - 1] = sum[i - 1] /\ a[k] = ms[k + 1]
          /\ k \in 1..(Len(ms) - 1)
      BY <1>1, <1>11, <2>2
    <3>2. sum[i - 1] \in Int /\ sum[k + 1] = sum[i] + ms[k + 1].size /\ ms[k + 1].size \in Nat
      BY <1>1, <1>4, <1>8, <2>2, <3>1
    <3>3. sum[i - 1] \in Int /\ ms[k + 1].size \in Int /\ ms[i].size \in Int
      BY <1>2, <3>2, SizesAreIntegers, Zenon
    <3>4. ((sum[i - 1] + ms[i].size) + ms[k + 1].size) - ms[i].size = sum[i - 1] + ms[k + 1].size
      BY <3>3, ShiftedBack, ZenonT(40)
    <3>5. sum[k + 1] = (sum[i - 1] + ms[i].size) + ms[k + 1].size
      BY <1>7, <3>2, Zenon
    <3> QED
      BY <3>1, <3>4, <3>5, Zenon
  <2>3. CASE k > i
    <3>1. new[k] = sum[k + 1] - ms[i].size /\ new[k - 1] = sum[k] - ms[i].size
          /\ a[k] = ms[k + 1] /\ k \in 1..(Len(ms) - 1)
      BY <1>1, <1>11, <2>3
    <3>2. sum[k + 1] = sum[k] + ms[k + 1].size /\ sum[k] \in Int /\ ms[k + 1].size \in Nat
      BY <1>8, <3>1
    <3>3. sum[k] \in Int /\ ms[k + 1].size \in Int /\ ms[i].size \in Int
      BY <1>2, <3>2, SizesAreIntegers, Zenon
    <3>4. (sum[k] + ms[k + 1].size) - ms[i].size = (sum[k] - ms[i].size) + ms[k + 1].size
      BY <3>3, ShiftedSums, ZenonT(40)
    <3> QED
      BY <3>1, <3>2, <3>4, Zenon
  <2> QED
    BY <2>1, <2>2, <2>3
<1>14. TotalSize(a, N)
  BY <1>10, <1>12, <1>13, Zenon DEF TotalSize
<1> QED
  BY <1>14 DEF a, N

-----------------------------------------------------------------------------
(* One queue *)

\* The fields of a queue.
Fields == {"alive", "msgs", "cbytes", "qnum", "qbytes", "WList", "RList", "lock",
           "lostNum", "lostBytes", "resized"}

\* A queue as a record: its counters are right and, unless IPC_SET has
\* changed the limit, it has not more bytes than the limit allows.
Book(q) ==
    /\ DOMAIN q = Fields
    /\ q.msgs \in Seq(Messages) /\ q.WList \in Seq(Tasks) /\ q.RList \in Seq(Tasks)
    /\ q.cbytes \in Int /\ q.qnum \in Int /\ q.qbytes \in Nat
    /\ q.lostNum \in Nat /\ q.lostBytes \in Nat
    /\ q.qnum = Len(q.msgs) + q.lostNum
    /\ TotalSize(q.msgs, q.cbytes - q.lostBytes)
    /\ ~q.resized => q.qbytes = DEFAULT_QSIZE /\ q.cbytes =< q.qbytes

\* What two states of a queue have in common.
SameBook(q, n) ==
    /\ n.msgs = q.msgs /\ n.cbytes = q.cbytes /\ n.qnum = q.qnum
    /\ n.lostNum = q.lostNum /\ n.lostBytes = q.lostBytes
SameLimit(q, n) == n.qbytes = q.qbytes /\ n.resized = q.resized
SameLists(q, n) == n.WList = q.WList /\ n.RList = q.RList

\* What a step may not do to a queue while tasks sleep on it.
NoNewRoom(q, n) ==
    /\ q.resized => n.resized
    /\ \A z \in Nat : Fits(n, z) => Fits(q, z) \/ n.resized
NoNewMatch(q, n) == \A y \in Int : Matching(n, y) # {} => Matching(q, y) # {}

\* Arithmetic of the counters.
LEMMA Counting ==
    ASSUME NEW a \in Int, NEW b \in Int, NEW c \in Int
    PROVE  /\ (a + b) - 1 = (a - 1) + b
           /\ a + b = (a - 1) + (b + 1)
           /\ a - b >= c <=> b + c =< a
OBVIOUS

\* Below the limit the unsigned subtraction of msgsnd is the true one.
LEMMA FitsExact ==
    ASSUME NEW q, Book(q), NEW z \in Nat, ~q.resized
    PROVE  Fits(q, z) <=> q.cbytes + z =< q.qbytes
<1> DEFINE x == q.qbytes - q.cbytes
           c == q.cbytes
           b == q.qbytes
           l == q.lostBytes
<1>1. c \in Int /\ b = DEFAULT_QSIZE /\ c =< b /\ q.lostBytes \in Nat /\ c - q.lostBytes \in Nat
  BY TotalBounds DEF Book
<1>2. DEFAULT_QSIZE \in Nat /\ Word \in Nat /\ DEFAULT_QSIZE < Word
  BY MsgAssumption
<1> HIDE DEF c, b, l
<1>3. x \in Nat /\ x < Word
  BY <1>1, <1>2 DEF c, b
<1> HIDE DEF x
<1>4. x % Word = x
  BY <1>2, <1>3
<1>5. Fits(q, z) <=> x >= z
  BY <1>4 DEF Fits, x
<1>6. x >= z <=> c + z =< b
  <2>1. c \in Int /\ b \in Int /\ z \in Int /\ x = b - c
    BY <1>1, <1>2 DEF x, c, b
  <2> QED
    BY <2>1, Counting, Zenon
<1> QED
  BY <1>5, <1>6 DEF c, b

\* A new queue.
LEMMA BookNew == Book(msg_construct)
<1> DEFINE q == msg_construct
<1>1. /\ DOMAIN q = Fields /\ q.msgs = <<>> /\ q.WList = <<>> /\ q.RList = <<>>
      /\ q.cbytes = 0 /\ q.qnum = 0 /\ q.lostNum = 0 /\ q.lostBytes = 0
      /\ q.qbytes = DEFAULT_QSIZE
  BY DEF msg_construct, Fields
<1> HIDE DEF q
<1>2. TotalSize(<<>>, 0)
  <2> DEFINE sum == [i \in 0..0 |-> 0]
  <2>1. sum \in [0..Len(<<>>) -> 0..0] /\ sum[0] = 0 /\ sum[Len(<<>>)] = 0
    OBVIOUS
  <2>2. \A i \in 1..Len(<<>>) : sum[i] = sum[i - 1] + <<>>[i].size
    OBVIOUS
  <2> HIDE DEF sum
  <2> QED
    BY <2>1, <2>2 DEF TotalSize
<1>3. TotalSize(q.msgs, q.cbytes - q.lostBytes)
  BY <1>1, <1>2
<1>4. <<>> \in Seq(Messages) /\ <<>> \in Seq(Tasks) /\ Len(<<>>) = 0
  OBVIOUS
<1>5. Book(q)
  BY <1>1, <1>3, <1>4, MsgAssumption DEF Book
<1> QED
  BY <1>5 DEF q

\* The lists and the lock change, the messages stay.
LEMMA BookLists ==
    ASSUME NEW q, Book(q), NEW n, DOMAIN n = Fields, SameBook(q, n), SameLimit(q, n),
           n.WList \in Seq(Tasks), n.RList \in Seq(Tasks)
    PROVE  /\ Book(n) /\ NoNewRoom(q, n) /\ NoNewMatch(q, n)
<1>1. Book(n)
  BY DEF Book, SameBook, SameLimit
<1>2. NoNewRoom(q, n)
  BY Zenon DEF NoNewRoom, SameBook, SameLimit, Fits
<1>3. NoNewMatch(q, n)
  BY Zenon DEF NoNewMatch, SameBook, Matching
<1> QED
  BY <1>1, <1>2, <1>3

\* IPC_SET changes the limit.
LEMMA BookResize ==
    ASSUME NEW q, Book(q), NEW n, DOMAIN n = Fields, SameBook(q, n), SameLists(q, n),
           n.qbytes \in Nat, n.resized = TRUE
    PROVE  /\ Book(n) /\ NoNewRoom(q, n) /\ NoNewMatch(q, n)
<1>1. Book(n)
  BY Zenon DEF Book, SameBook, SameLists
<1>2. NoNewRoom(q, n)
  BY Zenon DEF NoNewRoom
<1>3. NoNewMatch(q, n)
  BY Zenon DEF NoNewMatch, SameBook, Matching
<1> QED
  BY <1>1, <1>2, <1>3

\* A message is queued where there is room for it.
LEMMA BookSent ==
    ASSUME NEW q, Book(q), NEW m \in Messages, Fits(q, m.size),
           NEW n, DOMAIN n = Fields, SameLists(q, n), SameLimit(q, n),
           n.msgs = Append(q.msgs, m), n.cbytes = q.cbytes + m.size, n.qnum = q.qnum + 1,
           n.lostNum = q.lostNum, n.lostBytes = q.lostBytes
    PROVE  Book(n) /\ NoNewRoom(q, n)
<1> DEFINE b == q.cbytes - q.lostBytes
<1>1. /\ q.msgs \in Seq(Messages) /\ q.cbytes \in Int /\ q.lostBytes \in Nat /\ m.size \in Nat
      /\ q.lostNum \in Nat /\ q.qnum = Len(q.msgs) + q.lostNum /\ q.qnum \in Int
  BY DEF Book, Messages
<1>2. TotalSize(n.msgs, b + m.size)
  <2>1. TotalSize(q.msgs, b)
    BY Zenon DEF Book
  <2>2. b \in Int
    BY <1>1, SizesAreIntegers, IntegerSums, Zenon
  <2> HIDE DEF b
  <2> QED
    BY <1>1, <2>1, <2>2, TotalAppend
<1>3. n.cbytes - n.lostBytes = b + m.size
  BY <1>1
<1>4. n.msgs \in Seq(Messages) /\ Len(n.msgs) = Len(q.msgs) + 1 /\ Len(q.msgs) \in Nat
  BY <1>1
<1>5. n.qnum = Len(n.msgs) + n.lostNum /\ n.qnum \in Int /\ n.cbytes \in Int
  <2>1. Len(q.msgs) \in Int /\ q.lostNum \in Int /\ m.size \in Int
    BY <1>1, <1>4, SizesAreIntegers, Zenon
  <2>2. (Len(q.msgs) + q.lostNum) + 1 = (Len(q.msgs) + 1) + q.lostNum
    BY <2>1, OneMore, Zenon
  <2>3. n.qnum \in Int /\ n.cbytes \in Int
    <3>1. q.qnum + 1 \in Int /\ q.cbytes + m.size \in Int
      BY <1>1, <2>1, IntegerSums, Zenon
    <3> QED
      BY <3>1, Zenon
  <2> QED
    BY <1>1, <1>4, <2>2, <2>3, Zenon
<1>6. ~q.resized => q.cbytes + m.size =< q.qbytes /\ q.qbytes = DEFAULT_QSIZE
  BY <1>1, FitsExact, Zenon DEF Book
<1>7. ~n.resized => n.cbytes =< n.qbytes /\ n.qbytes = DEFAULT_QSIZE
  BY <1>6, Zenon DEF SameLimit
<1>8. /\ n.qbytes \in Nat /\ n.lostNum \in Nat /\ n.lostBytes \in Nat
      /\ n.WList \in Seq(Tasks) /\ n.RList \in Seq(Tasks)
  BY DEF SameLists, SameLimit, Book
<1> HIDE DEF b
<1>9. Book(n)
  BY <1>2, <1>3, <1>4, <1>5, <1>7, <1>8, Zenon DEF Book
<1>10. ASSUME NEW z \in Nat, Fits(n, z), ~n.resized
       PROVE  Fits(q, z)
  <2>1. ~q.resized
    BY <1>10, Zenon DEF SameLimit
  <2>2. n.cbytes + z =< n.qbytes
    BY <1>9, <1>10, FitsExact, Zenon
  <2>3. q.cbytes + z =< q.qbytes
    <3>1. n.qbytes = q.qbytes /\ q.qbytes \in Nat
      BY Zenon DEF SameLimit, Book
    <3> QED
      BY <1>1, <2>2, <3>1
  <2> QED
    BY <2>1, <2>3, FitsExact, Zenon
<1>11. NoNewRoom(q, n)
  BY <1>10, Zenon DEF NoNewRoom, SameLimit
<1> QED
  BY <1>9, <1>11

\* Messages that are left were there before.
LEMMA NoMatchFromRemoval ==
    ASSUME NEW q, q.msgs \in Seq(Messages), NEW i \in 1..Len(q.msgs), NEW n,
           n.msgs = Unlinked(q.msgs, i)
    PROVE  NoNewMatch(q, n)
<1> SUFFICES ASSUME NEW y \in Int, NEW j \in Matching(n, y)
             PROVE  Matching(q, y) # {}
  BY DEF NoNewMatch
<1>1. /\ Len(n.msgs) = Len(q.msgs) - 1 /\ n.msgs \in Seq(Messages) /\ Len(q.msgs) \in Nat
      /\ \A k \in 1..(Len(q.msgs) - 1) :
            n.msgs[k] = IF k < i THEN q.msgs[k] ELSE q.msgs[k + 1]
  <2>1. Len(q.msgs) \in Nat
    OBVIOUS
  <2> QED
    BY <2>1, UnlinkedFacts, Zenon
<1>2. j \in 1..(Len(q.msgs) - 1) /\ Matches(n.msgs[j], y)
  BY <1>1 DEF Matching
<1>3. PICK k \in 1..Len(q.msgs) : n.msgs[j] = q.msgs[k]
  BY <1>1, <1>2
<1>4. k \in Matching(q, y)
  BY <1>2, <1>3 DEF Matching
<1> QED
  BY <1>4

\* msgrcv delivers a message.
LEMMA BookReceived ==
    ASSUME NEW q, Book(q), NEW i \in 1..Len(q.msgs),
           NEW n, DOMAIN n = Fields, SameLists(q, n), SameLimit(q, n),
           n.msgs = Unlinked(q.msgs, i), n.cbytes = q.cbytes - q.msgs[i].size,
           n.qnum = q.qnum - 1, n.lostNum = q.lostNum, n.lostBytes = q.lostBytes
    PROVE  Book(n) /\ NoNewMatch(q, n)
<1> DEFINE b == q.cbytes - q.lostBytes
           z == q.msgs[i].size
<1>1. /\ q.msgs \in Seq(Messages) /\ q.cbytes \in Int /\ q.lostBytes \in Nat
      /\ q.lostNum \in Nat /\ q.qnum = Len(q.msgs) + q.lostNum /\ q.qnum \in Int
      /\ q.qbytes \in Nat
  BY DEF Book
<1>2. z \in Nat
  BY <1>1, SizeIsNat
<1>3. TotalSize(n.msgs, b - z)
  <2>1. TotalSize(q.msgs, b)
    BY Zenon DEF Book
  <2>2. b \in Int
    BY <1>1, SizesAreIntegers, IntegerSums, Zenon
  <2> HIDE DEF b
  <2> QED
    BY <1>1, <2>1, <2>2, TotalRemove
<1>4. n.cbytes = q.cbytes - z
  OBVIOUS
<1>5. n.msgs \in Seq(Messages) /\ Len(n.msgs) = Len(q.msgs) - 1 /\ Len(q.msgs) \in Nat
  <2>1. Len(q.msgs) \in Nat
    BY <1>1
  <2> QED
    BY <1>1, <2>1, UnlinkedFacts, Zenon
<1> HIDE DEF z
<1>6. n.cbytes - n.lostBytes = b - z
  BY <1>1, <1>2, <1>4
<1>7. n.qnum = Len(n.msgs) + n.lostNum /\ n.qnum \in Int /\ n.cbytes \in Int
  <2>1. n.cbytes \in Int
    BY <1>1, <1>2, <1>4, SizesAreIntegers, IntegerSums, Zenon
  <2>2. n.qnum \in Int
    BY <1>1, IntegerSums, Zenon
  <2>3. (Len(q.msgs) + q.lostNum) - 1 = (Len(q.msgs) - 1) + q.lostNum
    <3>1. Len(q.msgs) \in Int /\ q.lostNum \in Int
      BY <1>1, <1>5, SizesAreIntegers, Zenon
    <3> QED
      BY <3>1, Counting, Zenon
  <2> QED
    BY <1>1, <1>5, <2>1, <2>2, <2>3, Zenon
<1>8. ~n.resized => n.cbytes =< n.qbytes /\ n.qbytes = DEFAULT_QSIZE
  <2>1. n.qbytes = q.qbytes /\ (q.cbytes =< q.qbytes => n.cbytes =< n.qbytes)
    BY <1>1, <1>2, <1>4 DEF SameLimit
  <2> QED
    BY <2>1, Zenon DEF Book, SameLimit
<1>9. /\ n.qbytes \in Nat /\ n.lostNum \in Nat /\ n.lostBytes \in Nat
      /\ n.WList \in Seq(Tasks) /\ n.RList \in Seq(Tasks)
  BY DEF SameLists, SameLimit, Book
<1> HIDE DEF b
<1>10. Book(n)
  BY <1>3, <1>5, <1>6, <1>7, <1>8, <1>9, Zenon DEF Book
<1> QED
  BY <1>1, <1>10, NoMatchFromRemoval

\* msgrcv unlinks a message that it does not deliver: the counters stay.
LEMMA BookTooBig ==
    ASSUME NEW q, Book(q), NEW i \in 1..Len(q.msgs),
           NEW n, DOMAIN n = Fields, SameLists(q, n), SameLimit(q, n),
           n.msgs = Unlinked(q.msgs, i), n.cbytes = q.cbytes, n.qnum = q.qnum,
           n.lostNum = q.lostNum + 1, n.lostBytes = q.lostBytes + q.msgs[i].size
    PROVE  Book(n) /\ NoNewRoom(q, n) /\ NoNewMatch(q, n)
<1> DEFINE b == q.cbytes - q.lostBytes
           z == q.msgs[i].size
<1>1. /\ q.msgs \in Seq(Messages) /\ q.cbytes \in Int /\ q.lostBytes \in Nat
      /\ q.lostNum \in Nat /\ q.qnum = Len(q.msgs) + q.lostNum /\ q.qnum \in Int
      /\ q.qbytes \in Nat
  BY DEF Book
<1>2. z \in Nat
  BY <1>1, SizeIsNat
<1>3. TotalSize(n.msgs, b - z)
  <2>1. TotalSize(q.msgs, b)
    BY Zenon DEF Book
  <2>2. b \in Int
    BY <1>1, SizesAreIntegers, IntegerSums, Zenon
  <2> HIDE DEF b
  <2> QED
    BY <1>1, <2>1, <2>2, TotalRemove
<1>4. n.lostBytes = q.lostBytes + z
  OBVIOUS
<1>5. n.msgs \in Seq(Messages) /\ Len(n.msgs) = Len(q.msgs) - 1 /\ Len(q.msgs) \in Nat
  <2>1. Len(q.msgs) \in Nat
    BY <1>1
  <2> QED
    BY <1>1, <2>1, UnlinkedFacts, Zenon
<1> HIDE DEF z
<1>6. n.cbytes - n.lostBytes = b - z /\ n.lostBytes \in Nat
  <2>1. q.cbytes - (q.lostBytes + z) = (q.cbytes - q.lostBytes) - z /\ q.lostBytes + z \in Nat
    <3>1. q.cbytes \in Int /\ q.lostBytes \in Int /\ z \in Int
      BY <1>1, <1>2, SizesAreIntegers, Zenon
    <3>2. q.cbytes - (q.lostBytes + z) = (q.cbytes - q.lostBytes) - z
      BY <3>1, TakenTwice, Zenon
    <3> QED
      BY <1>1, <1>2, <3>2, IntegerSums, Zenon
  <2> QED
    BY <1>4, <2>1, Zenon
<1>7. n.qnum = Len(n.msgs) + n.lostNum /\ n.lostNum \in Nat
  <2>1. Len(q.msgs) + q.lostNum = (Len(q.msgs) - 1) + (q.lostNum + 1) /\ q.lostNum + 1 \in Nat
    <3>1. Len(q.msgs) \in Int /\ q.lostNum \in Int /\ q.lostNum + 1 \in Nat
      BY <1>1, <1>5
    <3> QED
      BY <3>1, Counting, Zenon
  <2> QED
    BY <1>1, <1>5, <2>1, Zenon
<1>8. ~n.resized => n.cbytes =< n.qbytes /\ n.qbytes = DEFAULT_QSIZE
  BY Zenon DEF Book, SameLimit
<1>9. /\ n.qbytes \in Nat /\ n.qnum \in Int /\ n.cbytes \in Int
      /\ n.WList \in Seq(Tasks) /\ n.RList \in Seq(Tasks)
  BY DEF SameLists, SameLimit, Book
<1> HIDE DEF b
<1>10. Book(n)
  BY <1>3, <1>5, <1>6, <1>7, <1>8, <1>9, Zenon DEF Book
<1>11. NoNewRoom(q, n)
  BY Zenon DEF NoNewRoom, SameLimit, Fits
<1> QED
  BY <1>1, <1>10, <1>11, NoMatchFromRemoval
=============================================================================
