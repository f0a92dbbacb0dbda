------------------------- MODULE SysvMsgQueueProofs -------------------------
(***************************************************************************)
(* Proofs that the key map and the counters of a message queue are exact,  *)
(* that no task sleeps at a queue without a reason, and that messages of   *)
(* one type leave a queue in the order in which they came.                 *)
(*                                                                         *)
(* QueueInv describes every living queue together with the tasks that      *)
(* sleep and work at it (AtQueue): its book, its two lists of sleepers,    *)
(* what a removal has already emptied, and why everybody sleeps.  A task   *)
(* that works on a queue has it locked (MsgInv), so a step of one task     *)
(* disturbs one queue (OneQueue); a step that makes room or brings a       *)
(* message leaves its task at the WakeList that will tell the sleepers.    *)
(***************************************************************************)
EXTENDS SysvMsgProofs

-----------------------------------------------------------------------------
(* A queue and the tasks that sleep and work at it *)

\* The places in the code where a task is at its queue.
Near == {"suspend", "suspended"} \cup QueueUsers

SleepersAt(s, op) == {t \in Tasks : Asleep(t) /\ qi[t] = s /\ call[t].op = op}

\* The two lists hold exactly the tasks that sleep or are about to.
Listed(s) ==
    /\ IsInjective(queue[s].WList) /\ Range(queue[s].WList) = SleepersAt(s, "snd")
    /\ IsInjective(queue[s].RList) /\ Range(queue[s].RList) = SleepersAt(s, "rcv")

\* A removal has emptied the lists that it has gone through.
Drained(s) ==
    \A t \in Tasks : qi[t] = s =>
        /\ pc[t] \in {"rmidR", "remove"} => queue[s].WList = <<>>
        /\ pc[t] = "remove" => queue[s].RList = <<>>

\* Whoever sleeps could not go on, or is about to be woken.  A receiver has
\* made its type positive before it sleeps.
Reasons(s) ==
    \A t \in Tasks : Asleep(t) /\ qi[t] = s =>
        /\ call[t].op \in {"snd", "rcv"}
        /\ call[t].op = "rcv" => call[t].type \in Nat
        /\ call[t].op = "snd" /\ Fits(queue[s], call[t].size) =>
               Waking(s, {"wakeW", "rmidW"}) \/ queue[s].resized
        /\ call[t].op = "rcv" /\ Matching(queue[s], call[t].type) # {} =>
               Waking(s, {"wakeR", "rmidW", "rmidR"})

\* Call c has to wait at queue q: there is no room for its message, unless
\* IPC_SET changed the limit, or no message of the wanted type.
MustWait(q, c) ==
    /\ c.op \in {"snd", "rcv"}
    /\ c.op = "rcv" => c.type \in Nat
    /\ c.op = "snd" /\ Fits(q, c.size) => q.resized
    /\ c.op = "rcv" => Matching(q, c.type) = {}

\* All there is to say about a living queue.
AtQueue(s) == Book(queue[s]) /\ Listed(s) /\ Drained(s) /\ Reasons(s)

\* A call has the arguments that its handler reads.
CallOK(c) ==
    /\ c.op \in {"snd", "rcv"} => "type" \in DOMAIN c /\ c.type \in Int /\ c.size \in Nat
    /\ c.op = "set" => c.size \in Nat
    /\ c.op = "get" => c.key \in Keys

CallsOK ==
    /\ DOMAIN todo = Tasks
    /\ \A t \in Tasks : todo[t] \in Seq(Calls) /\ CallOK(call[t])

SleepAlive == \A t \in Tasks : Asleep(t) => qi[t] \in Alive

QueueInv == CallsOK /\ SleepAlive /\ \A s \in Alive : AtQueue(s)

\* A queue that a step leaves alone, with all the tasks at it.
LEMMA AtQueueKept ==
    ASSUME NEW s, AtQueue(s), queue'[s] = queue[s],
           \A u \in Tasks : (qi'[u] = s /\ pc'[u] \in Near) <=> (qi[u] = s /\ pc[u] \in Near),
           \A u \in Tasks : qi[u] = s /\ pc[u] \in Near =>
               /\ call'[u] = call[u]
               /\ pc'[u] = pc[u] \/ (pc[u] = "suspend" /\ pc'[u] = "suspended")
    PROVE  AtQueue(s)'
<1>1. \A u \in Tasks : (Asleep(u)' /\ qi'[u] = s) <=> (Asleep(u) /\ qi[u] = s)
  BY SMTT(30) DEF Asleep, Near, QueueUsers, Wakers
<1>2. \A u \in Tasks, p \in QueueUsers : (qi'[u] = s /\ pc'[u] = p) <=> (qi[u] = s /\ pc[u] = p)
  BY SMTT(30) DEF Near, QueueUsers, Wakers
<1>3. \A u \in Tasks : Asleep(u) /\ qi[u] = s => call'[u] = call[u]
  BY DEF Near, Asleep
<1>4. Listed(s)'
  <2>1. ASSUME NEW op
        PROVE  SleepersAt(s, op)' = SleepersAt(s, op)
    BY <1>1, <1>3, Zenon DEF SleepersAt
  <2> QED
    BY <2>1, Zenon DEF Listed, AtQueue
<1>5. Drained(s)'
  <2>1. "rmidR" \in QueueUsers /\ "remove" \in QueueUsers
    BY DEF QueueUsers, Wakers
  <2> QED
    BY <1>2, <2>1, Zenon DEF Drained, AtQueue
<1>6. ASSUME NEW lists, lists \subseteq QueueUsers
      PROVE  Waking(s, lists)' <=> Waking(s, lists)
  BY <1>2, <1>6, Zenon DEF Waking
<1>7. Reasons(s)'
  <2>1. {"wakeW", "rmidW"} \subseteq QueueUsers /\ {"wakeR", "rmidW", "rmidR"} \subseteq QueueUsers
    BY DEF QueueUsers, Wakers
  <2>2. /\ Waking(s, {"wakeW", "rmidW"})' <=> Waking(s, {"wakeW", "rmidW"})
        /\ Waking(s, {"wakeR", "rmidW", "rmidR"})' <=> Waking(s, {"wakeR", "rmidW", "rmidR"})
    BY <1>6, <2>1, Zenon
  <2> QED
    BY <1>1, <1>3, <2>2, Zenon DEF Reasons, AtQueue
<1> QED
  BY <1>4, <1>5, <1>7, Zenon DEF AtQueue

\* A call that begins is one of the program's.
LEMMA CallFacts ==
    ASSUME NEW c \in Calls
    PROVE  CallOK(c)
<1>1. CASE c \in [op : {"get"}, key : Keys, creat : BOOLEAN, excl : BOOLEAN]
  BY <1>1 DEF CallOK
<1>2. CASE c \in [op : {"snd", "rcv"}, id : Int, type : Int, size : Nat,
                  nowait : BOOLEAN, noerror : BOOLEAN]
  BY <1>2 DEF CallOK
<1>3. CASE c \in [op : {"set", "stat", "rmid"}, id : Int, size : Nat]
  BY <1>3 DEF CallOK
<1> QED
  BY <1>1, <1>2, <1>3 DEF Calls

\* While nobody has a queue locked nobody is waking its sleepers.
LEMMA NobodyAt ==
    ASSUME MsgInv, NEW t \in Tasks, pc[t] = "found", Queue(t).lock = NoTask
    PROVE  \A u \in Tasks : qi[u] = qi[t] => pc[u] \notin QueueUsers
<1>1. \A u \in Tasks : pc[u] \in QueueUsers => queue[qi[u]].lock = u
  BY Zenon DEF MsgInv, HasQueue
<1> QED
  BY <1>1, MsgAssumption, Zenon DEF Queue

\* A task that has found its queue or works on it, and what it does not touch.
LEMMA OthersKept ==
    ASSUME MsgInv, QueueInv, NEW t \in Tasks, pc[t] \in {"found"} \cup QueueUsers,
           qi' = qi, pc'[t] \in {"idle", "halted"} \cup Near,
           \A u \in Tasks \ {t} : qi[u] # qi[t] => pc'[u] = pc[u],
           \A u \in Tasks \ {t} : call'[u] = call[u],
           NEW s \in Alive, s # qi[t], queue'[s] = queue[s]
    PROVE  AtQueue(s)'
<1>1. AtQueue(s)
  BY DEF QueueInv
<1>2. \A u \in Tasks : qi[u] = s => u # t
  OBVIOUS
<1>3. \A u \in Tasks : qi[u] = s => pc'[u] = pc[u] /\ call'[u] = call[u]
  BY <1>2
<1>4. \A u \in Tasks : (qi'[u] = s /\ pc'[u] \in Near) <=> (qi[u] = s /\ pc[u] \in Near)
  BY <1>3
<1> QED
  BY <1>1, <1>3, <1>4, AtQueueKept, Zenon

\* A step at one queue: what remains to be shown is about that queue.
LEMMA OneQueue ==
    ASSUME MsgInv, QueueInv, NEW t \in Tasks, NEW a, a = qi[t], a \in Alive,
           pc[t] \in {"found"} \cup QueueUsers, pc'[t] \in {"idle"} \cup Near,
           DOMAIN queue' = DOMAIN queue, queue'[a].alive = queue[a].alive,
           \A s \in DOMAIN queue \ {a} : queue'[s] = queue[s],
           qi' = qi, todo' = todo,
           \A u \in Tasks \ {t} : pc'[u] = pc[u] \/ (qi[u] = a /\ pc'[u] = "enter"),
           CallOK(call'[t]), \A u \in Tasks \ {t} : call'[u] = call[u],
           AtQueue(a)'
    PROVE  QueueInv'
<1>1. Alive' = Alive
  BY Zenon DEF Alive
<1>2. CallsOK'
  BY Zenon DEF CallsOK, QueueInv
<1>3. SleepAlive'
  <2>1. \A u \in Tasks \ {t} : Asleep(u)' => Asleep(u)
    BY DEF Asleep
  <2> QED
    BY <1>1, <2>1, Zenon DEF SleepAlive, QueueInv
<1>4. ASSUME NEW s \in Alive, s # a
      PROVE  AtQueue(s)'
  <2>1. queue'[s] = queue[s]
    BY <1>4, Zenon DEF Alive
  <2> QED
    BY <1>4, <2>1, OthersKept, Zenon
<1> QED
  BY <1>1, <1>2, <1>3, <1>4, Zenon DEF QueueInv

\* A call that returns, or that goes on to wake others.
LEMMA WorkKept ==
    ASSUME MsgInv, QueueInv, NEW t \in Tasks, NEW q, NEW n, NEW p \in {"idle", "wakeR", "wakeW", "rmidW"},
           pc[t] = "found", q = Queue(t), q.lock = NoTask,
           DOMAIN queue' = DOMAIN queue, queue'[qi[t]] = n,
           \A s \in DOMAIN queue \ {qi[t]} : queue'[s] = queue[s],
           n.alive = q.alive, SameLists(q, n), Book(n),
           qi' = qi, todo' = todo, pc'[t] = p, \A u \in Tasks \ {t} : pc'[u] = pc[u],
           CallOK(call'[t]), \A u \in Tasks \ {t} : call'[u] = call[u],
           p \notin {"wakeW", "rmidW"} => NoNewRoom(q, n),
           p \notin {"wakeR", "rmidW"} => NoNewMatch(q, n)
    PROVE  QueueInv'
<1>1. PICK a : /\ a = qi[t]
               /\ a \in Alive /\ a \in DOMAIN queue /\ q = queue[a] /\ queue'[a] = n
  BY FoundFacts, Zenon DEF MsgInv, LockedAlive, Queue
<1>4. /\ ~Asleep(t) /\ ~Asleep(t)'
      /\ \A u \in Tasks \ {t} : Asleep(u)' <=> Asleep(u)
  BY DEF Asleep
<1>7. AtQueue(a)
  BY <1>1, Zenon DEF QueueInv
<1>8. \A u \in Tasks : qi[u] = a => pc[u] \notin QueueUsers
  BY <1>1, NobodyAt, Zenon
<1>9. Listed(a)'
  <2>1. ASSUME NEW op
        PROVE  SleepersAt(a, op)' = SleepersAt(a, op)
    BY <1>4, Zenon DEF SleepersAt
  <2> QED
    BY <1>1, <1>7, <2>1, Zenon DEF Listed, AtQueue, SameLists
<1>10. Drained(a)'
  <2>1. ASSUME NEW u \in Tasks, qi[u] = a
        PROVE  pc'[u] \notin {"rmidR", "remove"}
    <3>1. pc[u] \notin {"rmidR", "remove"}
      BY <1>8, <2>1 DEF QueueUsers, Wakers
    <3> QED
      BY <3>1
  <2> QED
    BY <2>1, Zenon DEF Drained
<1>11. ~Waking(a, {"wakeW", "rmidW"}) /\ ~Waking(a, {"wakeR", "rmidW", "rmidR"})
  BY <1>8 DEF Waking, QueueUsers, Wakers
<1>12. ASSUME NEW u \in Tasks, Asleep(u)', qi[u] = a
       PROVE  u # t /\ Asleep(u) /\ call'[u] = call[u] /\ CallOK(call[u])
  BY <1>4, <1>12, Zenon DEF QueueInv, CallsOK
<1>13. ASSUME NEW u \in Tasks, Asleep(u)', qi[u] = a, call[u].op = "snd", Fits(n, call[u].size)
       PROVE  Waking(a, {"wakeW", "rmidW"})' \/ n.resized
  <2>1. Fits(q, call[u].size) => q.resized
    BY <1>1, <1>7, <1>11, <1>12, <1>13, Zenon DEF AtQueue, Reasons
  <2>2. call[u].size \in Nat
    BY <1>12, <1>13 DEF CallOK
  <2>3. CASE p \in {"wakeW", "rmidW"}
    BY <1>1, <2>3, Zenon DEF Waking
  <2>4. CASE p \notin {"wakeW", "rmidW"}
    BY <1>13, <2>1, <2>2, <2>4, Zenon DEF NoNewRoom
  <2> QED
    BY <2>3, <2>4
<1>14. ASSUME NEW u \in Tasks, Asleep(u)', qi[u] = a, call[u].op = "rcv",
              Matching(n, call[u].type) # {}
       PROVE  Waking(a, {"wakeR", "rmidW", "rmidR"})'
  <2>1. Matching(q, call[u].type) = {}
    BY <1>1, <1>7, <1>11, <1>12, <1>14, Zenon DEF AtQueue, Reasons
  <2>2. call[u].type \in Int
    BY <1>12, <1>14 DEF CallOK
  <2>3. CASE p \in {"wakeR", "rmidW"}
    BY <1>1, <2>3, Zenon DEF Waking
  <2>4. CASE p \notin {"wakeR", "rmidW"}
    BY <1>14, <2>1, <2>2, <2>4, Zenon DEF NoNewMatch
  <2> QED
    BY <2>3, <2>4
<1>15. Reasons(a)'
  BY <1>1, <1>7, <1>12, <1>13, <1>14, Zenon DEF Reasons, AtQueue
<1>16. AtQueue(a)'
  BY <1>1, <1>9, <1>10, <1>15, Zenon DEF AtQueue
<1>17. pc[t] \in {"found"} \cup QueueUsers /\ pc'[t] \in {"idle"} \cup Near
  BY DEF Near, QueueUsers, Wakers
<1> QED
  BY <1>1, <1>16, <1>17, OneQueue, Zenon

\* RequestWakeup: a task enters itself in a list because it cannot go on.
LEMMA SleepKept ==
    ASSUME MsgInv, QueueInv, NEW t \in Tasks, NEW q, NEW n,
           pc[t] = "found", q = Queue(t), q.lock = NoTask,
           DOMAIN queue' = DOMAIN queue, queue'[qi[t]] = n,
           \A s \in DOMAIN queue \ {qi[t]} : queue'[s] = queue[s],
           n.alive = q.alive, DOMAIN n = Fields, SameBook(q, n), SameLimit(q, n),
           qi' = qi, todo' = todo, pc'[t] = "suspend", \A u \in Tasks \ {t} : pc'[u] = pc[u],
           CallOK(call'[t]), \A u \in Tasks \ {t} : call'[u] = call[u],
           \/ /\ call'[t].op = "snd" /\ ~Fits(q, call'[t].size)
              /\ n.WList = Append(q.WList, t) /\ n.RList = q.RList
           \/ /\ call'[t].op = "rcv" /\ Matching(q, call'[t].type) = {} /\ call'[t].type \in Nat
              /\ n.RList = Append(q.RList, t) /\ n.WList = q.WList
    PROVE  QueueInv'
<1>1. PICK a : /\ a = qi[t]
               /\ a \in Alive /\ a \in DOMAIN queue /\ q = queue[a] /\ queue'[a] = n
  BY FoundFacts, Zenon DEF MsgInv, LockedAlive, Queue
<1>4. /\ ~Asleep(t) /\ Asleep(t)'
      /\ \A u \in Tasks \ {t} : Asleep(u)' <=> Asleep(u)
  BY DEF Asleep
<1>7. AtQueue(a)
  BY <1>1, Zenon DEF QueueInv
<1>8. \A u \in Tasks : qi[u] = a => pc[u] \notin QueueUsers
  BY <1>1, NobodyAt, Zenon
<1>9. /\ q.WList \in Seq(Tasks) /\ IsInjective(q.WList) /\ Range(q.WList) = SleepersAt(a, "snd")
      /\ q.RList \in Seq(Tasks) /\ IsInjective(q.RList) /\ Range(q.RList) = SleepersAt(a, "rcv")
  BY <1>1, <1>7, Zenon DEF AtQueue, Book, Listed
<1>10. t \notin Range(q.WList) /\ t \notin Range(q.RList)
  BY <1>4, <1>9 DEF SleepersAt
<1>11. ASSUME NEW op
       PROVE  /\ call'[t].op = op => SleepersAt(a, op)' = SleepersAt(a, op) \cup {t}
              /\ call'[t].op # op => SleepersAt(a, op)' = SleepersAt(a, op)
  <2>1. \A u \in Tasks \ {t} : u \in SleepersAt(a, op)' <=> u \in SleepersAt(a, op)
    BY <1>4, Zenon DEF SleepersAt
  <2>2. t \in SleepersAt(a, op)' <=> call'[t].op = op
    BY <1>1, <1>4, Zenon DEF SleepersAt
  <2>3. t \notin SleepersAt(a, op)
    BY <1>4, Zenon DEF SleepersAt
  <2>4. \A u : u \in SleepersAt(a, op)' \/ u \in SleepersAt(a, op) => u \in Tasks
    BY Zenon DEF SleepersAt
  <2> DEFINE new == SleepersAt(a, op)'
             old == SleepersAt(a, op)
  <2> HIDE DEF new, old
  <2>5. \A u : u \in new <=> u \in old \/ (u = t /\ call'[t].op = op)
    BY <2>1, <2>2, <2>3, <2>4, Zenon DEF new, old
  <2>6. /\ call'[t].op = op => new = old \cup {t}
        /\ call'[t].op # op => new = old
    BY <2>5
  <2> QED
    BY <2>6 DEF new, old
<1>12. Listed(a)' /\ n.WList \in Seq(Tasks) /\ n.RList \in Seq(Tasks)
  <2>1. CASE call'[t].op = "snd"
    <3>1. n.WList = Append(q.WList, t) /\ n.RList = q.RList
      BY <2>1
    <3>2. /\ n.WList \in Seq(Tasks) /\ IsInjective(n.WList)
          /\ Range(n.WList) = Range(q.WList) \cup {t}
      BY <1>9, <1>10, <3>1, InjectiveAppend
    <3>3. SleepersAt(a, "snd")' = SleepersAt(a, "snd") \cup {t}
          /\ SleepersAt(a, "rcv")' = SleepersAt(a, "rcv")
      BY <1>11, <2>1
    <3> QED
      BY <1>1, <1>9, <3>1, <3>2, <3>3, Zenon DEF Listed
  <2>2. CASE call'[t].op = "rcv"
    <3>1. n.RList = Append(q.RList, t) /\ n.WList = q.WList
      BY <2>2
    <3>2. /\ n.RList \in Seq(Tasks) /\ IsInjective(n.RList)
          /\ Range(n.RList) = Range(q.RList) \cup {t}
      BY <1>9, <1>10, <3>1, InjectiveAppend
    <3>3. SleepersAt(a, "rcv")' = SleepersAt(a, "rcv") \cup {t}
          /\ SleepersAt(a, "snd")' = SleepersAt(a, "snd")
      BY <1>11, <2>2
    <3> QED
      BY <1>1, <1>9, <3>1, <3>2, <3>3, Zenon DEF Listed
  <2> QED
    BY <2>1, <2>2
<1>13. Drained(a)'
  <2>1. ASSUME NEW u \in Tasks, qi[u] = a
        PROVE  pc'[u] \notin {"rmidR", "remove"}
    <3>1. pc[u] \notin {"rmidR", "remove"}
      BY <1>8, <2>1 DEF QueueUsers, Wakers
    <3> QED
      BY <3>1
  <2> QED
    BY <2>1, Zenon DEF Drained
<1>14. Book(n) /\ NoNewRoom(q, n) /\ NoNewMatch(q, n)
  BY <1>1, <1>7, <1>12, BookLists, Zenon DEF AtQueue
<1>15. ~Waking(a, {"wakeW", "rmidW"}) /\ ~Waking(a, {"wakeR", "rmidW", "rmidR"})
  BY <1>8 DEF Waking, QueueUsers, Wakers
<1>16. \A z : (Fits(n, z) <=> Fits(q, z)) /\ Matching(n, z) = Matching(q, z) /\ n.resized = q.resized
  BY Zenon DEF Fits, Matching, SameBook, SameLimit
<1>17. ASSUME NEW u \in Tasks, Asleep(u)', qi[u] = a
       PROVE  MustWait(n, call'[u])
  <2>1. CASE u = t
    BY <1>16, <2>1 DEF MustWait
  <2>2. CASE u # t
    <3>1. Asleep(u) /\ call'[u] = call[u]
      BY <1>4, <1>17, <2>2, Zenon
    <3>2. MustWait(q, call[u])
      BY <1>1, <1>7, <1>15, <1>17, <3>1, Zenon DEF AtQueue, Reasons, MustWait
    <3>3. MustWait(n, call[u])
      BY <1>16, <3>2, Zenon DEF MustWait
    <3> QED
      BY <3>1, <3>3, Zenon
  <2> QED
    BY <2>1, <2>2
<1>18. Reasons(a)'
  BY <1>1, <1>17, Zenon DEF Reasons, MustWait
<1>19. AtQueue(a)'
  BY <1>1, <1>12, <1>13, <1>14, <1>18, Zenon DEF AtQueue
<1>20. pc[t] \in {"found"} \cup QueueUsers /\ pc'[t] \in {"idle"} \cup Near
  BY DEF Near
<1> QED
  BY <1>1, <1>19, <1>20, OneQueue, Zenon

\* WakeList restarts the first task of a list, and no other.
LEMMA WakeFirstKept ==
    ASSUME MsgInv, QueueInv, NEW t \in Tasks, WakeFirst(t)
    PROVE  QueueInv'
<1> DEFINE op == IF ListOf(t) = "WList" THEN "snd" ELSE "rcv"
<1>1. PICK a : /\ a = qi[t] /\ a \in Alive /\ a \in DOMAIN queue
               /\ pc \in [Tasks -> PCs]
  BY FoundFacts, Zenon DEF WakeFirst, MsgInv, LockedAlive
<1>2. PICK list \in {"WList", "RList"} : list = ListOf(t)
  BY DEF ListOf
<1>3. PICK q : q = queue[a]
  OBVIOUS
<1>4. PICK n : n = [q EXCEPT ![list] = Tail(q[list])]
  BY Zenon
<1>5. PICK w : w = Head(q[list])
  OBVIOUS
<1>6. /\ pc[t] \in Wakers /\ q[list] # <<>> /\ pc[w] = "suspended"
      /\ pc' = [pc EXCEPT ![w] = "enter"]
      /\ queue' = [queue EXCEPT ![a] = n]
      /\ call' = call /\ qi' = qi /\ todo' = todo
  BY <1>1, <1>2, <1>3, <1>4, <1>5, Zenon DEF WakeFirst, GoTo, SetQueue, Queue
<1>7. AtQueue(a)
  BY <1>1, Zenon DEF QueueInv
<1>8. Book(q) /\ DOMAIN q = Fields /\ q.WList \in Seq(Tasks) /\ q.RList \in Seq(Tasks)
  BY <1>3, <1>7, Zenon DEF AtQueue, Book
<1>9. /\ DOMAIN n = Fields /\ SameBook(q, n) /\ SameLimit(q, n) /\ n.alive = q.alive
      /\ list = "WList" => n.WList = Tail(q.WList) /\ n.RList = q.RList
      /\ list = "RList" => n.RList = Tail(q.RList) /\ n.WList = q.WList
  BY <1>2, <1>4, <1>8 DEF Fields, SameBook, SameLimit
<1>10. /\ IsInjective(q.WList) /\ Range(q.WList) = SleepersAt(a, "snd")
       /\ IsInjective(q.RList) /\ Range(q.RList) = SleepersAt(a, "rcv")
  BY <1>3, <1>7, Zenon DEF AtQueue, Listed
<1>11. /\ n.WList \in Seq(Tasks) /\ n.RList \in Seq(Tasks)
       /\ IsInjective(n.WList) /\ IsInjective(n.RList)
       /\ list = "WList" => w \in SleepersAt(a, "snd") /\ Range(n.WList) = SleepersAt(a, "snd") \ {w}
       /\ list = "RList" => w \in SleepersAt(a, "rcv") /\ Range(n.RList) = SleepersAt(a, "rcv") \ {w}
  <2>1. CASE list = "WList"
    <3>1. q.WList # <<>> /\ w = Head(q.WList) /\ n.WList = Tail(q.WList)
      BY <1>5, <1>6, <1>9, <2>1
    <3>2. /\ Tail(q.WList) \in Seq(Tasks) /\ Head(q.WList) \in Range(q.WList)
          /\ IsInjective(Tail(q.WList))
          /\ Range(Tail(q.WList)) = Range(q.WList) \ {Head(q.WList)}
      BY <1>8, <1>10, <3>1, InjectiveTail, Zenon
    <3> QED
      BY <1>8, <1>9, <1>10, <2>1, <3>1, <3>2
  <2>2. CASE list = "RList"
    <3>1. q.RList # <<>> /\ w = Head(q.RList) /\ n.RList = Tail(q.RList)
      BY <1>5, <1>6, <1>9, <2>2
    <3>2. /\ Tail(q.RList) \in Seq(Tasks) /\ Head(q.RList) \in Range(q.RList)
          /\ IsInjective(Tail(q.RList))
          /\ Range(Tail(q.RList)) = Range(q.RList) \ {Head(q.RList)}
      BY <1>8, <1>10, <3>1, InjectiveTail, Zenon
    <3> QED
      BY <1>8, <1>9, <1>10, <2>2, <3>1, <3>2
  <2> QED
    BY <2>1, <2>2
<1>12. /\ w \in Tasks /\ qi[w] = a /\ w # t
       /\ list = "WList" => call[w].op = "snd"
       /\ list = "RList" => call[w].op = "rcv"
  <2>1. \E o : w \in SleepersAt(a, o)
    BY <1>11
  <2>2. w # t
    BY <1>6 DEF Wakers
  <2> QED
    BY <1>11, <2>1, <2>2, Zenon DEF SleepersAt
<1>13. /\ pc'[w] = "enter" /\ \A u \in Tasks \ {w} : pc'[u] = pc[u]
       /\ DOMAIN queue' = DOMAIN queue /\ queue'[a] = n
       /\ \A s \in DOMAIN queue \ {a} : queue'[s] = queue[s]
  BY <1>1, <1>6, <1>12
<1>14. Listed(a)'
  <2>1. ASSUME NEW o, NEW u
        PROVE  u \in SleepersAt(a, o)' <=> u \in SleepersAt(a, o) /\ u # w
    BY <1>6, <1>12, <1>13, <2>1 DEF SleepersAt, Asleep
  <2>2. ASSUME NEW o
        PROVE  SleepersAt(a, o)' = SleepersAt(a, o) \ {w}
    BY <2>1, Zenon
  <2>3. w \notin SleepersAt(a, "snd") \/ list = "WList"
    BY <1>12 DEF SleepersAt
  <2>4. w \notin SleepersAt(a, "rcv") \/ list = "RList"
    BY <1>12 DEF SleepersAt
  <2>5. Range(n.WList) = SleepersAt(a, "snd") \ {w}
    BY <1>2, <1>9, <1>10, <1>11, <2>3
  <2>6. Range(n.RList) = SleepersAt(a, "rcv") \ {w}
    BY <1>2, <1>9, <1>10, <1>11, <2>4
  <2> QED
    BY <1>11, <1>13, <2>2, <2>5, <2>6, Zenon DEF Listed
<1>15. Drained(a)'
  <2> SUFFICES ASSUME NEW u \in Tasks, qi[u] = a
               PROVE  /\ pc'[u] \in {"rmidR", "remove"} => n.WList = <<>>
                      /\ pc'[u] = "remove" => n.RList = <<>>
    BY <1>6, <1>13, Zenon DEF Drained
  <2>1. /\ pc[u] \in {"rmidR", "remove"} => q.WList = <<>>
        /\ pc[u] = "remove" => q.RList = <<>>
    BY <1>3, <1>7, Zenon DEF AtQueue, Drained
  <2>2. pc'[u] = pc[u] \/ pc'[u] = "enter"
    BY <1>13
  <2> QED
    BY <1>2, <1>6, <1>9, <2>1, <2>2
<1>16. Book(n)
  BY <1>8, <1>9, <1>11, BookLists, Zenon
<1>17. ASSUME NEW lists, Waking(a, lists), lists \subseteq Wakers
       PROVE  Waking(a, lists)'
  BY <1>6, <1>13, <1>17 DEF Waking, Wakers
<1>18. Reasons(a)'
  <2> SUFFICES ASSUME NEW u \in Tasks, Asleep(u)', qi[u] = a
               PROVE  /\ call[u].op \in {"snd", "rcv"}
                      /\ call[u].op = "rcv" => call[u].type \in Nat
                      /\ call[u].op = "snd" /\ Fits(n, call[u].size) =>
                             Waking(a, {"wakeW", "rmidW"})' \/ n.resized
                      /\ call[u].op = "rcv" /\ Matching(n, call[u].type) # {} =>
                             Waking(a, {"wakeR", "rmidW", "rmidR"})'
    BY <1>6, <1>13, Zenon DEF Reasons
  <2>1. Asleep(u)
    BY <1>13 DEF Asleep
  <2>2. /\ Fits(n, call[u].size) <=> Fits(q, call[u].size)
        /\ Matching(n, call[u].type) = Matching(q, call[u].type) /\ n.resized = q.resized
    BY <1>9, Zenon DEF Fits, Matching, SameBook, SameLimit
  <2>3. {"wakeW", "rmidW"} \subseteq Wakers /\ {"wakeR", "rmidW", "rmidR"} \subseteq Wakers
    BY DEF Wakers
  <2>4. /\ call[u].op \in {"snd", "rcv"}
        /\ call[u].op = "rcv" => call[u].type \in Nat
        /\ call[u].op = "snd" /\ Fits(q, call[u].size) =>
               Waking(a, {"wakeW", "rmidW"}) \/ q.resized
        /\ call[u].op = "rcv" /\ Matching(q, call[u].type) # {} =>
               Waking(a, {"wakeR", "rmidW", "rmidR"})
    BY <1>3, <1>7, <2>1, Zenon DEF AtQueue, Reasons
  <2> QED
    BY <1>17, <2>2, <2>3, <2>4, Zenon
<1>19. AtQueue(a)'
  BY <1>13, <1>14, <1>15, <1>16, <1>18, Zenon DEF AtQueue
<1>20. /\ pc[t] \in {"found"} \cup QueueUsers /\ pc'[t] \in {"idle"} \cup Near
       /\ CallOK(call'[t])
  BY <1>6, <1>12, <1>13, Zenon DEF Near, QueueUsers, QueueInv, CallsOK
<1> QED
  BY <1>1, <1>3, <1>6, <1>9, <1>12, <1>13, <1>19, <1>20, OneQueue, Zenon

\* WakeList is at its end: the list is empty, so that nobody is left to whom
\* the waking was due.
LEMMA WakeDoneKept ==
    ASSUME MsgInv, QueueInv, NEW t \in Tasks, WakeDone(t)
    PROVE  QueueInv'
<1>1. PICK a : /\ a = qi[t] /\ a \in Alive /\ a \in DOMAIN queue
               /\ pc \in [Tasks -> PCs] /\ {"alive", "lock"} \subseteq DOMAIN Queue(t)
  BY FoundFacts, Zenon DEF WakeDone, MsgInv, LockedAlive
<1>2. PICK q : q = queue[a]
  OBVIOUS
<1>3. /\ pc[t] \in Wakers /\ call' = call /\ qi' = qi /\ todo' = todo
      /\ pc[t] \in {"wakeR", "rmidR"} => q.RList = <<>>
      /\ pc[t] \in {"wakeW", "rmidW"} => q.WList = <<>>
  BY <1>1, <1>2 DEF WakeDone, Queue, ListOf, Wakers
<1>4. PICK p : /\ p = IF pc[t] \in {"wakeR", "wakeW"} THEN "idle"
                      ELSE IF pc[t] = "rmidW" THEN "rmidR" ELSE "remove"
               /\ pc' = [pc EXCEPT ![t] = p]
  BY DEF WakeDone, Return, GoTo
<1>5. AtQueue(a)
  BY <1>1, Zenon DEF QueueInv
<1>6. Book(q) /\ DOMAIN q = Fields /\ q.WList \in Seq(Tasks) /\ q.RList \in Seq(Tasks)
  BY <1>2, <1>5, Zenon DEF AtQueue, Book
<1>7. PICK n : /\ n = q \/ n = [q EXCEPT !.lock = NoTask]
               /\ DOMAIN queue' = DOMAIN queue /\ queue'[a] = n
               /\ \A s \in DOMAIN queue \ {a} : queue'[s] = queue[s]
  <2>1. CASE queue' = queue
    BY <1>2, <2>1, Zenon
  <2>2. CASE SetQueue(t, [Queue(t) EXCEPT !.lock = NoTask])
    BY <1>1, <1>2, <2>2, Zenon DEF SetQueue, Queue
  <2> QED
    BY <2>1, <2>2, Zenon DEF WakeDone
<1>8. /\ DOMAIN n = Fields /\ SameBook(q, n) /\ SameLimit(q, n) /\ SameLists(q, n)
      /\ n.alive = q.alive
  BY <1>6, <1>7 DEF Fields, SameBook, SameLimit, SameLists
<1>9. /\ pc'[t] = p /\ \A u \in Tasks \ {t} : pc'[u] = pc[u]
      /\ DOMAIN queue' = DOMAIN queue /\ queue'[a] = n
      /\ \A s \in DOMAIN queue \ {a} : queue'[s] = queue[s]
  BY <1>1, <1>4, <1>7, Zenon
<1>10. /\ IsInjective(q.WList) /\ Range(q.WList) = SleepersAt(a, "snd")
       /\ IsInjective(q.RList) /\ Range(q.RList) = SleepersAt(a, "rcv")
  BY <1>2, <1>5, Zenon DEF AtQueue, Listed
<1>11. \A u \in Tasks : (Asleep(u)' <=> Asleep(u)) /\ (Asleep(u) => u # t)
  BY <1>3, <1>4, <1>9 DEF Asleep, Wakers
<1>12. Listed(a)'
  <2>1. ASSUME NEW o
        PROVE  SleepersAt(a, o)' = SleepersAt(a, o)
    BY <1>3, <1>11, Zenon DEF SleepersAt
  <2> QED
    BY <1>8, <1>9, <1>10, <2>1, Zenon DEF Listed, SameLists
<1>13. /\ pc[t] \in {"rmidR", "remove"} => q.WList = <<>>
       /\ pc[t] = "remove" => q.RList = <<>>
  BY <1>1, <1>2, <1>5, Zenon DEF AtQueue, Drained
<1>14. Drained(a)'
  <2> SUFFICES ASSUME NEW u \in Tasks, qi[u] = a
               PROVE  /\ pc'[u] \in {"rmidR", "remove"} => q.WList = <<>>
                      /\ pc'[u] = "remove" => q.RList = <<>>
    BY <1>3, <1>8, <1>9, Zenon DEF Drained, SameLists
  <2>1. CASE u = t
    BY <1>3, <1>4, <1>9, <1>13, <2>1 DEF Wakers
  <2>2. CASE u # t
    BY <1>2, <1>5, <1>9, <2>2, Zenon DEF AtQueue, Drained
  <2> QED
    BY <2>1, <2>2
<1>15. Book(n)
  BY <1>6, <1>8, BookLists, Zenon DEF SameLists
<1>16. Range(<<>>) = {}
  BY DEF Range
<1>17. /\ q.WList = <<>> \/ (Waking(a, {"wakeW", "rmidW"}) => Waking(a, {"wakeW", "rmidW"})')
       /\ q.RList = <<>> \/ (Waking(a, {"wakeR", "rmidW", "rmidR"}) =>
                                Waking(a, {"wakeR", "rmidW", "rmidR"})')
  <2>1. pc[t] \in {"wakeW", "rmidW"} \/ ~(pc[t] \in {"wakeW", "rmidW"})
    OBVIOUS
  <2>2. q.WList = <<>> \/ (Waking(a, {"wakeW", "rmidW"}) => Waking(a, {"wakeW", "rmidW"})')
    BY <1>3, <1>9, Zenon DEF Waking
  <2>3. pc[t] = "rmidW" => pc'[t] = "rmidR"
    BY <1>4, <1>9
  <2>4. q.RList = <<>> \/ (Waking(a, {"wakeR", "rmidW", "rmidR"}) =>
                             Waking(a, {"wakeR", "rmidW", "rmidR"})')
    BY <1>3, <1>9, <2>3 DEF Waking
  <2> QED
    BY <2>2, <2>4
<1>18. Reasons(a)'
  <2> SUFFICES ASSUME NEW u \in Tasks, Asleep(u)', qi[u] = a
               PROVE  /\ call[u].op \in {"snd", "rcv"}
                      /\ call[u].op = "rcv" => call[u].type \in Nat
                      /\ call[u].op = "snd" /\ Fits(n, call[u].size) =>
                             Waking(a, {"wakeW", "rmidW"})' \/ n.resized
                      /\ call[u].op = "rcv" /\ Matching(n, call[u].type) # {} =>
                             Waking(a, {"wakeR", "rmidW", "rmidR"})'
    BY <1>3, <1>9, Zenon DEF Reasons
  <2>1. Asleep(u)
    BY <1>11
  <2>2. /\ Fits(n, call[u].size) <=> Fits(q, call[u].size)
        /\ Matching(n, call[u].type) = Matching(q, call[u].type) /\ n.resized = q.resized
    BY <1>8, Zenon DEF Fits, Matching, SameBook, SameLimit
  <2>3. /\ call[u].op = "snd" => q.WList # <<>>
        /\ call[u].op = "rcv" => q.RList # <<>>
    BY <1>10, <1>16, <2>1, Zenon DEF SleepersAt
  <2>4. /\ call[u].op \in {"snd", "rcv"}
        /\ call[u].op = "rcv" => call[u].type \in Nat
        /\ call[u].op = "snd" /\ Fits(q, call[u].size) =>
               Waking(a, {"wakeW", "rmidW"}) \/ q.resized
        /\ call[u].op = "rcv" /\ Matching(q, call[u].type) # {} =>
               Waking(a, {"wakeR", "rmidW", "rmidR"})
    BY <1>2, <1>5, <2>1, Zenon DEF AtQueue, Reasons
  <2> QED
    BY <1>17, <2>2, <2>3, <2>4, Zenon
<1>19. AtQueue(a)'
  BY <1>9, <1>12, <1>14, <1>15, <1>18, Zenon DEF AtQueue
<1>20. /\ pc[t] \in {"found"} \cup QueueUsers /\ pc'[t] \in {"idle"} \cup Near
       /\ CallOK(call'[t])
  <2>1. pc'[t] \in {"idle", "rmidR", "remove"}
    BY <1>4, <1>9
  <2> QED
    BY <1>3, <2>1, Zenon DEF Near, QueueUsers, Wakers, QueueInv, CallsOK
<1> QED
  BY <1>1, <1>2, <1>3, <1>8, <1>9, <1>19, <1>20, OneQueue, Zenon

\* The end of IPC_RMID: nobody sleeps on the queue that is freed.
LEMMA RemoveQueueKept ==
    ASSUME MsgInv, QueueInv, NEW t \in Tasks, RemoveQueue(t)
    PROVE  QueueInv'
<1>1. PICK a : /\ a = qi[t] /\ a \in Alive /\ a \in DOMAIN queue
               /\ pc \in [Tasks -> PCs] /\ pc[t] = "remove"
  BY FoundFacts, Zenon DEF RemoveQueue, MsgInv, LockedAlive
<1>2. AtQueue(a) /\ CallsOK /\ SleepAlive
  BY <1>1, Zenon DEF QueueInv
<1>3. ASSUME NEW u \in Tasks, Asleep(u)
      PROVE  qi[u] # a
  <2>1. queue[a].WList = <<>> /\ queue[a].RList = <<>>
    BY <1>1, <1>2 DEF AtQueue, Drained
  <2>2. SleepersAt(a, "snd") = {} /\ SleepersAt(a, "rcv") = {}
    BY <1>2, <2>1 DEF AtQueue, Listed, Range
  <2>3. qi[u] = a => call[u].op \in {"snd", "rcv"}
    BY <1>2, <1>3, Zenon DEF AtQueue, Reasons
  <2> QED
    BY <1>3, <2>2, <2>3 DEF SleepersAt
<1>4. PICK n : /\ n = msg_destroy(queue[a])
               /\ queue' = [queue EXCEPT ![a] = n]
               /\ call' = call /\ qi' = qi /\ todo' = todo
  BY <1>1, Zenon DEF RemoveQueue, SetQueue, Queue
<1>5. ~n.alive
  BY <1>2, <1>4 DEF msg_destroy, AtQueue, Book, Fields
<1>6. /\ pc'[t] \in {"idle", "halted"} /\ \A u \in Tasks \ {t} : pc'[u] = pc[u]
      /\ DOMAIN queue' = DOMAIN queue /\ queue'[a] = n
      /\ \A s \in DOMAIN queue \ {a} : queue'[s] = queue[s]
  BY <1>1, <1>4, Zenon DEF RemoveQueue, Return, GoTo
<1>7. Alive' = Alive \ {a}
  <2>1. \A s : s \in Alive' <=> s \in Alive /\ s # a
    BY <1>5, <1>6, Zenon DEF Alive
  <2> QED
    BY <2>1, Zenon
<1>8. \A u \in Tasks : Asleep(u)' => Asleep(u)
  BY <1>6 DEF Asleep
<1>9. CallsOK' /\ SleepAlive'
  BY <1>2, <1>3, <1>4, <1>7, <1>8, Zenon DEF CallsOK, SleepAlive
<1>10. ASSUME NEW s \in Alive, s # a
       PROVE  AtQueue(s)'
  <2>1. queue'[s] = queue[s]
    BY <1>6, <1>10, Zenon DEF Alive
  <2>2. pc[t] \in {"found"} \cup QueueUsers /\ pc'[t] \in {"idle", "halted"} \cup Near
    BY <1>1, <1>6 DEF QueueUsers
  <2> QED
    BY <1>1, <1>4, <1>6, <1>10, <2>1, <2>2, OthersKept, Zenon
<1> QED
  BY <1>7, <1>9, <1>10, Zenon DEF QueueInv

\* A task that is at no queue, before and after its step, touches none.
LEMMA OutsideKept ==
    ASSUME MsgInv, QueueInv, NEW t \in Tasks, queue' = queue,
           pc[t] \notin Near, pc'[t] \notin Near,
           \A u \in Tasks \ {t} : pc'[u] = pc[u] /\ qi'[u] = qi[u] /\ call'[u] = call[u],
           CallsOK'
    PROVE  QueueInv'
<1>1. Alive' = Alive
  BY Zenon DEF Alive
<1>2. SleepAlive'
  <2>1. ~Asleep(t)' /\ \A u \in Tasks \ {t} : Asleep(u)' <=> Asleep(u)
    BY DEF Asleep, Near
  <2> QED
    BY <1>1, <2>1, Zenon DEF SleepAlive, QueueInv
<1>3. ASSUME NEW s \in Alive
      PROVE  AtQueue(s)'
  BY <1>3, AtQueueKept, Zenon DEF QueueInv
<1> QED
  BY <1>1, <1>2, <1>3, Zenon DEF QueueInv

\* Call, the lookup and SuspendTask.
LEMMA CallKept ==
    ASSUME MsgInv, QueueInv, NEW t \in Tasks, Call(t)
    PROVE  QueueInv'
<1>1. /\ pc \in [Tasks -> PCs] /\ qi \in [Tasks -> Int] /\ DOMAIN call = Tasks
      /\ DOMAIN todo = Tasks /\ \A u \in Tasks : todo[u] \in Seq(Calls) /\ CallOK(call[u])
  BY Zenon DEF MsgInv, Shape, QueueInv, CallsOK
<1>2. /\ pc[t] = "idle" /\ todo[t] # <<>> /\ queue' = queue
      /\ call' = [call EXCEPT ![t] = Head(todo[t])]
      /\ todo' = [todo EXCEPT ![t] = Tail(todo[t])]
      /\ qi' = [qi EXCEPT ![t] = -1] /\ pc' = [pc EXCEPT ![t] = "enter"]
  BY Zenon DEF Call, GoTo
<1>3. Head(todo[t]) \in Calls /\ Tail(todo[t]) \in Seq(Calls)
  BY <1>1, <1>2
<1>4. CallsOK'
  BY <1>1, <1>2, <1>3, CallFacts, Zenon DEF CallsOK
<1>5. pc[t] \notin Near /\ pc'[t] \notin Near
  BY <1>1, <1>2 DEF Near, QueueUsers, Wakers
<1> QED
  BY <1>1, <1>2, <1>4, <1>5, OutsideKept, Zenon

\* The lookup of a queue changes nothing of any queue.
LEMMA LookupKept ==
    ASSUME MsgInv, QueueInv, NEW t \in Tasks, Lookup(t)
    PROVE  QueueInv'
<1>1. pc \in [Tasks -> PCs] /\ qi \in [Tasks -> Int]
  BY Zenon DEF MsgInv, Shape
<1>2. /\ pc[t] = "enter" /\ queue' = queue /\ call' = call /\ todo' = todo
      /\ \E p \in {"idle", "found"} : pc' = [pc EXCEPT ![t] = p]
      /\ qi' = qi \/ \E x : qi' = [qi EXCEPT ![t] = x]
  BY Zenon DEF Lookup, Return, GoTo
<1>3. CallsOK'
  BY <1>2, Zenon DEF QueueInv, CallsOK
<1>4. pc[t] \notin Near /\ pc'[t] \notin Near
  BY <1>1, <1>2 DEF Near, QueueUsers, Wakers
<1>5. \A u \in Tasks \ {t} : pc'[u] = pc[u] /\ qi'[u] = qi[u] /\ call'[u] = call[u]
  BY <1>1, <1>2
<1> QED
  BY <1>2, <1>3, <1>4, <1>5, OutsideKept, Zenon

\* A task that suspends itself is in its list already, and stays there.
LEMMA SuspendKept ==
    ASSUME MsgInv, QueueInv, NEW t \in Tasks, SuspendTask(t)
    PROVE  QueueInv'
<1>1. pc \in [Tasks -> PCs]
  BY Zenon DEF MsgInv, Shape
<1>2. /\ pc[t] = "suspend" /\ queue' = queue /\ call' = call /\ todo' = todo /\ qi' = qi
      /\ pc' = [pc EXCEPT ![t] = "suspended"]
  BY Zenon DEF SuspendTask, GoTo
<1>3. pc'[t] = "suspended" /\ \A u \in Tasks \ {t} : pc'[u] = pc[u]
  BY <1>1, <1>2, Zenon
<1>4. Alive' = Alive /\ CallsOK'
  BY <1>2, Zenon DEF Alive, CallsOK, QueueInv
<1>5. \A u \in Tasks : (pc'[u] \in Near <=> pc[u] \in Near) /\ (Asleep(u)' <=> Asleep(u))
  BY <1>2, <1>3 DEF Near, Asleep
<1>6. SleepAlive'
  BY <1>2, <1>4, <1>5, Zenon DEF SleepAlive, QueueInv
<1>7. ASSUME NEW s \in Alive
      PROVE  AtQueue(s)'
  BY <1>2, <1>3, <1>5, AtQueueKept, Zenon DEF QueueInv
<1> QED
  BY <1>4, <1>6, <1>7, Zenon DEF QueueInv

\* msgget adds an empty queue that nobody has come to.
LEMMA msggetKept ==
    ASSUME MsgInv, QueueInv, NEW t \in Tasks, msgget(t)
    PROVE  QueueInv'
<1>1. PICK r \in GetIPCKeyId(map, call[t].key, call[t].creat, call[t].excl) :
          /\ map' = r.map
          /\ queue' = [s \in 0..(r.map.idx - 1) |->
                          IF s < map.idx THEN queue[s] ELSE msg_construct]
          /\ Return(t, r.errno)
  BY Zenon DEF msgget
<1>2. pc[t] = "enter" /\ call' = call /\ qi' = qi /\ todo' = todo
  BY Zenon DEF msgget
<1>3. map'.idx \in {map.idx, map.idx + 1} /\ map.idx \in Nat /\ DOMAIN queue = 0..(map.idx - 1)
  BY <1>1, KeyIdOutcome, Zenon DEF MsgInv, MapInv, MapShape, Shape
<1>4. /\ \A s \in DOMAIN queue : s \in DOMAIN queue' /\ queue'[s] = queue[s]
      /\ \A s \in DOMAIN queue' \ DOMAIN queue : queue'[s] = msg_construct
  BY <1>1, <1>3, SMTT(30)
<1>5. pc'[t] = "idle" /\ \A u \in Tasks \ {t} : pc'[u] = pc[u]
  BY <1>1, Zenon DEF Return, GoTo, MsgInv, Shape
<1>6. /\ pc[t] \notin Near /\ pc'[t] \notin Near
      /\ \A u \in Tasks : (pc'[u] \in Near <=> pc[u] \in Near) /\ (Asleep(u)' <=> Asleep(u))
  BY <1>2, <1>5 DEF Near, QueueUsers, Wakers, Asleep
<1>7. Alive \subseteq Alive' /\ \A s \in Alive' \ Alive : s \notin DOMAIN queue
  BY <1>4, Zenon DEF Alive
<1>8. CallsOK' /\ SleepAlive'
  BY <1>2, <1>6, <1>7, Zenon DEF CallsOK, SleepAlive, QueueInv
<1>9. ASSUME NEW s \in Alive
      PROVE  AtQueue(s)'
  <2>1. queue'[s] = queue[s] /\ AtQueue(s)
    BY <1>4, Zenon DEF Alive, QueueInv
  <2>2. \A u \in Tasks : pc[u] \in Near => pc'[u] = pc[u]
    BY <1>5, <1>6, Zenon
  <2> QED
    BY <1>2, <1>6, <2>1, <2>2, AtQueueKept, Zenon
<1>10. ASSUME NEW s \in Alive' \ Alive
       PROVE  AtQueue(s)'
  <2>1. \A u \in Tasks : Asleep(u) \/ pc[u] \in QueueUsers => qi[u] \in Alive
    BY Zenon DEF MsgInv, LockedAlive, QueueInv, SleepAlive, QueueUsers
  <2>2. \A u \in Tasks : qi'[u] = s => ~Asleep(u)' /\ pc'[u] \notin QueueUsers
    BY <1>2, <1>5, <1>6, <2>1, Zenon DEF Near
  <2>3. queue'[s] = msg_construct
    BY <1>4, <1>7, Zenon DEF Alive
  <2>4. msg_construct.WList = <<>> /\ msg_construct.RList = <<>>
    BY DEF msg_construct
  <2>5. \A op : SleepersAt(s, op)' = {}
    BY <2>2, Zenon DEF SleepersAt
  <2>6. IsInjective(<<>>) /\ Range(<<>>) = {}
    BY DEF IsInjective, Range
  <2>7. Listed(s)'
    BY <2>3, <2>4, <2>5, <2>6, Zenon DEF Listed
  <2>8. Drained(s)' /\ Reasons(s)'
    BY <2>2, <2>3, <2>4, Zenon DEF Drained, Reasons
  <2> QED
    BY <2>3, <2>7, <2>8, BookNew, Zenon DEF AtQueue
<1> QED
  BY <1>8, <1>9, <1>10, Zenon DEF QueueInv

-----------------------------------------------------------------------------
(* The calls *)

\* What is known when a call has the lock of its queue.
LEMMA FoundQueue ==
    ASSUME MsgInv, QueueInv, NEW t \in Tasks, pc[t] = "found"
    PROVE  /\ qi[t] \in Alive /\ qi[t] \in DOMAIN queue
           /\ Book(Queue(t)) /\ DOMAIN Queue(t) = Fields
           /\ CallOK(call[t]) /\ DOMAIN call = Tasks
           /\ pc \in [Tasks -> PCs]
<1>1. qi[t] \in Alive /\ AtQueue(qi[t])
  BY Zenon DEF MsgInv, LockedAlive, QueueInv
<1> QED
  BY <1>1, FoundFacts, Zenon DEF AtQueue, Book, Queue, QueueInv, CallsOK

\* Steps that leave the messages of all queues but one alone.
LEMMA OrderAtOne ==
    ASSUME NEW a, \A s \in DOMAIN queue \ {a} : queue'[s] = queue[s],
           InOrder(queue[a].msgs, queue'[a].msgs)
    PROVE  FifoStep
<1>1. ASSUME NEW s \in Alive
      PROVE  InOrder(queue[s].msgs, queue'[s].msgs)
  <2>1. CASE s = a
    BY <2>1
  <2>2. CASE s # a
    BY <2>2, Zenon DEF Alive, InOrder
  <2> QED
    BY <2>1, <2>2
<1> QED
  BY <1>1, Zenon DEF FifoStep

\* A call that changes nothing and returns.
LEMMA ReturnKept ==
    ASSUME MsgInv, QueueInv, NEW t \in Tasks, pc[t] = "found", Queue(t).lock = NoTask,
           queue' = queue, qi' = qi, todo' = todo, NEW r, Return(t, r),
           CallOK(call'[t]), \A u \in Tasks \ {t} : call'[u] = call[u]
    PROVE  QueueInv' /\ FifoStep
<1>1. /\ qi[t] \in Alive /\ qi[t] \in DOMAIN queue
      /\ Book(Queue(t)) /\ DOMAIN Queue(t) = Fields /\ pc \in [Tasks -> PCs]
  BY FoundQueue, Zenon
<1>2. /\ SameBook(Queue(t), Queue(t)) /\ SameLimit(Queue(t), Queue(t))
      /\ SameLists(Queue(t), Queue(t))
  BY DEF SameBook, SameLimit, SameLists
<1>3. NoNewRoom(Queue(t), Queue(t)) /\ NoNewMatch(Queue(t), Queue(t))
  BY Zenon DEF NoNewRoom, NoNewMatch
<1>4. pc'[t] = "idle" /\ \A u \in Tasks \ {t} : pc'[u] = pc[u]
  BY <1>1, Zenon DEF Return, GoTo
<1>5. queue'[qi[t]] = Queue(t)
  BY Zenon DEF Queue
<1>6. QueueInv'
  BY <1>1, <1>2, <1>3, <1>4, <1>5, WorkKept, Zenon
<1>7. FifoStep
  BY Zenon DEF FifoStep, InOrder
<1> QED
  BY <1>6, <1>7

\* A call that changes its queue and returns or goes on to wake others.
LEMMA ChangeKept ==
    ASSUME MsgInv, QueueInv, NEW t \in Tasks, NEW n, NEW p \in {"idle", "wakeR", "wakeW", "rmidW"},
           pc[t] = "found", Queue(t).lock = NoTask,
           SetQueue(t, n), GoTo(t, p), qi' = qi, todo' = todo,
           CallOK(call'[t]), \A u \in Tasks \ {t} : call'[u] = call[u],
           n.alive = Queue(t).alive, SameLists(Queue(t), n), Book(n),
           p \notin {"wakeW", "rmidW"} => NoNewRoom(Queue(t), n),
           p \notin {"wakeR", "rmidW"} => NoNewMatch(Queue(t), n),
           InOrder(Queue(t).msgs, n.msgs)
    PROVE  QueueInv' /\ FifoStep
<1>1. qi[t] \in DOMAIN queue /\ pc \in [Tasks -> PCs]
  BY FoundQueue, Zenon
<1>2. /\ DOMAIN queue' = DOMAIN queue /\ queue'[qi[t]] = n
      /\ \A s \in DOMAIN queue \ {qi[t]} : queue'[s] = queue[s]
  BY <1>1, SetQueueFacts, Zenon
<1>3. pc'[t] = p /\ \A u \in Tasks \ {t} : pc'[u] = pc[u]
  BY <1>1, Zenon DEF GoTo
<1>4. QueueInv'
  BY <1>2, <1>3, WorkKept, Zenon
<1>5. FifoStep
  BY <1>2, OrderAtOne, Zenon DEF Queue
<1> QED
  BY <1>4, <1>5

\* A call that goes to sleep.
LEMMA RequestKept ==
    ASSUME MsgInv, QueueInv, NEW t \in Tasks, NEW list \in {"WList", "RList"},
           pc[t] = "found", Queue(t).lock = NoTask,
           RequestWakeup(t, list), qi' = qi, todo' = todo,
           CallOK(call'[t]), \A u \in Tasks \ {t} : call'[u] = call[u],
           list = "WList" => call'[t].op = "snd" /\ ~Fits(Queue(t), call'[t].size),
           list = "RList" => /\ call'[t].op = "rcv" /\ call'[t].type \in Nat
                             /\ Matching(Queue(t), call'[t].type) = {}
    PROVE  QueueInv' /\ FifoStep
<1>1. qi[t] \in DOMAIN queue /\ pc \in [Tasks -> PCs] /\ DOMAIN Queue(t) = Fields
  BY FoundQueue, Zenon
<1>2. PICK q : q = Queue(t)
  OBVIOUS
<1>3. PICK n : n = [q EXCEPT ![list] = Append(q[list], t)]
  OBVIOUS
<1>4. SetQueue(t, n) /\ GoTo(t, "suspend")
  BY <1>2, <1>3, Zenon DEF RequestWakeup
<1>5. /\ DOMAIN queue' = DOMAIN queue /\ queue'[qi[t]] = n
      /\ \A s \in DOMAIN queue \ {qi[t]} : queue'[s] = queue[s]
  BY <1>1, <1>4, SetQueueFacts, Zenon
<1>6. pc'[t] = "suspend" /\ \A u \in Tasks \ {t} : pc'[u] = pc[u]
  BY <1>1, <1>4, Zenon DEF GoTo
<1>7. /\ DOMAIN n = Fields /\ SameBook(q, n) /\ SameLimit(q, n) /\ n.alive = q.alive
      /\ list = "WList" => n.WList = Append(q.WList, t) /\ n.RList = q.RList
      /\ list = "RList" => n.RList = Append(q.RList, t) /\ n.WList = q.WList
  BY <1>1, <1>2, <1>3 DEF Fields, SameBook, SameLimit
<1>8. QueueInv'
  <2>1. CASE list = "WList"
    BY <1>2, <1>5, <1>6, <1>7, <2>1, SleepKept, Zenon
  <2>2. CASE list = "RList"
    BY <1>2, <1>5, <1>6, <1>7, <2>2, SleepKept, Zenon
  <2> QED
    BY <2>1, <2>2
<1>9. FifoStep
  BY <1>2, <1>5, <1>7, OrderAtOne, Zenon DEF Queue, SameBook, InOrder
<1> QED
  BY <1>8, <1>9

\* msgsnd.
LEMMA msgsndKept ==
    ASSUME MsgInv, QueueInv, NEW t \in Tasks, msgsnd(t)
    PROVE  QueueInv' /\ FifoStep
<1>1. /\ pc[t] = "found" /\ Queue(t).lock = NoTask /\ call[t].op = "snd"
      /\ qi' = qi /\ call' = call /\ todo' = todo
  BY Zenon DEF msgsnd, Locks, Queue
<1>2. PICK q : /\ q = Queue(t) /\ Book(q) /\ DOMAIN q = Fields /\ CallOK(call[t])
               /\ q.msgs \in Seq(Messages)
  BY <1>1, FoundQueue, Zenon DEF Book
<1>3. CASE Accept(t) /\ Fits(q, call[t].size)
  <2>1. PICK m : m = [type |-> call[t].type, size |-> call[t].size]
    OBVIOUS
  <2>2. m \in Messages /\ m.size = call[t].size
    BY <1>1, <1>2, <2>1 DEF Messages, CallOK
  <2>3. PICK n : n = [[q EXCEPT !.msgs = Append(q.msgs, m), !.qnum = q.qnum + 1,
                                !.cbytes = q.cbytes + m.size] EXCEPT !.lock = t]
    OBVIOUS
  <2>4. SetQueue(t, n) /\ GoTo(t, "wakeR")
    BY <1>2, <1>3, <2>1, <2>2, <2>3, Zenon DEF Accept, Sent
  <2>5. /\ DOMAIN n = Fields /\ SameLists(q, n) /\ SameLimit(q, n) /\ n.alive = q.alive
        /\ n.msgs = Append(q.msgs, m) /\ n.cbytes = q.cbytes + m.size /\ n.qnum = q.qnum + 1
        /\ n.lostNum = q.lostNum /\ n.lostBytes = q.lostBytes
    BY <1>2, <2>3 DEF Fields, SameLists, SameLimit
  <2>6. Book(n) /\ NoNewRoom(q, n)
    BY <1>2, <1>3, <2>2, <2>5, BookSent, Zenon
  <2>7. InOrder(q.msgs, n.msgs)
    <3>1. Len(n.msgs) > Len(q.msgs) /\ SubSeq(n.msgs, 1, Len(q.msgs)) = q.msgs
      BY <1>2, <2>2, <2>5
    <3> QED
      BY <3>1 DEF InOrder
  <2> QED
    BY <1>1, <1>2, <2>4, <2>5, <2>6, <2>7, ChangeKept, Zenon
<1>4. CASE UNCHANGED queue /\ \E r : Return(t, r)
  BY <1>1, <1>2, <1>4, ReturnKept, Zenon
<1>5. CASE RequestWakeup(t, "WList") /\ ~Fits(q, call[t].size)
  BY <1>1, <1>2, <1>5, RequestKept, Zenon
<1> QED
  BY <1>2, <1>3, <1>4, <1>5, Zenon DEF msgsnd

\* What a retry with the negated type looks for, the first attempt did too.
LEMMA RetryMatches ==
    ASSUME NEW y \in Int, NEW m, m.type \in Int, NEW z, z = (IF y < 0 THEN -y ELSE y),
           Matches(m, z)
    PROVE  Matches(m, y)
<1>1. CASE y < 0
  <2>1. ~(z = 0) /\ z > 0 /\ ~(z < 0) /\ ~(y = 0) /\ ~(y > 0)
    BY <1>1
  <2>2. m.type = z
    BY <2>1, Zenon DEF Matches
  <2>3. m.type <= -y
    BY <1>1, <2>2
  <2> QED
    BY <1>1, <2>1, <2>3, Zenon DEF Matches
<1>2. CASE y = 0
  BY <1>2 DEF Matches
<1>3. CASE y > 0
  <2>1. z = y
    BY <1>3
  <2> QED
    BY <2>1
<1> QED
  BY <1>1, <1>2, <1>3

\* The message that msgrcv takes is the oldest of its type.
LEMMA SelectFacts ==
    ASSUME NEW q, q.msgs \in Seq(Messages), NEW y \in Int, Matching(q, y) # {},
           NEW i, i = Select(q, y)
    PROVE  i \in 1..Len(q.msgs) /\ InOrder(q.msgs, Unlinked(q.msgs, i))
<1>1. /\ DOMAIN q.msgs = 1..Len(q.msgs) /\ Len(q.msgs) \in Nat
  OBVIOUS
<1>2. Matching(q, y) \subseteq 1..Len(q.msgs)
  BY <1>1 DEF Matching
<1>3. i \in Matching(q, y) /\ \A j \in Matching(q, y) : i =< j
  <2>1. Matching(q, y) \subseteq Nat
    BY <1>2
  <2> QED
    BY <2>1, MinIsLeast, Zenon DEF Select
<1>4. ASSUME NEW j \in 1..(i - 1)
      PROVE  q.msgs[j].type # q.msgs[i].type
  <2>1. j \in DOMAIN q.msgs /\ i \in DOMAIN q.msgs /\ ~(i =< j)
    BY <1>1, <1>2, <1>3
  <2>2. Matches(q.msgs[i], y) /\ ~Matches(q.msgs[j], y)
    BY <1>3, <2>1, Zenon DEF Matching
  <2>3. q.msgs[j].type \in Int /\ q.msgs[i].type \in Int
    BY <1>1, <2>1, SizeIsNat, Zenon
  <2> QED
    BY <2>2, <2>3 DEF Matches
<1> QED
  BY <1>1, <1>2, <1>3, <1>4, Zenon DEF InOrder

\* msgrcv; a negative type is made positive, which finds no more messages.
LEMMA msgrcvKept ==
    ASSUME MsgInv, QueueInv, NEW t \in Tasks, msgrcv(t)
    PROVE  QueueInv' /\ FifoStep
<1>1. /\ pc[t] = "found" /\ Queue(t).lock = NoTask /\ call[t].op = "rcv"
      /\ qi' = qi /\ todo' = todo
      /\ call' = [call EXCEPT ![t].type = IF @ < 0 THEN -@ ELSE @]
  BY Zenon DEF msgrcv, Locks, Queue
<1>2. PICK q : /\ q = Queue(t) /\ Book(q) /\ DOMAIN q = Fields /\ CallOK(call[t])
               /\ DOMAIN call = Tasks /\ q.msgs \in Seq(Messages)
  BY <1>1, FoundQueue, Zenon DEF Book
<1>3. PICK y : y = call[t].type /\ y \in Int
  BY <1>1, <1>2 DEF CallOK
<1>4. /\ call'[t].op = "rcv" /\ call'[t].type = IF y < 0 THEN -y ELSE y
      /\ call'[t].size = call[t].size /\ DOMAIN call'[t] = DOMAIN call[t]
      /\ \A u \in Tasks \ {t} : call'[u] = call[u]
  BY <1>1, <1>2, <1>3 DEF CallOK
<1>5. call'[t].type \in Nat
  BY <1>3, <1>4
<1>6. CallOK(call'[t])
  BY <1>1, <1>2, <1>4, <1>5 DEF CallOK
<1>7. CASE Matching(q, y) = {}
  <2>1. Matching(q, call'[t].type) = {}
    <3> SUFFICES ASSUME NEW j \in Matching(q, call'[t].type)
                 PROVE  FALSE
      OBVIOUS
    <3>1. j \in DOMAIN q.msgs /\ Matches(q.msgs[j], call'[t].type)
      BY DEF Matching
    <3>2. q.msgs[j].type \in Int
      <4>1. j \in 1..Len(q.msgs)
        BY <1>2, <3>1
      <4> QED
        BY <1>2, <4>1, SizeIsNat, Zenon
    <3>3. Matches(q.msgs[j], y)
      BY <1>3, <1>4, <3>1, <3>2, RetryMatches, Zenon
    <3> QED
      BY <1>7, <3>1, <3>3 DEF Matching
  <2>2. CASE Return(t, "ENOMSG") /\ UNCHANGED queue
    BY <1>1, <1>4, <1>6, <2>2, ReturnKept, Zenon
  <2>3. CASE RequestWakeup(t, "RList")
    BY <1>1, <1>2, <1>4, <1>5, <1>6, <2>1, <2>3, RequestKept, Zenon
  <2> QED
    BY <1>2, <1>3, <1>7, <2>2, <2>3, Zenon DEF msgrcv
<1>8. CASE Matching(q, y) # {}
  <2>1. PICK i \in 1..Len(q.msgs) : i = Select(q, y) /\ InOrder(q.msgs, Unlinked(q.msgs, i))
    BY <1>2, <1>3, <1>8, SelectFacts, Zenon
  <2>2. CASE Deliver(t, i)
    <3>1. PICK n : n = [[q EXCEPT !.msgs = Unlinked(q.msgs, i), !.cbytes = q.cbytes - q.msgs[i].size,
                                  !.qnum = q.qnum - 1] EXCEPT !.lock = t]
      OBVIOUS
    <3>2. SetQueue(t, n) /\ GoTo(t, "wakeW")
      BY <1>2, <2>2, <3>1, Zenon DEF Deliver, Received
    <3>3. /\ DOMAIN n = Fields /\ SameLists(q, n) /\ SameLimit(q, n) /\ n.alive = q.alive
          /\ n.msgs = Unlinked(q.msgs, i) /\ n.cbytes = q.cbytes - q.msgs[i].size
          /\ n.qnum = q.qnum - 1 /\ n.lostNum = q.lostNum /\ n.lostBytes = q.lostBytes
      BY <1>2, <3>1 DEF Fields, SameLists, SameLimit
    <3>4. Book(n) /\ NoNewMatch(q, n)
      BY <1>2, <3>3, BookReceived, Zenon
    <3> QED
      BY <1>1, <1>2, <1>4, <1>6, <2>1, <3>2, <3>3, <3>4, ChangeKept, Zenon
  <2>3. CASE SetQueue(t, TooBig(q, i)) /\ Return(t, "E2BIG")
    <3>1. PICK n : n = [q EXCEPT !.msgs = Unlinked(q.msgs, i), !.lostNum = q.lostNum + 1,
                                 !.lostBytes = q.lostBytes + q.msgs[i].size]
      OBVIOUS
    <3>2. SetQueue(t, n) /\ GoTo(t, "idle")
      BY <1>2, <2>3, <3>1, Zenon DEF TooBig, Return
    <3>3. /\ DOMAIN n = Fields /\ SameLists(q, n) /\ SameLimit(q, n) /\ n.alive = q.alive
          /\ n.msgs = Unlinked(q.msgs, i) /\ n.cbytes = q.cbytes /\ n.qnum = q.qnum
          /\ n.lostNum = q.lostNum + 1 /\ n.lostBytes = q.lostBytes + q.msgs[i].size
      BY <1>2, <3>1 DEF Fields, SameLists, SameLimit
    <3>4. Book(n) /\ NoNewRoom(q, n) /\ NoNewMatch(q, n)
      BY <1>2, <3>3, BookTooBig, Zenon
    <3> QED
      BY <1>1, <1>2, <1>4, <1>6, <2>1, <3>2, <3>3, <3>4, ChangeKept, Zenon
  <2> QED
    BY <1>2, <1>3, <1>8, <2>1, <2>2, <2>3, Zenon DEF msgrcv
<1> QED
  BY <1>7, <1>8

\* msgctl up to the point where IPC_RMID has locked the queue.
LEMMA msgctlKept ==
    ASSUME MsgInv, QueueInv, NEW t \in Tasks, IPC_SET(t) \/ IPC_STAT(t) \/ IPC_RMID(t)
    PROVE  QueueInv' /\ FifoStep
<1>1. /\ pc[t] = "found" /\ Queue(t).lock = NoTask
      /\ qi' = qi /\ call' = call /\ todo' = todo
  BY Zenon DEF IPC_SET, IPC_STAT, IPC_RMID, Locks, Queue
<1>2. PICK q : q = Queue(t) /\ Book(q) /\ DOMAIN q = Fields /\ CallOK(call[t])
               /\ q.WList \in Seq(Tasks) /\ q.RList \in Seq(Tasks)
  BY <1>1, FoundQueue, Zenon DEF Book
<1>3. CASE UNCHANGED queue /\ \E r : Return(t, r)
  BY <1>1, <1>2, <1>3, ReturnKept, Zenon
<1>4. CASE IPC_SET(t) /\ call[t].size > 0
  <2>1. PICK n : n = [q EXCEPT !.qbytes = call[t].size, !.resized = TRUE]
    OBVIOUS
  <2>2. SetQueue(t, n) /\ GoTo(t, "idle") /\ call[t].size \in Nat
    BY <1>2, <1>4, <2>1, Zenon DEF IPC_SET, Return, Locks, CallOK
  <2>3. /\ DOMAIN n = Fields /\ SameBook(q, n) /\ SameLists(q, n) /\ n.alive = q.alive
        /\ n.qbytes = call[t].size /\ n.resized = TRUE
    BY <1>2, <2>1 DEF Fields, SameLists, SameBook
  <2>4. Book(n) /\ NoNewRoom(q, n) /\ NoNewMatch(q, n) /\ InOrder(q.msgs, n.msgs)
    BY <1>2, <2>2, <2>3, BookResize, Zenon DEF InOrder, SameBook
  <2> QED
    BY <1>1, <1>2, <2>2, <2>3, <2>4, ChangeKept, Zenon
<1>5. CASE IPC_RMID(t)
  <2>1. PICK n : n = [q EXCEPT !.lock = t]
    OBVIOUS
  <2>2. SetQueue(t, n) /\ GoTo(t, "rmidW")
    BY <1>2, <1>5, <2>1, Zenon DEF IPC_RMID
  <2>3. /\ DOMAIN n = Fields /\ SameBook(q, n) /\ SameLists(q, n) /\ SameLimit(q, n)
        /\ n.alive = q.alive
    BY <1>2, <2>1 DEF Fields, SameLists, SameBook, SameLimit
  <2>4. Book(n) /\ NoNewRoom(q, n) /\ NoNewMatch(q, n) /\ InOrder(q.msgs, n.msgs)
    BY <1>2, <2>3, BookLists, Zenon DEF InOrder, SameBook, SameLists
  <2> QED
    BY <1>1, <1>2, <2>2, <2>3, <2>4, ChangeKept, Zenon
<1> QED
  BY <1>3, <1>4, <1>5, Zenon DEF IPC_SET, IPC_STAT

-----------------------------------------------------------------------------
(* The invariants of all behaviours *)

\* The other steps change the messages of no queue that stays.
LEMMA MessagesKept ==
    ASSUME \A s \in Alive : queue'[s].msgs = queue[s].msgs \/ ~queue'[s].alive
    PROVE  FifoStep
BY Zenon DEF FifoStep, InOrder

\* No step but that of msgsnd, msgrcv and msgctl on a queue they have locked
\* changes the messages of a queue, unless it frees the queue.
LEMMA OtherStepsOrder ==
    ASSUME MsgInv, QueueInv, NEW t \in Tasks,
           \/ Call(t) \/ Lookup(t) \/ SuspendTask(t) \/ msgget(t)
           \/ WakeFirst(t) \/ WakeDone(t) \/ RemoveQueue(t)
    PROVE  FifoStep
<1>1. CASE UNCHANGED queue
  BY <1>1, MessagesKept, Zenon
<1>2. CASE msgget(t)
  <2>1. PICK r \in GetIPCKeyId(map, call[t].key, call[t].creat, call[t].excl) :
            queue' = [s \in 0..(r.map.idx - 1) |->
                          IF s < map.idx THEN queue[s] ELSE msg_construct]
    BY <1>2, Zenon DEF msgget
  <2>2. r.map.idx \in {map.idx, map.idx + 1} /\ map.idx \in Nat /\ DOMAIN queue = 0..(map.idx - 1)
    BY KeyIdOutcome, Zenon DEF MsgInv, MapInv, MapShape, Shape
  <2>3. \A s \in DOMAIN queue : queue'[s] = queue[s]
    BY <2>1, <2>2, SMTT(30)
  <2> QED
    BY <2>3, MessagesKept, Zenon DEF Alive
<1>3. ASSUME NEW n, SetQueue(t, n), pc[t] \in QueueUsers, n.msgs = Queue(t).msgs \/ ~n.alive
      PROVE  FifoStep
  <2>1. qi[t] \in DOMAIN queue
    BY <1>3, FoundFacts, Zenon DEF QueueUsers
  <2>2. /\ queue'[qi[t]] = n
        /\ \A s \in DOMAIN queue \ {qi[t]} : queue'[s] = queue[s]
    BY <1>3, <2>1, SetQueueFacts, Zenon
  <2>3. \A s \in Alive : queue'[s].msgs = queue[s].msgs \/ ~queue'[s].alive
    BY <1>3, <2>2 DEF Alive, Queue
  <2> QED
    BY <2>3, MessagesKept, Zenon
<1>4. CASE pc[t] \in QueueUsers
  <2>1. Book(Queue(t))
    BY <1>4, Zenon DEF MsgInv, LockedAlive, QueueInv, AtQueue, Queue, QueueUsers
  <2>2. PICK q : q = Queue(t) /\ DOMAIN q = Fields
    BY <2>1 DEF Book
  <2>3. ListOf(t) \in {"WList", "RList"}
    BY DEF ListOf
  <2>4. /\ [q EXCEPT ![ListOf(t)] = Tail(@)].msgs = q.msgs
        /\ [q EXCEPT !.lock = NoTask].msgs = q.msgs
        /\ ~msg_destroy(q).alive
    BY <2>2, <2>3 DEF Fields, msg_destroy
  <2>5. CASE WakeFirst(t)
    BY <1>3, <1>4, <2>2, <2>4, <2>5, Zenon DEF WakeFirst
  <2>6. CASE WakeDone(t)
    BY <1>1, <1>3, <1>4, <2>2, <2>4, <2>6, Zenon DEF WakeDone
  <2>7. CASE RemoveQueue(t)
    BY <1>3, <1>4, <2>2, <2>4, <2>7, Zenon DEF RemoveQueue
  <2>8. CASE Call(t) \/ Lookup(t) \/ SuspendTask(t)
    BY <1>1, <2>8, Zenon DEF Call, Lookup, SuspendTask
  <2> QED
    BY <1>2, <2>5, <2>6, <2>7, <2>8, Zenon
<1>5. CASE pc[t] \notin QueueUsers
  <2>1. ~WakeFirst(t) /\ ~WakeDone(t) /\ ~RemoveQueue(t)
    BY <1>5, Zenon DEF WakeFirst, WakeDone, RemoveQueue, QueueUsers
  <2> QED
    BY <1>1, <1>2, <2>1, Zenon DEF Call, Lookup, SuspendTask
<1> QED
  BY <1>4, <1>5

\* There is no queue at the beginning, and the calls are the programs'.
LEMMA QueueInitInv == Init => QueueInv
<1> SUFFICES ASSUME Init PROVE QueueInv
  OBVIOUS
<1>1. Alive = {} /\ \A t \in Tasks : ~Asleep(t)
  BY DEF Init, Alive, Asleep
<1>2. todo \in [Tasks -> Seq(Calls)]
  BY MsgAssumption, Zenon DEF Init
<1>3. \A t \in Tasks : CallOK(call[t])
  BY DEF Init, CallOK
<1> QED
  BY <1>1, <1>2, <1>3, Zenon DEF QueueInv, CallsOK, SleepAlive

\* Every step of every call keeps QueueInv and the order of the messages.
LEMMA QueueNextInv == MsgInv /\ QueueInv /\ [Next]_vars => QueueInv' /\ [FifoStep]_vars
<1> SUFFICES ASSUME MsgInv, QueueInv, [Next]_vars PROVE QueueInv' /\ [FifoStep]_vars
  OBVIOUS
<1>1. ASSUME NEW t \in Tasks,
             \/ Call(t) \/ Lookup(t) \/ SuspendTask(t) \/ msgget(t)
             \/ WakeFirst(t) \/ WakeDone(t) \/ RemoveQueue(t)
      PROVE  QueueInv' /\ FifoStep
  <2>1. FifoStep
    BY <1>1, OtherStepsOrder, Zenon
  <2> QED
    BY <1>1, <2>1, CallKept, LookupKept, SuspendKept, msggetKept, WakeFirstKept, WakeDoneKept,
       RemoveQueueKept, Zenon
<1>2. ASSUME NEW t \in Tasks,
             msgsnd(t) \/ msgrcv(t) \/ IPC_SET(t) \/ IPC_STAT(t) \/ IPC_RMID(t)
      PROVE  QueueInv' /\ FifoStep
  BY <1>2, msgsndKept, msgrcvKept, msgctlKept, Zenon
<1>3. CASE UNCHANGED vars
  <2>1. /\ queue' = queue /\ pc' = pc /\ call' = call /\ qi' = qi /\ todo' = todo
    BY <1>3 DEF vars
  <2>2. Alive' = Alive /\ CallsOK' /\ SleepAlive'
    BY <2>1, Zenon DEF Alive, QueueInv, CallsOK, SleepAlive, Asleep
  <2>3. ASSUME NEW s \in Alive
        PROVE  AtQueue(s)'
    BY <2>1, AtQueueKept, Zenon DEF QueueInv
  <2> QED
    BY <1>3, <2>2, <2>3, Zenon DEF QueueInv
<1> QED
  BY <1>1, <1>2, <1>3, Zenon DEF Next, Step, Quiet

\* The key map by itself.
KeyInv == MapNumbers(map) /\ MapExact(map)

\* The empty key map is exact.
LEMMA KeyInitInv == Init => KeyInv
<1> SUFFICES ASSUME Init PROVE KeyInv
  OBVIOUS
<1>1. Used(map) = {}
  BY DEF Init, IPCMapInit, Used
<1>2. Cardinality(Used(map)) = 0
  BY <1>1, FS_EmptySet, Zenon
<1>3. MapNumbers(map) /\ map.nused = 0 /\ map.nobj = 0 /\ map.vlen = 0
  BY <1>1 DEF Init, IPCMapInit, MapNumbers
<1> QED
  BY <1>1, <1>2, <1>3 DEF KeyInv, MapExact

\* Only msgget and the end of IPC_RMID change the key map.
LEMMA KeyNextInv == MsgInv /\ QueueInv /\ KeyInv /\ [Next]_vars => KeyInv'
<1> SUFFICES ASSUME MsgInv, QueueInv, KeyInv, [Next]_vars PROVE KeyInv'
  OBVIOUS
<1>1. CASE map' = map
  BY <1>1, Zenon DEF KeyInv
<1>2. ASSUME NEW t \in Tasks, msgget(t)
      PROVE  KeyInv'
  <2>1. call[t].key \in Keys
    BY <1>2, Zenon DEF msgget, QueueInv, CallsOK, CallOK
  <2>2. PICK r \in GetIPCKeyId(map, call[t].key, call[t].creat, call[t].excl) : map' = r.map
    BY <1>2, Zenon DEF msgget
  <2> QED
    BY <2>1, <2>2, KeyIdExact, Zenon DEF KeyInv
<1>3. ASSUME NEW t \in Tasks, RemoveQueue(t)
      PROVE  KeyInv'
  <2>1. pc[t] \in MapUsers \ {"halted"}
    BY <1>3 DEF RemoveQueue, MapUsers
  <2>2. call[t].id \in Used(map) /\ map' = IPCRmId(map, call[t].id)
    BY <1>3, <2>1, Zenon DEF RemoveQueue, MsgInv, SlotOf
  <2> QED
    BY <2>2, RmIdExact, Zenon DEF KeyInv
<1>4. ASSUME NEW t \in Tasks, Call(t) \/ Lookup(t) \/ SuspendTask(t) \/ WakeFirst(t) \/ WakeDone(t)
      PROVE  map' = map
  BY <1>4, Zenon DEF Call, Lookup, SuspendTask, WakeFirst, WakeDone
<1>5. ASSUME NEW t \in Tasks,
             msgsnd(t) \/ msgrcv(t) \/ IPC_SET(t) \/ IPC_STAT(t) \/ IPC_RMID(t)
      PROVE  map' = map
  BY <1>5, Zenon DEF msgsnd, msgrcv, IPC_SET, IPC_STAT, IPC_RMID
<1>6. UNCHANGED vars => map' = map
  BY DEF vars
<1> QED
  BY <1>1, <1>2, <1>3, <1>4, <1>5, <1>6, Zenon DEF Next, Step, Quiet

\* The counters of the key map are exact, a key names at most one queue, and
\* every object of the map is a queue that has not been freed.
THEOREM MsgKeyMapExact == Spec => []KeyMapExact
<1>1. MsgInv /\ KeyInv => KeyMapExact
  BY Zenon DEF MsgInv, MapInv, KeyInv, KeyMapExact
<1> QED
  BY <1>1, MsgInitInv, MsgNextInv, QueueInitInv, QueueNextInv, KeyInitInv, KeyNextInv, PTL DEF Spec

\* msg_qnum and msg_cbytes count the messages of a queue and those that
\* msgrcv has refused with E2BIG, whatever the calls and their sizes.
THEOREM MsgAccounting == Spec => []Accounting
<1>1. QueueInv => Accounting
  BY Zenon DEF QueueInv, AtQueue, Book, Accounting
<1> QED
  BY <1>1, MsgInitInv, MsgNextInv, QueueInitInv, QueueNextInv, PTL DEF Spec

\* The lists of a queue hold exactly those who sleep on it, and nobody sleeps
\* while what was missing is there and nobody is on the way to wake the list.
THEOREM MsgNobodyStuck == Spec => []NobodyStuck
<1>1. QueueInv => NobodyStuck
  <2> SUFFICES ASSUME QueueInv PROVE NobodyStuck
    OBVIOUS
  <2>1. SleepersListed
    BY Zenon DEF QueueInv, SleepAlive, AtQueue, Listed, SleepersAt, SleepersListed
  <2>2. ASSUME NEW t \in Tasks, Asleep(t)
        PROVE  Reasons(qi[t])
    BY <2>2, Zenon DEF QueueInv, SleepAlive, AtQueue
  <2> QED
    BY <2>1, <2>2, Zenon DEF NobodyStuck, Reasons, Queue
<1> QED
  BY <1>1, MsgInitInv, MsgNextInv, QueueInitInv, QueueNextInv, PTL DEF Spec

\* A queue grows only at its end, and the message that msgrcv takes is the
\* oldest of its type.
THEOREM MsgFifo == Spec => FifoPerType
<1> QED
  BY MsgInitInv, MsgNextInv, QueueInitInv, QueueNextInv, PTL DEF Spec, FifoPerType
=============================================================================
