----------------------------- MODULE MCSysvMsg -----------------------------
(***************************************************************************)
(* Small instances of SysvMsg: two processes that send, one that receives  *)
(* and one that administers the queue.                                     *)
(***************************************************************************)
EXTENDS SysvMsg, TLC

CONSTANTS s1, s2, r, adm

Get(k, creat, excl) == [op |-> "get", key |-> k, creat |-> creat, excl |-> excl]
Message(op, type, size, flag) ==
    [op |-> op, id |-> 0, type |-> type, size |-> size,
     nowait |-> flag = "nowait", noerror |-> flag = "noerror"]
Snd(type, size, flag) == Message("snd", type, size, flag)
Rcv(type, size, flag) == Message("rcv", type, size, flag)
Ctl(op, size) == [op |-> op, id |-> 0, size |-> size]

MCTasks == {s1, s2, r, adm}

Create(k) == Get(k, TRUE, FALSE)

\* A full queue, and receivers with different wishes, one buffer too small.
Contention ==
    s1 :> <<Create(1), Snd(1, 2, ""), Snd(2, 1, "")>> @@
    s2 :> <<Snd(1, 0, ""), Snd(1, 1, "")>> @@
    r :> <<Rcv(0, 1, ""), Rcv(-2, 2, "noerror")>> @@
    adm :> <<Rcv(1, 2, "")>>

\* The capacity is changed while senders wait.
Resizing ==
    s1 :> <<Create(1), Snd(2, 1, ""), Snd(1, 2, "")>> @@
    s2 :> <<Snd(1, 1, "")>> @@
    r :> <<Rcv(2, 1, "")>> @@
    adm :> <<Ctl("set", 1), Ctl("set", 3)>>

\* The queue is removed under waiting tasks and its id used again.
Removal ==
    s1 :> <<Create(1), Snd(1, 2, ""), Snd(1, 1, "")>> @@
    s2 :> <<Snd(2, 1, "")>> @@
    r :> <<Rcv(2, 1, "")>> @@
    adm :> <<Ctl("rmid", 0), Get(2, TRUE, TRUE)>>

\* Calls that are refused.
Refusals ==
    s1 :> <<Create(1), Snd(1, 2, ""), Snd(1, 1, "nowait")>> @@
    s2 :> <<Snd(1, 3, "noerror"), Snd(1, 3, "")>> @@
    r :> <<Rcv(2, 1, "nowait")>> @@
    adm :> <<Ctl("set", 0), Ctl("stat", 0), Get(1, TRUE, TRUE)>>

\* Slots of the key map are freed and used again.
Slots ==
    s1 :> <<Create(1), Create(2), Create(0)>> @@
    s2 :> <<>> @@
    r :> <<Get(1, FALSE, FALSE), Create(2)>> @@
    adm :> <<Ctl("rmid", 0), Create(2)>>

MCPrograms == {Contention, Resizing, Removal, Refusals, Slots}

=============================================================================
