----------------------------- MODULE MCSysvSem -----------------------------
(***************************************************************************)
(* Small instances of SysvSem: three processes and sets of two             *)
(* semaphores, which are 1 when they are new.                              *)
(***************************************************************************)
EXTENDS SysvSem, TLC

CONSTANTS a, b, c

MCTasks == {a, b, c}

Get(k) == [op |-> "get", key |-> k, nsems |-> 2, creat |-> TRUE, excl |-> FALSE]
Semop(id, ops) == [op |-> "semop", id |-> id, ops |-> ops]
O(num, op, flag) ==
    [num |-> num, op |-> op, nowait |-> flag = "nowait", undo |-> flag = "undo"]
Setval(num, val) == [op |-> "setval", id |-> 0, num |-> num, val |-> val]
Rmid(id) == [op |-> "rmid", id |-> id]

\* Two processes that take both semaphores, in different orders, and one
\* that waits until a semaphore is zero.
Take01 == Semop(0, <<O(0, -1, ""), O(1, -1, "")>>)
Take10 == Semop(0, <<O(1, -1, ""), O(0, -1, "")>>)
Give01 == Semop(0, <<O(0, 1, ""), O(1, 1, "")>>)
TwoForks ==
    a :> <<Get(1), Take01, Give01>> @@
    b :> <<Get(1), Take10, Give01>> @@
    c :> <<Semop(0, <<O(1, 0, "")>>)>>

\* A process that needs more than there is, refused calls and SEM_UNDO.
Counting ==
    a :> <<Get(1), Semop(0, <<O(0, -2, "undo")>>)>> @@
    b :> <<Semop(0, <<O(0, 1, "undo"), O(1, -1, "")>>), Semop(0, <<O(1, -1, "nowait")>>)>> @@
    c :> <<Semop(0, <<O(5, 1, "")>>), Setval(1, 3)>>

\* A set is removed while processes wait for more, for zero, or not yet, and
\* another one, with one semaphore, takes its place.
Removal ==
    a :> <<Get(1), Semop(0, <<O(0, -2, "")>>)>> @@
    b :> <<Semop(0, <<O(1, 0, "")>>)>> @@
    c :> <<Rmid(0), [Get(2) EXCEPT !.nsems = 1]>>

\* One process with adjustments to two sets.
TwoSets ==
    a :> <<Get(1), Get(2), Semop(0, <<O(0, -1, "undo")>>), Semop(1, <<O(0, -1, "undo")>>)>> @@
    b :> <<Semop(1, <<O(0, 1, "")>>)>> @@
    c :> <<Setval(2, 0), Semop(1, <<>>)>>

MCPrograms == {TwoForks, Counting, Removal, TwoSets}

=============================================================================
