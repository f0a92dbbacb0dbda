-------------------------- MODULE AbstractSysvSem --------------------------
(***************************************************************************)
(* What System V semaphore sets promise: semop performs all of its         *)
(* operations at once, when each of them can be performed, and otherwise   *)
(* none; semaphores never become negative.                                 *)
(***************************************************************************)
EXTENDS Integers, Sequences

CONSTANTS
    Sizes,          \* how many semaphores a set may have
    OpLists,        \* the arrays of operations that semop may get
    SetVals         \* the values that SETVAL may give

VARIABLE vals       \* vals[s][n]: semaphore n of set s, for the sets that exist

Init == vals = [s \in {} |-> 0]

\* Semaphores of a new set are 1.
Create ==
    \E s \in DOMAIN vals' \ DOMAIN vals, n \in Sizes :
        vals' = [x \in DOMAIN vals \cup {s} |->
                    IF x = s THEN [i \in 0..(n - 1) |-> 1] ELSE vals[x]]

Remove == \E s \in DOMAIN vals : vals' = [x \in DOMAIN vals \ {s} |-> vals[x]]

Possible(v, o) ==
    /\ o.num \in DOMAIN v
    /\ o.op < 0 => v[o.num] >= -o.op
    /\ o.op = 0 => v[o.num] = 0

\* The operations of a list are on different semaphores.
Semop ==
    \E s \in DOMAIN vals, ops \in OpLists :
        /\ \A j \in DOMAIN ops : Possible(vals[s], ops[j])
        /\ vals' = [vals EXCEPT ![s] = [n \in DOMAIN vals[s] |->
              IF \E j \in DOMAIN ops : ops[j].num = n
              THEN vals[s][n] + ops[CHOOSE j \in DOMAIN ops : ops[j].num = n].op
              ELSE vals[s][n]]]

SetValue ==
    \E s \in DOMAIN vals, val \in SetVals :
        \E n \in DOMAIN vals[s] : vals' = [vals EXCEPT ![s][n] = val]

Next == Create \/ Remove \/ Semop \/ SetValue

Spec == Init /\ [][Next]_vals

=============================================================================
