----------------------------- MODULE RecordLock -----------------------------
(***************************************************************************)
(* Descriptors of one file and the record locks on it: open, dup, dup2,    *)
(* close and fcntl with F_SETLK, F_SETLKW, F_GETLK (fcntl/, unistd/,       *)
(* stdio/record_locking.c).  The duplicates of a descriptor hang off the   *)
(* original as a list of aliases; the locked regions are in a list that    *)
(* all programs of the system share, protected by a semaphore; each is     *)
(* owned by the task that locked it.  Locks on other files live in nodes   *)
(* of their own and never meet.                                            *)
(*                                                                         *)
(* A call that waits for a semaphore is a step that is not enabled.  A     *)
(* dup() that waits for fd_Lock keeps the semaphore of the descriptor      *)
(* table meanwhile, which is not modelled: it only delays other calls.     *)
(* Calls that use a descriptor while another thread is inside the close    *)
(* that takes it apart are not modelled.                                   *)
(***************************************************************************)
EXTENDS Integers, Sequences, Functions

CONSTANTS
    Tasks,          \* processes and threads
    Programs,
    Program,        \* the program a task belongs to
    Slots,          \* file descriptors
    Requests,       \* what l_start (from the origin), l_len and l_type can be
    LongMax,        \* LONG_MAX
    NoRequest

ASSUME RecordLockAssumption ==
    /\ Program \in [Tasks -> Programs]
    /\ Requests \subseteq [start : Nat, len : Int, shared : BOOLEAN]
    /\ LongMax \in Nat \ {0}
    /\ NoRequest \notin [slot : Slots, request : Requests]

VARIABLES
    family,         \* of a program: its originals, each followed by its aliases
    cleanup,        \* fd_Cleanup # NULL
    locked,         \* FDF_IS_LOCKED
    regions,        \* fln_LockedRegionList of the file
    polling         \* what a task in F_SETLKW waits for

vars == <<family, cleanup, locked, regions, polling>>
fdVars == <<family, cleanup, locked>>

Init ==
    /\ family = [p \in Programs |-> {}]
    /\ cleanup = [p \in Programs |-> [s \in Slots |-> FALSE]]
    /\ locked = [p \in Programs |-> [s \in Slots |-> FALSE]]
    /\ regions = {}
    /\ polling = [t \in Tasks |-> NoRequest]

-----------------------------------------------------------------------------
(* The list of regions *)

\* The bytes a request is for.  Length 0 stands for LONG_MAX bytes, a negative
\* length for the bytes before the start; a start before 0 is an error.
FirstByte(q) == IF q.len < 0 THEN q.start + q.len ELSE q.start
LastByte(q) == q.start - 1 + (IF q.len = 0 THEN LongMax ELSE IF q.len < 0 THEN 0 ELSE q.len)
Valid(q) == FirstByte(q) >= 0

Region(t, q) == [owner |-> t, start |-> FirstByte(q), stop |-> LastByte(q), shared |-> q.shared]

\* Mutant: regions that share just one byte do not overlap.
Overlap_Strict(g, h) == g.start < h.stop /\ h.start < g.stop

Overlap(g, h) == g.start <= h.stop /\ h.start <= g.stop

\* find_colliding_region
Colliding(g, h) == Overlap(g, h) /\ ~(g.shared /\ h.shared) /\ g.owner # h.owner
Collides(g) == \E h \in regions : Colliding(g, h)

-----------------------------------------------------------------------------
(* The descriptor table *)

InUse(p) == UNION {Range(c) : c \in family[p]}
FamilyOf(p, s) == CHOOSE c \in family[p] : s \in Range(c)

\* A task that polls keeps fd_Lock, which a descriptor shares with its aliases.
Free(p, c) ==
    \A t \in Tasks : Program[t] = p /\ polling[t] # NoRequest => polling[t].slot \notin Range(c)

\* The task is the only one of its program.
Alone(t) == \A u \in Tasks : Program[u] = Program[t] => u = t

\* What a call on descriptor s by a task that is not in another call needs.
Ready(t, s) ==
    /\ polling[t] = NoRequest
    /\ s \in InUse(Program[t]) /\ Free(Program[t], FamilyOf(Program[t], s))

Put(f, p, S, v) == [f EXCEPT ![p] = [s \in Slots |-> IF s \in S THEN v ELSE @[s]]]
Set(f, p, S) == Put(f, p, S, TRUE)
Clear(f, p, S) == Put(f, p, S, FALSE)

open(t, s) ==
    LET p == Program[t] IN
    /\ polling[t] = NoRequest /\ s \notin InUse(p)
    /\ family' = [family EXCEPT ![p] = @ \cup {<<s>>}]
    /\ UNCHANGED <<cleanup, locked, regions, polling>>

\* A duplicate is put behind the original, at the head of its aliases.
LinkAlias(c, d) == SubSeq(c, 1, 1) \o <<d>> \o SubSeq(c, 2, Len(c))

\* A descriptor leaves the list; after the first, the next is the original.
UnlinkAlias(c, i) == SubSeq(c, 1, i - 1) \o SubSeq(c, i + 1, Len(c))

\* __duplicate_fd: d becomes the first alias of the original that s stands
\* for; it gets the flags of the original but not its fd_Cleanup.
Duplicate(p, s, d) ==
    LET c == FamilyOf(p, s) IN
    /\ family' = [family EXCEPT ![p] = (@ \ {c}) \cup {LinkAlias(c, d)}]
    /\ locked' = Put(locked, p, {d}, locked[p][Head(c)])
    /\ UNCHANGED cleanup

dup(t, s, d) ==
    /\ Ready(t, s) /\ d \notin InUse(Program[t])
    /\ Duplicate(Program[t], s, d)
    /\ UNCHANGED <<regions, polling>>

\* Mutant: fd_Cleanup stays with the descriptor that is closed.
Inherit_Not(f, p, c, s) == f

\* The structure copy to the first alias when the original is closed.
Inherit(f, p, c, s) == IF s = c[1] THEN Put(f, p, {c[2]}, f[p][s]) ELSE f

\* Closing one of several: an alias is unlinked, and the first alias of an
\* original takes its place.  What is closed is cleared.
CloseAliased(p, s) ==
    LET c == FamilyOf(p, s) IN
    /\ Len(c) > 1
    /\ \E i \in DOMAIN c : c[i] = s /\ family' = [family EXCEPT ![p] = (@ \ {c}) \cup {UnlinkAlias(c, i)}]
    /\ cleanup' = Clear(Inherit(cleanup, p, c, s), p, {s})
    /\ locked' = Clear(Inherit(locked, p, c, s), p, {s})
    /\ UNCHANGED <<regions, polling>>

\* Mutant: the regions of all tasks are removed.
Own_All(t) == regions

Own(t) == {g \in regions : g.owner = t}

\* Closing the last one: cleanup_locked_records, in the task that closes.
CloseLast(t, s) ==
    LET p == Program[t] IN
    /\ <<s>> \in family[p]
    /\ family' = [family EXCEPT ![p] = @ \ {<<s>>}]
    /\ regions' = IF cleanup[p][s] /\ locked[p][s] THEN regions \ Own(t) ELSE regions
    /\ cleanup' = Clear(cleanup, p, {s})
    /\ locked' = Clear(locked, p, {s})
    /\ UNCHANGED polling

close(t, s) == Ready(t, s) /\ (CloseAliased(Program[t], s) \/ CloseLast(t, s))

\* dup2 onto a descriptor in use is close and then dup.  But if it is the
\* original of s, the original that was found for s before is gone, and what
\* is duplicated is the cleared descriptor d itself, which stays unused.
dup2Original(t, s, d) ==
    /\ s # d /\ Ready(t, s) /\ Head(FamilyOf(Program[t], s)) = d
    /\ CloseAliased(Program[t], d)

-----------------------------------------------------------------------------
(* fcntl with F_SETLK, F_SETLKW, F_GETLK: __handle_record_locking *)

\* fcntl finds the original that s stands for, and takes its fd_Lock later:
\* meanwhile another thread can have closed that descriptor and opened it
\* again, maybe as an alias, which is then used as it is.
Found(t, s) == {Head(FamilyOf(Program[t], s))} \cup (IF Alone(t) THEN {} ELSE {s})

Remember(t, s) == \E o \in Found(t, s) : cleanup' = Set(cleanup, Program[t], {o})
MarkAll(p, s) == locked' = Set(locked, p, Range(FamilyOf(p, s)))

\* F_SETLK, and F_SETLKW at the first attempt.
Lock(t, s, q) ==
    /\ Ready(t, s) /\ Valid(q) /\ ~Collides(Region(t, q))
    /\ Remember(t, s)
    /\ regions' = regions \cup {Region(t, q)}
    /\ MarkAll(Program[t], s)
    /\ UNCHANGED <<family, polling>>

\* No region is changed by F_SETLK when there is a collision, by a request
\* that is invalid or that the descriptor's mode does not allow, and by
\* F_GETLK, which ends as "not a lock request".
NoLock(t, s) ==
    /\ Ready(t, s)
    /\ Remember(t, s)
    /\ UNCHANGED <<family, locked, regions, polling>>

\* F_SETLK or F_SETLKW with F_UNLCK, for the bytes of q, ends as "not a lock
\* request" too, before the code that would remove the region.
Unlock(t, s, q) == NoLock(t, s)

\* F_SETLKW with a collision: retry after a delay.
Poll(t, s, q) ==
    /\ Ready(t, s) /\ Valid(q) /\ Collides(Region(t, q))
    /\ Remember(t, s)
    /\ polling' = [polling EXCEPT ![t] = [slot |-> s, request |-> q]]
    /\ UNCHANGED <<family, locked, regions>>

Retry(t) ==
    /\ polling[t] # NoRequest
    /\ LET g == Region(t, polling[t].request)
       IN  ~Collides(g) /\ regions' = regions \cup {g}
    /\ MarkAll(Program[t], polling[t].slot)
    /\ polling' = [polling EXCEPT ![t] = NoRequest]
    /\ UNCHANGED <<family, cleanup>>

\* CTRL-C.
Break(t) ==
    /\ polling[t] # NoRequest
    /\ polling' = [polling EXCEPT ![t] = NoRequest]
    /\ UNCHANGED <<fdVars, regions>>

-----------------------------------------------------------------------------

Next ==
    \E t \in Tasks :
        \/ \E s \in Slots : open(t, s) \/ close(t, s) \/ NoLock(t, s)
        \/ \E s, d \in Slots : dup(t, s, d) \/ dup2Original(t, s, d)
        \/ \E s \in Slots, q \in Requests : Lock(t, s, q) \/ Unlock(t, s, q) \/ Poll(t, s, q)
        \/ Retry(t) \/ Break(t)

Spec == Init /\ [][Next]_vars

-----------------------------------------------------------------------------
(* Properties *)

\* Two tasks never hold regions that share a byte unless both are shared
\* locks: find_colliding_region is asked again in the same hold of the
\* semaphore in which a region is added, also after a wait in F_SETLKW.
NoConflict ==
    \A g, h \in regions : g.owner # h.owner =>
        (g.shared /\ h.shared) \/ (g.start..g.stop) \cap (h.start..h.stop) = {}

\* A region is given up only by its owner, who closes the last descriptor of
\* a family or unlocks just these bytes: no call of another task takes it
\* away, of the same program or of another, and neither do the close of a
\* duplicate, a lock of other bytes or a wait that ends.
GivenUpByOwner ==
    [][\A g \in regions : g \notin regions' =>
          \E s \in Slots :
             \/ CloseLast(g.owner, s)
             \/ \E q \in Requests : Unlock(g.owner, s, q) /\ Region(g.owner, q) = g]_vars

\* The regions of a program with one task will be removed when it closes the
\* file: one of its originals, whichever descriptors it has closed and
\* duplicated since it locked, still has fd_Cleanup and FDF_IS_LOCKED set.
WillBeRemoved ==
    \A g \in regions : Alone(g.owner) =>
        LET p == Program[g.owner]
        IN  \E c \in family[p] : cleanup[p][c[1]] /\ locked[p][c[1]]

=============================================================================
