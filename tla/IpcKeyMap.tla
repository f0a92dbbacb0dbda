----------------------------- MODULE IpcKeyMap -----------------------------
(***************************************************************************)
(* struct IPCIdKeyMap: the vector of System V IPC objects that message     *)
(* queues, semaphore sets and shared memory segments keep, and the         *)
(* functions on it.  An id is the index of a slot; an object is known here *)
(* by its key and by perm.seq, the number of its creation, which no id     *)
(* contains.                                                               *)
(***************************************************************************)
EXTENDS Integers, FiniteSets, FiniteSetsExt

CONSTANTS
    Keys,           \* the keys programs use
    IPC_PRIVATE,    \* the key that is never looked up
    VEXTEND,        \* how many slots the vector grows by
    NULL            \* a slot without an object

ASSUME KeyMapAssumption ==
    /\ IPC_PRIVATE \in Keys
    /\ VEXTEND \in Nat \ {0}
    /\ NULL \notin [key : Keys, seq : Nat]

Objects(n) == [key : Keys, seq : 0..(n - 1)]

IsKeyMap(m) ==
    /\ DOMAIN m = {"nobj", "vlen", "idx", "nused", "objv"}
    /\ {m.nobj, m.vlen, m.idx, m.nused} \subseteq Nat
    /\ m.objv \in [0..(m.nobj - 1) -> Objects(m.idx) \cup {NULL}]

IPCMapInit == [nobj |-> 0, vlen |-> 0, idx |-> 0, nused |-> 0, objv |-> [i \in {} |-> NULL]]

Used(m) == {i \in 0..(m.nobj - 1) : m.objv[i] # NULL}

\* Mutant: the search for the key ends at the first free slot.
WithKey_ToHole(m, key) ==
    IF key = IPC_PRIVATE THEN {}
    ELSE {i \in Used(m) : m.objv[i].key = key /\ 0..i \subseteq Used(m)}

\* The slots GetIPCKeyId finds for a key, and the one it would fill.  Only
\* a real key makes it look for a free slot.
WithKey(m, key) ==
    IF key = IPC_PRIVATE THEN {} ELSE {i \in Used(m) : m.objv[i].key = key}

NewIndex(m, key) ==
    LET free == {i \in 0..(m.nobj - 1) : m.objv[i] = NULL}
    IN  IF key = IPC_PRIVATE \/ free = {} THEN m.nobj ELSE Min(free)

\* A new object is entered; the vector grows when nobj has reached its
\* length, also when the new object goes to a free slot.
Entered(m, key) ==
    LET new == NewIndex(m, key)
        objv == [i \in DOMAIN m.objv \cup {new} |->
                    IF i = new THEN [key |-> key, seq |-> m.idx] ELSE m.objv[i]]
    IN  [objv |-> objv,
         nobj |-> IF new = m.nobj THEN m.nobj + 1 ELSE m.nobj,
         vlen |-> IF m.nobj = m.vlen THEN m.vlen + VEXTEND ELSE m.vlen,
         idx |-> m.idx + 1,
         nused |-> m.nused + 1]

Failed(m, errno) == [map |-> m, id |-> -1, errno |-> errno]

\* GetIPCKeyId: the possible outcomes.  An object that could not be made
\* gives -1, which the callers turn into errno 1; one that was made but not
\* entered is lost.
GetIPCKeyId(m, key, creat, excl) ==
    LET found == WithKey(m, key)
        create == creat \/ key = IPC_PRIVATE
    IN  IF found # {} /\ create /\ excl THEN {Failed(m, "EEXIST")}
        ELSE IF found # {} THEN {[map |-> m, id |-> Min(found), errno |-> "0"]}
        ELSE IF ~create THEN {Failed(m, "ENOENT")}
        ELSE {[map |-> Entered(m, key), id |-> NewIndex(m, key), errno |-> "0"],
              Failed(m, "EPERM")}
             \cup (IF m.nobj = m.vlen
                   THEN {Failed([m EXCEPT !.idx = @ + 1], "ENOMEM")} ELSE {})

\* GetIPCById: the object in the slot, NULL if there is none.
GetIPCById(m, id) == IF id \in Used(m) THEN m.objv[id] ELSE NULL

IPCRmId(m, id) ==
    IF id \in Used(m) THEN [m EXCEPT !.objv[id] = NULL, !.nused = @ - 1] ELSE m

\* What the comment on the struct says of its counters, and that a key other
\* than IPC_PRIVATE names at most one object, however gets and removals
\* alternate: GetIPCKeyId must look at every slot before it creates.
MapExact(m) ==
    /\ m.nused = Cardinality(Used(m))
    /\ m.nobj <= m.vlen
    /\ \A i, j \in Used(m) :
          \/ i = j
          \/ /\ m.objv[i].seq # m.objv[j].seq
             /\ m.objv[i].key = m.objv[j].key => m.objv[i].key = IPC_PRIVATE

=============================================================================
