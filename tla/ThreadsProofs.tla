--------------------------- MODULE ThreadsProofs ---------------------------
(***************************************************************************)
(* SlotsExclusive, JoinedIsDone and ExitWaits for any number of threads    *)
(* and any size of the table, when main() is the only one that creates     *)
(* threads; any task may join them, and they end by returning or by        *)
(* pthread_exit.  With a second creator the properties do not hold, since  *)
(* a slot is taken only some steps after it was found.                     *)
(***************************************************************************)
EXTENDS Threads, WellFoundedInduction, TLAPS

Types ==
    /\ slot \in [Slots -> SlotType]
    /\ tpc \in [Tasks -> TaskStates]
    /\ mine \in [Procs -> Slots \cup {0}]
    /\ arg \in [Tasks -> 0..MaxThreads]
    /\ child \in [Tasks -> Procs \cup {NoTask}]
    /\ known \in [Tasks -> SUBSET Slots]
    /\ exitAt \in 0..MaxThreads
    /\ marked \subseteq Procs

ProcStates == {"none", "starting", "running", "cleanup", "dead"} \cup Joining
MainStates == {"running", "picked", "prepared", "spawned", "exiting", "exited"} \cup Joining
Creating == {"picked", "prepared", "spawned"}

\* Only main() creates, and so gets the ids of threads.
RolesInv ==
    /\ tpc[Main] \in MainStates
    /\ \A p \in Procs : tpc[p] \in ProcStates /\ known[p] = {}

\* What main() is about in pthread_create: the slot stays empty until the
\* task pointer is stored, which may be long after the process runs.
CreateInv ==
    /\ tpc[Main] \in Creating => arg[Main] \in Slots /\ slot[arg[Main]].task = NoTask
    /\ tpc[Main] = "prepared" => slot[arg[Main]].parent = Main /\ slot[arg[Main]].status = "IDLE"
    /\ tpc[Main] = "spawned" => /\ child[Main] \in Procs /\ tpc[child[Main]] # "none"
                                /\ mine[child[Main]] = arg[Main]

\* What a task is about in pthread_join.  Until the exit function, which
\* joins threads that others may be joining, the slot is that task's alone
\* and nobody clears it.
JoinInv ==
    \A t \in Tasks : tpc[t] \in Joining =>
        /\ arg[t] \in Slots
        /\ tpc[t] = "clearing" =>
              slot[arg[t]].status = "DESTRUCT" \/ (exitAt > 0 /\ slot[arg[t]].task = NoTask)
        /\ exitAt = 0 =>
              /\ slot[arg[t]].task # NoTask
              /\ \A u \in Tasks : tpc[u] \in Joining /\ arg[u] = arg[t] => u = t

\* The ids that main() has not joined are those of threads in use.
KnownInv == exitAt = 0 => \A i \in known[Main] : slot[i].task # NoTask

\* The slot that a process was started with tells how far it is, and is in
\* its name, or will be when main() stores the pointer.
Told(p) ==
    IF tpc[p] = "starting" THEN "IDLE" ELSE IF p \in marked THEN "DESTRUCT" ELSE "RUNNING"

AliveInv ==
    \A p \in Procs : Alive(p) =>
        /\ mine[p] \in Slots
        /\ slot[mine[p]].parent = Main
        /\ slot[mine[p]].status = Told(p)
        /\ slot[mine[p]].task = p \/ (tpc[Main] = "spawned" /\ child[Main] = p)

\* A process that a slot names was started with that slot.
SlotInv ==
    \A i \in Slots : slot[i].task # NoTask =>
        slot[i].task \in Procs /\ mine[slot[i].task] = i /\ tpc[slot[i].task] # "none"

JoinedInv == \A p \in joined : p \in Procs /\ tpc[p] = "dead"

MarkedInv == \A p \in marked : p \in Procs /\ tpc[p] \in {"cleanup", "dead"}

\* The exit function leaves no thread behind it that is not marked.
ExitInv ==
    /\ exitAt > 0 <=> tpc[Main] \in {"exiting", "exited"} \/ (tpc[Main] \in Joining /\ exitAt > 0)
    /\ tpc[Main] = "exited" => exitAt = MaxThreads
    /\ Patient /\ exitAt > 0 =>
          \A p \in Procs : Alive(p) =>
              /\ tpc[p] # "starting"
              /\ \/ p \in marked \/ mine[p] >= exitAt
                 \/ tpc[Main] \in Joining /\ arg[Main] = mine[p]

Good ==
    /\ Types /\ RolesInv /\ CreateInv /\ JoinInv /\ KnownInv
    /\ AliveInv /\ SlotInv /\ JoinedInv /\ MarkedInv /\ ExitInv

\* From the moment that pthread_join overtakes a thread nothing is claimed.
Inv == overtaken = {} => Good

-----------------------------------------------------------------------------

\* The exit function counts from the first slot.
LEMMA Positive == \A n \in 1..MaxThreads : n > 0 /\ n # 0
  BY ThreadsAssumption

\* GetThreadId finds a slot of the task, an empty one for NoTask, or none.
LEMMA FoundSlot ==
    ASSUME Types, NEW t
    PROVE  /\ GetThreadId(t) \in 1..MaxThreads
           /\ GetThreadId(t) # MaxThreads =>
                 GetThreadId(t) \in Slots /\ slot[GetThreadId(t)].task = t
<1> DEFINE found == {i \in Slots : slot[i].task = t}
<1>1. MaxThreads \in Nat \ {0} /\ Slots \subseteq Nat
  BY ThreadsAssumption DEF Slots
<1>2. CASE found = {}
  BY <1>1, <1>2 DEF GetThreadId
<1>3. CASE found # {}
  <2>1. \E i \in found : \A j \in found : i <= j
    <3>1. IsWellFoundedOn(OpToRel(<, Nat), Nat)
      BY NatLessThanWellFounded, Zenon
    <3>2. PICK i \in found : \A j \in found : ~(<<j, i>> \in OpToRel(<, Nat))
      BY <1>1, <1>3, <3>1, WFMin, found \subseteq Nat
    <3>3. ASSUME NEW j \in found PROVE i <= j
      <4>1. i \in Nat /\ j \in Nat
        BY <1>1
      <4>2. ~(<<j, i>> \in OpToRel(<, Nat))
        BY <3>2
      <4>3. ~(j < i)
        BY <4>1, <4>2 DEF OpToRel
      <4> QED
        BY <4>1, <4>3
    <3> QED
      BY <3>3
  <2>2. GetThreadId(t) \in found
    BY <1>3, <2>1 DEF GetThreadId
  <2> QED
    BY <1>1, <2>2 DEF Slots
<1> QED
  BY <1>2, <1>3

\* Nobody is alive before main() starts.
LEMMA InitInv == Init => Inv
<1> SUFFICES ASSUME Init PROVE Good
  BY DEF Inv
<1>1. Types
  BY ThreadsAssumption DEF Init, Types, SlotType, Cleared, TaskStates, Tasks
<1>2. RolesInv /\ JoinInv /\ CreateInv
  BY ThreadsAssumption
     DEF Init, RolesInv, JoinInv, CreateInv, MainStates, ProcStates, Creating, Joining, Tasks
<1>3. AliveInv
  BY ThreadsAssumption DEF Init, AliveInv, Alive, Tasks
<1>4. SlotInv /\ JoinedInv /\ MarkedInv /\ KnownInv
  BY ThreadsAssumption DEF Init, SlotInv, JoinedInv, MarkedInv, KnownInv, Cleared, Tasks
<1>5. ExitInv
  BY ThreadsAssumption DEF Init, ExitInv, Joining, Tasks
<1> QED
  BY <1>1, <1>2, <1>3, <1>4, <1>5 DEF Good

\* A step keeps JoinInv when nobody begins or ends its wait, and the slots
\* that are joined keep their task and a DESTRUCT.
LEMMA JoinKept ==
    ASSUME JoinInv, exitAt' = exitAt,
           \A t \in Tasks : tpc'[t] \in Joining =>
               tpc[t] \in Joining /\ arg'[t] = arg[t] /\ (tpc'[t] = "clearing" => tpc[t] = "clearing"),
           \A t \in Tasks : tpc[t] \in Joining =>
               /\ slot'[arg[t]].task = slot[arg[t]].task
               /\ slot[arg[t]].status = "DESTRUCT" => slot'[arg[t]].status = "DESTRUCT"
    PROVE  JoinInv'
<1> SUFFICES ASSUME NEW t \in Tasks, tpc'[t] \in Joining
             PROVE  /\ arg'[t] \in Slots
                    /\ tpc'[t] = "clearing" =>
                          \/ slot'[arg'[t]].status = "DESTRUCT"
                          \/ exitAt' > 0 /\ slot'[arg'[t]].task = NoTask
                    /\ exitAt' = 0 =>
                          /\ slot'[arg'[t]].task # NoTask
                          /\ \A u \in Tasks : tpc'[u] \in Joining /\ arg'[u] = arg'[t] => u = t
  BY Zenon DEF JoinInv
<1>1. tpc[t] \in Joining /\ arg'[t] = arg[t] /\ (tpc'[t] = "clearing" => tpc[t] = "clearing")
  OBVIOUS
<1>2. /\ arg[t] \in Slots
      /\ tpc[t] = "clearing" =>
            slot[arg[t]].status = "DESTRUCT" \/ (exitAt > 0 /\ slot[arg[t]].task = NoTask)
      /\ exitAt = 0 => slot[arg[t]].task # NoTask
  BY <1>1, Zenon DEF JoinInv
<1>3. ASSUME exitAt = 0, NEW u \in Tasks, tpc'[u] \in Joining, arg'[u] = arg'[t] PROVE u = t
  BY <1>1, <1>3, Zenon DEF JoinInv
<1>4. /\ slot'[arg[t]].task = slot[arg[t]].task
      /\ slot[arg[t]].status = "DESTRUCT" => slot'[arg[t]].status = "DESTRUCT"
  BY <1>1
<1> QED
  BY <1>1, <1>2, <1>3, <1>4

\* A step keeps AliveInv when the slots of live threads stay as they are.
LEMMA AliveKept ==
    ASSUME AliveInv, mine' = mine, child' = child,
           tpc[Main] = "spawned" => tpc'[Main] = "spawned",
           \A p \in Procs : Alive(p)' =>
               Alive(p) /\ Told(p)' = Told(p) /\ slot'[mine[p]] = slot[mine[p]]
    PROVE  AliveInv'
<1> SUFFICES ASSUME NEW p \in Procs, Alive(p)'
             PROVE  /\ mine[p] \in Slots /\ slot'[mine[p]].parent = Main
                    /\ slot'[mine[p]].status = Told(p)'
                    /\ slot'[mine[p]].task = p \/ (tpc'[Main] = "spawned" /\ child[Main] = p)
  BY Zenon DEF AliveInv
<1>1. Alive(p) /\ Told(p)' = Told(p) /\ slot'[mine[p]] = slot[mine[p]]
  BY Zenon
<1>2. /\ mine[p] \in Slots /\ slot[mine[p]].parent = Main /\ slot[mine[p]].status = Told(p)
      /\ slot[mine[p]].task = p \/ (tpc[Main] = "spawned" /\ child[Main] = p)
  BY <1>1, Zenon DEF AliveInv
<1> QED
  BY <1>1, <1>2, Zenon

\* Steps of main() in pthread_create.
LEMMA CreateStep ==
    ASSUME Good, Creators = {Main}, NEW t \in Tasks, PickSlot(t) \/ Create(t)
    PROVE  Good'
<1> USE ThreadsAssumption DEF Tasks
<1>1. t = Main
  BY DEF Good, RolesInv, PickSlot, Create, PrepareSlot, CreateProc, StoreTask, ProcStates, Joining
<1>2. UNCHANGED <<joined, exitAt, marked>> /\ exitAt = 0
  BY <1>1 DEF PickSlot, Create, PrepareSlot, CreateProc, StoreTask, Good, ExitInv, Types, Joining
<1>0. \A u \in Tasks : tpc[u] \in Joining =>
          arg[u] \in Slots /\ slot[arg[u]].task # NoTask
  BY <1>2, Zenon DEF Good, JoinInv
<1>10. \A i \in known[Main] : i \in Slots /\ slot[i].task # NoTask
  BY <1>2 DEF Good, KnownInv, Types
<1>3. CASE PickSlot(t)
  <2>1. /\ tpc[Main] = "running" /\ UNCHANGED <<slot, mine, child, known>>
        /\ arg' = [arg EXCEPT ![Main] = GetThreadId(NoTask)]
        /\ \/ arg'[Main] = MaxThreads /\ tpc' = [tpc EXCEPT ![Main] = "running"]
           \/ arg'[Main] # MaxThreads /\ tpc' = [tpc EXCEPT ![Main] = "picked"]
    BY <1>1, <1>3, Zenon DEF PickSlot, GoTo
  <2>2. /\ GetThreadId(NoTask) \in 1..MaxThreads
        /\ GetThreadId(NoTask) # MaxThreads =>
              GetThreadId(NoTask) \in Slots /\ slot[GetThreadId(NoTask)].task = NoTask
    BY FoundSlot DEF Good
  <2>3. Types'
    BY <1>2, <2>1, <2>2 DEF Good, Types, TaskStates
  <2>4. /\ \A p \in Procs : tpc'[p] = tpc[p]
        /\ tpc'[Main] \in {"running", "picked"}
        /\ tpc'[Main] = "picked" => arg'[Main] \in Slots /\ slot[arg'[Main]].task = NoTask
    BY <2>1, <2>2 DEF Good, Types
  <2>5. RolesInv' /\ CreateInv' /\ ExitInv'
    BY <1>2, <2>1, <2>4
       DEF Good, RolesInv, CreateInv, ExitInv, MainStates, Creating, Joining
  <2>6. AliveInv' /\ SlotInv'
    BY <1>2, <2>1, <2>4, SMTT(30) DEF Good, AliveInv, SlotInv, Told, Alive
  <2>7. JoinedInv' /\ MarkedInv' /\ KnownInv'
    BY <1>2, <2>1, <2>4 DEF Good, JoinedInv, MarkedInv, KnownInv
  <2>8. JoinInv'
    <3>1. \A u \in Tasks : tpc'[u] \in Joining => tpc[u] = tpc'[u] /\ arg'[u] = arg[u]
      BY <2>1, <2>4 DEF Good, Types, Joining
    <3> QED
      BY <1>2, <2>1, <3>1, JoinKept DEF Good
  <2> QED
    BY <2>3, <2>5, <2>6, <2>7, <2>8 DEF Good
<1>4. CASE PrepareSlot(t)
  <2> DEFINE i == arg[Main]
             s == [task |-> NoTask, parent |-> Main, status |-> "IDLE"]
  <2>0. [Cleared EXCEPT !.parent = Main] = s
    BY DEF Cleared
  <2>1. /\ tpc[Main] = "picked" /\ UNCHANGED <<mine, arg, child, known>>
        /\ slot' = [slot EXCEPT ![i] = s] /\ tpc' = [tpc EXCEPT ![Main] = "prepared"]
    BY <1>1, <1>4, <2>0, Zenon DEF PrepareSlot, GoTo
  <2>2. i \in Slots /\ slot[i].task = NoTask
    BY <2>1 DEF Good, CreateInv, Creating
  <2>3. Types'
    BY <1>2, <2>1, Zenon DEF Good, Types, TaskStates, SlotType
  <2>4. /\ \A p \in Procs : tpc'[p] = tpc[p]
        /\ tpc'[Main] = "prepared"
        /\ slot'[i] = s /\ \A j \in Slots : j # i => slot'[j] = slot[j]
    BY <2>1, <2>2 DEF Good, Types
  <2>5. RolesInv' /\ CreateInv' /\ ExitInv'
    BY <1>2, <2>1, <2>2, <2>4, SMTT(30)
       DEF Good, RolesInv, CreateInv, ExitInv, MainStates, Creating, Joining
  <2>6. \A p \in Procs : Alive(p) => mine[p] # i
    BY <2>1, <2>2, SMTT(30) DEF Good, AliveInv
  <2>7. AliveInv' /\ SlotInv'
    BY <1>2, <2>1, <2>4, <2>6, SMTT(30) DEF Good, AliveInv, SlotInv, Told, Alive
  <2>8. JoinedInv' /\ MarkedInv' /\ KnownInv'
    BY <1>10, <1>2, <2>1, <2>2, <2>4 DEF Good, JoinedInv, MarkedInv, KnownInv
  <2>9. JoinInv'
    <3>1. \A u \in Tasks : tpc'[u] \in Joining => tpc[u] = tpc'[u] /\ arg'[u] = arg[u]
      BY <2>1, <2>4 DEF Good, Types, Joining
    <3>2. \A u \in Tasks : tpc[u] \in Joining => slot'[arg[u]] = slot[arg[u]]
      BY <1>0, <2>2, <2>4
    <3> QED
      BY <1>2, <3>1, <3>2, JoinKept DEF Good
  <2> QED
    BY <2>3, <2>5, <2>7, <2>8, <2>9 DEF Good
<1>5. CASE CreateProc(t)
  <2>1. tpc[Main] = "prepared" /\ UNCHANGED <<arg, known>>
    BY <1>1, <1>5 DEF CreateProc
  <2>2. /\ arg[Main] \in Slots /\ slot[arg[Main]].task = NoTask
        /\ slot[arg[Main]].parent = Main /\ slot[arg[Main]].status = "IDLE"
    BY <2>1 DEF Good, CreateInv, Creating
  <2>3. \A p \in Procs : Alive(p) => mine[p] # arg[Main]
    BY <2>1, <2>2 DEF Good, AliveInv
  <2>4. ASSUME NEW p \in Procs, tpc[p] = "none",
               tpc' = [tpc EXCEPT ![Main] = "spawned", ![p] = "starting"],
               mine' = [mine EXCEPT ![p] = arg[Main]],
               child' = [child EXCEPT ![Main] = p],
               UNCHANGED slot
        PROVE  Good'
    <3>1. Types'
      BY <1>2, <2>1, <2>2, <2>4 DEF Good, Types, TaskStates
    <3>2. /\ tpc'[Main] = "spawned" /\ tpc'[p] = "starting" /\ mine'[p] = arg[Main]
          /\ child'[Main] = p /\ slot' = slot
          /\ \A q \in Procs : q # p => tpc'[q] = tpc[q] /\ mine'[q] = mine[q]
      BY <2>4 DEF Good, Types
    <3>3. RolesInv' /\ CreateInv' /\ ExitInv'
      BY <1>2, <2>1, <2>2, <2>4, <3>2, Zenon
         DEF Good, RolesInv, CreateInv, ExitInv, MainStates, ProcStates, Creating, Joining
    <3>6. JoinInv'
      <4>1. \A u \in Tasks : tpc'[u] \in Joining => tpc[u] = tpc'[u]
        BY <3>2 DEF Joining
      <4> QED
        BY <1>2, <2>1, <3>2, <4>1, JoinKept DEF Good
    <3>7. p \notin marked /\ KnownInv' /\ MarkedInv'
      BY <1>2, <2>1, <2>4, <3>2 DEF Good, KnownInv, MarkedInv
    <3>4. AliveInv'
      <4>1. ASSUME NEW q \in Procs, q # p, Alive(q)'
            PROVE  /\ mine'[q] \in Slots
                   /\ slot'[mine'[q]].parent = Main
                   /\ slot'[mine'[q]].status = Told(q)'
                   /\ slot'[mine'[q]].task = q
        <5>1. Alive(q) /\ tpc[Main] # "spawned"
          BY <2>1, <3>2, <4>1 DEF Alive
        <5> QED
          BY <1>2, <3>2, <4>1, <5>1 DEF Good, AliveInv, Told
      <4>2. /\ mine'[p] \in Slots
            /\ slot'[mine'[p]].parent = Main
            /\ slot'[mine'[p]].status = Told(p)'
            /\ tpc'[Main] = "spawned" /\ child'[Main] = p
        BY <2>2, <2>4, <3>2 DEF Told
      <4> QED
        BY <4>1, <4>2 DEF AliveInv
    <3>5. SlotInv' /\ JoinedInv'
      <4>1. ASSUME NEW q \in Procs, tpc[q] # "none"
            PROVE  mine'[q] = mine[q] /\ tpc'[q] = tpc[q]
        BY <2>4, <3>2, <4>1, Zenon
      <4> QED
        BY <1>2, <3>2, <4>1 DEF Good, SlotInv, JoinedInv
    <3> QED
      BY <3>1, <3>3, <3>4, <3>5, <3>6, <3>7 DEF Good
  <2>5. ASSUME slot' = [slot EXCEPT ![arg[Main]] = [@ EXCEPT !.task = NoTask, !.parent = NoTask]],
               tpc' = [tpc EXCEPT ![Main] = "running"], UNCHANGED <<mine, child>>
        PROVE  Good'
    <3> DEFINE new == [slot[arg[Main]] EXCEPT !.task = NoTask, !.parent = NoTask]
    <3>0. new \in SlotType
      <4>1. slot[arg[Main]] \in SlotType
        BY <2>2 DEF Good, Types
      <4> QED
        BY <4>1, Zenon DEF SlotType
    <3>1. Types'
      <4>1. slot' = [slot EXCEPT ![arg[Main]] = new]
        BY <2>5
      <4>2. slot' \in [Slots -> SlotType]
        <5> HIDE DEF new
        <5> QED
          BY <3>0, <4>1, Zenon DEF Good, Types
      <4> QED
        BY <1>2, <2>1, <2>5, <4>2 DEF Good, Types, TaskStates
    <3>2. /\ tpc'[Main] = "running" /\ \A q \in Procs : tpc'[q] = tpc[q]
          /\ slot'[arg[Main]].task = NoTask
          /\ \A j \in Slots : j # arg[Main] => slot'[j] = slot[j]
      BY <2>2, <2>5 DEF Good, Types, SlotType
    <3>3. RolesInv' /\ CreateInv' /\ ExitInv'
      BY <1>2, <2>1, <2>5, <3>2
         DEF Good, RolesInv, CreateInv, ExitInv, MainStates, Creating, Joining
    <3>4. AliveInv' /\ SlotInv'
      BY <1>2, <2>1, <2>3, <2>5, <3>2 DEF Good, AliveInv, SlotInv, Told, Alive
    <3>5. JoinedInv' /\ MarkedInv' /\ KnownInv'
      BY <1>10, <1>2, <2>1, <2>2, <3>2 DEF Good, JoinedInv, MarkedInv, KnownInv
    <3>6. JoinInv'
      <4>1. \A u \in Tasks : tpc'[u] \in Joining => tpc[u] = tpc'[u]
        BY <3>2 DEF Joining
      <4>2. \A u \in Tasks : tpc[u] \in Joining => slot'[arg[u]] = slot[arg[u]]
        BY <1>0, <2>2, <3>2
      <4> QED
        BY <1>2, <2>1, <4>1, <4>2, JoinKept DEF Good
    <3> QED
      BY <3>1, <3>3, <3>4, <3>5, <3>6 DEF Good
  <2> QED
    BY <1>1, <1>5, <2>4, <2>5 DEF CreateProc, GoTo
<1>6. CASE StoreTask(t)
  <2> DEFINE i == arg[Main]
             c == child[Main]
  <2>1. /\ tpc[Main] = "spawned" /\ UNCHANGED mine
        /\ slot' = [slot EXCEPT ![i].task = c]
        /\ known' = [known EXCEPT ![Main] = @ \cup {i}]
        /\ child' = [child EXCEPT ![Main] = NoTask] /\ arg' = [arg EXCEPT ![Main] = 0]
        /\ tpc' = [tpc EXCEPT ![Main] = "running"]
    BY <1>1, <1>6 DEF StoreTask, GoTo
  <2>2. i \in Slots /\ slot[i].task = NoTask /\ c \in Procs /\ tpc[c] # "none" /\ mine[c] = i
    BY <2>1 DEF Good, CreateInv, Creating
  <2>3. Types'
    BY <1>2, <2>1, <2>2, SMTT(30) DEF Good, Types, TaskStates, SlotType
  <2>4. /\ tpc'[Main] = "running" /\ \A q \in Procs : tpc'[q] = tpc[q] /\ known'[q] = known[q]
        /\ slot'[i].task = c /\ slot'[i].parent = slot[i].parent /\ slot'[i].status = slot[i].status
        /\ \A j \in Slots : j # i => slot'[j] = slot[j]
    BY <2>1, <2>2 DEF Good, Types, SlotType
  <2>5. RolesInv' /\ CreateInv' /\ ExitInv'
    BY <1>2, <2>1, <2>4, SMTT(30)
       DEF Good, RolesInv, CreateInv, ExitInv, MainStates, Creating, Joining
  <2>6. ASSUME NEW p \in Procs, Alive(p), mine[p] = i PROVE p = c
    BY <2>2, <2>6, SMTT(30) DEF Good, AliveInv
  <2>7. AliveInv'
    BY <1>2, <2>1, <2>2, <2>4, <2>6, SMTT(30) DEF Good, AliveInv, Told, Alive
  <2>8. SlotInv' /\ JoinedInv'
    BY <1>2, <2>1, <2>2, <2>4, SMTT(30) DEF Good, SlotInv, JoinedInv
  <2>9. MarkedInv' /\ KnownInv'
    <3>1. known'[Main] = known[Main] \cup {i}
      BY <2>1 DEF Good, Types
    <3> QED
      BY <1>10, <1>2, <2>2, <2>4, <3>1 DEF Good, MarkedInv, KnownInv
  <2>10. JoinInv'
    <3>1. \A u \in Tasks : tpc'[u] \in Joining => tpc[u] = tpc'[u] /\ arg'[u] = arg[u]
      BY <2>1, <2>4 DEF Good, Types, Joining
    <3>2. \A u \in Tasks : tpc[u] \in Joining => slot'[arg[u]] = slot[arg[u]]
      BY <1>0, <2>2, <2>4
    <3> QED
      BY <1>2, <3>1, <3>2, JoinKept DEF Good
  <2> QED
    BY <2>3, <2>5, <2>7, <2>8, <2>9, <2>10 DEF Good
<1> QED
  BY <1>3, <1>4, <1>5, <1>6 DEF Create

\* Steps of a thread.
LEMMA RunStep ==
    ASSUME Good, NEW p \in Procs, Run(p)
    PROVE  Good'
<1> USE ThreadsAssumption DEF Tasks
<1>1. UNCHANGED <<mine, arg, child, known, joined, exitAt>> /\ p # Main
  BY DEF Run, Start, ReturnFromStart, pthread_exit, Finish
<1>2. ASSUME NEW from \in {"starting", "running", "cleanup"},
             NEW to \in {"running", "cleanup", "dead"},
             NEW st \in {"RUNNING", "DESTRUCT"},
             \/ from = "starting" /\ to = "running" /\ st = "RUNNING" /\ marked' = marked
             \/ from = "running" /\ to = "cleanup" /\ st = "RUNNING" /\ marked' = marked
             \/ /\ from = "running" /\ to = "cleanup" /\ st = "DESTRUCT"
                /\ marked' = marked \cup {p}
             \/ from = "cleanup" /\ to = "dead" /\ st = "DESTRUCT" /\ marked' = marked,
             tpc[p] = from, tpc' = [tpc EXCEPT ![p] = to],
             slot' = [slot EXCEPT ![mine[p]].status = st]
      PROVE  Good'
  <2> DEFINE i == mine[p]
  <2>1. tpc'[p] = to /\ \A t \in Tasks : t # p => tpc'[t] = tpc[t]
    BY <1>2 DEF Good, Types
  <2>2. /\ Alive(p) /\ i \in Slots /\ slot[i].parent = Main
        /\ slot[i].status = Told(p)
        /\ (slot[i].task = p \/ (tpc[Main] = "spawned" /\ child[Main] = p))
    BY <1>2 DEF Good, AliveInv, Alive
  <2>3. /\ slot'[i].status = st /\ slot'[i].parent = Main /\ slot'[i].task = slot[i].task
        /\ \A j \in Slots : j # i => slot'[j] = slot[j]
    BY <1>2, <2>2 DEF Good, Types, SlotType
  <2>4. Types'
    <3>1. slot' \in [Slots -> SlotType]
      BY <1>2, <2>2 DEF Good, Types, SlotType
    <3> QED
      BY <1>1, <1>2, <3>1 DEF Good, Types, TaskStates
  <2>5. RolesInv'
    BY <1>1, <1>2, <2>1 DEF Good, RolesInv, ProcStates
  <2>6. ASSUME NEW q \in Procs, Alive(q), mine[q] = i PROVE q = p
    BY <2>2, <2>6 DEF Good, AliveInv, CreateInv, Creating
  <2>7. CreateInv'
    <3>1. tpc[Main] = "prepared" => arg[Main] # i
      BY <2>2 DEF Good, CreateInv, Creating
    <3>2. tpc[Main] = "spawned" => child[Main] \in Procs /\ tpc'[child[Main]] # "none"
      BY <1>2, <2>1 DEF Good, CreateInv
    <3> QED
      BY <1>1, <1>2, <2>1, <2>3, <3>1, <3>2 DEF Good, CreateInv, Creating
  <2>8. p \notin marked \/ from = "cleanup"
    BY <1>2 DEF Good, MarkedInv
  <2>9. JoinInv'
    <3>1. \A t \in Tasks : tpc'[t] \in Joining => tpc[t] = tpc'[t]
      BY <1>2, <2>1 DEF Joining
    <3>2. slot[i].status = "DESTRUCT" => st = "DESTRUCT"
      BY <1>2, <2>2, <2>8 DEF Told
    <3>3. \A j \in Slots : /\ slot'[j].task = slot[j].task
                           /\ slot[j].status = "DESTRUCT" => slot'[j].status = "DESTRUCT"
      BY <2>3, <3>2
    <3>4. \A t \in Tasks : tpc[t] \in Joining => arg[t] \in Slots
      BY DEF Good, JoinInv
    <3> QED
      BY <1>1, <3>1, <3>3, <3>4, JoinKept DEF Good
  <2>10. AliveInv'
    <3>1. ASSUME NEW q \in Procs, q # p, Alive(q)'
          PROVE  /\ Alive(q) /\ mine[q] # i /\ tpc'[q] = tpc[q] /\ Told(q)' = Told(q)
      <4>1. tpc'[q] = tpc[q] /\ Alive(q)
        BY <2>1, <3>1 DEF Alive
      <4>2. Told(q)' = Told(q)
        BY <1>2, <3>1, <4>1 DEF Told
      <4> QED
        BY <2>6, <3>1, <4>1, <4>2
    <3>2. Alive(p)' => Told(p)' = st
      BY <1>2, <2>1, <2>8 DEF Alive, Told
    <3>3. tpc'[Main] = tpc[Main]
      BY <1>1, <2>1
    <3>4. ASSUME NEW q \in Procs, Alive(q)'
          PROVE  /\ mine[q] \in Slots /\ slot'[mine[q]].parent = Main
                 /\ slot'[mine[q]].status = Told(q)'
                 /\ slot'[mine[q]].task = q \/ (tpc[Main] = "spawned" /\ child[Main] = q)
      <4>1. CASE q = p
        BY <2>2, <2>3, <3>2, <3>4, <4>1
      <4>2. CASE q # p
        BY <2>3, <3>1, <3>4, <4>2 DEF Good, AliveInv
      <4> QED
        BY <4>1, <4>2
    <3> QED
      BY <1>1, <3>3, <3>4 DEF AliveInv
  <2>11. SlotInv'
    BY <1>1, <1>2, <2>1, <2>3 DEF Good, SlotInv
  <2>12. JoinedInv' /\ MarkedInv'
    BY <1>1, <1>2, <2>1 DEF Good, JoinedInv, MarkedInv
  <2>13. KnownInv'
    BY <1>1, <2>3 DEF Good, KnownInv, Types
  <2>14. ExitInv'
    <3>1. tpc'[Main] = tpc[Main] /\ marked \subseteq marked'
      BY <1>1, <1>2, <2>1
    <3>2. \A q \in Procs : Alive(q)' => Alive(q) /\ (tpc'[q] = "starting" => tpc[q] = "starting")
      BY <1>2, <2>1, <2>2 DEF Alive
    <3> QED
      BY <1>1, <3>1, <3>2 DEF Good, ExitInv
  <2> QED
    BY <2>4, <2>5, <2>7, <2>9, <2>10, <2>11, <2>12, <2>13, <2>14 DEF Good
<1>3. CASE Start(p)
  BY <1>2, <1>3 DEF Start, GoTo
<1>4. CASE Finish(p)
  BY <1>2, <1>4 DEF Finish, GoTo
<1>5. ASSUME tpc[p] = "running" PROVE slot = [slot EXCEPT ![mine[p]].status = "RUNNING"]
  <2>1. mine[p] \in Slots /\ slot[mine[p]].status = "RUNNING"
    BY <1>5 DEF Good, AliveInv, Alive, Told, MarkedInv
  <2>2. slot[mine[p]] = [slot[mine[p]] EXCEPT !.status = "RUNNING"]
    BY <2>1 DEF Good, Types, SlotType
  <2> QED
    BY <2>1, <2>2 DEF Good, Types
<1>6. CASE ReturnFromStart(p)
  BY <1>2, <1>5, <1>6 DEF ReturnFromStart, GoTo
<1>7. CASE pthread_exit(p)
  <2> DEFINE i == pthread_self(p)
  <2>1. tpc[p] = "running" /\ tpc' = [tpc EXCEPT ![p] = "cleanup"]
    BY <1>7 DEF pthread_exit, GoTo
  <2>2. CASE i # 0 /\ slot[i].status = "RUNNING"
    <3>1. slot' = [slot EXCEPT ![i].status = "DESTRUCT"] /\ marked' = marked \cup {p}
      BY <1>7, <2>2 DEF pthread_exit
    <3>2. i = mine[p]
      <4>1. GetThreadId(p) # MaxThreads /\ i = GetThreadId(p)
        BY <2>2 DEF pthread_self
      <4>2. GetThreadId(p) \in Slots /\ slot[GetThreadId(p)].task = p
        BY <4>1, FoundSlot DEF Good
      <4> QED
        BY <4>1, <4>2 DEF Good, SlotInv
    <3> QED
      BY <1>2, <2>1, <3>1, <3>2
  <2>3. CASE ~(i # 0 /\ slot[i].status = "RUNNING")
    <3>1. slot' = slot /\ marked' = marked
      BY <1>7, <2>3 DEF pthread_exit
    <3> QED
      BY <1>2, <1>5, <2>1, <3>1
  <2> QED
    BY <2>2, <2>3
<1> QED
  BY <1>3, <1>4, <1>6, <1>7 DEF Run

\* Steps of a task in pthread_join, called by itself or by the exit function.
LEMMA JoinStep ==
    ASSUME Good, overtaken' = {}, NEW t \in Tasks, JoinCall(t) \/ Join(t)
    PROVE  Good'
<1> USE ThreadsAssumption DEF Tasks
<1>1. UNCHANGED <<mine, child, exitAt, marked>>
  BY DEF JoinCall, Join, JoinTest, JoinWait, JoinClear
<1>2. ASSUME NEW from \in TaskStates, NEW to \in TaskStates, tpc[t] = from,
             tpc' = [tpc EXCEPT ![t] = to], UNCHANGED <<slot, joined, known>>,
             arg' \in [Tasks -> 0..MaxThreads], arg'[t] \in Slots,
             \A u \in Tasks : u # t => arg'[u] = arg[u],
             \/ from = "running" /\ to = "joining"
             \/ from \in Joining /\ to \in Joining,
             to = "clearing" => slot[arg'[t]].status = "DESTRUCT",
             exitAt = 0 => /\ slot[arg'[t]].task # NoTask
                           /\ \A u \in Tasks : u # t /\ tpc[u] \in Joining => arg[u] # arg'[t],
             from # "running" => arg' = arg
      PROVE  Good'
  <2>1. tpc'[t] = to /\ to \in Joining /\ \A u \in Tasks : u # t => tpc'[u] = tpc[u]
    BY <1>2 DEF Good, Types, Joining
  <2>2. Types'
    BY <1>1, <1>2 DEF Good, Types, TaskStates, Joining
  <2>3. RolesInv'
    BY <1>2, <2>1 DEF Good, RolesInv, MainStates, ProcStates
  <2>4. CreateInv'
    <3>1. tpc'[Main] \in Creating => t # Main
      BY <2>1 DEF Creating, Joining
    <3>2. ASSUME tpc[Main] = "spawned", tpc[child[Main]] # "none", child[Main] \in Procs
          PROVE  tpc'[child[Main]] # "none"
      BY <2>1, <3>2 DEF Joining
    <3> QED
      BY <1>1, <1>2, <2>1, <3>1, <3>2 DEF Good, CreateInv, Creating
  <2>5. JoinInv'
    <3>1. ASSUME NEW u \in Tasks, tpc'[u] \in Joining
          PROVE  /\ arg'[u] \in Slots
                 /\ tpc'[u] = "clearing" =>
                       \/ slot[arg'[u]].status = "DESTRUCT"
                       \/ exitAt > 0 /\ slot[arg'[u]].task = NoTask
                 /\ exitAt = 0 => slot[arg'[u]].task # NoTask
      <4>1. CASE u = t
        BY <1>2, <2>1, <4>1
      <4>2. CASE u # t
        BY <1>2, <2>1, <3>1, <4>2 DEF Good, JoinInv
      <4> QED
        BY <4>1, <4>2
    <3>2. ASSUME exitAt = 0, NEW u \in Tasks, tpc'[u] \in Joining,
                 NEW v \in Tasks, tpc'[v] \in Joining, arg'[u] = arg'[v]
          PROVE  u = v
      <4>1. CASE u = t \/ v = t
        BY <1>2, <2>1, <3>2, <4>1
      <4>2. CASE u # t /\ v # t
        BY <1>2, <2>1, <3>2, <4>2 DEF Good, JoinInv
      <4> QED
        BY <4>1, <4>2
    <3> QED
      BY <1>1, <1>2, <3>1, <3>2 DEF JoinInv
  <2>6. /\ \A p \in Procs : Alive(p)' <=> Alive(p)
        /\ \A p \in Procs : Alive(p) => Told(p)' = Told(p)
        /\ \A p \in Procs : tpc'[p] = "starting" => tpc[p] = "starting"
        /\ \A p \in Procs : tpc[p] \in {"cleanup", "dead"} => tpc'[p] = tpc[p]
        /\ \A p \in Procs : tpc[p] # "none" => tpc'[p] # "none"
    BY <1>1, <1>2, <2>1 DEF Alive, Told, Joining
  <2>7. t = Main => tpc[Main] # "spawned" /\ tpc'[Main] # "spawned"
                    /\ (from = "running" => exitAt = 0)
    <3>1. t = Main => tpc[Main] # "spawned" /\ tpc'[Main] # "spawned"
      BY <1>2, <2>1 DEF Joining
    <3>2. ASSUME tpc[Main] = "running" PROVE exitAt = 0
      <4>1. ~(exitAt > 0)
        BY <3>2 DEF Good, ExitInv, Joining
      <4>2. exitAt \in Nat
        BY DEF Good, Types
      <4> QED BY <4>1, <4>2
    <3> QED BY <1>2, <3>1, <3>2, Zenon
  <2>8. AliveInv'
    <3>1. tpc[Main] = "spawned" => tpc'[Main] = "spawned"
      BY <2>1, <2>7, Zenon
    <3> QED
      BY <1>1, <1>2, <2>6, <3>1, AliveKept, Zenon DEF Good
  <2>9. SlotInv' /\ JoinedInv' /\ MarkedInv' /\ KnownInv'
    BY <1>1, <1>2, <2>6 DEF Good, SlotInv, JoinedInv, MarkedInv, KnownInv
  <2>10. ExitInv'
    <3>1. CASE t # Main
      <4>1. tpc'[Main] = tpc[Main] /\ arg'[Main] = arg[Main]
        BY <1>2, <2>1, <3>1
      <4> QED
        BY <1>1, <2>6, <4>1 DEF Good, ExitInv
    <3>2. CASE t = Main
      <4>1. tpc'[Main] \in Joining /\ (exitAt > 0 => arg' = arg /\ tpc[Main] \in Joining)
        BY <1>2, <2>1, <2>7, <3>2 DEF Good, Types
      <4> QED
        BY <1>1, <2>6, <4>1 DEF Good, ExitInv, Joining
    <3> QED
      BY <3>1, <3>2
  <2> QED
    BY <2>2, <2>3, <2>4, <2>5, <2>8, <2>9, <2>10 DEF Good
<1>3. CASE JoinCall(t)
  <2>1. PICK i \in Joinable(t) : arg' = [arg EXCEPT ![t] = i]
    BY <1>3 DEF JoinCall
  <2>2. /\ tpc[t] = "running" /\ UNCHANGED <<slot, joined, known>>
        /\ tpc' = [tpc EXCEPT ![t] = "joining"]
    BY <1>3, Zenon DEF JoinCall, GoTo
  <2>3. /\ i \in Slots
        /\ \A u \in Tasks : tpc[u] \in Joining => arg[u] # i
        /\ i \in known[t] \/ \E u \in Tasks : i \in known[u]
    BY <2>1, Zenon DEF Joinable
  <2>4. exitAt = 0 => slot[i].task # NoTask
    BY <2>3 DEF Good, KnownInv, RolesInv
  <2>5. /\ arg' \in [Tasks -> 0..MaxThreads] /\ arg'[t] = i
        /\ \A u \in Tasks : u # t => arg'[u] = arg[u]
    BY <2>1, <2>3 DEF Good, Types, Slots
  <2> QED
    BY <1>2, <2>2, <2>3, <2>4, <2>5 DEF TaskStates
<1>4. ASSUME tpc[t] \in Joining
      PROVE  /\ arg \in [Tasks -> 0..MaxThreads] /\ arg[t] \in Slots
             /\ exitAt = 0 => /\ slot[arg[t]].task # NoTask
                              /\ \A u \in Tasks : u # t /\ tpc[u] \in Joining => arg[u] # arg[t]
  BY <1>4 DEF Good, Types, JoinInv
<1>5. CASE JoinTest(t)
  <2>1. /\ tpc[t] = "joining" /\ UNCHANGED <<slot, joined, arg, known>>
        /\ \/ tpc' = [tpc EXCEPT ![t] = "clearing"] /\ slot[arg[t]].status = "DESTRUCT"
           \/ tpc' = [tpc EXCEPT ![t] = "waiting"]
    BY <1>5, Zenon DEF JoinTest, GoTo
  <2> QED
    BY <1>2, <1>4, <2>1 DEF Joining, TaskStates
<1>6. CASE JoinWait(t)
  <2>1. /\ tpc[t] = "waiting" /\ UNCHANGED <<slot, joined, arg, known>>
        /\ tpc' = [tpc EXCEPT ![t] = "joining"]
    BY <1>6 DEF JoinWait, GoTo
  <2> QED
    BY <1>2, <1>4, <2>1 DEF Joining, TaskStates
<1>7. CASE JoinClear(t)
  <2> DEFINE i == arg[t]
             back == IF t = Main /\ exitAt > 0 THEN "exiting" ELSE "running"
  <2>1. /\ tpc[t] = "clearing"
        /\ joined' = joined \cup ({slot[i].task} \ {NoTask})
        /\ slot' = [slot EXCEPT ![i] = Cleared]
        /\ known' = [u \in Tasks |-> known[u] \ {i}]
        /\ arg' = [arg EXCEPT ![t] = 0]
        /\ tpc' = [tpc EXCEPT ![t] = back]
        /\ \A p \in marked : p = slot[i].task => tpc[p] = "dead"
    BY <1>7 DEF JoinClear, GoTo
  <2>2. /\ i \in Slots
        /\ slot[i].status = "DESTRUCT" \/ (exitAt > 0 /\ slot[i].task = NoTask)
        /\ exitAt = 0 => slot[i].task # NoTask
    BY <2>1 DEF Good, JoinInv, Joining
  <2>3. ASSUME NEW p \in Procs, Alive(p), mine[p] = i PROVE FALSE
    <3>1. slot[i].task = p
      <4>1. slot[i].task = p \/ (tpc[Main] = "spawned" /\ child[Main] = p)
        BY <2>3 DEF Good, AliveInv
      <4>2. ASSUME tpc[Main] = "spawned", child[Main] = p PROVE FALSE
        <5>1. exitAt = 0
          BY <4>2 DEF Good, ExitInv, Types, Joining
        <5>2. slot[mine[p]].task = NoTask
          BY <4>2 DEF Good, CreateInv, Creating
        <5> QED
          BY <2>2, <2>3, <5>1, <5>2
      <4> QED
        BY <4>1, <4>2
    <3>2. slot[i].status = "DESTRUCT"
      BY <2>2, <3>1
    <3>3. p \in marked
      BY <2>3, <3>2 DEF Good, AliveInv, Told
    <3> QED
      BY <2>1, <2>3, <3>1, <3>3 DEF Alive
  <2>4. /\ tpc'[t] = back /\ \A u \in Tasks : u # t => tpc'[u] = tpc[u] /\ arg'[u] = arg[u]
        /\ \A u \in Tasks : known'[u] = known[u] \ {i}
        /\ slot'[i] = Cleared /\ \A j \in Slots : j # i => slot'[j] = slot[j]
    BY <2>1, <2>2 DEF Good, Types
  <2>5. Types'
    <3>1. Cleared \in SlotType
      BY DEF Cleared, SlotType
    <3>2. slot' \in [Slots -> SlotType] /\ known' \in [Tasks -> SUBSET Slots]
      BY <2>1, <3>1 DEF Good, Types
    <3>3. tpc' \in [Tasks -> TaskStates]
      <4>1. back \in TaskStates
        BY DEF TaskStates
      <4> QED
        BY <2>1, <4>1, Zenon DEF Good, Types
    <3>4. arg' \in [Tasks -> 0..MaxThreads]
      BY <2>1 DEF Good, Types
    <3> QED
      BY <1>1, <3>2, <3>3, <3>4 DEF Good, Types
  <2>6. RolesInv'
    <3>1. back \in MainStates /\ (t # Main => back \in ProcStates)
      BY DEF MainStates, ProcStates
    <3>2. tpc'[Main] \in MainStates
      BY <2>4, <3>1, Zenon DEF Good, RolesInv
    <3>3. ASSUME NEW p \in Procs PROVE tpc'[p] \in ProcStates /\ known'[p] = {}
      <4>3. p \in Tasks /\ p # Main /\ tpc[p] \in ProcStates /\ known[p] = {}
        BY Zenon DEF Good, RolesInv
      <4>4. known'[p] = known[p] \ {i}
        BY <2>4, <4>3, Zenon
      <4>1. known'[p] = {}
        BY <4>3, <4>4
      <4>2. tpc'[p] \in ProcStates
        BY <2>4, <3>1, <4>3, Zenon
      <4> QED
        BY <4>1, <4>2
    <3> QED
      BY <3>2, <3>3, Zenon DEF RolesInv
  <2>7. CreateInv'
    <3>1. CASE t = Main
      BY <2>4, <3>1 DEF CreateInv, Creating
    <3>2. CASE t # Main
      <4>1. tpc'[Main] = tpc[Main] /\ arg'[Main] = arg[Main]
        BY <2>4, <3>2
      <4>2. tpc[Main] \in Creating => exitAt = 0
        BY DEF Good, ExitInv, Types, Creating, Joining
      <4>3. tpc[Main] \in Creating => arg[Main] \in Slots /\ arg[Main] # i
        BY <2>2, <4>2 DEF Good, CreateInv
      <4>4. \A p \in Procs : tpc[p] # "none" => tpc'[p] # "none"
        BY <2>4
      <4>5. tpc[Main] \in Creating => slot'[arg[Main]] = slot[arg[Main]]
        BY <2>4, <4>3
      <4> QED
        BY <1>1, <4>1, <4>4, <4>5, Zenon DEF Good, CreateInv, Creating
    <3> QED
      BY <3>1, <3>2
  <2>8. JoinInv'
    <3>1. ASSUME NEW u \in Tasks, tpc'[u] \in Joining
          PROVE  /\ u # t /\ tpc'[u] = tpc[u] /\ arg'[u] = arg[u] /\ arg[u] \in Slots
                 /\ exitAt = 0 => arg[u] # i
      <4>1. u # t
        BY <2>4, <3>1 DEF Joining
      <4> QED
        BY <2>1, <2>4, <3>1, <4>1 DEF Good, JoinInv, Joining
    <3>2. ASSUME NEW u \in Tasks, tpc'[u] \in Joining
          PROVE  /\ tpc'[u] = "clearing" =>
                       \/ slot'[arg[u]].status = "DESTRUCT"
                       \/ exitAt > 0 /\ slot'[arg[u]].task = NoTask
                 /\ exitAt = 0 => slot'[arg[u]].task # NoTask
      <4>1. CASE arg[u] = i
        <5>1. exitAt > 0 /\ slot'[arg[u]].task = NoTask
          <6>1. exitAt # 0 /\ exitAt \in Nat
            <7>1. exitAt # 0
              BY <3>1, <3>2, <4>1, Zenon
            <7>2. exitAt \in Nat
              BY DEF Good, Types
            <7> QED BY <7>1, <7>2
          <6>2. slot'[arg[u]] = Cleared
            BY <2>4, <4>1
          <6>3. exitAt > 0
            BY <6>1
          <6>4. Cleared.task = NoTask
            BY DEF Cleared
          <6> QED
            BY <6>2, <6>3, <6>4, Zenon
        <5> QED
          BY <5>1, <3>1, <3>2, <4>1
      <4>2. CASE arg[u] # i
        <5>1. slot'[arg[u]] = slot[arg[u]] /\ tpc[u] \in Joining /\ tpc'[u] = tpc[u]
          BY <2>4, <3>1, <3>2, <4>2
        <5>2. /\ tpc[u] = "clearing" =>
                    slot[arg[u]].status = "DESTRUCT" \/ (exitAt > 0 /\ slot[arg[u]].task = NoTask)
              /\ exitAt = 0 => slot[arg[u]].task # NoTask
          BY <5>1, Zenon DEF Good, JoinInv
        <5> QED
          BY <5>1, <5>2
      <4> QED
        BY <4>1, <4>2
    <3>3. ASSUME exitAt = 0, NEW u \in Tasks, tpc'[u] \in Joining,
                 NEW v \in Tasks, tpc'[v] \in Joining, arg'[u] = arg'[v]
          PROVE  u = v
      BY <3>1, <3>3 DEF Good, JoinInv
    <3> QED
      BY <1>1, <3>1, <3>2, <3>3 DEF JoinInv
  <2>9. KnownInv'
    <3> SUFFICES ASSUME exitAt = 0, NEW j \in known'[Main] PROVE slot'[j].task # NoTask
      BY <1>1, Zenon DEF KnownInv
    <3>1. j \in known[Main] /\ j # i
      BY <2>4
    <3>2. j \in Slots /\ slot[j].task # NoTask
      BY <3>1 DEF Good, KnownInv, Types
    <3> QED
      BY <2>4, <3>1, <3>2
  <2>10. /\ \A p \in Procs : Alive(p)' => Alive(p) /\ Told(p)' = Told(p)
         /\ \A p \in Procs : tpc'[p] = "starting" => tpc[p] = "starting"
         /\ \A p \in Procs : tpc[p] \in {"cleanup", "dead"} => tpc'[p] = tpc[p]
         /\ \A p \in Procs : tpc[p] # "none" => tpc'[p] # "none"
    <3>1. tpc'[t] \in {"exiting", "running"}
      BY <2>4, Zenon
    <3>2. ASSUME NEW p \in Procs
          PROVE  /\ Alive(p)' => Alive(p) /\ Told(p)' = Told(p)
                 /\ tpc'[p] = "starting" => tpc[p] = "starting"
                 /\ tpc[p] \in {"cleanup", "dead"} => tpc'[p] = tpc[p]
                 /\ tpc[p] # "none" => tpc'[p] # "none"
      <4>1. CASE p = t
        BY <1>1, <2>1, <3>1, <4>1 DEF Alive, Told
      <4>2. CASE p # t
        BY <1>1, <2>4, <4>2 DEF Alive, Told
      <4> QED
        BY <4>1, <4>2
    <3> QED
      BY <3>2, Zenon
  <2>11. tpc[Main] = "spawned" <=> tpc'[Main] = "spawned"
    BY <2>1, <2>4
  <2>12. AliveInv'
    <3>1. \A p \in Procs : Alive(p) => mine[p] \in Slots /\ mine[p] # i
      BY <2>3 DEF Good, AliveInv
    <3>2. \A p \in Procs : Alive(p) => slot'[mine[p]] = slot[mine[p]]
      BY <2>4, <3>1, Zenon
    <3> QED
      BY <1>1, <2>10, <2>11, <3>2, AliveKept DEF Good
  <2>13. SlotInv'
    <3> SUFFICES ASSUME NEW j \in Slots, slot'[j].task # NoTask
                 PROVE  /\ slot'[j].task \in Procs /\ mine[slot'[j].task] = j
                        /\ tpc'[slot'[j].task] # "none"
      BY <1>1, Zenon DEF SlotInv
    <3>1. j # i
      BY <2>4 DEF Cleared
    <3>2. slot'[j] = slot[j]
      BY <2>4, <3>1
    <3>3. slot[j].task \in Procs /\ mine[slot[j].task] = j /\ tpc[slot[j].task] # "none"
      BY <3>2 DEF Good, SlotInv
    <3> QED
      BY <2>10, <3>2, <3>3
  <2>14. slot[i].task # NoTask => slot[i].task \in Procs /\ tpc[slot[i].task] = "dead"
    <3> SUFFICES ASSUME slot[i].task # NoTask
                 PROVE  slot[i].task \in Procs /\ tpc[slot[i].task] = "dead"
      OBVIOUS
    <3>1. slot[i].task \in Procs /\ mine[slot[i].task] = i /\ tpc[slot[i].task] # "none"
      BY <2>2 DEF Good, SlotInv
    <3> QED
      BY <2>3, <3>1 DEF Alive
  <2>15. JoinedInv' /\ MarkedInv'
    <3>1. ASSUME NEW p \in joined' PROVE p \in Procs /\ tpc[p] = "dead"
      <4>1. p \in joined \/ (p = slot[i].task /\ slot[i].task # NoTask)
        BY <2>1, Zenon
      <4>2. p \in joined => p \in Procs /\ tpc[p] = "dead"
        BY DEF Good, JoinedInv
      <4> QED
        BY <2>14, <4>1, <4>2
    <3>2. JoinedInv'
      BY <2>10, <3>1 DEF JoinedInv
    <3>3. MarkedInv'
      BY <1>1, <2>10 DEF Good, MarkedInv
    <3> QED
      BY <3>2, <3>3
  <2>16. ExitInv'
    <3>1. CASE t # Main
      <4>1. tpc'[Main] = tpc[Main] /\ arg'[Main] = arg[Main]
        BY <2>4, <3>1
      <4> QED
        BY <1>1, <2>10, <4>1 DEF Good, ExitInv
    <3>2. CASE t = Main
      <4>1. tpc[Main] \in Joining /\ tpc'[Main] = IF exitAt > 0 THEN "exiting" ELSE "running"
        BY <2>1, <2>4, <3>2 DEF Joining
      <4>2. exitAt \in Nat
        BY DEF Good, Types
      <4>3. ASSUME Patient, exitAt > 0, NEW p \in Procs, Alive(p)'
            PROVE  tpc'[p] # "starting" /\ (p \in marked \/ mine[p] >= exitAt)
        BY <2>3, <2>10, <3>2, <4>3 DEF Good, ExitInv
      <4> QED
        BY <1>1, <4>1, <4>2, <4>3 DEF ExitInv, Joining
    <3> QED
      BY <3>1, <3>2
  <2> QED
    BY <2>5, <2>6, <2>7, <2>8, <2>9, <2>12, <2>13, <2>15, <2>16 DEF Good
<1> QED
  BY <1>3, <1>5, <1>6, <1>7 DEF Join

\* Steps of the exit function.
LEMMA ExitStep ==
    ASSUME Good, ExitCall \/ Exit
    PROVE  Good'
<1> USE ThreadsAssumption DEF Tasks
<1>1. /\ UNCHANGED <<slot, mine, child, known, joined, marked>>
      /\ tpc[Main] \in {"running", "exiting"}
  BY Zenon DEF ExitCall, Exit, ExitVisit, ExitReturn
<1>2. \A p \in Procs : Alive(p) => mine[p] \in Slots /\ mine[p] >= 1
  BY SMTT(30) DEF Good, AliveInv, Slots
<1>3. ASSUME NEW to \in {"joining", "exiting", "exited"}, tpc' = [tpc EXCEPT ![Main] = to],
             exitAt' \in 1..MaxThreads,
             arg' \in [Tasks -> 0..MaxThreads], to = "joining" => arg'[Main] \in Slots,
             \A p \in Procs : arg'[p] = arg[p],
             to = "exited" => exitAt' = MaxThreads,
             Patient => \A p \in Procs : Alive(p) =>
                 /\ tpc[p] # "starting"
                 /\ \/ p \in marked \/ mine[p] >= exitAt'
                    \/ to = "joining" /\ arg'[Main] = mine[p]
      PROVE  Good'
  <2>1. tpc'[Main] = to /\ \A p \in Procs : tpc'[p] = tpc[p]
    BY <1>3 DEF Good, Types
  <2>2. Types'
    BY <1>1, <1>3 DEF Good, Types, TaskStates
  <2>3. RolesInv' /\ CreateInv'
    BY <1>1, <1>3, <2>1, Zenon DEF Good, RolesInv, CreateInv, MainStates, Creating, Joining
  <2>7. exitAt' > 0 /\ KnownInv'
    <3>1. exitAt' > 0 /\ exitAt' # 0
      BY <1>3, Positive, Zenon
    <3> QED
      BY <3>1, Zenon DEF KnownInv
  <2>8. JoinInv'
    <3>1. ASSUME NEW u \in Tasks, tpc'[u] \in Joining
          PROVE  /\ arg'[u] \in Slots
                 /\ tpc'[u] = "clearing" =>
                       slot[arg'[u]].status = "DESTRUCT" \/ slot[arg'[u]].task = NoTask
      <4>1. CASE u = Main
        BY <1>3, <2>1, <3>1, <4>1 DEF Joining
      <4>2. CASE u # Main
        BY <1>3, <2>1, <3>1, <4>2 DEF Good, JoinInv
      <4> QED
        BY <4>1, <4>2
    <3>2. exitAt' # 0
      BY <2>7
    <3> QED
      BY <1>1, <2>7, <3>1, <3>2, Zenon DEF JoinInv
  <2>4. AliveInv' /\ SlotInv' /\ JoinedInv' /\ MarkedInv'
    <3>1. tpc[Main] # "spawned"
      BY <1>1, Zenon
    <3>2. AliveInv'
      <4>1. \A p \in Procs : Alive(p)' => Alive(p) /\ Told(p)' = Told(p)
        BY <1>1, <2>1 DEF Alive, Told
      <4> QED
        BY <1>1, <3>1, <4>1, AliveKept, Zenon DEF Good
    <3>3. SlotInv' /\ JoinedInv' /\ MarkedInv'
      BY <1>1, <2>1, SMTT(30) DEF Good, SlotInv, JoinedInv, MarkedInv
    <3> QED
      BY <3>2, <3>3
  <2>5. \A p \in Procs : Alive(p)' <=> Alive(p)
    BY <2>1 DEF Alive
  <2>6. ExitInv'
    BY <1>1, <1>3, <2>1, <2>5, SMTT(30) DEF ExitInv, Joining
  <2> QED
    BY <2>2, <2>3, <2>4, <2>6, <2>7, <2>8 DEF Good
<1>x. ASSUME tpc[Main] = "exiting", exitAt > 0, Patient, NEW p \in Procs, Alive(p)
      PROVE  tpc[p] # "starting" /\ (p \in marked \/ mine[p] >= exitAt)
  <2>1. tpc[Main] \notin Joining
    BY <1>x DEF Joining
  <2> QED
    BY <1>x, <2>1, Zenon DEF Good, ExitInv
<1>4. CASE ExitCall
  <2>1. /\ tpc' = [tpc EXCEPT ![Main] = "exiting"] /\ exitAt' = 1 /\ UNCHANGED arg
        /\ Patient => \A p \in Procs : tpc[p] # "starting"
    BY <1>4 DEF ExitCall, GoTo
  <2>2. 1 \in 1..MaxThreads /\ arg \in [Tasks -> 0..MaxThreads]
    BY DEF Good, Types
  <2>3. /\ exitAt' \in 1..MaxThreads /\ arg' \in [Tasks -> 0..MaxThreads]
        /\ \A p \in Procs : arg'[p] = arg[p]
    BY <2>1, <2>2, Zenon
  <2>4. Patient => \A p \in Procs : Alive(p) => tpc[p] # "starting" /\ mine[p] >= exitAt'
    BY <1>2, <2>1
  <2> QED
    BY <1>3, <2>1, <2>3, <2>4, Zenon
<1>5. CASE ExitVisit
  <2>1. /\ tpc[Main] = "exiting" /\ exitAt \in Slots /\ exitAt' = exitAt + 1
    BY <1>5 DEF ExitVisit
  <2>2. exitAt' \in 1..MaxThreads /\ exitAt \in Nat /\ exitAt > 0
    BY <2>1 DEF Slots
  <2>3. CASE slot[exitAt].status = "RUNNING" /\ slot[exitAt].parent # NoTask
    <3>1. arg' = [arg EXCEPT ![Main] = exitAt] /\ tpc' = [tpc EXCEPT ![Main] = "joining"]
      BY <1>5, <2>3, Zenon DEF ExitVisit, GoTo
    <3>2. /\ arg' \in [Tasks -> 0..MaxThreads] /\ arg'[Main] = exitAt
          /\ \A p \in Procs : arg'[p] = arg[p]
      BY <2>1, <3>1 DEF Good, Types, Slots
    <3>3. Patient => \A p \in Procs : Alive(p) =>
              tpc[p] # "starting" /\ (p \in marked \/ mine[p] >= exitAt' \/ exitAt = mine[p])
      BY <2>1, <2>2, <1>2 DEF Good, ExitInv, Joining, Slots
    <3> QED
      BY <1>3, <2>1, <2>2, <3>1, <3>2, <3>3, SMTT(30)
  <2>4. CASE ~(slot[exitAt].status = "RUNNING" /\ slot[exitAt].parent # NoTask)
    <3>1. arg' = arg /\ tpc' = tpc
      BY <1>5, <2>4, Zenon DEF ExitVisit
    <3>2. tpc' = [tpc EXCEPT ![Main] = "exiting"] /\ arg' \in [Tasks -> 0..MaxThreads]
      BY <2>1, <3>1 DEF Good, Types
    <3>3. ASSUME Patient, NEW p \in Procs, Alive(p)
          PROVE  tpc[p] # "starting" /\ (p \in marked \/ mine[p] >= exitAt')
      <4>1. tpc[p] # "starting" /\ (p \in marked \/ mine[p] >= exitAt)
        BY <1>x, <2>1, <2>2, <3>3, Zenon
      <4>2. p \notin marked => slot[mine[p]].status = "RUNNING" /\ slot[mine[p]].parent = Main
        <5>1. slot[mine[p]].status = Told(p) /\ slot[mine[p]].parent = Main
          BY <3>3, Zenon DEF Good, AliveInv
        <5> QED
          BY <4>1, <5>1, Zenon DEF Told
      <4>3. mine[p] \in Slots /\ Main # NoTask
        BY <1>2, <3>3
      <4>4. p \notin marked => mine[p] # exitAt
        BY <2>4, <4>2, <4>3, Zenon
      <4>5. mine[p] \in Int /\ exitAt \in Int /\ exitAt' = exitAt + 1
        BY <2>1, <2>2, <4>3 DEF Slots
      <4>6. mine[p] >= exitAt /\ mine[p] # exitAt => mine[p] >= exitAt'
        BY ONLY <4>5
      <4> QED
        BY ONLY <4>1, <4>4, <4>6, Zenon
    <3>4. \A p \in Procs : arg'[p] = arg[p]
      BY <3>1
    <3> QED
      BY <1>3, <2>2, <3>2, <3>3, <3>4, SMTT(30)
  <2> QED
    BY <2>3, <2>4
<1>6. CASE ExitReturn
  <2>1. /\ tpc[Main] = "exiting" /\ exitAt = MaxThreads /\ UNCHANGED <<arg, exitAt>>
        /\ tpc' = [tpc EXCEPT ![Main] = "exited"]
    BY <1>6 DEF ExitReturn, GoTo
  <2>2. Patient => \A p \in Procs : Alive(p) =>
            tpc[p] # "starting" /\ (p \in marked \/ mine[p] >= exitAt)
    <3>1. exitAt > 0
      BY <2>1
    <3> QED
      BY <1>x, <2>1, <3>1, Zenon
  <2>3. exitAt' \in 1..MaxThreads /\ exitAt' = MaxThreads
    BY <2>1
  <2>4. arg' \in [Tasks -> 0..MaxThreads] /\ \A p \in Procs : arg'[p] = arg[p]
    BY <2>1, Zenon DEF Good, Types
  <2>5. Patient => \A p \in Procs : Alive(p) =>
            tpc[p] # "starting" /\ (p \in marked \/ mine[p] >= exitAt')
    BY <2>1, <2>2, Zenon
  <2> QED
    BY <1>3, <2>1, <2>3, <2>4, <2>5, Zenon
<1> QED
  BY <1>4, <1>5, <1>6 DEF Exit

\* Every step of main() and of the threads keeps the invariant.
LEMMA NextInv ==
    ASSUME Creators = {Main}, Inv, [Next]_vars
    PROVE  Inv'
<1> SUFFICES ASSUME overtaken' = {} PROVE Good'
  BY DEF Inv
<1>1. overtaken \subseteq overtaken'
  BY Zenon DEF Next, vars, PickSlot, Create, PrepareSlot, CreateProc, StoreTask, JoinCall, Join,
         JoinTest, JoinWait, JoinClear, Run, Start, ReturnFromStart, pthread_exit, Finish,
         ExitCall, Exit, ExitVisit, ExitReturn, Terminated
<1>2. Good
  BY <1>1 DEF Inv
<1>3. ASSUME NEW t \in Tasks, PickSlot(t) \/ Create(t) PROVE Good'
  BY <1>2, <1>3, CreateStep
<1>4. ASSUME NEW t \in Tasks, JoinCall(t) \/ Join(t) PROVE Good'
  BY <1>2, <1>4, JoinStep
<1>5. ASSUME NEW p \in Procs, Run(p) PROVE Good'
  BY <1>2, <1>5, RunStep
<1>6. CASE ExitCall \/ Exit
  BY <1>2, <1>6, ExitStep
<1>7. CASE UNCHANGED vars
  <2>1. UNCHANGED <<slot, tpc, mine, arg, child, known, joined, exitAt, marked>>
    BY <1>7, Zenon DEF vars
  <2>2. Types' /\ RolesInv' /\ CreateInv' /\ JoinInv' /\ KnownInv'
    BY <1>2, <2>1, Zenon DEF Good, Types, RolesInv, CreateInv, JoinInv, KnownInv
  <2>3. AliveInv' /\ SlotInv' /\ JoinedInv' /\ MarkedInv' /\ ExitInv'
    BY <1>2, <2>1, Zenon DEF Good, AliveInv, SlotInv, JoinedInv, MarkedInv, ExitInv, Alive, Told
  <2> QED
    BY <2>2, <2>3, Zenon DEF Good
<1> QED
  BY <1>3, <1>4, <1>5, <1>6, <1>7 DEF Next, Terminated

\* A live thread is told by its slot, and nobody creates one there.
LEMMA InvExclusive == Inv => SlotsExclusive
<1> SUFFICES ASSUME Good, NEW p \in Procs, Alive(p)
             PROVE  /\ \A q \in Procs : Alive(q) /\ mine[p] = mine[q] => p = q
                    /\ \A t \in Tasks : tpc[t] \in {"picked", "prepared"} => arg[t] # mine[p]
  BY DEF Inv, SlotsExclusive
<1>1. ASSUME NEW q \in Procs, Alive(q), mine[p] = mine[q] PROVE p = q
  <2>1. slot[mine[p]].task = p \/ (tpc[Main] = "spawned" /\ child[Main] = p)
    BY DEF Good, AliveInv
  <2>2. slot[mine[p]].task = q \/ (tpc[Main] = "spawned" /\ child[Main] = q)
    BY <1>1, SMTT(30) DEF Good, AliveInv
  <2>3. tpc[Main] = "spawned" => slot[mine[child[Main]]].task = NoTask
    BY SMTT(30) DEF Good, CreateInv, Creating
  <2> QED
    BY <1>1, <2>1, <2>2, <2>3, ThreadsAssumption DEF Tasks
<1>2. ASSUME NEW t \in Tasks, tpc[t] \in {"picked", "prepared"} PROVE arg[t] # mine[p]
  <2>1. t = Main
    BY <1>2 DEF Good, RolesInv, ProcStates, Joining, Tasks
  <2>2. slot[arg[Main]].task = NoTask /\ tpc[Main] # "spawned"
    BY <1>2, <2>1, Zenon DEF Good, CreateInv, Creating
  <2> QED
    BY <2>1, <2>2, ThreadsAssumption DEF Good, AliveInv, Tasks
<1> QED
  BY <1>1, <1>2

\* When main() is the only task that creates threads, no two live threads
\* share a ThreadInfo and pthread_create never prepares that of a live one,
\* for any number of threads and any size of the table, until a pthread_join
\* overtakes a thread that has called pthread_exit.
THEOREM SlotSafety ==
    ASSUME Creators = {Main}
    PROVE  Spec => []SlotsExclusive
<1>1. Inv /\ [Next]_vars => Inv'
  BY NextInv
<1> QED
  BY InitInv, <1>1, InvExclusive, PTL DEF Spec

\* When main() is the only task that creates threads, a thread that
\* pthread_join has returned for is gone, whoever joined it, until a
\* pthread_join overtakes a thread that has called pthread_exit.
THEOREM JoinSafety ==
    ASSUME Creators = {Main}
    PROVE  Spec => []JoinedIsDone
<1>1. Inv /\ [Next]_vars => Inv'
  BY NextInv
<1>2. Inv => JoinedIsDone
  BY DEF Inv, Good, JoinedInv, JoinedIsDone, JoinedIsGone
<1> QED
  BY InitInv, <1>1, <1>2, PTL DEF Spec

\* When main() is the only task that creates threads, and returns only once
\* they run, the exit function has waited for all of them, whichever of the slots they have, but for those in
\* the cleanup after a pthread_exit; and this until a pthread_join overtakes
\* one of those.
THEOREM ExitSafety ==
    ASSUME Creators = {Main}, Patient
    PROVE  Spec => []ExitWaits
<1>1. Inv /\ [Next]_vars => Inv'
  BY NextInv
<1>2. Inv => ExitWaits
  <2> SUFFICES ASSUME Good, tpc[Main] = "exited", NEW p \in Procs, Alive(p)
               PROVE  p \in marked /\ tpc[p] = "cleanup"
    BY DEF Inv, ExitWaits
  <2>1. exitAt = MaxThreads /\ MaxThreads \in Nat \ {0}
    BY ThreadsAssumption DEF Good, ExitInv
  <2>2. p \in marked \/ mine[p] >= MaxThreads
    BY <2>1 DEF Good, ExitInv, Joining
  <2>3. mine[p] \in 1..(MaxThreads - 1)
    BY DEF Good, AliveInv, Slots
  <2>4. p \in marked
    BY <2>1, <2>2, <2>3
  <2> QED
    BY <2>4 DEF Good, MarkedInv, Alive
<1> QED
  BY InitInv, <1>1, <1>2, PTL DEF Spec

=============================================================================
