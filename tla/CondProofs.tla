----------------------------- MODULE CondProofs -----------------------------
(***************************************************************************)
(* Lemmas about CondVar, for any set of threads, any timeouts and any      *)
(* threads that are canceled or get CTRL-C.  CondInv is inductive under    *)
(* every step of the module and under every step that a client makes of    *)
(* the mutex and the condition; the theorems at the end are about the most *)
(* general client, CondMonitor, and BarrierProofs and PosixSemProofs use   *)
(* the lemmas for their clients.                                           *)
(***************************************************************************)
EXTENDS CondMonitor, FiniteSetTheorems, SequenceTheorems, TLAPS

Waiting == {t \in Threads : cpc[t] \in {"wait", "relock"}}

CondInv == CondTypeOK /\ HoldsMutex /\ WaitersExact /\ IncondExact

-----------------------------------------------------------------------------
(* The list of waiters. *)

\* AddTail of a node that is not in the list keeps every node in it once.
LEMMA AddTailProperties ==
    ASSUME NEW S, NEW s \in Seq(S), IsInjective(s), NEW x \in S, x \notin Range(s)
    PROVE  /\ Append(s, x) \in Seq(S)
           /\ IsInjective(Append(s, x))
           /\ Range(Append(s, x)) = Range(s) \cup {x}
<1> DEFINE r == Append(s, x)
<1>1. Len(s) \in Nat /\ DOMAIN s = 1..Len(s)
  OBVIOUS
<1>2. r \in Seq(S) /\ Len(r) = Len(s) + 1 /\ DOMAIN r = 1..(Len(s) + 1)
  OBVIOUS
<1>3. \A i \in 1..(Len(s) + 1) : r[i] = IF i = Len(s) + 1 THEN x ELSE s[i]
  OBVIOUS
<1>4. \A i \in 1..Len(s) : s[i] # x
  BY <1>1 DEF Range
<1> HIDE DEF r
<1>5. IsInjective(r)
  BY <1>1, <1>2, <1>3, <1>4 DEF IsInjective
<1>6. \A y : y \in Range(r) <=> y \in Range(s) \cup {x}
  BY <1>1, <1>2, <1>3 DEF Range
<1> QED
  BY <1>2, <1>5, <1>6 DEF r

\* Remove takes out exactly the node it is given.
LEMMA UnlinkProperties ==
    ASSUME NEW S, NEW s \in Seq(S), IsInjective(s), NEW x \in Range(s)
    PROVE  /\ Unlink(s, x) \in Seq(S)
           /\ IsInjective(Unlink(s, x))
           /\ Range(Unlink(s, x)) = Range(s) \ {x}
<1> DEFINE n == Len(s)
           k == CHOOSE i \in DOMAIN s : s[i] = x
           u == Unlink(s, x)
<1>1. n \in Nat /\ DOMAIN s = 1..n
  OBVIOUS
<1>2. k \in 1..n /\ s[k] = x
  BY <1>1 DEF Range
<1>3. u = SubSeq(s, 1, k - 1) \o SubSeq(s, k + 1, n)
  BY DEF Unlink
<1> HIDE DEF k, n, u
<1>4. /\ SubSeq(s, 1, k - 1) \in Seq(S) /\ Len(SubSeq(s, 1, k - 1)) = k - 1
      /\ SubSeq(s, k + 1, n) \in Seq(S) /\ Len(SubSeq(s, k + 1, n)) = n - k
      /\ \A i \in 1..(k - 1) : SubSeq(s, 1, k - 1)[i] = s[i]
      /\ \A i \in 1..(n - k) : SubSeq(s, k + 1, n)[i] = s[k + i]
  <2>1. \A i \in 1..n : s[i] \in S
    BY <1>1
  <2>2. SubSeq(s, 1, k - 1) \in Seq(S) /\ Len(SubSeq(s, 1, k - 1)) = k - 1
        /\ \A i \in 1..(k - 1) : SubSeq(s, 1, k - 1)[i] = s[i]
    BY <1>1, <1>2, <2>1, SubSeqProperties
  <2>3. SubSeq(s, k + 1, n) \in Seq(S) /\ Len(SubSeq(s, k + 1, n)) = n - k
        /\ \A i \in 1..(n - k) : SubSeq(s, k + 1, n)[i] = s[k + i]
    BY <1>1, <1>2, <2>1, SubSeqProperties
  <2> QED
    BY <2>2, <2>3, Zenon
<1>5. u \in Seq(S) /\ Len(u) = n - 1 /\ DOMAIN u = 1..(n - 1)
  BY <1>1, <1>2, <1>3, <1>4
<1>6. \A i \in 1..(n - 1) : u[i] = s[IF i < k THEN i ELSE i + 1]
  <2> SUFFICES ASSUME NEW i \in 1..(n - 1) PROVE u[i] = s[IF i < k THEN i ELSE i + 1]
    OBVIOUS
  <2> DEFINE a == SubSeq(s, 1, k - 1)
             b == SubSeq(s, k + 1, n)
  <2>1. u[i] = IF i <= k - 1 THEN a[i] ELSE b[i - (k - 1)]
    <3>1. a \in Seq(S) /\ b \in Seq(S) /\ Len(a) = k - 1 /\ Len(b) = n - k /\ u = a \o b
      BY <1>3, <1>4, Zenon
    <3>2. i \in 1..(Len(a) + Len(b))
      BY <3>1, <1>1, <1>2
    <3> HIDE DEF a, b
    <3> QED
      BY <3>1, <3>2, ConcatProperties, SMTT(30)
  <2>2. CASE i < k
    BY <2>1, <2>2, <1>1, <1>2, <1>4
  <2>3. CASE ~(i < k)
    <3>1. i - (k - 1) \in 1..(n - k) /\ k + (i - (k - 1)) = i + 1 /\ ~(i <= k - 1)
      BY <2>3, <1>1, <1>2
    <3> QED
      BY <2>1, <2>3, <3>1, <1>4, Zenon
  <2> QED
    BY <2>2, <2>3
<1>7. IsInjective(u)
  <2> SUFFICES ASSUME NEW i \in 1..(n - 1), NEW j \in 1..(n - 1), u[i] = u[j]
               PROVE  i = j
    BY <1>5 DEF IsInjective
  <2> DEFINE f(m) == IF m < k THEN m ELSE m + 1
  <2>1. f(i) \in 1..n /\ f(j) \in 1..n /\ s[f(i)] = s[f(j)]
    BY <1>1, <1>2, <1>6
  <2>2. f(i) = f(j)
    BY <2>1, <1>1 DEF IsInjective
  <2> QED
    BY <2>2, <1>1, <1>2
<1>8. ASSUME NEW y PROVE y \in Range(u) <=> y \in Range(s) /\ y # x
  <2>1. ASSUME y \in Range(u) PROVE y \in Range(s) /\ y # x
    <3>1. PICK i \in 1..(n - 1) : y = u[i]
      BY <2>1, <1>5 DEF Range
    <3>2. PICK j \in 1..n : y = s[j] /\ j # k
      BY <3>1, <1>1, <1>2, <1>6
    <3> QED
      BY <3>2, <1>1, <1>2 DEF Range, IsInjective
  <2>2. ASSUME y \in Range(s), y # x PROVE y \in Range(u)
    <3>1. PICK j \in 1..n : y = s[j]
      BY <2>2, <1>1 DEF Range
    <3>2. j # k
      BY <3>1, <2>2, <1>2
    <3>3. PICK i \in 1..(n - 1) : u[i] = s[j]
      <4>1. CASE j < k
        BY <4>1, <1>1, <1>2, <1>6
      <4>2. CASE j > k
        <5>1. j - 1 \in 1..(n - 1) /\ ~(j - 1 < k) /\ (j - 1) + 1 = j
          BY <4>2, <1>1, <1>2
        <5> QED
          BY <5>1, <1>6
      <4> QED
        BY <4>1, <4>2, <3>2, <1>1, <1>2
    <3> QED
      BY <3>1, <3>3, <1>5, Zenon DEF Range
  <2> QED
    BY <2>1, <2>2
<1> QED
  BY <1>5, <1>7, <1>8 DEF u

-----------------------------------------------------------------------------
(* Counting the tasks in a wait. *)

\* incond++ and incond-- count one task in and out; all other steps leave the
\* set of these tasks alone.
LEMMA WaitingCount ==
    ASSUME NEW t \in Threads, IncondExact
    PROVE  /\ IsFiniteSet(Waiting) /\ incond \in Nat
           /\ t \notin Waiting /\ Waiting' = Waiting \cup {t} /\ incond' = incond + 1
                 => IncondExact'
           /\ t \in Waiting => incond - 1 \in Nat
           /\ t \in Waiting /\ Waiting' = Waiting \ {t} /\ incond' = incond - 1
                 => IncondExact'
           /\ Waiting' = Waiting /\ incond' = incond => IncondExact'
<1>1. IsFiniteSet(Waiting) /\ Cardinality(Waiting) \in Nat
  BY ThreadsAssumption, FS_Subset, FS_CardinalityType DEF Waiting
<1>2. incond = Cardinality(Waiting) /\ (IncondExact' <=> incond' = Cardinality(Waiting'))
  BY DEF IncondExact, Waiting
<1>3. t \notin Waiting => Cardinality(Waiting \cup {t}) = Cardinality(Waiting) + 1
  BY <1>1, FS_AddElement, Zenon
<1>4. t \in Waiting => Cardinality(Waiting \ {t}) = Cardinality(Waiting) - 1
  BY <1>1, FS_RemoveElement, Zenon
<1>5. t \in Waiting => Cardinality(Waiting) - 1 \in Nat
  <2>1. Cardinality(Waiting \ {t}) \in Nat
    BY <1>1, FS_RemoveElement, FS_CardinalityType
  <2> QED
    BY <2>1, <1>4
<1> QED
  BY <1>1, <1>2, <1>3, <1>4, <1>5

-----------------------------------------------------------------------------
(* The steps of the calls. *)

\* Every step inside _pthread_cond_timedwait keeps CondInv.
LEMMA CondWaitStepInv ==
    ASSUME CondInv, NEW t \in Threads, CondWaitStep(t)
    PROVE  CondInv'
<1> USE DEF CondInv
<1>1. CASE Enqueue(t)
  <2>1. t \notin Range(waiters)
    BY <1>1 DEF Enqueue, WaitersExact, Linked
  <2>2. /\ Append(waiters, t) \in Seq(Threads)
        /\ IsInjective(Append(waiters, t))
        /\ Range(Append(waiters, t)) = Range(waiters) \cup {t}
    BY <2>1, AddTailProperties DEF CondTypeOK, WaitersExact
  <2>3. CondTypeOK'
    BY <1>1, <2>2 DEF Enqueue, CondTypeOK, CallStates
  <2>4. HoldsMutex'
    BY <1>1 DEF Enqueue, CondTypeOK, HoldsMutex
  <2>5. WaitersExact'
    BY <1>1, <2>2 DEF Enqueue, CondTypeOK, WaitersExact, Linked
  <2>6. IncondExact'
    <3>1. Waiting' = Waiting
      BY <1>1 DEF Enqueue, CondTypeOK, Waiting
    <3> QED
      BY <3>1, <1>1, WaitingCount DEF Enqueue
  <2> QED
    BY <2>3, <2>4, <2>5, <2>6
<1>2. CASE UnlockToWait(t)
  <2>1. t \notin Waiting /\ Waiting' = Waiting \cup {t} /\ incond' = incond + 1
    BY <1>2 DEF UnlockToWait, CondTypeOK, Waiting
  <2>2. CondTypeOK'
    BY <1>2, <2>1, WaitingCount DEF UnlockToWait, MutexRelease, CondTypeOK, CallStates
  <2>3. HoldsMutex'
    BY <1>2, ThreadsAssumption DEF UnlockToWait, MutexRelease, CondTypeOK, HoldsMutex
  <2>4. WaitersExact'
    BY <1>2 DEF UnlockToWait, CondTypeOK, WaitersExact, Linked
  <2> QED
    BY <2>1, <2>2, <2>3, <2>4, WaitingCount
<1>3. CASE Wake(t)
  <2>1. Waiting' = Waiting /\ incond' = incond
    BY <1>3 DEF Wake, CondTypeOK, Waiting
  <2>2. CondTypeOK'
    BY <1>3 DEF Wake, CondTypeOK, CallStates, Results
  <2>3. HoldsMutex'
    BY <1>3 DEF Wake, CondTypeOK, HoldsMutex
  <2>4. WaitersExact'
    BY <1>3 DEF Wake, CondTypeOK, WaitersExact, Linked
  <2> QED
    BY <2>1, <2>2, <2>3, <2>4, WaitingCount
<1>4. CASE Relock(t)
  <2>1. t \in Waiting /\ Waiting' = Waiting \ {t} /\ incond' = incond - 1
    BY <1>4 DEF Relock, CondTypeOK, Waiting
  <2>2. CondTypeOK'
    BY <1>4, <2>1, WaitingCount DEF Relock, MutexObtain, CondTypeOK, CallStates
  <2>3. HoldsMutex'
    BY <1>4, ThreadsAssumption DEF Relock, MutexObtain, Free, CondTypeOK, HoldsMutex
  <2>4. WaitersExact'
    BY <1>4 DEF Relock, CondTypeOK, WaitersExact, Linked
  <2> QED
    BY <2>1, <2>2, <2>3, <2>4, WaitingCount
<1>5. CASE Dequeue(t)
  <2>1. t \in Range(waiters)
    BY <1>5 DEF Dequeue, WaitersExact, Linked
  <2>2. /\ Unlink(waiters, t) \in Seq(Threads)
        /\ IsInjective(Unlink(waiters, t))
        /\ Range(Unlink(waiters, t)) = Range(waiters) \ {t}
    BY <2>1, UnlinkProperties DEF CondTypeOK, WaitersExact
  <2>3. CondTypeOK'
    BY <1>5, <2>2 DEF Dequeue, CondTypeOK, CallStates, Results, Signals
  <2>4. HoldsMutex'
    BY <1>5 DEF Dequeue, CondTypeOK, HoldsMutex
  <2>5. WaitersExact'
    BY <1>5, <2>2 DEF Dequeue, CondTypeOK, WaitersExact, Linked
  <2>6. Waiting' = Waiting /\ incond' = incond
    BY <1>5 DEF Dequeue, CondTypeOK, Waiting
  <2> QED
    BY <2>3, <2>4, <2>5, <2>6, WaitingCount
<1> QED
  BY <1>1, <1>2, <1>3, <1>4, <1>5 DEF CondWaitStep

\* Time, timer.device, CTRL-C and pthread_cancel keep CondInv.
LEMMA EnvironmentInv ==
    ASSUME CondInv, NEW t \in Threads, Environment(t)
    PROVE  CondInv'
<1>1. UNCHANGED <<owner, incond, waiters, cpc>>
  BY DEF Environment, Tick, TimerExpires, Break, Cancel
<1>2. HoldsMutex' /\ WaitersExact' /\ IncondExact'
  BY <1>1 DEF CondInv, HoldsMutex, WaitersExact, IncondExact
<1>3. CondTypeOK'
  <2>1. CASE Tick(t)
    BY <2>1 DEF CondInv, Tick, CondTypeOK, AbsTimes
  <2>2. CASE TimerExpires(t)
    BY <2>2 DEF CondInv, TimerExpires, Raise, CondTypeOK, Signals
  <2>3. CASE Break(t)
    BY <2>3 DEF CondInv, Break, Raise, CondTypeOK, Signals
  <2>4. CASE Cancel(t)
    BY <2>4 DEF CondInv, Cancel, Raise, CondTypeOK, Signals
  <2> QED
    BY <2>1, <2>2, <2>3, <2>4 DEF Environment
<1> QED
  BY <1>2, <1>3 DEF CondInv

\* A call of a wait by a thread that holds the mutex keeps CondInv.
LEMMA CallInv ==
    ASSUME CondInv, NEW t \in Threads, NEW at \in AbsTimes,
           cpc[t] = "idle", owner = t, CallCondWait(t, at)
    PROVE  CondInv'
<1>1. CondTypeOK'
  BY Zenon DEF CondInv, CallCondWait, CondTypeOK, CallStates, Results
<1>2. cpc' = [cpc EXCEPT ![t] = cpc'[t]] /\ cpc'[t] \in {"ret", "enqueue"}
  BY SMTT(30) DEF CondInv, CallCondWait, CondTypeOK
<1>3. UNCHANGED <<owner, incond, waiters>>
  BY DEF CallCondWait
<1>4. HoldsMutex'
  BY <1>2, <1>3 DEF CondInv, CondTypeOK, HoldsMutex
<1>5. WaitersExact'
  BY <1>2, <1>3, SMTT(30) DEF CondInv, CondTypeOK, WaitersExact, Linked
<1>6. Waiting' = Waiting
  BY <1>2 DEF CondInv, CondTypeOK, Waiting
<1> QED
  BY <1>1, <1>3, <1>4, <1>5, <1>6, WaitingCount DEF CondInv

\* The return from a wait to the caller keeps CondInv.
LEMMA ReturnInv ==
    ASSUME CondInv, NEW t \in Threads,
           cpc[t] = "ret", cpc' = [cpc EXCEPT ![t] = "idle"],
           abstime' \in [Threads -> AbsTimes],
           UNCHANGED <<owner, incond, waiters, sig, armed, cret, canceled>>
    PROVE  CondInv'
<1>1. CondTypeOK'
  BY Zenon DEF CondInv, CondTypeOK, CallStates
<1>2. HoldsMutex'
  BY DEF CondInv, CondTypeOK, HoldsMutex
<1>3. WaitersExact'
  BY DEF CondInv, CondTypeOK, WaitersExact, Linked
<1>4. Waiting' = Waiting
  BY DEF CondInv, CondTypeOK, Waiting
<1> QED
  BY <1>1, <1>2, <1>3, <1>4, WaitingCount DEF CondInv

\* Locking, unlocking outside of a wait, and setting condition bits keep
\* CondInv.
LEMMA ClientInv ==
    ASSUME CondInv, NEW t \in Threads,
           \/ MutexObtain(t) /\ UNCHANGED sig
           \/ cpc[t] \in {"idle", "exited"} /\ MutexRelease(t) /\ UNCHANGED sig
           \/ CondSignal /\ UNCHANGED owner
           \/ CondBroadcast /\ UNCHANGED owner
           \/ UNCHANGED <<owner, sig>>,
           abstime' \in [Threads -> AbsTimes],
           UNCHANGED <<incond, waiters, cpc, armed, cret, canceled>>
    PROVE  CondInv'
<1>1. owner' \in Threads \cup {NoThread}
  BY DEF CondInv, CondTypeOK, MutexObtain, MutexRelease
<1>2. sig' \in [Threads -> SUBSET Signals]
  <2>1. CASE UNCHANGED sig
    BY <2>1 DEF CondInv, CondTypeOK
  <2>2. CASE CondSignal \/ CondBroadcast
    BY <2>2 DEF CondInv, CondTypeOK, CondSignal, CondBroadcast, Raise, Signals
  <2> QED
    BY <2>1, <2>2
<1>3. CondTypeOK'
  BY <1>1, <1>2 DEF CondInv, CondTypeOK
<1>4. HoldsMutex'
  BY ThreadsAssumption DEF CondInv, CondTypeOK, HoldsMutex, MutexObtain, MutexRelease, Free
<1>5. WaitersExact' /\ IncondExact'
  BY DEF CondInv, WaitersExact, IncondExact
<1> QED
  BY <1>3, <1>4, <1>5 DEF CondInv

-----------------------------------------------------------------------------
(* The most general client *)

\* Whatever the threads do with the mutex and the condition, and whenever
\* they are signalled, timed out, interrupted or canceled: a wait returns
\* with the mutex (HoldsMutex), cond->waiters links exactly the nodes of the
\* waits in progress (WaitersExact), and mutex->incond counts the tasks that
\* will take the mutex again (IncondExact).
THEOREM CondSafety == MonitorSpec => [](CondTypeOK /\ HoldsMutex /\ WaitersExact /\ IncondExact)
<1>1. CondInit => CondInv
  <2> SUFFICES ASSUME CondInit PROVE CondInv
    OBVIOUS
  <2>1. CondTypeOK
    BY DEF CondInit, CondTypeOK, CallStates, Results, AbsTimes
  <2>2. HoldsMutex
    BY DEF CondInit, HoldsMutex
  <2>3. WaitersExact
    BY DEF CondInit, WaitersExact, Linked, IsInjective, Range
  <2>4. IncondExact
    <3>1. {t \in Threads : cpc[t] \in {"wait", "relock"}} = {}
      BY DEF CondInit
    <3> QED
      BY <3>1, FS_EmptySet, Zenon DEF IncondExact, CondInit
  <2> QED
    BY <2>1, <2>2, <2>3, <2>4 DEF CondInv
<1>2. CondInv /\ [MonitorNext]_CondVars => CondInv'
  <2> SUFFICES ASSUME CondInv, [MonitorNext]_CondVars PROVE CondInv'
    OBVIOUS
  <2>1. CASE UNCHANGED CondVars
    BY <2>1 DEF CondVars, CondInv, CondTypeOK, HoldsMutex, WaitersExact, IncondExact
  <2>2. ASSUME NEW t \in Threads, Lock(t) \/ Unlock(t) \/ Notify(t) \/ CleanupUnlock(t)
        PROVE  CondInv'
    <3>1. abstime' \in [Threads -> AbsTimes]
      BY <2>2 DEF CondInv, CondTypeOK, Lock, Unlock, Notify, CleanupUnlock
    <3> QED
      BY <2>2, <3>1, ClientInv DEF Lock, Unlock, Notify, CleanupUnlock
  <2>3. ASSUME NEW t \in Threads, CondWait(t) PROVE CondInv'
    <3>1. PICK at \in Timeouts[t] : CallCondWait(t, at)
      BY <2>3 DEF CondWait
    <3>2. at \in AbsTimes
      BY TimeoutsAssumption
    <3> QED
      BY <2>3, <3>1, <3>2, CallInv DEF CondWait
  <2>4. ASSUME NEW t \in Threads, Return(t) PROVE CondInv'
    <3>1. abstime' \in [Threads -> AbsTimes]
      BY <2>4 DEF CondInv, CondTypeOK, Return, AbsTimes
    <3> QED
      BY <2>4, <3>1, ReturnInv, Zenon DEF Return
  <2>5. ASSUME NEW t \in Threads, CondWaitStep(t) \/ Environment(t) PROVE CondInv'
    BY <2>5, CondWaitStepInv, EnvironmentInv
  <2> QED
    BY <2>1, <2>2, <2>3, <2>4, <2>5 DEF MonitorNext, Client
<1> QED
  BY <1>1, <1>2, PTL DEF MonitorSpec, CondInv

\* cond->waiters links exactly the nodes of the waits in progress: each way
\* out of a wait unlinks the node before its frame is gone.
THEOREM CondWaitersExact == MonitorSpec => []WaitersExact
  BY CondSafety, PTL

\* What CancelPending needs between Wait() and the return: an untimed waiter
\* has no timer bit that would win over CTRL-C, and a CTRL-C that Wait()
\* consumed is remembered in the result until pthread_testcancel.
CancelInv ==
    \A t \in Threads : Timeouts[t] = {"none"} =>
        /\ ~armed[t] /\ "timer" \notin sig[t]
        /\ canceled[t] /\ cpc[t] \in {"idle", "enqueue", "unlock", "wait", "ret"}
              => "brk" \in sig[t]
        /\ canceled[t] /\ cpc[t] \in {"relock", "remove"}
              => "brk" \in sig[t] \/ cret[t] = "CTRL_C"

\* pthread_cancel reaches a thread that makes untimed waits: its CTRL-C is
\* never consumed without ending the thread.
THEOREM CancelSafety == MonitorSpec => []CancelPending
<1>1. CondInit => CancelInv
  BY DEF CondInit, CancelInv
<1>2. CondTypeOK /\ CancelInv /\ [MonitorNext]_CondVars => CancelInv'
  <2> SUFFICES ASSUME CondTypeOK, CancelInv, [MonitorNext]_CondVars,
                      NEW u \in Threads, Timeouts[u] = {"none"}
               PROVE  /\ ~armed'[u] /\ "timer" \notin sig'[u]
                      /\ canceled'[u] /\ cpc'[u] \in {"idle", "enqueue", "unlock", "wait", "ret"}
                            => "brk" \in sig'[u]
                      /\ canceled'[u] /\ cpc'[u] \in {"relock", "remove"}
                            => "brk" \in sig'[u] \/ cret'[u] = "CTRL_C"
    BY DEF CancelInv
  <2> USE DEF CondTypeOK, CancelInv
  <2>1. CASE UNCHANGED CondVars
    BY <2>1, SMTT(30) DEF CondVars
  <2>2. ASSUME NEW t \in Threads, Client(t) PROVE CancelInv'
    <3>1. CASE Lock(t) \/ Unlock(t) \/ Return(t) \/ CleanupUnlock(t)
      BY <3>1 DEF Lock, Unlock, Return, CleanupUnlock
    <3>2. CASE Notify(t)
      BY <3>2 DEF Notify, CondSignal, CondBroadcast, Raise
    <3>3. CASE CondWait(t)
      BY <3>3 DEF CondWait, CallCondWait
    <3> QED
      BY <2>2, <3>1, <3>2, <3>3, SMTT(30) DEF Client
  <2>3. ASSUME NEW t \in Threads, CondWaitStep(t) PROVE CancelInv'
    <3>1. CASE Enqueue(t)
      BY <3>1, Zenon DEF Enqueue
    <3>2. CASE UnlockToWait(t)
      BY <3>2 DEF UnlockToWait
    <3>3. CASE Wake(t)
      BY <3>3, SMTT(30) DEF Wake, Signals
    <3>4. CASE Relock(t)
      BY <3>4 DEF Relock
    <3>5. CASE Dequeue(t)
      BY <3>5 DEF Dequeue
    <3> QED
      BY <2>3, <3>1, <3>2, <3>3, <3>4, <3>5 DEF CondWaitStep
  <2>4. ASSUME NEW t \in Threads, Environment(t) PROVE CancelInv'
    <3>1. CASE Tick(t)
      BY <3>1 DEF Tick
    <3>2. CASE TimerExpires(t)
      BY <3>2 DEF TimerExpires, Raise
    <3>3. CASE Break(t) \/ Cancel(t)
      BY <3>3, SMTT(30) DEF Break, Cancel, Raise
    <3> QED
      BY <2>4, <3>1, <3>2, <3>3 DEF Environment
  <2> QED
    BY <2>1, <2>2, <2>3, <2>4, SMTT(30) DEF MonitorNext
<1>3. CancelInv => CancelPending
  BY DEF CancelInv, CancelPending
<1> QED
  BY <1>1, <1>2, <1>3, CondSafety, PTL DEF MonitorSpec

=============================================================================
