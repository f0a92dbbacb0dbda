---------------------------- MODULE CondMonitor ----------------------------
(***************************************************************************)
(* The mutex and the condition variable under the most general client: any *)
(* thread locks, unlocks, waits, notifies, is canceled or gets a CTRL-C    *)
(* whenever the API lets it.  A thread with cpc "idle" runs its own code.  *)
(***************************************************************************)
EXTENDS CondVar

Lock(t) ==
    /\ cpc[t] = "idle"
    /\ MutexObtain(t)
    /\ UNCHANGED <<incond, waiters, sig, cpc, abstime, armed, cret, canceled>>

Unlock(t) ==
    /\ cpc[t] = "idle"
    /\ MutexRelease(t)
    /\ UNCHANGED <<incond, waiters, sig, cpc, abstime, armed, cret, canceled>>

\* pthread_cond_wait, pthread_cond_timedwait, called with the mutex held.
CondWait(t) ==
    /\ cpc[t] = "idle"
    /\ owner = t
    /\ \E at \in Timeouts[t] : CallCondWait(t, at)

Return(t) ==
    /\ cpc[t] = "ret"
    /\ cpc' = [cpc EXCEPT ![t] = "idle"]
    /\ abstime' = [abstime EXCEPT ![t] = "none"]
    /\ UNCHANGED <<owner, incond, waiters, sig, armed, cret, canceled>>

\* pthread_cond_signal and pthread_cond_broadcast, with or without the mutex.
Notify(t) ==
    /\ cpc[t] = "idle"
    /\ CondSignal \/ CondBroadcast
    /\ UNCHANGED <<owner, incond, waiters, cpc, abstime, armed, cret, canceled>>

\* The cleanup handler of a thread that was canceled in a wait unlocks the
\* mutex that the wait took again.
CleanupUnlock(t) ==
    /\ cpc[t] = "exited"
    /\ MutexRelease(t)
    /\ UNCHANGED <<incond, waiters, sig, cpc, abstime, armed, cret, canceled>>

Client(t) ==
    \/ Lock(t)
    \/ Unlock(t)
    \/ CondWait(t)
    \/ Return(t)
    \/ Notify(t)
    \/ CleanupUnlock(t)

MonitorNext == \E t \in Threads : Client(t) \/ CondWaitStep(t) \/ Environment(t)

MonitorSpec == CondInit /\ [][MonitorNext]_CondVars

\* Tasks are scheduled, mutexes are granted first come first served, time
\* passes, and no client keeps the mutex for ever.  Nobody has to notify.
MonitorFairness ==
    \A t \in Threads :
        /\ WF_CondVars(CondWaitStep(t))
        /\ SF_CondVars(Relock(t))
        /\ WF_CondVars(Return(t) \/ CleanupUnlock(t))
        /\ SF_CondVars(Unlock(t))
        /\ WF_CondVars(Tick(t))
        /\ WF_CondVars(TimerExpires(t))

FairMonitor == MonitorSpec /\ MonitorFairness

-----------------------------------------------------------------------------

\* A sleeper whose condition bit was set gets out of the call, however the
\* other threads lock, wait and notify meanwhile, and a timed wait whose time
\* was still to come when it was converted (armed) ends even if nobody ever
\* notifies the condition.  Of a time that is already past at the call this
\* is not so: the difference to now wraps and the timer is asked for some 136
\* years (CallCondWait).
WaitsReturn ==
    \A t \in Threads :
        (\/ cpc[t] = "wait" /\ "cond" \in sig[t]
         \/ cpc[t] = "enqueue" /\ armed[t]) ~> cpc[t] \in {"ret", "exited"}

=============================================================================
