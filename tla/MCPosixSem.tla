----------------------------- MODULE MCPosixSem -----------------------------
(* Threads and scenarios for the runs of PosixSem. *)
EXTENDS PosixSem, TLC

CONSTANTS t1, t2, t3

ThreeThreads == {t1, t2, t3}
OneTimed == [t \in Threads |-> IF t = t2 THEN {"future"} ELSE {"none"}]

\* The semaphore as a lock around a critical section.
AsLock ==
    [init |-> 1,
     script |-> [t \in Threads |-> IF t = t3 THEN <<"wait", "post">>
                                   ELSE <<"wait", "post", "wait", "post">>],
     loop |-> {}]

\* Every call but sem_destroy; the posts never end, so no wait does either.
Mixed ==
    [init |-> 0,
     script |-> t1 :> <<"wait", "trywait">>
             @@ t2 :> <<"timedwait", "getvalue">>
             @@ t3 :> <<"post", "post", "getvalue">>,
     loop |-> {t3}]

\* A waiter that destroys the semaphore once it got the tokens of both others.
DestroyAfter ==
    [init |-> 0,
     script |-> t1 :> <<"wait", "wait", "destroy">> @@ t2 :> <<"post">> @@ t3 :> <<"post">>,
     loop |-> {}]

\* Two waiters and a producer of two tokens.
Producer ==
    [init |-> 0,
     script |-> t1 :> <<"wait">> @@ t2 :> <<"wait">> @@ t3 :> <<"post", "post">>,
     loop |-> {}]

Uses == {AsLock, Mixed, DestroyAfter}
ProducerUse == {Producer}

=============================================================================
