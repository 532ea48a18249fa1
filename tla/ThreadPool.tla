----------------------------- MODULE ThreadPool ------------------------------
(***************************************************************************)
(* nsThreadPool and nsThreadPoolRunnable (xpcom/threads/nsThread.cpp):     *)
(* worker threads that come with demand and leave when idle, a list of     *)
(* requests, and a shutdown that drains it.                                *)
(*                                                                         *)
(* Every critical section of mLock is one action.  A worker asleep in      *)
(* PR_WaitCondVar(mPendingRequestAdded) has pc "timed" or "untimed".       *)
(* DispatchRequest does nothing when the pool is shutting down or when it  *)
(* cannot make the thread it wants; those calls are no steps here.         *)
(***************************************************************************)
EXTENDS Integers, Sequences, FiniteSets

CONSTANTS
    Threads,        \* names for worker threads; a name is used again after its thread left
    Runnables,      \* objects that are dispatched, each any number of times
    NoRequest,      \* the request of a thread that has none
    mMinThreads, mMaxThreads,
    MaxPending      \* bound: requests waiting at a time

ASSUME PoolAssumption ==
    /\ IsFiniteSet(Threads) /\ NoRequest \notin Runnables
    /\ mMinThreads \in Nat \ {0} /\ mMaxThreads \in Nat /\ mMinThreads <= mMaxThreads
    /\ MaxPending \in Nat

VARIABLES
    mThreads,           \* workers in the pool
    mPendingRequests,   \* runnables to run, oldest first
    mRunningRequests,   \* runnables a worker has taken; never twice the same, so a set
    mBusyThreads,
    mShuttingDown,
    pc,                 \* where each worker is in nsThreadPoolRunnable::Run and GetRequest
    request,            \* the runnable each worker has taken
    closer              \* where the thread that calls Shutdown is

vars == <<mThreads, mPendingRequests, mRunningRequests, mBusyThreads, mShuttingDown, pc, request, closer>>
lists == <<mPendingRequests, mRunningRequests>>

Init ==
    /\ mThreads = {} /\ mPendingRequests = <<>> /\ mRunningRequests = {}
    /\ mBusyThreads = 0 /\ mShuttingDown = FALSE
    /\ pc = [t \in Threads |-> "none"]
    /\ request = [t \in Threads |-> NoRequest]
    /\ closer = "none"

------------------------------------------------------------------------------
(* Condition variables.                                                     *)

Asleep == {t \in Threads : pc[t] \in {"timed", "untimed"}}

\* Where a worker goes on when its wait ends: after a timed wait it looks at the
\* number of pending requests, after an untimed one it goes round the loop.
AfterWait(t) == IF pc[t] = "timed" THEN "recheck" ELSE "get"

\* Mutant: only the first request of a list is announced.
WakeableForFirst ==
    IF Asleep = {} \/ mPendingRequests # <<>> THEN {{}} ELSE {{t} : t \in Asleep}

\* The sets of threads one PR_NotifyCondVar(mPendingRequestAdded) may wake.
Wakeable == IF Asleep = {} THEN {{}} ELSE {{t} : t \in Asleep}

\* Mutant: the notification is missing.
NotifyNobody == closer' = closer

\* PR_NotifyCondVar on mPendingRequestsAtZero and on mThreadExit: nobody but the
\* thread in Shutdown waits there.
NotifyAtZero == closer' = (IF closer = "draining" THEN "drained" ELSE closer)
NotifyExit == closer' = (IF closer = "joining" THEN "joined" ELSE closer)

------------------------------------------------------------------------------
(* Clients.                                                                 *)

\* threadCount - mBusyThreads is what the pool takes for the number of idle workers.
NeedsThread ==
    /\ Len(mPendingRequests) >= Cardinality(mThreads) - mBusyThreads
    /\ Cardinality(mThreads) < mMaxThreads

\* AddThread: the sets of threads that may join the pool.
NewThreads == IF NeedsThread THEN {{t} : t \in Threads \ mThreads} ELSE {{}}

DispatchRequest(r) ==
    /\ ~mShuttingDown
    /\ Len(mPendingRequests) < MaxPending
    /\ mPendingRequests' = Append(mPendingRequests, r)
    /\ \E new \in NewThreads, woken \in Wakeable :
        /\ mThreads' = mThreads \cup new
        /\ pc' = [t \in Threads |-> IF t \in new THEN "get"
                                    ELSE IF t \in woken THEN AfterWait(t) ELSE pc[t]]
    /\ UNCHANGED <<mRunningRequests, mBusyThreads, mShuttingDown, request, closer>>

\* Mutants: the list is not drained; the workers are not interrupted.
JoinUndrained ==
    /\ closer' = (IF mThreads = {} THEN "down" ELSE "joining")
    /\ pc' = [t \in Threads |-> IF t \in Asleep THEN AfterWait(t) ELSE pc[t]]
DrainUninterrupted ==
    \/ /\ mPendingRequests # <<>>
       /\ closer' = "draining" /\ UNCHANGED pc
    \/ /\ mPendingRequests = <<>>
       /\ closer' = (IF mThreads = {} THEN "down" ELSE "joining") /\ UNCHANGED pc

\* Shutdown up to its first wait, or from one wait to the next: first for an empty
\* list (ProcessPendingRequests), then, the workers interrupted, for an empty pool.
DrainAndJoin ==
    \/ /\ mPendingRequests # <<>>
       /\ closer' = "draining" /\ UNCHANGED pc
    \/ /\ mPendingRequests = <<>>
       /\ closer' = (IF mThreads = {} THEN "down" ELSE "joining")
       /\ pc' = [t \in Threads |-> IF t \in Asleep THEN AfterWait(t) ELSE pc[t]]

Shutdown ==
    /\ ~mShuttingDown /\ mShuttingDown' = TRUE
    /\ DrainAndJoin
    /\ UNCHANGED <<mThreads, lists, mBusyThreads, request>>

ShutdownDrained ==
    /\ closer = "drained" /\ DrainAndJoin
    /\ UNCHANGED <<mThreads, lists, mBusyThreads, mShuttingDown, request>>

ShutdownJoined ==
    /\ closer = "joined"
    /\ closer' = (IF mThreads = {} THEN "down" ELSE "joining")
    /\ UNCHANGED <<mThreads, lists, mBusyThreads, mShuttingDown, pc, request>>

------------------------------------------------------------------------------
(* Workers.                                                                 *)

\* A worker at the head of GetRequest's loop, also straight from a timed wait when
\* there are requests.
Scans(t) == pc[t] = "get" \/ (pc[t] = "recheck" /\ mPendingRequests # <<>>)

\* Mutant: it is not looked whether the runnable is running.
StartableAlways(i) == i = 1

Startable(i) ==
    /\ mPendingRequests[i] \notin mRunningRequests
    /\ \A j \in 1..i - 1 : mPendingRequests[j] \in mRunningRequests

\* Mutant: the head of the list is removed, whichever request was taken.
RemoveHead(i) == Tail(mPendingRequests)

RemoveObjectAt(i) ==
    SubSeq(mPendingRequests, 1, i - 1) \o SubSeq(mPendingRequests, i + 1, Len(mPendingRequests))

TakeRequest(t, i) ==
    /\ Scans(t) /\ Startable(i)
    /\ request' = [request EXCEPT ![t] = mPendingRequests[i]]
    /\ mRunningRequests' = mRunningRequests \cup {mPendingRequests[i]}
    /\ mPendingRequests' = RemoveObjectAt(i)
    /\ IF Len(mPendingRequests) = 1 THEN NotifyAtZero ELSE closer' = closer
    /\ pc' = [pc EXCEPT ![t] = "bump"]
    /\ UNCHANGED <<mThreads, mBusyThreads, mShuttingDown>>

NothingStartable == \A i \in 1..Len(mPendingRequests) : mPendingRequests[i] \in mRunningRequests

\* A worker above the minimum, as it counts now, may go when its wait times out.
WaitForRequest(t) ==
    /\ Scans(t) /\ NothingStartable /\ ~mShuttingDown
    /\ pc' = [pc EXCEPT ![t] = IF Cardinality(mThreads) > mMinThreads THEN "timed" ELSE "untimed"]
    /\ UNCHANGED <<mThreads, lists, mBusyThreads, mShuttingDown, request, closer>>

WaitTimesOut(t) ==
    /\ pc[t] = "timed"
    /\ pc' = [pc EXCEPT ![t] = "recheck"]
    /\ UNCHANGED <<mThreads, lists, mBusyThreads, mShuttingDown, request, closer>>

RemoveThread(t) ==
    /\ mThreads' = mThreads \ {t}
    /\ pc' = [pc EXCEPT ![t] = "none"]
    /\ NotifyExit
    /\ UNCHANGED <<lists, mBusyThreads, mShuttingDown, request>>

\* Mutant: the list is not looked at after the wait.
LeaveIdleBlindly(t) == pc[t] = "recheck" /\ RemoveThread(t)

\* After a timed wait, however it ended: no request, no more worker.
LeaveIdle(t) == pc[t] = "recheck" /\ mPendingRequests = <<>> /\ RemoveThread(t)

LeaveAtShutdown(t) == Scans(t) /\ NothingStartable /\ mShuttingDown /\ RemoveThread(t)

\* The constructor of nsThreadPoolBusyBody; its destructor is DropBusy.
BumpBusy(t) ==
    /\ pc[t] = "bump"
    /\ pc' = [pc EXCEPT ![t] = "run"]
    /\ mBusyThreads' = mBusyThreads + 1
    /\ UNCHANGED <<mThreads, lists, mShuttingDown, request, closer>>

\* Run has returned.
RequestDone(t) ==
    /\ pc[t] = "run"
    /\ pc' = [pc EXCEPT ![t] = "drop"]
    /\ mRunningRequests' = mRunningRequests \ {request[t]}
    /\ request' = [request EXCEPT ![t] = NoRequest]
    /\ UNCHANGED <<mThreads, mPendingRequests, mBusyThreads, mShuttingDown, closer>>

DropBusy(t) ==
    /\ pc[t] = "drop"
    /\ pc' = [pc EXCEPT ![t] = "get"]
    /\ mBusyThreads' = mBusyThreads - 1
    /\ UNCHANGED <<mThreads, lists, mShuttingDown, request, closer>>

WorkerStep(t) ==
    \/ \E i \in 1..Len(mPendingRequests) : TakeRequest(t, i)
    \/ WaitForRequest(t) \/ LeaveIdle(t) \/ LeaveAtShutdown(t)
    \/ BumpBusy(t) \/ RequestDone(t) \/ DropBusy(t)

CloserStep == ShutdownDrained \/ ShutdownJoined

Next ==
    \/ \E r \in Runnables : DispatchRequest(r)
    \/ Shutdown \/ CloserStep
    \/ \E t \in Threads : WorkerStep(t) \/ WaitTimesOut(t)

Spec == Init /\ [][Next]_vars

\* Workers get the processor and the runnables return; the thread in Shutdown runs
\* when it is notified.  No timeout has to expire, no client has to call.
FairSpec == Spec /\ WF_vars(CloserStep) /\ \A t \in Threads : WF_vars(WorkerStep(t))

------------------------------------------------------------------------------
(* Properties.                                                              *)

Pcs == {"none", "get", "timed", "untimed", "recheck", "bump", "run", "drop"}

\* Every variable keeps its type; the pool's workers are the live threads.
TypeOK ==
    /\ mThreads = {t \in Threads : pc[t] # "none"}
    /\ mPendingRequests \in Seq(Runnables)
    /\ mRunningRequests \subseteq Runnables
    /\ mBusyThreads \in Nat /\ mShuttingDown \in BOOLEAN
    /\ pc \in [Threads -> Pcs]
    /\ request \in [Threads -> Runnables \cup {NoRequest}]
    /\ closer \in {"none", "draining", "drained", "joining", "joined", "down"}

Holds(t) == pc[t] \in {"bump", "run"}

\* A runnable is never run by two workers at a time, however often it was
\* dispatched, and it is in mRunningRequests exactly while one has it.
RunsAlone ==
    /\ mRunningRequests = {request[t] : t \in {u \in Threads : Holds(u)}}
    /\ \A t, u \in Threads : Holds(t) /\ Holds(u) /\ request[t] = request[u] => t = u

\* The pool never grows over mMaxThreads, although requests are dispatched while
\* workers come, go and change what they count as.
PoolIsBounded == Cardinality(mThreads) <= mMaxThreads

\* mBusyThreads counts workers, so that threadCount - mBusyThreads, an unsigned
\* subtraction in DispatchRequest, does not wrap and hide the idle ones.
BusyIsExact == mBusyThreads = Cardinality({t \in Threads : pc[t] \in {"run", "drop"}})

\* Nobody sleeps beside work: while a worker is asleep, every runnable that could
\* be started has a worker on its way to the list, notified or done with a run.
OnItsWay == {t \in Threads : pc[t] \in {"get", "recheck", "drop"}}
Startables == {r \in Runnables \ mRunningRequests :
                  \E i \in 1..Len(mPendingRequests) : mPendingRequests[i] = r}
NoIdleBesideWork == Asleep # {} => Cardinality(Startables) <= Cardinality(OnItsWay)

\* A request that waits has a worker that will come for it.
WorkHasWorker == mPendingRequests # <<>> => \E t \in Threads : pc[t] # "none" /\ t \notin Asleep

\* Shutdown returns only when every accepted request has been run and every worker
\* has left.
ShutdownIsClean ==
    /\ closer # "none" <=> mShuttingDown
    /\ closer \in {"joining", "joined", "down"} => mPendingRequests = <<>>
    /\ closer = "down" => mThreads = {} /\ mRunningRequests = {}

\* The pool is an executor: order, single runs, no request lost or run twice.
Exec == INSTANCE Executor WITH
    queue <- mPendingRequests, active <- mRunningRequests, open <- ~mShuttingDown
ImplementsExecutor == Exec!ExecSpec

\* Every accepted request is run.
RequestsRun ==
    \A r \in Runnables : (\E i \in 1..Len(mPendingRequests) : mPendingRequests[i] = r)
                             ~> (\E t \in Threads : pc[t] = "run" /\ request[t] = r)

\* Shutdown returns, whatever the workers are doing when it is called.
ShutdownReturns == mShuttingDown ~> closer = "down"

\* Who dispatches and who shuts the pool down get what they wait for.
Progress == RequestsRun /\ ShutdownReturns
==============================================================================
