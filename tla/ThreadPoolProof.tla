--------------------------- MODULE ThreadPoolProof ---------------------------
(***************************************************************************)
(* Proofs about ThreadPool for any numbers of threads and runnables, any   *)
(* minimum and maximum.                                                    *)
(***************************************************************************)
EXTENDS ThreadPool, FiniteSetTheorems, SequenceTheorems, TLAPS

IInv ==
    /\ TypeOK /\ RunsAlone /\ PoolIsBounded /\ BusyIsExact
    /\ WorkHasWorker /\ ShutdownIsClean /\ NoIdleBesideWork

------------------------------------------------------------------------------
(* Facts about the lists.                                                   *)

\* Any set of threads is finite and has a number of elements.
LEMMA ThreadsAreCounted ==
    ASSUME NEW T, T \subseteq Threads
    PROVE  IsFiniteSet(T) /\ Cardinality(T) \in Nat
    BY PoolAssumption, FS_Subset, FS_CardinalityType

\* Taking the i-th request out of the list.
LEMMA Removed ==
    ASSUME mPendingRequests \in Seq(Runnables), NEW i \in 1..Len(mPendingRequests)
    PROVE  /\ RemoveObjectAt(i) \in Seq(Runnables)
           /\ Len(RemoveObjectAt(i)) = Len(mPendingRequests) - 1
           /\ \A j \in 1..Len(mPendingRequests) - 1 :
                RemoveObjectAt(i)[j] = IF j < i THEN mPendingRequests[j] ELSE mPendingRequests[j + 1]
<1> DEFINE q == mPendingRequests
           a == SubSeq(q, 1, i - 1)
           b == SubSeq(q, i + 1, Len(q))
<1>1. Len(q) \in Nat /\ i \in Int
      BY LenProperties
<1>2. /\ a \in Seq(Runnables) /\ Len(a) = i - 1
      /\ \A j \in 1..i - 1 : a[j] = q[j]
  <2>1. \A j \in 1..i - 1 : q[j] \in Runnables
        BY <1>1, ElementOfSeq
  <2> QED BY <1>1, <2>1, SubSeqProperties
<1>3. /\ b \in Seq(Runnables) /\ Len(b) = Len(q) - i
      /\ \A j \in 1..Len(q) - i : b[j] = q[i + j]
  <2>1. \A j \in i + 1..Len(q) : q[j] \in Runnables
        BY <1>1, ElementOfSeq
  <2> QED BY <1>1, <2>1, SubSeqProperties
<1>4. /\ a \o b \in Seq(Runnables) /\ Len(a \o b) = Len(a) + Len(b)
      /\ \A j \in 1..Len(a) + Len(b) : (a \o b)[j] = IF j <= Len(a) THEN a[j] ELSE b[j - Len(a)]
      BY <1>2, <1>3, ConcatProperties
<1>5. RemoveObjectAt(i) = a \o b
      BY DEF RemoveObjectAt
<1>6. ASSUME NEW j \in 1..Len(q) - 1
      PROVE  (a \o b)[j] = IF j < i THEN q[j] ELSE q[j + 1]
  <2> HIDE DEF a, b, q
  <2>1. (a \o b)[j] = IF j <= i - 1 THEN a[j] ELSE b[j - (i - 1)]
        BY <1>1, <1>2, <1>3, <1>4
  <2>2. CASE j < i
        BY <1>1, <1>2, <2>1, <2>2
  <2>3. CASE ~(j < i)
    <3>1. j - (i - 1) \in 1..Len(q) - i /\ i + (j - (i - 1)) = j + 1 /\ ~(j <= i - 1)
          BY <1>1, <2>3
    <3>2. b[j - (i - 1)] = q[i + (j - (i - 1))]
          BY <1>3, <3>1
    <3>3. b[j - (i - 1)] = q[j + 1]
          BY <3>1, <3>2
    <3> QED BY <2>1, <2>3, <3>1, <3>3
  <2> QED BY <2>2, <2>3
<1>7. Len(a \o b) = Len(q) - 1
  <2> HIDE DEF a, b
  <2> QED BY <1>1, <1>2, <1>3, <1>4
<1> QED BY <1>4, <1>5, <1>6, <1>7

\* A list without a request has nothing to start, and the other way about.
Queued(r) == \E i \in 1..Len(mPendingRequests) : mPendingRequests[i] = r

LEMMA QueueFacts ==
    ASSUME mPendingRequests \in Seq(Runnables)
    PROVE  /\ Len(mPendingRequests) \in Nat
           /\ mPendingRequests # <<>> => 1 \in 1..Len(mPendingRequests)
           /\ \A i \in 1..Len(mPendingRequests) : mPendingRequests # <<>> /\ mPendingRequests[i] \in Runnables
    BY EmptySeq, LenProperties, ElementOfSeq

------------------------------------------------------------------------------
(* Types.                                                                   *)

LEMMA TypeStep == TypeOK /\ BusyIsExact /\ [Next]_vars => TypeOK'
<1> SUFFICES ASSUME TypeOK, BusyIsExact, [Next]_vars PROVE TypeOK'
    OBVIOUS
<1> USE DEF TypeOK, Pcs
<1>1. ASSUME NEW r \in Runnables, DispatchRequest(r) PROVE TypeOK'
  <2>1. mPendingRequests' \in Seq(Runnables)
        BY <1>1, AppendProperties DEF DispatchRequest
  <2>2. PICK new \in NewThreads, woken \in Wakeable :
          /\ mThreads' = mThreads \cup new
          /\ pc' = [t \in Threads |-> IF t \in new THEN "get"
                                      ELSE IF t \in woken THEN AfterWait(t) ELSE pc[t]]
        BY <1>1 DEF DispatchRequest
  <2>3. new \subseteq Threads
        BY DEF NewThreads
  <2>4. \A t \in woken : pc[t] # "none"
        BY DEF Wakeable, Asleep
  <2>5. pc' \in [Threads -> Pcs]
        BY <2>2 DEF AfterWait
  <2>6. mThreads' = {t \in Threads : pc'[t] # "none"}
        BY <2>2, <2>3, <2>4 DEF AfterWait
  <2> QED BY <1>1, <2>1, <2>5, <2>6 DEF DispatchRequest
<1>2. CASE Shutdown
      BY <1>2 DEF Shutdown, DrainAndJoin, lists, Asleep, AfterWait
<1>3. CASE ShutdownDrained
      BY <1>3 DEF ShutdownDrained, DrainAndJoin, lists, Asleep, AfterWait
<1>4. CASE ShutdownJoined
      BY <1>4 DEF ShutdownJoined, lists
<1>5. ASSUME NEW t \in Threads, NEW i \in 1..Len(mPendingRequests), TakeRequest(t, i) PROVE TypeOK'
  <2>1. mPendingRequests' \in Seq(Runnables)
        BY <1>5, Removed DEF TakeRequest
  <2>2. mPendingRequests[i] \in Runnables
        BY ElementOfSeq
  <2>3. closer' \in {"none", "draining", "drained", "joining", "joined", "down"}
        BY <1>5 DEF TakeRequest, NotifyAtZero
  <2>4. pc' \in [Threads -> Pcs] /\ mThreads' = {u \in Threads : pc'[u] # "none"}
        BY <1>5 DEF TakeRequest, Scans
  <2> QED BY <1>5, <2>1, <2>2, <2>3, <2>4 DEF TakeRequest
<1>6. ASSUME NEW t \in Threads, WaitForRequest(t) PROVE TypeOK'
      BY <1>6 DEF WaitForRequest, Scans, lists
<1>7. ASSUME NEW t \in Threads, WaitTimesOut(t) PROVE TypeOK'
      BY <1>7 DEF WaitTimesOut, lists
<1>8. ASSUME NEW t \in Threads, RemoveThread(t) PROVE TypeOK'
      BY <1>8 DEF RemoveThread, NotifyExit, lists
<1>9. ASSUME NEW t \in Threads, BumpBusy(t) PROVE TypeOK'
      BY <1>9 DEF BumpBusy, lists
<1>10. ASSUME NEW t \in Threads, RequestDone(t) PROVE TypeOK'
      BY <1>10 DEF RequestDone
<1>11. ASSUME NEW t \in Threads, DropBusy(t) PROVE TypeOK'
  <2>1. t \in {u \in Threads : pc[u] \in {"run", "drop"}}
        BY <1>11 DEF DropBusy
  <2>2. mBusyThreads # 0
        BY <2>1, ThreadsAreCounted, FS_EmptySet DEF BusyIsExact
  <2>3. mBusyThreads' \in Nat
        BY <1>11, <2>2 DEF DropBusy
  <2> QED BY <1>11, <2>3 DEF DropBusy, lists
<1>12. CASE UNCHANGED vars
      BY <1>12 DEF vars
<1> QED
    BY <1>1, <1>2, <1>3, <1>4, <1>5, <1>6, <1>7, <1>8, <1>9, <1>10, <1>11, <1>12
    DEF Next, CloserStep, WorkerStep, LeaveIdle, LeaveAtShutdown

------------------------------------------------------------------------------
(* Single runs.                                                             *)

\* Steps that leave alone who holds what.
LEMMA SameHolders ==
    ASSUME RunsAlone, UNCHANGED <<mRunningRequests, request>>,
           \A t \in Threads : Holds(t)' <=> Holds(t)
    PROVE  RunsAlone'
    BY DEF RunsAlone

LEMMA RunsAloneStep == TypeOK /\ RunsAlone /\ [Next]_vars => RunsAlone'
<1> SUFFICES ASSUME TypeOK, RunsAlone, [Next]_vars PROVE RunsAlone'
    OBVIOUS
<1>0. pc \in [Threads -> Pcs] /\ request \in [Threads -> Runnables \cup {NoRequest}]
      /\ mThreads = {t \in Threads : pc[t] # "none"}
      BY DEF TypeOK
<1>1. ASSUME NEW r \in Runnables, DispatchRequest(r) PROVE RunsAlone'
  <2>1. PICK new \in NewThreads, woken \in Wakeable :
          pc' = [t \in Threads |-> IF t \in new THEN "get"
                                    ELSE IF t \in woken THEN AfterWait(t) ELSE pc[t]]
        BY <1>1 DEF DispatchRequest
  <2>2. \A t \in new : pc[t] = "none"
        BY <1>0 DEF NewThreads
  <2>3. \A t \in woken : pc[t] \in {"timed", "untimed"}
        BY DEF Wakeable, Asleep
  <2>4. \A t \in Threads : Holds(t)' <=> Holds(t)
        BY <2>1, <2>2, <2>3 DEF Holds, AfterWait
  <2> QED BY <1>1, <2>4, SameHolders DEF DispatchRequest
<1>2. ASSUME DrainAndJoin, UNCHANGED <<mRunningRequests, request>> PROVE RunsAlone'
  <2>1. \A t \in Threads : Holds(t)' <=> Holds(t)
        BY <1>0, <1>2 DEF DrainAndJoin, Holds, AfterWait, Asleep
  <2> QED BY <1>2, <2>1, SameHolders
<1>3. ASSUME NEW t \in Threads, NEW s \in Pcs \ {"bump", "run"}, pc[t] \notin {"bump", "run"},
             pc' = [pc EXCEPT ![t] = s], UNCHANGED <<mRunningRequests, request>>
      PROVE  RunsAlone'
  <2>1. \A u \in Threads : Holds(u)' <=> Holds(u)
        BY <1>0, <1>3 DEF Holds
  <2> QED BY <1>3, <2>1, SameHolders
<1>4. ASSUME NEW t \in Threads, NEW i \in 1..Len(mPendingRequests), TakeRequest(t, i) PROVE RunsAlone'
  <2>1. mPendingRequests[i] \notin mRunningRequests
        BY <1>4 DEF TakeRequest, Startable
  <2>2. ~Holds(t) /\ Holds(t)' /\ request'[t] = mPendingRequests[i]
        BY <1>0, <1>4 DEF TakeRequest, Scans, Holds
  <2>3. \A u \in Threads \ {t} : (Holds(u)' <=> Holds(u)) /\ request'[u] = request[u]
        BY <1>0, <1>4 DEF TakeRequest, Holds
  <2>4. mRunningRequests' = mRunningRequests \cup {mPendingRequests[i]}
        BY <1>4 DEF TakeRequest
  <2> QED BY <2>1, <2>2, <2>3, <2>4 DEF RunsAlone
<1>5. ASSUME NEW t \in Threads, BumpBusy(t) PROVE RunsAlone'
  <2>1. \A u \in Threads : Holds(u)' <=> Holds(u)
        BY <1>0, <1>5 DEF BumpBusy, Holds
  <2> QED BY <1>5, <2>1, SameHolders DEF BumpBusy, lists
<1>6. ASSUME NEW t \in Threads, RequestDone(t) PROVE RunsAlone'
  <2>1. Holds(t) /\ ~Holds(t)'
        BY <1>0, <1>6 DEF RequestDone, Holds
  <2>2. \A u \in Threads \ {t} : (Holds(u)' <=> Holds(u)) /\ request'[u] = request[u]
        BY <1>0, <1>6 DEF RequestDone, Holds
  <2>3. mRunningRequests' = mRunningRequests \ {request[t]}
        BY <1>6 DEF RequestDone
  <2> QED BY <2>1, <2>2, <2>3 DEF RunsAlone
<1>7. CASE Shutdown
      BY <1>2, <1>7 DEF Shutdown, lists
<1>8. CASE ShutdownDrained
      BY <1>2, <1>8 DEF ShutdownDrained, lists
<1>9. CASE ShutdownJoined
      BY <1>9, SameHolders DEF ShutdownJoined, lists, Holds
<1>10. ASSUME NEW t \in Threads, WaitForRequest(t) PROVE RunsAlone'
  <2>1. PICK s \in {"timed", "untimed"} : pc' = [pc EXCEPT ![t] = s]
        BY <1>10 DEF WaitForRequest
  <2> QED BY <1>3, <1>10, <2>1 DEF WaitForRequest, Scans, lists, Pcs
<1>11. ASSUME NEW t \in Threads, WaitTimesOut(t) PROVE RunsAlone'
       BY <1>3, <1>11 DEF WaitTimesOut, lists, Pcs
<1>12. ASSUME NEW t \in Threads, LeaveIdle(t) PROVE RunsAlone'
       BY <1>3, <1>12 DEF LeaveIdle, RemoveThread, lists, Pcs
<1>13. ASSUME NEW t \in Threads, LeaveAtShutdown(t) PROVE RunsAlone'
       BY <1>3, <1>13 DEF LeaveAtShutdown, Scans, RemoveThread, lists, Pcs
<1>14. ASSUME NEW t \in Threads, DropBusy(t) PROVE RunsAlone'
       BY <1>3, <1>14 DEF DropBusy, lists, Pcs
<1>15. CASE UNCHANGED vars
       BY <1>15, SameHolders DEF vars, Holds
<1> QED
    BY <1>1, <1>4, <1>5, <1>6, <1>7, <1>8, <1>9, <1>10, <1>11, <1>12, <1>13, <1>14, <1>15
    DEF Next, CloserStep, WorkerStep

------------------------------------------------------------------------------
(* Counts.                                                                  *)

\* Joining is guarded by the count; every other step keeps the threads or loses one.
LEMMA BoundStep == TypeOK /\ PoolIsBounded /\ [Next]_vars => PoolIsBounded'
<1> SUFFICES ASSUME TypeOK, PoolIsBounded, [Next]_vars PROVE PoolIsBounded'
    OBVIOUS
<1>1. IsFiniteSet(mThreads) /\ Cardinality(mThreads) \in Nat /\ mMaxThreads \in Nat
      BY ThreadsAreCounted, PoolAssumption DEF TypeOK
<1>2. CASE mThreads' = mThreads
      BY <1>2 DEF PoolIsBounded
<1>3. ASSUME NEW t \in Threads, RemoveThread(t) PROVE PoolIsBounded'
  <2>1. Cardinality(mThreads') <= Cardinality(mThreads)
        BY <1>1, <1>3, FS_Subset DEF RemoveThread
  <2>2. Cardinality(mThreads') \in Nat
        BY <1>1, <1>3, FS_Subset, FS_CardinalityType DEF RemoveThread
  <2> QED BY <1>1, <2>1, <2>2 DEF PoolIsBounded
<1>4. ASSUME NEW r \in Runnables, DispatchRequest(r) PROVE PoolIsBounded'
  <2>1. PICK new \in NewThreads : mThreads' = mThreads \cup new
        BY <1>4 DEF DispatchRequest
  <2>2. CASE ~NeedsThread
        BY <1>2, <2>1, <2>2 DEF NewThreads
  <2>3. CASE NeedsThread
    <3>1. Cardinality(mThreads) < mMaxThreads
          BY <2>3 DEF NeedsThread
    <3>2. PICK u \in Threads : new = {u}
          BY <2>1, <2>3 DEF NewThreads
    <3>3. Cardinality(mThreads') = IF u \in mThreads THEN Cardinality(mThreads) ELSE Cardinality(mThreads) + 1
          BY <1>1, <2>1, <3>2, FS_AddElement
    <3> QED BY <1>1, <3>1, <3>3 DEF PoolIsBounded
  <2> QED BY <2>2, <2>3
<1> QED
    BY <1>2, <1>3, <1>4
    DEF Next, CloserStep, WorkerStep, Shutdown, ShutdownDrained, ShutdownJoined, TakeRequest,
        WaitForRequest, WaitTimesOut, LeaveIdle, LeaveAtShutdown, BumpBusy, RequestDone, DropBusy, vars

Busy == {t \in Threads : pc[t] \in {"run", "drop"}}

\* Only the constructor and the destructor of nsThreadPoolBusyBody change who is busy.
LEMMA BusyStep == TypeOK /\ BusyIsExact /\ [Next]_vars => BusyIsExact'
<1> SUFFICES ASSUME TypeOK, BusyIsExact, [Next]_vars PROVE BusyIsExact'
    OBVIOUS
<1>0. pc \in [Threads -> Pcs] /\ mThreads = {t \in Threads : pc[t] # "none"}
      BY DEF TypeOK
<1>1. mBusyThreads = Cardinality(Busy) /\ (BusyIsExact' <=> mBusyThreads' = Cardinality(Busy'))
      BY DEF BusyIsExact, Busy
<1>2. IsFiniteSet(Busy) /\ Cardinality(Busy) \in Nat
      BY ThreadsAreCounted DEF Busy
<1>3. ASSUME UNCHANGED mBusyThreads,
             \A t \in Threads : pc'[t] \in {"run", "drop"} <=> pc[t] \in {"run", "drop"}
      PROVE  BusyIsExact'
      BY <1>1, <1>3 DEF Busy
<1>4. ASSUME NEW t \in Threads, NEW s, pc' = [pc EXCEPT ![t] = s], UNCHANGED mBusyThreads,
             s \in {"run", "drop"} <=> pc[t] \in {"run", "drop"}
      PROVE  BusyIsExact'
      BY <1>0, <1>3, <1>4
<1>5. ASSUME NEW r \in Runnables, DispatchRequest(r) PROVE BusyIsExact'
  <2>1. PICK new \in NewThreads, woken \in Wakeable :
          pc' = [t \in Threads |-> IF t \in new THEN "get"
                                    ELSE IF t \in woken THEN AfterWait(t) ELSE pc[t]]
        BY <1>5 DEF DispatchRequest
  <2>2. \A t \in new : pc[t] = "none"
        BY <1>0 DEF NewThreads
  <2>3. \A t \in woken : pc[t] \in {"timed", "untimed"}
        BY DEF Wakeable, Asleep
  <2>4. \A t \in Threads : pc'[t] \in {"run", "drop"} <=> pc[t] \in {"run", "drop"}
        BY <2>1, <2>2, <2>3 DEF AfterWait
  <2> QED BY <1>3, <1>5, <2>4 DEF DispatchRequest
<1>6. ASSUME DrainAndJoin, UNCHANGED mBusyThreads PROVE BusyIsExact'
  <2>1. \A t \in Threads : pc'[t] \in {"run", "drop"} <=> pc[t] \in {"run", "drop"}
        BY <1>0, <1>6 DEF DrainAndJoin, AfterWait, Asleep
  <2> QED BY <1>3, <1>6, <2>1
<1>7. ASSUME NEW t \in Threads, BumpBusy(t) PROVE BusyIsExact'
  <2>1. Busy' = Busy \cup {t} /\ t \notin Busy /\ mBusyThreads' = mBusyThreads + 1
        BY <1>0, <1>7 DEF BumpBusy, Busy
  <2>2. Cardinality(Busy') = Cardinality(Busy) + 1
        BY <1>2, <2>1, FS_AddElement
  <2> QED BY <1>1, <2>1, <2>2
<1>8. ASSUME NEW t \in Threads, DropBusy(t) PROVE BusyIsExact'
  <2>1. Busy' = Busy \ {t} /\ t \in Busy /\ mBusyThreads' = mBusyThreads - 1
        BY <1>0, <1>8 DEF DropBusy, Busy
  <2>2. Cardinality(Busy') = Cardinality(Busy) - 1
        BY <1>2, <2>1, FS_RemoveElement
  <2> QED BY <1>1, <2>1, <2>2
<1>9. ASSUME NEW t \in Threads, NEW i \in 1..Len(mPendingRequests), TakeRequest(t, i) PROVE BusyIsExact'
      BY <1>4, <1>9 DEF TakeRequest, Scans
<1>10. ASSUME NEW t \in Threads, WaitForRequest(t) PROVE BusyIsExact'
  <2>1. PICK s \in {"timed", "untimed"} : pc' = [pc EXCEPT ![t] = s]
        BY <1>10 DEF WaitForRequest
  <2> QED BY <1>4, <1>10, <2>1 DEF WaitForRequest, Scans
<1>11. ASSUME NEW t \in Threads, WaitTimesOut(t) PROVE BusyIsExact'
       BY <1>4, <1>11 DEF WaitTimesOut
<1>12. ASSUME NEW t \in Threads, LeaveIdle(t) \/ LeaveAtShutdown(t) PROVE BusyIsExact'
       BY <1>4, <1>12 DEF LeaveIdle, LeaveAtShutdown, Scans, RemoveThread
<1>13. ASSUME NEW t \in Threads, RequestDone(t) PROVE BusyIsExact'
       BY <1>4, <1>13 DEF RequestDone
<1>14. CASE Shutdown \/ ShutdownDrained
       BY <1>6, <1>14 DEF Shutdown, ShutdownDrained
<1>15. CASE ShutdownJoined \/ UNCHANGED vars
       BY <1>3, <1>15 DEF ShutdownJoined, vars
<1> QED
    BY <1>5, <1>7, <1>8, <1>9, <1>10, <1>11, <1>12, <1>13, <1>14, <1>15 DEF Next, CloserStep, WorkerStep

------------------------------------------------------------------------------
(* Work and workers.                                                        *)

LEMMA WorkerStays ==
    TypeOK /\ RunsAlone /\ BusyIsExact /\ WorkHasWorker /\ [Next]_vars => WorkHasWorker'
<1> SUFFICES ASSUME TypeOK, RunsAlone, BusyIsExact, WorkHasWorker, [Next]_vars, mPendingRequests' # <<>>
             PROVE  \E t \in Threads : pc'[t] \notin {"none", "timed", "untimed"}
    BY DEF WorkHasWorker, Asleep
<1>0. pc \in [Threads -> Pcs] /\ mThreads = {t \in Threads : pc[t] # "none"}
      BY DEF TypeOK
<1>13. /\ mPendingRequests # <<>> => 1 \in 1..Len(mPendingRequests)
      /\ Len(mPendingRequests) \in Nat
      BY QueueFacts DEF TypeOK
<1>1. mPendingRequests # <<>> => \E t \in Threads : pc[t] \notin {"none", "timed", "untimed"}
      BY DEF WorkHasWorker, Asleep
<1>2. ASSUME NEW t \in Threads, NEW s, pc' = [pc EXCEPT ![t] = s],
             s \notin {"none", "timed", "untimed"}
      PROVE  pc'[t] \notin {"none", "timed", "untimed"}
      BY <1>0, <1>2
<1>3. ASSUME NEW t \in Threads, NEW s, pc' = [pc EXCEPT ![t] = s], mPendingRequests # <<>>,
             NothingStartable, ~Holds(t)
      PROVE  \E u \in Threads : pc'[u] \notin {"none", "timed", "untimed"}
  <2>1. mPendingRequests[1] \in mRunningRequests
        BY <1>3, <1>13 DEF NothingStartable
  <2>2. PICK u \in Threads : Holds(u)
        BY <2>1 DEF RunsAlone
  <2>3. pc'[u] = pc[u]
        BY <1>0, <1>3, <2>2 DEF Holds
  <2> QED BY <2>2, <2>3 DEF Holds
<1>4. ASSUME NEW r \in Runnables, DispatchRequest(r)
      PROVE  \E t \in Threads : pc'[t] \notin {"none", "timed", "untimed"}
  <2>1. PICK new \in NewThreads, woken \in Wakeable :
          pc' = [t \in Threads |-> IF t \in new THEN "get"
                                    ELSE IF t \in woken THEN AfterWait(t) ELSE pc[t]]
        BY <1>4 DEF DispatchRequest
  <2>2. CASE NeedsThread
    <3>1. PICK u \in Threads : new = {u}
          BY <2>1, <2>2 DEF NewThreads
    <3> QED BY <2>1, <3>1
  <2>3. CASE ~NeedsThread /\ Asleep # {}
    <3>1. PICK u \in Asleep : woken = {u}
          BY <2>1, <2>3 DEF Wakeable
    <3> QED BY <2>1, <3>1 DEF Asleep, AfterWait
  <2>4. CASE ~NeedsThread /\ Asleep = {}
    <3>1. IsFiniteSet(mThreads) /\ Cardinality(mThreads) \in Nat /\ mBusyThreads \in Nat
          BY ThreadsAreCounted DEF TypeOK
    <3>2. Cardinality(mThreads) # 0
      <4>1. mMaxThreads \in Nat /\ mMaxThreads > 0
            BY PoolAssumption
      <4>2. ~(Len(mPendingRequests) >= Cardinality(mThreads) - mBusyThreads
                /\ Cardinality(mThreads) < mMaxThreads)
            BY <2>4 DEF NeedsThread
      <4> QED BY <1>13, <3>1, <4>1, <4>2
    <3>3. PICK u \in mThreads : TRUE
          BY <3>1, <3>2, FS_EmptySet
    <3>4. pc[u] \notin {"none", "timed", "untimed"} /\ woken = {} /\ new = {} /\ u \in Threads
          BY <1>0, <2>1, <2>4, <3>3 DEF Asleep, Wakeable, NewThreads
    <3> QED BY <2>1, <3>4
  <2> QED BY <2>2, <2>3, <2>4
<1>5. ASSUME DrainAndJoin, UNCHANGED mPendingRequests
      PROVE  \E t \in Threads : pc'[t] \notin {"none", "timed", "untimed"}
      BY <1>1, <1>5 DEF DrainAndJoin
<1>6. ASSUME NEW t \in Threads, NEW i \in 1..Len(mPendingRequests), TakeRequest(t, i)
      PROVE  pc'[t] \notin {"none", "timed", "untimed"}
      BY <1>2, <1>6 DEF TakeRequest
<1>7. ASSUME NEW t \in Threads, WaitForRequest(t)
      PROVE  \E u \in Threads : pc'[u] \notin {"none", "timed", "untimed"}
  <2>1. PICK s : pc' = [pc EXCEPT ![t] = s]
        BY <1>7 DEF WaitForRequest
  <2> QED BY <1>3, <1>7, <2>1 DEF WaitForRequest, Scans, Holds, lists
<1>8. ASSUME NEW t \in Threads, LeaveAtShutdown(t)
      PROVE  \E u \in Threads : pc'[u] \notin {"none", "timed", "untimed"}
      BY <1>3, <1>8 DEF LeaveAtShutdown, RemoveThread, Scans, Holds, lists
<1>9. ASSUME NEW t \in Threads, LeaveIdle(t) PROVE FALSE
      BY <1>9 DEF LeaveIdle, RemoveThread, lists
<1>10. ASSUME NEW t \in Threads, WaitTimesOut(t) \/ BumpBusy(t) \/ RequestDone(t) \/ DropBusy(t)
       PROVE  pc'[t] \notin {"none", "timed", "untimed"}
       BY <1>2, <1>10 DEF WaitTimesOut, BumpBusy, RequestDone, DropBusy
<1>11. CASE Shutdown \/ ShutdownDrained
       BY <1>5, <1>11 DEF Shutdown, ShutdownDrained, lists
<1>12. CASE ShutdownJoined \/ UNCHANGED vars
       BY <1>1, <1>12 DEF ShutdownJoined, lists, vars
<1> QED
    BY <1>4, <1>6, <1>7, <1>8, <1>9, <1>10, <1>11, <1>12 DEF Next, CloserStep, WorkerStep
------------------------------------------------------------------------------
(* Shutdown.                                                                *)

LEMMA ShutdownStep ==
    TypeOK /\ RunsAlone /\ ShutdownIsClean /\ [Next]_vars => ShutdownIsClean'
<1> SUFFICES ASSUME TypeOK, RunsAlone, ShutdownIsClean, [Next]_vars PROVE ShutdownIsClean'
    OBVIOUS
<1>0. mThreads = {t \in Threads : pc[t] # "none"} /\ mPendingRequests \in Seq(Runnables)
      BY DEF TypeOK
<1>1. /\ closer # "none" <=> mShuttingDown
      /\ closer \in {"joining", "joined", "down"} => mPendingRequests = <<>>
      /\ closer = "down" => mThreads = {} /\ mRunningRequests = {}
      BY DEF ShutdownIsClean
<1>2. mThreads = {} => mRunningRequests = {}
      BY <1>0 DEF RunsAlone, Holds
<1>3. ASSUME DrainAndJoin, mShuttingDown', UNCHANGED <<mThreads, lists>> PROVE ShutdownIsClean'
      BY <1>2, <1>3 DEF DrainAndJoin, ShutdownIsClean, lists
<1>4. CASE Shutdown
      BY <1>3, <1>4 DEF Shutdown
<1>5. CASE ShutdownDrained
      BY <1>1, <1>3, <1>5 DEF ShutdownDrained
<1>6. CASE ShutdownJoined
      BY <1>1, <1>2, <1>6 DEF ShutdownJoined, ShutdownIsClean, lists
<1>7. ASSUME NEW r \in Runnables, DispatchRequest(r) PROVE ShutdownIsClean'
      BY <1>1, <1>7 DEF DispatchRequest, ShutdownIsClean
<1>8. ASSUME NEW t \in Threads, NEW i \in 1..Len(mPendingRequests), TakeRequest(t, i)
      PROVE  ShutdownIsClean'
  <2>1. mPendingRequests # <<>>
        BY <1>0, QueueFacts
  <2>2. closer \notin {"joining", "joined", "down"}
        BY <1>1, <2>1
  <2>3. closer' \notin {"joining", "joined", "down"} /\ (closer' # "none" <=> closer # "none")
        BY <1>8, <2>2 DEF TakeRequest, NotifyAtZero
  <2> QED BY <1>1, <1>8, <2>3 DEF TakeRequest, ShutdownIsClean
<1>9. ASSUME NEW t \in Threads, pc[t] # "none" PROVE closer # "down"
      BY <1>0, <1>1, <1>9
<1>10. ASSUME NEW t \in Threads, RemoveThread(t), pc[t] # "none" PROVE ShutdownIsClean'
       BY <1>1, <1>9, <1>10 DEF RemoveThread, NotifyExit, ShutdownIsClean, lists
<1>11. ASSUME UNCHANGED <<mThreads, lists, mShuttingDown, closer>> PROVE ShutdownIsClean'
       BY <1>1, <1>11 DEF ShutdownIsClean, lists
<1>12. ASSUME NEW t \in Threads, RequestDone(t) PROVE ShutdownIsClean'
       BY <1>1, <1>9, <1>12 DEF RequestDone, ShutdownIsClean
<1>13. ASSUME NEW t \in Threads, LeaveIdle(t) \/ LeaveAtShutdown(t) PROVE ShutdownIsClean'
       BY <1>10, <1>13 DEF LeaveIdle, LeaveAtShutdown, Scans
<1>14. ASSUME NEW t \in Threads, WaitForRequest(t) \/ WaitTimesOut(t) \/ BumpBusy(t) \/ DropBusy(t)
       PROVE  ShutdownIsClean'
       BY <1>11, <1>14 DEF WaitForRequest, WaitTimesOut, BumpBusy, DropBusy
<1>15. CASE UNCHANGED vars
       BY <1>11, <1>15 DEF vars, lists
<1> QED
    BY <1>4, <1>5, <1>6, <1>7, <1>8, <1>12, <1>13, <1>14, <1>15 DEF Next, CloserStep, WorkerStep

------------------------------------------------------------------------------
(* Idle workers.                                                            *)

LEMMA StartablesCounted ==
    ASSUME TypeOK
    PROVE  IsFiniteSet(Startables) /\ Cardinality(Startables) \in Nat
<1>1. mPendingRequests \in Seq(Runnables) /\ Len(mPendingRequests) \in Nat
      BY LenProperties DEF TypeOK
<1> DEFINE Q == {mPendingRequests[i] : i \in 1..Len(mPendingRequests)}
           f == [i \in 1..Len(mPendingRequests) |-> mPendingRequests[i]]
<1>2. IsFiniteSet(1..Len(mPendingRequests))
      BY <1>1, FS_Interval
<1>3. f \in Surjection(1..Len(mPendingRequests), Q)
      BY DEF Surjection
<1>4. IsFiniteSet(Q)
      BY <1>2, <1>3, FS_Surjection
<1>5. Startables \subseteq Q
      BY DEF Startables
<1> QED BY <1>4, <1>5, FS_Subset, FS_CardinalityType

\* The two sets NoIdleBesideWork compares may each gain or lose one element in a step.
LEMMA BothGain ==
    ASSUME NEW S, IsFiniteSet(S), NEW S2, NEW O, NEW O2, IsFiniteSet(O), IsFiniteSet(O2),
           Cardinality(S) <= Cardinality(O),
           NEW x, S2 \subseteq S \cup {x},
           NEW t, t \in O2 \ O, O \subseteq O2
    PROVE  Cardinality(S2) <= Cardinality(O2)
<1>0. Cardinality(S) \in Nat
      BY FS_CardinalityType
<1>1. IsFiniteSet(S \cup {x}) /\ Cardinality(S \cup {x}) <= Cardinality(S) + 1
  <2>1. /\ IsFiniteSet(S \cup {x})
        /\ Cardinality(S \cup {x}) = IF x \in S THEN Cardinality(S) ELSE Cardinality(S) + 1
        BY FS_AddElement
  <2> QED BY <1>0, <2>1
<1>2. IsFiniteSet(S2) /\ Cardinality(S2) <= Cardinality(S \cup {x})
      BY <1>1, FS_Subset
<1>3. Cardinality(O \cup {t}) = Cardinality(O) + 1
      BY FS_AddElement
<1>4. IsFiniteSet(O \cup {t}) /\ Cardinality(O \cup {t}) <= Cardinality(O2)
      BY FS_Subset
<1>5. /\ Cardinality(S) \in Nat /\ Cardinality(O) \in Nat /\ Cardinality(S2) \in Nat
      /\ Cardinality(O2) \in Nat /\ Cardinality(S \cup {x}) \in Nat
      BY <1>1, <1>2, FS_CardinalityType
<1> QED BY <1>1, <1>2, <1>3, <1>4, <1>5

LEMMA BothLose ==
    ASSUME NEW S, IsFiniteSet(S), NEW S2, NEW O, IsFiniteSet(O),
           Cardinality(S) <= Cardinality(O),
           NEW x \in S, S2 \subseteq S \ {x}, NEW t \in O
    PROVE  Cardinality(S2) <= Cardinality(O \ {t})
<1>1. IsFiniteSet(S \ {x}) /\ Cardinality(S \ {x}) = Cardinality(S) - 1
      BY FS_RemoveElement
<1>2. IsFiniteSet(S2) /\ Cardinality(S2) <= Cardinality(S \ {x})
      BY <1>1, FS_Subset
<1>3. Cardinality(O \ {t}) = Cardinality(O) - 1
      BY FS_RemoveElement
<1>4. Cardinality(S) \in Nat /\ Cardinality(O) \in Nat /\ Cardinality(S2) \in Nat
      BY <1>2, FS_CardinalityType
<1> QED BY <1>1, <1>2, <1>3, <1>4

LEMMA IdleStep == TypeOK /\ RunsAlone /\ NoIdleBesideWork /\ [Next]_vars => NoIdleBesideWork'
<1> SUFFICES ASSUME TypeOK, RunsAlone, NoIdleBesideWork, [Next]_vars, Asleep' # {}
             PROVE  Cardinality(Startables') <= Cardinality(OnItsWay')
    BY DEF NoIdleBesideWork
<1>0. /\ pc \in [Threads -> Pcs] /\ mThreads = {t \in Threads : pc[t] # "none"}
      /\ mPendingRequests \in Seq(Runnables)
      BY DEF TypeOK
<1>1. /\ IsFiniteSet(Startables) /\ IsFiniteSet(OnItsWay) /\ IsFiniteSet(OnItsWay')
      /\ Cardinality(Startables) \in Nat /\ Cardinality(OnItsWay) \in Nat
      /\ Cardinality(OnItsWay') \in Nat
      BY StartablesCounted, ThreadsAreCounted DEF OnItsWay
<1>2. Asleep # {} => Cardinality(Startables) <= Cardinality(OnItsWay)
      BY DEF NoIdleBesideWork
<1>3. CASE Startables' = {}
      BY <1>1, <1>3, FS_EmptySet
<1>4. ASSUME Asleep # {}, Startables' = Startables, OnItsWay \subseteq OnItsWay'
      PROVE  Cardinality(Startables') <= Cardinality(OnItsWay')
  <2>1. Cardinality(OnItsWay) <= Cardinality(OnItsWay')
        BY <1>1, <1>4, FS_Subset
  <2> QED BY <1>1, <1>2, <1>4, <2>1
<1>5. ASSUME NEW r \in Runnables, DispatchRequest(r)
      PROVE  Cardinality(Startables') <= Cardinality(OnItsWay')
  <2>1. PICK new \in NewThreads, woken \in Wakeable :
          pc' = [t \in Threads |-> IF t \in new THEN "get"
                                    ELSE IF t \in woken THEN AfterWait(t) ELSE pc[t]]
        BY <1>5 DEF DispatchRequest
  <2>2. \A t \in new : pc[t] = "none"
        BY <1>0 DEF NewThreads
  <2>3. woken \subseteq Asleep
        BY DEF Wakeable
  <2>4. Asleep # {}
        BY <2>1 DEF Asleep, AfterWait
  <2>5. PICK u \in Asleep : woken = {u}
        BY <2>1, <2>4 DEF Wakeable
  <2>6. OnItsWay \subseteq OnItsWay' /\ u \in OnItsWay' \ OnItsWay
        BY <2>1, <2>2, <2>5 DEF OnItsWay, Asleep, AfterWait
  <2>7. Startables' \subseteq Startables \cup {r}
    <3>1. /\ Len(mPendingRequests') = Len(mPendingRequests) + 1 /\ Len(mPendingRequests) \in Nat
          /\ \A i \in 1..Len(mPendingRequests) : mPendingRequests'[i] = mPendingRequests[i]
          /\ mPendingRequests'[Len(mPendingRequests) + 1] = r
          BY <1>0, <1>5, AppendProperties, LenProperties DEF DispatchRequest
    <3>2. \A i \in 1..Len(mPendingRequests') : i = Len(mPendingRequests) + 1 \/ i \in 1..Len(mPendingRequests)
          BY <3>1
    <3>3. mRunningRequests' = mRunningRequests
          BY <1>5 DEF DispatchRequest
    <3> QED BY <3>1, <3>2, <3>3 DEF Startables
  <2> QED BY <1>1, <1>2, <2>4, <2>6, <2>7, BothGain
<1>6. ASSUME DrainAndJoin, UNCHANGED lists PROVE Cardinality(Startables') <= Cardinality(OnItsWay')
  <2>1. UNCHANGED pc
        BY <1>0, <1>6 DEF DrainAndJoin, Asleep, AfterWait
  <2> QED BY <1>4, <1>6, <2>1 DEF lists, Startables, OnItsWay, Asleep
<1>7. ASSUME NEW t \in Threads, NEW i \in 1..Len(mPendingRequests), TakeRequest(t, i)
      PROVE  Cardinality(Startables') <= Cardinality(OnItsWay')
  <2>1. mPendingRequests[i] \in Startables
        BY <1>0, <1>7, ElementOfSeq DEF TakeRequest, Startable, Startables
  <2>2. Startables' \subseteq Startables \ {mPendingRequests[i]}
    <3>1. /\ Len(mPendingRequests') = Len(mPendingRequests) - 1 /\ Len(mPendingRequests) \in Nat
          /\ \A j \in 1..Len(mPendingRequests) - 1 :
               mPendingRequests'[j] = IF j < i THEN mPendingRequests[j] ELSE mPendingRequests[j + 1]
          BY <1>0, <1>7, Removed, LenProperties DEF TakeRequest
    <3>2. \A j \in 1..Len(mPendingRequests') :
             \E k \in 1..Len(mPendingRequests) : mPendingRequests'[j] = mPendingRequests[k]
      <4>1. \A j \in 1..Len(mPendingRequests') :
               j \in 1..Len(mPendingRequests) /\ j + 1 \in 1..Len(mPendingRequests)
            BY <3>1
      <4> QED BY <3>1, <4>1
    <3>3. mRunningRequests' = mRunningRequests \cup {mPendingRequests[i]}
          BY <1>7 DEF TakeRequest
    <3> QED BY <3>2, <3>3 DEF Startables
  <2>3. OnItsWay' = OnItsWay \ {t} /\ t \in OnItsWay /\ Asleep' = Asleep
        BY <1>0, <1>7 DEF TakeRequest, Scans, OnItsWay, Asleep
  <2> QED BY <1>1, <1>2, <2>1, <2>2, <2>3, BothLose
<1>8. ASSUME NothingStartable, UNCHANGED lists PROVE Startables' = {}
      BY <1>8 DEF NothingStartable, Startables, lists
<1>9. ASSUME NEW t \in Threads, WaitForRequest(t) \/ LeaveAtShutdown(t) PROVE Startables' = {}
      BY <1>8, <1>9 DEF WaitForRequest, LeaveAtShutdown, RemoveThread
<1>10. ASSUME NEW t \in Threads, LeaveIdle(t) PROVE Startables' = {}
  <2>1. mPendingRequests' = <<>>
        BY <1>10 DEF LeaveIdle, RemoveThread, lists
  <2> QED BY <2>1, EmptySeq DEF Startables
<1>11. ASSUME NEW t \in Threads, NEW s \in Pcs, pc' = [pc EXCEPT ![t] = s], UNCHANGED lists,
              s \notin {"timed", "untimed"}, pc[t] \in {"get", "recheck", "drop"} => s \in {"get", "recheck", "drop"}
       PROVE  Cardinality(Startables') <= Cardinality(OnItsWay')
  <2>1. Asleep' \subseteq Asleep /\ OnItsWay \subseteq OnItsWay'
        BY <1>0, <1>11 DEF Asleep, OnItsWay
  <2> QED BY <1>4, <1>11, <2>1 DEF lists, Startables
<1>12. ASSUME NEW t \in Threads, WaitTimesOut(t) \/ BumpBusy(t) \/ DropBusy(t)
       PROVE  Cardinality(Startables') <= Cardinality(OnItsWay')
       BY <1>11, <1>12 DEF WaitTimesOut, BumpBusy, DropBusy, Pcs
<1>13. ASSUME NEW t \in Threads, RequestDone(t)
       PROVE  Cardinality(Startables') <= Cardinality(OnItsWay')
  <2>1. Startables' \subseteq Startables \cup {request[t]}
        BY <1>13 DEF RequestDone, Startables
  <2>2. OnItsWay \subseteq OnItsWay' /\ t \in OnItsWay' \ OnItsWay /\ Asleep' = Asleep
        BY <1>0, <1>13 DEF RequestDone, OnItsWay, Asleep
  <2> QED BY <1>1, <1>2, <2>1, <2>2, BothGain
<1>14. CASE ShutdownJoined \/ UNCHANGED vars
       BY <1>4, <1>14 DEF ShutdownJoined, vars, lists, Startables, OnItsWay, Asleep
<1>15. CASE Shutdown \/ ShutdownDrained
       BY <1>6, <1>15 DEF Shutdown, ShutdownDrained
<1> QED
    BY <1>3, <1>5, <1>7, <1>9, <1>10, <1>12, <1>13, <1>14, <1>15 DEF Next, CloserStep, WorkerStep
------------------------------------------------------------------------------
(* Theorems.                                                                *)

LEMMA InitInv == Init => IInv
<1> SUFFICES ASSUME Init PROVE IInv
    OBVIOUS
<1>1. Cardinality({}) = 0 /\ {t \in Threads : pc[t] \in {"run", "drop"}} = {}
      BY FS_EmptySet DEF Init
<1>2. TypeOK
      BY EmptySeq DEF Init, TypeOK, Pcs
<1>3. RunsAlone /\ WorkHasWorker /\ ShutdownIsClean
      BY DEF Init, RunsAlone, Holds, WorkHasWorker, ShutdownIsClean
<1>4. PoolIsBounded /\ BusyIsExact
  <2>1. Cardinality(mThreads) = 0 /\ mMaxThreads \in Nat
        BY <1>1, PoolAssumption DEF Init
  <2>2. mBusyThreads = Cardinality({t \in Threads : pc[t] \in {"run", "drop"}})
        BY <1>1 DEF Init
  <2> QED BY <2>1, <2>2 DEF PoolIsBounded, BusyIsExact
<1>5. NoIdleBesideWork
      BY DEF Init, NoIdleBesideWork, Asleep
<1> QED BY <1>2, <1>3, <1>4, <1>5 DEF IInv

\* The inductive invariant holds in every reachable state of the pool.
THEOREM Invariance == Spec => []IInv
<1>1. IInv /\ [Next]_vars => IInv'
      BY TypeStep, RunsAloneStep, BoundStep, BusyStep, WorkerStays, ShutdownStep, IdleStep DEF IInv
<1> QED BY InitInv, <1>1, PTL DEF Spec

\* Every variable of the pool keeps its type (nsThreadPool's members and the place
\* of every worker in nsThreadPoolRunnable::Run).
THEOREM TypeCorrect == Spec => []TypeOK
<1>1. IInv => TypeOK
      BY DEF IInv
<1> QED BY <1>1, Invariance, PTL

\* GetRequest never hands a runnable to a worker while another one runs it.
THEOREM NeverTwiceAtOnce == Spec => []RunsAlone
<1>1. IInv => RunsAlone
      BY DEF IInv
<1> QED BY <1>1, Invariance, PTL

\* DispatchRequest never takes the pool over its maximum.
THEOREM BoundHolds == Spec => []PoolIsBounded
<1>1. IInv => PoolIsBounded
      BY DEF IInv
<1> QED BY <1>1, Invariance, PTL

\* mBusyThreads counts the workers between the constructor and the destructor of
\* their nsThreadPoolBusyBody, so it never wraps.
THEOREM BusyCounts == Spec => []BusyIsExact
<1>1. IInv => BusyIsExact
      BY DEF IInv
<1> QED BY <1>1, Invariance, PTL

\* The notifications of DispatchRequest suffice: nobody sleeps beside work that has
\* no worker on its way.
THEOREM NobodySleepsOnWork == Spec => []NoIdleBesideWork
<1>1. IInv => NoIdleBesideWork
      BY DEF IInv
<1> QED BY <1>1, Invariance, PTL

\* While a request waits the pool has a worker that is awake.
THEOREM WorkIsAttended == Spec => []WorkHasWorker
<1>1. IInv => WorkHasWorker
      BY DEF IInv
<1> QED BY <1>1, Invariance, PTL

\* When Shutdown returns, nothing waits, nothing runs and nobody is left.
THEOREM ShutdownLeavesNothing == Spec => []ShutdownIsClean
<1>1. IInv => ShutdownIsClean
      BY DEF IInv
<1> QED BY <1>1, Invariance, PTL

\* Every step of the pool is a step of the executor or changes nothing it shows.
LEMMA ExecutorStep == TypeOK /\ RunsAlone /\ [Next]_vars
                          => [Exec!ExecNext]_<<mPendingRequests, mRunningRequests, ~mShuttingDown>>
<1> SUFFICES ASSUME TypeOK, RunsAlone, [Next]_vars
             PROVE  Exec!ExecNext \/ UNCHANGED <<mPendingRequests, mRunningRequests, ~mShuttingDown>>
    OBVIOUS
<1>1. ASSUME NEW r \in Runnables, DispatchRequest(r) PROVE Exec!Accept(r)
      BY <1>1 DEF DispatchRequest, Exec!Accept
<1>2. CASE Shutdown
      BY <1>2 DEF Shutdown, lists, Exec!ExecNext, Exec!Close
<1>3. ASSUME NEW t \in Threads, NEW i \in 1..Len(mPendingRequests), TakeRequest(t, i) PROVE Exec!Start(i)
      BY <1>3 DEF TakeRequest, Startable, RemoveObjectAt, Exec!Start, Exec!Startable
<1>4. ASSUME NEW t \in Threads, RequestDone(t) PROVE request[t] \in Runnables /\ Exec!Finish(request[t])
  <2>1. request[t] \in mRunningRequests
        BY <1>4 DEF RequestDone, RunsAlone, Holds
  <2> QED BY <1>4, <2>1 DEF RequestDone, TypeOK, Exec!Finish
<1>5. ASSUME NEW t \in Threads,
             \/ WaitForRequest(t) \/ WaitTimesOut(t) \/ LeaveIdle(t)
             \/ LeaveAtShutdown(t) \/ BumpBusy(t) \/ DropBusy(t)
      PROVE  UNCHANGED <<lists, mShuttingDown>>
      BY <1>5 DEF WaitForRequest, WaitTimesOut, LeaveIdle, LeaveAtShutdown, RemoveThread, BumpBusy, DropBusy
<1>6. CASE CloserStep \/ UNCHANGED vars
      BY <1>6 DEF CloserStep, ShutdownDrained, ShutdownJoined, lists, vars
<1> QED
    BY <1>1, <1>2, <1>3, <1>4, <1>5, <1>6 DEF Next, WorkerStep, lists, Exec!ExecNext

\* nsThreadPool implements an executor: requests start in their order, but for those
\* whose runnable is running, none is lost and none started twice.
THEOREM Implementation == Spec => ImplementsExecutor
<1>1. Init => Exec!ExecInit
      BY DEF Init, Exec!ExecInit
<1>2. IInv => TypeOK /\ RunsAlone
      BY DEF IInv
<1> QED BY <1>1, <1>2, ExecutorStep, Invariance, PTL DEF Spec, ImplementsExecutor, Exec!ExecSpec
==============================================================================
