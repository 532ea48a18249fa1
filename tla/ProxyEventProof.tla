--------------------------- MODULE ProxyEventProof ---------------------------
(***************************************************************************)
(* For any number of threads, calls and queues and any size of the pipes,  *)
(* in whatever order threads post, take and process, nested to any depth:  *)
(*   - a native queue with events in it wakes its thread's event loop,     *)
(*     which is what plevent.c has its notified flag for;                  *)
(*   - no call through a proxy is lost, made twice or touched after its    *)
(*     end, and its caller listens until the answer is there;              *)
(*   - threads and queues implement RemoteCall.                            *)
(***************************************************************************)
EXTENDS ProxyEvent, SequenceCounts, TLAPS

NotifyType ==
    /\ DOMAIN queue = Queues
    /\ eventPipe \in [Queues -> Nat]
    /\ notified \in [Queues -> BOOLEAN]
    /\ processingEvents \in [Queues -> BOOLEAN]

\* The flag is set only while there is a byte in the pipe ...
NotifiedHasByte == \A q \in Queues : notified[q] => eventPipe[q] > 0

\* ... and it is set whenever the native loop is the only one that can see the events.
NotifiedOfEvents ==
    \A q \in Queues : (IsQueueNative(q) /\ queue[q] # << >> /\ ~processingEvents[q]) => notified[q]

IInv == NotifyType /\ NotifiedHasByte /\ NotifiedOfEvents

-----------------------------------------------------------------------------
(* The operations on a queue.  Nothing is asked of q: to change a function  *)
(* outside of its domain changes nothing.                                   *)

\* A byte is written: the pipe of q is not empty afterwards, the others are left alone.
LEMMA NotifyWrites ==
    ASSUME NEW q, NativeNotify(q), eventPipe \in [Queues -> Nat]
    PROVE  /\ eventPipe' \in [Queues -> Nat]
           /\ \A p \in Queues : eventPipe'[p] = eventPipe[p] \/ (p = q /\ eventPipe'[p] > 0)
           /\ q \in Queues => eventPipe'[q] > 0
<1>1. PipeSize \in Nat \ {0}
  BY QueueAssumption
<1>2. CASE q \in Queues
  <2> DEFINE n == IF eventPipe[q] < PipeSize THEN eventPipe[q] + 1 ELSE eventPipe[q]
  <2>1. eventPipe[q] \in Nat
    BY <1>2
  <2>2. n \in Nat /\ n > 0
    BY <1>1, <2>1
  <2>3. eventPipe' = [eventPipe EXCEPT ![q] = n]
    BY DEF NativeNotify
  <2> HIDE DEF n
  <2> QED
    BY <1>2, <2>2, <2>3
<1>3. CASE q \notin Queues
  BY <1>3 DEF NativeNotify
<1> QED
  BY <1>2, <1>3

\* A byte is read, at most one, and of q only.
LEMMA AcknowledgeReads ==
    ASSUME NEW q, AcknowledgeNativeNotify(q), eventPipe \in [Queues -> Nat]
    PROVE  /\ eventPipe' \in [Queues -> Nat]
           /\ \A p \in Queues : p # q => eventPipe'[p] = eventPipe[p]
<1>1. CASE q \in Queues
  <2> DEFINE n == IF eventPipe[q] > 0 THEN eventPipe[q] - 1 ELSE eventPipe[q]
  <2>1. eventPipe[q] \in Nat
    BY <1>1
  <2>2. n \in Nat
    BY <2>1
  <2>3. eventPipe' = [eventPipe EXCEPT ![q] = n]
    BY DEF AcknowledgeNativeNotify
  <2> HIDE DEF n
  <2> QED
    BY <2>2, <2>3
<1>2. CASE q \notin Queues
  BY <1>2 DEF AcknowledgeNativeNotify
<1> QED
  BY <1>1, <1>2

\* A post announces the event if nothing is announced yet.
LEMMA PostKeeps ==
    ASSUME IInv, NEW q, NEW event, PL_PostEvent(q, event)
    PROVE  IInv'
<1>1. CASE IsQueueNative(q) /\ ~notified[q]
  <2>1. NativeNotify(q) /\ notified' = [notified EXCEPT ![q] = TRUE]
    BY <1>1 DEF PL_PostEvent
  <2>2. /\ eventPipe' \in [Queues -> Nat]
        /\ \A p \in Queues : eventPipe'[p] = eventPipe[p] \/ (p = q /\ eventPipe'[p] > 0)
        /\ q \in Queues => eventPipe'[q] > 0
    BY <2>1, NotifyWrites DEF IInv, NotifyType
  <2> QED
    BY <2>1, <2>2 DEF IInv, NotifyType, NotifiedHasByte, NotifiedOfEvents, PL_PostEvent, IsQueueNative, handlerThread
<1>2. CASE ~(IsQueueNative(q) /\ ~notified[q])
  <2>1. UNCHANGED <<eventPipe, notified, processingEvents>>
    BY <1>2 DEF PL_PostEvent
  <2>2. queue' = [queue EXCEPT ![q] = Append(@, event)]
    BY DEF PL_PostEvent
  <2> QED
    BY <1>2, <2>1, <2>2 DEF IInv, NotifyType, NotifiedHasByte, NotifiedOfEvents, IsQueueNative, handlerThread
<1> QED
  BY <1>1, <1>2

\* To take an event away leaves the notification of the others as it was.
LEMMA GetKeeps ==
    ASSUME IInv, NEW q, PL_EventAvailable(q), PL_GetEvent(q)
    PROVE  IInv'
  BY DEF IInv, NotifyType, NotifiedHasByte, NotifiedOfEvents, PL_GetEvent, PL_EventAvailable, IsQueueNative, handlerThread

\* A nested call takes the notification of events away that the outer call will announce.
LEMMA NestedKeeps ==
    ASSUME IInv, NEW q, ProcessNested(q)
    PROVE  IInv'
<1>1. /\ eventPipe' \in [Queues -> Nat]
      /\ \A p \in Queues : p # q => eventPipe'[p] = eventPipe[p]
  BY AcknowledgeReads DEF IInv, NotifyType, ProcessNested
<1>2. /\ notified' = [notified EXCEPT ![q] = FALSE]
      /\ processingEvents[q] /\ UNCHANGED <<queue, processingEvents>>
  BY DEF ProcessNested
<1> QED
  BY <1>1, <1>2 DEF IInv, NotifyType, NotifiedHasByte, NotifiedOfEvents, IsQueueNative, handlerThread

LEMMA BeginKeeps ==
    ASSUME IInv, NEW q, BeginProcessing(q)
    PROVE  IInv'
  BY DEF IInv, NotifyType, NotifiedHasByte, NotifiedOfEvents, BeginProcessing, IsQueueNative, handlerThread

\* The outermost call announces what is left, or takes the notification back.
LEMMA EndKeeps ==
    ASSUME IInv, NEW q, EndProcessing(q)
    PROVE  IInv'
<1>1. processingEvents' = [processingEvents EXCEPT ![q] = FALSE] /\ UNCHANGED queue
  BY DEF EndProcessing
<1>2. CASE ~IsQueueNative(q)
  BY <1>1, <1>2 DEF EndProcessing, IInv, NotifyType, NotifiedHasByte, NotifiedOfEvents, IsQueueNative, handlerThread
<1>3. CASE IsQueueNative(q) /\ PL_EventAvailable(q)
  <2>1. NativeNotify(q) /\ notified' = [notified EXCEPT ![q] = TRUE]
    BY <1>3 DEF EndProcessing
  <2>2. /\ eventPipe' \in [Queues -> Nat]
        /\ \A p \in Queues : eventPipe'[p] = eventPipe[p] \/ (p = q /\ eventPipe'[p] > 0)
        /\ q \in Queues => eventPipe'[q] > 0
    BY <2>1, NotifyWrites DEF IInv, NotifyType
  <2> QED
    BY <1>1, <2>1, <2>2 DEF IInv, NotifyType, NotifiedHasByte, NotifiedOfEvents, IsQueueNative, handlerThread
<1>4. CASE IsQueueNative(q) /\ ~PL_EventAvailable(q)
  <2>1. AcknowledgeNativeNotify(q) /\ notified' = [notified EXCEPT ![q] = FALSE]
    BY <1>4 DEF EndProcessing
  <2>2. /\ eventPipe' \in [Queues -> Nat]
        /\ \A p \in Queues : p # q => eventPipe'[p] = eventPipe[p]
    BY <2>1, AcknowledgeReads DEF IInv, NotifyType
  <2> QED
    BY <1>1, <1>4, <2>1, <2>2
    DEF IInv, NotifyType, NotifiedHasByte, NotifiedOfEvents, PL_EventAvailable, IsQueueNative, handlerThread
<1> QED
  BY <1>2, <1>3, <1>4

LEMMA SameQueues ==
    ASSUME IInv, UNCHANGED plVars
    PROVE  IInv'
  BY DEF plVars, IInv, NotifyType, NotifiedHasByte, NotifiedOfEvents, IsQueueNative, handlerThread

-----------------------------------------------------------------------------
LEMMA InitInv == Init => IInv
  BY DEF Init, IInv, NotifyType, NotifiedHasByte, NotifiedOfEvents

\* Whatever a thread that goes on does to a queue is one of these operations.
LEMMA ContinueKeeps ==
    ASSUME IInv, NEW t, Continue(t)
    PROVE  IInv'
<1>1. CASE UseOwnQueue(t) \/ Accepted(t) \/ PassedOn(t) \/ Refused(t) \/ Sleep(t) \/ MethodReturns(t) \/ SyncReturns(t)
           \/ NativeLoop(t) \/ PopReturns(t) \/ OnceMore(t) \/ ToElder(t)
  <2>1. UNCHANGED queueVars
    BY <1>1 DEF UseOwnQueue, Accepted, PassedOn, Refused, Sleep, MethodReturns, SyncReturns, NativeLoop, PopReturns,
                OnceMore, ToElder
  <2> QED
    BY <2>1, SameQueues DEF queueVars
<1>2. CASE UseNewQueue(t) \/ WaitReturns(t) \/ ModalEnds(t)
  <2>1. UNCHANGED plVars
    BY <1>2 DEF UseNewQueue, WaitReturns, ModalEnds
  <2> QED
    BY <2>1, SameQueues
<1>3. CASE AppendEvent(t)
  BY <1>3, PostKeeps DEF AppendEvent
<1>4. CASE PostCompleted(t)
  BY <1>4, PostKeeps DEF PostCompleted
<1>5. CASE TakeEvent(t)
  BY <1>5, GetKeeps DEF TakeEvent
<1>6. CASE ProcessEvent(t)
  BY <1>6, GetKeeps DEF ProcessEvent
<1>7. CASE EnterNested(t)
  BY <1>7, NestedKeeps DEF EnterNested
<1>8. CASE Enter(t)
  BY <1>8, BeginKeeps DEF Enter
<1>9. CASE Finish(t)
  BY <1>9, EndKeeps DEF Finish
<1> QED
  BY <1>1, <1>2, <1>3, <1>4, <1>5, <1>6, <1>7, <1>8, <1>9 DEF Continue

LEMMA StepInv == IInv /\ [Next]_vars => IInv'
<1> SUFFICES ASSUME IInv, [Next]_vars PROVE IInv'
  OBVIOUS
<1>1. CASE UNCHANGED vars
  BY <1>1, SameQueues DEF vars, queueVars
<1>2. CASE Next
  <2> PICK t \in Threads :
        \/ Continue(t)
        \/ PushModal(t) \/ ProcessOwn(t)
        \/ \E c \in Calls : CallSync(t, c) \/ CallAsync(t, c)
        \/ \E c \in Calls, u \in Threads, type \in {"sync", "async"} : MakeProxy(t, c, u, type)
    BY <1>2 DEF Next
  <2>1. CASE Continue(t)
    BY <2>1, ContinueKeeps
  <2>2. CASE PushModal(t)
    BY <2>2, SameQueues DEF PushModal
  <2>3. CASE ProcessOwn(t)
    BY <2>3, SameQueues DEF ProcessOwn, queueVars
  <2>4. CASE \E c \in Calls : CallSync(t, c) \/ CallAsync(t, c)
    BY <2>4, SameQueues DEF CallSync, CallAsync, queueVars
  <2>5. CASE \E c \in Calls, u \in Threads, type \in {"sync", "async"} : MakeProxy(t, c, u, type)
    BY <2>5, SameQueues DEF MakeProxy, queueVars
  <2> QED
    BY <2>1, <2>2, <2>3, <2>4, <2>5
<1> QED
  BY <1>1, <1>2

\* The inductive invariant is an invariant of threads and queues.
THEOREM Invariance == Spec => []IInv
  BY InitInv, StepInv, PTL DEF Spec

\* No native event loop sleeps beside events: whenever a native queue holds events that no call
\* of PL_ProcessPendingEvents is at work on, there is a byte in its pipe.
THEOREM NobodySleepsOnEvents == Spec => []EventsAreAnnounced
<1>1. IInv => EventsAreAnnounced
  BY DEF IInv, NotifyType, NotifiedHasByte, NotifiedOfEvents, EventsAreAnnounced
<1> QED
  BY <1>1, Invariance, PTL

-----------------------------------------------------------------------------
(* Where calls are.  The counts say how often a stack or a queue has a call.   *)

\* The frames and events by which a call is on its way, the question for the caller's queue included.
Held == {"lookup", "post", "append", "run", "complete"}
HeldFrames(c) == {f \in Frames : f.c = c /\ f.op \in Held}
EventsOf(c) == {e \in Events : e.c = c}
OnStack(t, c) == Count(stack[t], HeldFrames(c))
InQueue(q, c) == Count(queue[q], EventsOf(c))
Flag(c) == call[c].mCompleted \/ call[c].refused

\* Where a call is: with one thread, in one queue, at its end, nowhere.
NobodyHas(c) == (\A t \in Threads : OnStack(t, c) = 0) /\ (\A q \in Queues : InQueue(q, c) = 0)
ThreadHas(c, t) ==
    /\ OnStack(t, c) = 1 /\ \A u \in Threads \ {t} : OnStack(u, c) = 0
    /\ \A q \in Queues : InQueue(q, c) = 0
    /\ ~Flag(c)
QueueHas(c, q) ==
    /\ \A t \in Threads : OnStack(t, c) = 0
    /\ InQueue(q, c) = 1 /\ \A p \in Queues \ {q} : InQueue(p, c) = 0
    /\ ~Flag(c)
Located(c) ==
    \/ \E t \in Threads : ThreadHas(c, t)
    \/ \E q \in Queues : QueueHas(c, q)
    \/ NobodyHas(c) /\ Flag(c)
PlaceOf(c) == IF call[c].made THEN Located(c) ELSE NobodyHas(c) /\ ~Flag(c)

\* How far the record of a call has come.
IsOut(r) == r.made /\ r.type \in {"sync", "async"} /\ r.invoked = 0 /\ ~r.returned
IsRunning(r) == r.made /\ r.type \in {"sync", "async"} /\ r.invoked = 1 /\ ~r.returned
IsReturned(r) == r.made /\ r.type = "sync" /\ r.invoked = 1 /\ r.returned
HasAnswerQueue(r) == r.type = "sync" => r.mCallersEventQ \in Queues
FrameFits(f, r) ==
    /\ f.op = "lookup" => IsOut(r) /\ r.type = "sync"
    /\ f.op \in {"post", "append"} => IsOut(r) /\ HasAnswerQueue(r)
    /\ f.op = "run" => IsRunning(r) /\ HasAnswerQueue(r)
    /\ f.op = "complete" => IsReturned(r) /\ HasAnswerQueue(r)
EventFits(e, r) ==
    /\ e.kind = "call" => IsOut(r) /\ HasAnswerQueue(r)
    /\ e.kind = "completed" => IsReturned(r) /\ HasAnswerQueue(r)
CallFits(r) ==
    /\ r.type = "none" => r = NewCall
    /\ r.type = "deleted" => r = DeletedCall
    /\ r.type \in {"sync", "async"} => r.dest \in Queues
    /\ ~r.made => r.invoked = 0 /\ ~r.returned /\ r.mCallersEventQ = NoQueue
    /\ r.mCompleted => IsReturned(r)

PlacesInv == \A c \in Calls : PlaceOf(c)
FramesFit == \A t \in Threads : \A i \in 1 .. Len(stack[t]) : FrameFits(stack[t][i], call[stack[t][i].c])
EventsFit == \A q \in Queues : \A i \in 1 .. Len(queue[q]) : EventFits(queue[q][i], call[queue[q][i].c])
FitsInv == FramesFit /\ EventsFit /\ \A c \in Calls : CallFits(call[c])

\* A frame names what its step is going to look at.
FrameNames(f) ==
    /\ f.op \notin {"lookup", "run"} => f.q \in Queues
    /\ f.op \in Held \union {"wait", "sync"} => f.c \in Calls
\* Frames that will make their queue go dark.
Owns(f) == f.op = "modal" \/ (f.op = "wait" /\ f.n = 1)
OwnQueue(t, f, n) == f.op \in {"wait", "modal"} => f.q[1] = t /\ f.q[2] <= n
\* Such a queue was made after those which the frames below wait on: it is none of them.
OwnersAreYounger(s) ==
    \A i, j \in 1 .. Len(s) : (i < j /\ Owns(s[i]) /\ s[j].op = "wait") => s[j].q[2] < s[i].q[2]
LookupOnTop(s) == \A i \in 1 .. Len(s) : s[i].op = "lookup" => i = 1
StackInv ==
    \A t \in Threads :
        /\ \A i \in 1 .. Len(stack[t]) : FrameNames(stack[t][i]) /\ OwnQueue(t, stack[t][i], made[t])
        /\ OwnersAreYounger(stack[t])
        /\ LookupOnTop(stack[t])
AcceptInv ==
    \A t \in Threads : \A i \in 1 .. Len(stack[t]) :
        stack[t][i].op = "wait" => mAcceptingEvents[stack[t][i].q]
TableInv ==
    \A t \in Threads : (table[t] # NoQueue => table[t][1] = t) /\ (t \in NativeThreads => made[t] > 0)
WaitsFor(f, c, q) == f.op = "wait" /\ f.c = c /\ f.q = q
CallerInv ==
    \A c \in Calls :
        (call[c].type = "sync" /\ call[c].mCallersEventQ # NoQueue) =>
            \E i \in 1 .. Len(stack[call[c].mCallersEventQ[1]]) :
                WaitsFor(stack[call[c].mCallersEventQ[1]][i], c, call[c].mCallersEventQ)

CallInv == TypeOK /\ StackInv /\ AcceptInv /\ TableInv /\ PlacesInv /\ FitsInv /\ CallerInv
-----------------------------------------------------------------------------
(* What a step does to the stack of its thread: it takes the top away or not,  *)
(* and puts frames on what is left.                                            *)

StackType == stack \in [Threads -> Seq(Frames)]
Rest(t, pop) == IF pop THEN Tail(stack[t]) ELSE stack[t]
Rebuilds(t, fs, pop) ==
    /\ pop => stack[t] # << >>
    /\ stack' = [stack EXCEPT ![t] = fs \o Rest(t, pop)]
\* The frames of t's stack that stay.
Stays(t, pop, u, i) == i \in 1 .. Len(stack[u]) /\ ~(u = t /\ pop /\ i = 1)
Hits(f, c) == IF f.c = c /\ f.op \in Held THEN 1 ELSE 0

LEMMA FrameType ==
    ASSUME NEW op \in Ops, NEW c \in Calls \union {0}, NEW q \in Queues \union {NoQueue}
    PROVE  /\ Frame(op, c, q) \in Frames
           /\ Frame(op, c, q).op = op /\ Frame(op, c, q).c = c /\ Frame(op, c, q).q = q /\ Frame(op, c, q).n = 0
  BY DEF Frame, Frames

LEMMA TopFacts ==
    ASSUME StackType, NEW t \in Threads, stack[t] # << >>
    PROVE  /\ Top(t) = stack[t][1] /\ Top(t) \in Frames /\ Len(stack[t]) \in Nat \ {0} /\ 1 \in 1 .. Len(stack[t])
           /\ Tail(stack[t]) \in Seq(Frames) /\ Len(Tail(stack[t])) = Len(stack[t]) - 1
           /\ \A i \in 1 .. Len(Tail(stack[t])) : Tail(stack[t])[i] = stack[t][i + 1]
<1>1. stack[t] \in Seq(Frames)
  BY DEF StackType
<1>2. Len(stack[t]) \in Nat \ {0}
  BY <1>1, EmptySeq
<1>3. Top(t) = stack[t][1] /\ Top(t) \in Frames
  BY <1>1, HeadTailProperties DEF Top
<1> QED
  BY <1>1, <1>2, <1>3, HeadTailProperties

\* Every frame of the stacks afterwards is new, or was there before.
LEMMA RebuiltFrames ==
    ASSUME StackType, NEW t \in Threads, NEW fs \in Seq(Frames), NEW pop \in BOOLEAN, Rebuilds(t, fs, pop)
    PROVE  /\ StackType'
           /\ \A u \in Threads : u # t => stack'[u] = stack[u]
           /\ \A i \in 1 .. Len(fs) : i \in 1 .. Len(stack'[t]) /\ stack'[t][i] = fs[i]
           /\ \A i \in 1 .. Len(stack'[t]) :
                 \/ i \in 1 .. Len(fs) /\ stack'[t][i] = fs[i]
                 \/ LET k == i - Len(fs) + (IF pop THEN 1 ELSE 0)
                    IN  i > Len(fs) /\ Stays(t, pop, t, k) /\ stack'[t][i] = stack[t][k]
           /\ \A k \in 1 .. Len(stack[t]) : Stays(t, pop, t, k) =>
                 LET i == k + Len(fs) - (IF pop THEN 1 ELSE 0)
                 IN  i \in 1 .. Len(stack'[t]) /\ stack'[t][i] = stack[t][k]
<1> DEFINE b == Rest(t, pop)
<1>1. stack[t] \in Seq(Frames) /\ Len(stack[t]) \in Nat /\ Len(fs) \in Nat
  BY LenProperties DEF StackType
<1>2. /\ b \in Seq(Frames) /\ Len(b) \in Nat
      /\ Len(b) = Len(stack[t]) - (IF pop THEN 1 ELSE 0)
      /\ \A i \in 1 .. Len(b) : b[i] = stack[t][i + (IF pop THEN 1 ELSE 0)]
  <2>1. CASE pop
    BY <1>1, <2>1, TopFacts DEF Rebuilds, Rest
  <2>2. CASE ~pop
    BY <1>1, <2>2 DEF Rest
  <2> QED
    BY <2>1, <2>2
<1>3. stack'[t] = fs \o b /\ \A u \in Threads : u # t => stack'[u] = stack[u]
  BY DEF Rebuilds, StackType
<1> HIDE DEF b
<1>4. /\ fs \o b \in Seq(Frames) /\ Len(fs \o b) = Len(fs) + Len(b)
      /\ \A i \in 1 .. Len(fs) + Len(b) : (fs \o b)[i] = IF i <= Len(fs) THEN fs[i] ELSE b[i - Len(fs)]
  BY <1>2, ConcatProperties
<1>5. StackType'
  BY <1>2, <1>4 DEF StackType, Rebuilds, b
<1>6. \A i \in 1 .. Len(fs) : i \in 1 .. Len(stack'[t]) /\ stack'[t][i] = fs[i]
  BY <1>1, <1>2, <1>3, <1>4
<1>7. ASSUME NEW i \in 1 .. Len(stack'[t])
      PROVE  \/ i \in 1 .. Len(fs) /\ stack'[t][i] = fs[i]
             \/ LET k == i - Len(fs) + (IF pop THEN 1 ELSE 0)
                IN  i > Len(fs) /\ Stays(t, pop, t, k) /\ stack'[t][i] = stack[t][k]
  <2> DEFINE k == i - Len(fs) + (IF pop THEN 1 ELSE 0)
  <2>0. i \in 1 .. Len(fs) + Len(b)
    BY <1>3, <1>4
  <2>1. i \in Int /\ 1 <= i /\ i <= Len(fs) + Len(b) /\ stack'[t][i] = IF i <= Len(fs) THEN fs[i] ELSE b[i - Len(fs)]
    <3>1. (fs \o b)[i] = IF i <= Len(fs) THEN fs[i] ELSE b[i - Len(fs)]
      BY ONLY <1>4, <2>0, Zenon
    <3>2. stack'[t][i] = (fs \o b)[i]
      BY ONLY <1>3, Zenon
    <3>3. i \in Int /\ 1 <= i /\ i <= Len(fs) + Len(b)
      BY ONLY <1>1, <1>2, <2>0
    <3> QED
      BY ONLY <3>1, <3>2, <3>3, Zenon
  <2>2. CASE i <= Len(fs)
    BY <1>1, <2>1, <2>2
  <2>3. CASE i > Len(fs)
    <3>1. i - Len(fs) \in 1 .. Len(b) /\ stack'[t][i] = b[i - Len(fs)]
      <4>1. Len(fs) \in Nat /\ Len(b) \in Nat /\ i \in Int /\ i <= Len(fs) + Len(b)
        BY ONLY <1>1, <1>2, <2>1
      <4>2. ~(i <= Len(fs)) /\ i - Len(fs) \in 1 .. Len(b)
        BY ONLY <2>3, <4>1
      <4> QED
        BY ONLY <2>1, <4>2, Zenon
    <3>2. stack'[t][i] = stack[t][k]
      BY <1>2, <3>1
    <3>3. Stays(t, pop, t, k)
      BY ONLY <1>1, <1>2, <2>3, <3>1, pop \in BOOLEAN DEF Stays
    <3> QED
      BY <2>3, <3>2, <3>3
  <2> QED
    BY <1>1, <2>1, <2>2, <2>3
<1>8. ASSUME NEW k \in 1 .. Len(stack[t]), Stays(t, pop, t, k)
      PROVE  LET i == k + Len(fs) - (IF pop THEN 1 ELSE 0)
             IN  i \in 1 .. Len(stack'[t]) /\ stack'[t][i] = stack[t][k]
  <2> DEFINE i == k + Len(fs) - (IF pop THEN 1 ELSE 0)
  <2>1. i \in 1 .. Len(fs) + Len(b) /\ i > Len(fs) /\ i - Len(fs) \in 1 .. Len(b)
    BY <1>1, <1>2, <1>8 DEF Stays
  <2>2. i - Len(fs) + (IF pop THEN 1 ELSE 0) = k
    BY <1>1, <1>8
  <2> HIDE DEF i
  <2>3. i \in Int
    BY <2>1, <1>1, <1>2
  <2>4. b[i - Len(fs)] = stack[t][k]
    BY <1>2, <2>1, <2>2
  <2>5. (fs \o b)[i] = b[i - Len(fs)]
    BY <1>1, <1>4, <2>1, <2>3
  <2>6. i \in 1 .. Len(stack'[t]) /\ stack'[t][i] = stack[t][k]
    BY <1>3, <1>4, <2>1, <2>4, <2>5
  <2> QED
    BY <2>6 DEF i
<1> QED
  BY <1>3, <1>5, <1>6, <1>7, <1>8

\* How often the stacks afterwards have a call.
LEMMA RebuiltCounts ==
    ASSUME StackType, NEW t \in Threads, NEW fs \in Seq(Frames), NEW pop \in BOOLEAN, Rebuilds(t, fs, pop), NEW c
    PROVE  /\ \A u \in Threads : OnStack(u, c) \in Nat /\ (u # t => OnStack(u, c)' = OnStack(u, c))
           /\ OnStack(t, c)' = Count(fs, HeldFrames(c)) + OnStack(t, c) - (IF pop THEN Hits(Top(t), c) ELSE 0)
           /\ Count(Rest(t, pop), HeldFrames(c)) = OnStack(t, c) - (IF pop THEN Hits(Top(t), c) ELSE 0)
<1>1. \A u \in Threads : OnStack(u, c) \in Nat
  BY CountType DEF OnStack, StackType
<1>2. stack'[t] = fs \o Rest(t, pop) /\ \A u \in Threads : u # t => stack'[u] = stack[u]
  BY DEF Rebuilds, StackType
<1>3. Rest(t, pop) \in Seq(Frames)
      /\ Count(Rest(t, pop), HeldFrames(c)) = OnStack(t, c) - (IF pop THEN Hits(Top(t), c) ELSE 0)
  <2>1. CASE pop
    <3>1. stack[t] \in Seq(Frames) /\ stack[t] # << >>
      BY <2>1 DEF StackType, Rebuilds
    <3>2. /\ Top(t) \in Frames /\ Tail(stack[t]) \in Seq(Frames)
          /\ Count(Tail(stack[t]), HeldFrames(c)) = OnStack(t, c) - (IF Top(t) \in HeldFrames(c) THEN 1 ELSE 0)
      BY <3>1, CountTail DEF Top, OnStack
    <3>3. Top(t) \in HeldFrames(c) <=> (Top(t).c = c /\ Top(t).op \in Held)
      BY <3>2 DEF HeldFrames
    <3> QED
      BY <2>1, <3>2, <3>3 DEF Rest, Hits
  <2>2. CASE ~pop
    BY <1>1, <2>2 DEF Rest, OnStack, StackType
  <2> QED
    BY <2>1, <2>2
<1>4. Count(stack'[t], HeldFrames(c)) = Count(fs, HeldFrames(c)) + Count(Rest(t, pop), HeldFrames(c))
  BY <1>2, <1>3, CountConcat
<1>5. Count(fs, HeldFrames(c)) \in Nat
  BY CountType
<1>6. pop => Hits(Top(t), c) \in Nat
  BY DEF Hits
<1> QED
  BY <1>1, <1>2, <1>3, <1>4, <1>5, <1>6 DEF OnStack

LEMMA PairIsAppend ==
    ASSUME NEW S, NEW f \in S, NEW g \in S
    PROVE  Append(<< f >>, g) = << f, g >>
<1>1. << f >> \in Seq(S) /\ Len(<< f >>) = 1 /\ << f >>[1] = f
  OBVIOUS
<1>2. << f, g >> \in Seq(S) /\ Len(<< f, g >>) = 2 /\ << f, g >>[1] = f /\ << f, g >>[2] = g
  OBVIOUS
<1>3. /\ Append(<< f >>, g) \in Seq(S) /\ Len(Append(<< f >>, g)) = 2
      /\ Append(<< f >>, g)[1] = f /\ Append(<< f >>, g)[2] = g
  BY <1>1, AppendProperties
<1>4. \A i \in 1 .. Len(Append(<< f >>, g)) : Append(<< f >>, g)[i] = << f, g >>[i]
  BY <1>2, <1>3
<1> QED
  BY <1>2, <1>3, <1>4, SeqEqual

LEMMA NewCounts ==
    ASSUME NEW c
    PROVE  /\ << >> \in Seq(Frames) /\ Len(<< >>) = 0 /\ Count(<< >>, HeldFrames(c)) = 0
           /\ \A f \in Frames : << f >> \in Seq(Frames) /\ Count(<< f >>, HeldFrames(c)) = Hits(f, c)
           /\ \A f, g \in Frames :
                 << f, g >> \in Seq(Frames) /\ Count(<< f, g >>, HeldFrames(c)) = Hits(f, c) + Hits(g, c)
<1>1. \A f \in Frames : f \in HeldFrames(c) <=> (f.c = c /\ f.op \in Held)
  BY DEF HeldFrames
<1>2. \A f \in Frames : << f >> \in Seq(Frames) /\ Count(<< f >>, HeldFrames(c)) = Hits(f, c)
  BY <1>1, CountSingle DEF Hits
<1>3. ASSUME NEW f \in Frames, NEW g \in Frames
      PROVE  << f, g >> \in Seq(Frames) /\ Count(<< f, g >>, HeldFrames(c)) = Hits(f, c) + Hits(g, c)
  <2>1. << f >> \in Seq(Frames)
    BY <1>2
  <2>2. Append(<< f >>, g) = << f, g >>
    BY PairIsAppend
  <2>3. << f, g >> \in Seq(Frames)
    BY <2>1, <2>2, AppendProperties
  <2>4. \A W : Count(<< f, g >>, W) = Count(<< f >>, W) + (IF g \in W THEN 1 ELSE 0)
    BY <2>1, <2>2, CountAppend
  <2> QED
    BY <1>1, <1>2, <2>3, <2>4 DEF Hits
<1> QED
  BY <1>2, <1>3, CountEmpty, EmptySeq

LEMMA NewFrames ==
    /\ \A f \in Frames : << f >> \in Seq(Frames) /\ \A i \in 1 .. Len(<< f >>) : << f >>[i] = f
    /\ \A f, g \in Frames : /\ << f, g >> \in Seq(Frames) /\ Len(<< f, g >>) = 2
                            /\ \A i \in 1 .. 2 : << f, g >>[i] = IF i = 1 THEN f ELSE g
<1>1. \A f \in Frames : << f >> \in Seq(Frames) /\ \A i \in 1 .. Len(<< f >>) : << f >>[i] = f
  <2>1. \A f \in Frames : << f >> \in Seq(Frames)
    BY NewCounts
  <2>2. \A f : Len(<< f >>) = 1 /\ << f >>[1] = f
    OBVIOUS
  <2> QED
    BY <2>1, <2>2
<1>2. \A f, g \in Frames : << f, g >> \in Seq(Frames)
  BY NewCounts
<1>3. \A f, g : Len(<< f, g >>) = 2 /\ << f, g >>[1] = f /\ << f, g >>[2] = g
  OBVIOUS
<1> QED
  BY <1>1, <1>2, <1>3

-----------------------------------------------------------------------------
(* The invariants of the stacks.  Of the frames that stay nothing has to be    *)
(* shown again, when queues are only made, and go dark only with their owner.  *)

GrowsFrom(m, n) == \A u \in Threads : m[u] \in Nat /\ n[u] \in Nat /\ m[u] <= n[u]

LEMMA StackStep ==
    ASSUME StackType, StackInv,
           NEW t \in Threads, NEW fs \in Seq(Frames), NEW pop \in BOOLEAN, Rebuilds(t, fs, pop),
           GrowsFrom(made, made'),
           \A i \in 1 .. Len(fs) :
              /\ FrameNames(fs[i])
              /\ OwnQueue(t, fs[i], made'[t])
              /\ fs[i].op = "lookup" => i = 1
              /\ Owns(fs[i]) => made[t] < fs[i].q[2] /\ \A j \in 1 .. Len(fs) : fs[j].op = "wait" => j <= i,
           pop \/ ~In(t, "lookup") \/ fs = << >>
    PROVE  StackInv'
<1>1. /\ StackType'
      /\ \A u \in Threads : u # t => stack'[u] = stack[u]
      /\ \A i \in 1 .. Len(fs) : i \in 1 .. Len(stack'[t]) /\ stack'[t][i] = fs[i]
      /\ \A i \in 1 .. Len(stack'[t]) :
            \/ i \in 1 .. Len(fs) /\ stack'[t][i] = fs[i]
            \/ LET k == i - Len(fs) + (IF pop THEN 1 ELSE 0)
               IN  i > Len(fs) /\ Stays(t, pop, t, k) /\ stack'[t][i] = stack[t][k]
  BY ONLY StackType, t \in Threads, fs \in Seq(Frames), pop \in BOOLEAN, Rebuilds(t, fs, pop), RebuiltFrames
<1>2. \A u \in Threads : Len(stack[u]) \in Nat /\ \A i \in 1 .. Len(stack[u]) : stack[u][i] \in Frames
  BY LenProperties DEF StackType
<1>3. Len(fs) \in Nat /\ Len(stack'[t]) \in Nat /\ (\A i \in 1 .. Len(fs) : fs[i] \in Frames)
  BY <1>1, LenProperties DEF StackType
<1>4. \A u \in Threads : \A i \in 1 .. Len(stack[u]) :
         stack[u][i].op \in {"wait", "modal"} =>
             stack[u][i].q[1] = u /\ stack[u][i].q[2] \in Nat /\ stack[u][i].q[2] <= made[u]
  BY <1>2, QueueAssumption DEF StackInv, FrameNames, OwnQueue, Queues
<1>5. \A i \in 1 .. Len(fs) : fs[i].op \in {"wait", "modal"} => fs[i].q[2] \in Nat
  BY <1>3, QueueAssumption DEF FrameNames, Queues
<1>6. ASSUME NEW u \in Threads, u # t
      PROVE  /\ \A i \in 1 .. Len(stack'[u]) : FrameNames(stack'[u][i]) /\ OwnQueue(u, stack'[u][i], made'[u])
             /\ OwnersAreYounger(stack'[u]) /\ LookupOnTop(stack'[u])
  <2>1. stack'[u] = stack[u]
    BY <1>1, <1>6
  <2>2. /\ \A i \in 1 .. Len(stack[u]) : FrameNames(stack[u][i])
        /\ OwnersAreYounger(stack[u]) /\ LookupOnTop(stack[u])
    BY DEF StackInv
  <2>3. ASSUME NEW i \in 1 .. Len(stack[u]) PROVE OwnQueue(u, stack[u][i], made'[u])
    <3>1. stack[u][i].op \in {"wait", "modal"} => stack[u][i].q[1] = u /\ stack[u][i].q[2] <= made'[u]
      BY <1>4 DEF GrowsFrom
    <3> QED
      BY <2>1, <3>1 DEF OwnQueue
  <2> QED
    BY <2>1, <2>2, <2>3
<1>7. ASSUME NEW i \in 1 .. Len(stack'[t])
      PROVE  FrameNames(stack'[t][i]) /\ OwnQueue(t, stack'[t][i], made'[t])
  <2>1. CASE i \in 1 .. Len(fs) /\ stack'[t][i] = fs[i]
    BY <2>1 DEF OwnQueue
  <2>2. ASSUME NEW k, k \in 1 .. Len(stack[t]), stack'[t][i] = stack[t][k]
        PROVE  FrameNames(stack'[t][i]) /\ OwnQueue(t, stack'[t][i], made'[t])
    <3>1. stack[t][k].op \in {"wait", "modal"} => stack[t][k].q[1] = t /\ stack[t][k].q[2] <= made'[t]
      BY <1>4, <2>2 DEF GrowsFrom
    <3> QED
      BY <2>2, <3>1 DEF OwnQueue, StackInv
  <2> QED
    BY <1>1, <2>1, <2>2 DEF Stays
<1>8. OwnersAreYounger(stack'[t])
  <2> SUFFICES ASSUME NEW i \in 1 .. Len(stack'[t]), NEW j \in 1 .. Len(stack'[t]),
                      i < j, Owns(stack'[t][i]), stack'[t][j].op = "wait"
               PROVE  stack'[t][j].q[2] < stack'[t][i].q[2]
    BY DEF OwnersAreYounger
  <2> DEFINE K(n) == n - Len(fs) + (IF pop THEN 1 ELSE 0)
  <2>1. i \in Nat /\ j \in Nat /\ K(i) \in Int /\ K(j) \in Int /\ K(i) < K(j)
    BY <1>3
  <2>2. CASE i \in 1 .. Len(fs) /\ stack'[t][i] = fs[i]
    <3>1. made[t] < fs[i].q[2] /\ \A n \in 1 .. Len(fs) : fs[n].op = "wait" => n <= i
      BY <2>2
    <3>2. j \notin 1 .. Len(fs)
      <4> SUFFICES ASSUME j \in 1 .. Len(fs) PROVE FALSE
        OBVIOUS
      <4>1. fs[j].op = "wait"
        BY <1>1
      <4> QED
        BY <2>1, <3>1, <4>1
    <3>3. Stays(t, pop, t, K(j)) /\ stack'[t][j] = stack[t][K(j)]
      BY <1>1, <3>2
    <3> HIDE DEF K
    <3>4. stack[t][K(j)].q[2] \in Nat /\ stack[t][K(j)].q[2] <= made[t]
      BY <1>4, <3>3 DEF Stays
    <3>5. fs[i].q[2] \in Nat
      BY <1>5, <2>2 DEF Owns
    <3> QED
      BY <2>2, <3>1, <3>3, <3>4, <3>5 DEF GrowsFrom
  <2>3. CASE ~(i \in 1 .. Len(fs) /\ stack'[t][i] = fs[i])
    <3>1. i > Len(fs) /\ Stays(t, pop, t, K(i)) /\ stack'[t][i] = stack[t][K(i)]
      BY <1>1, <2>3
    <3>2. j \notin 1 .. Len(fs)
      BY <1>3, <2>1, <3>1
    <3>3. Stays(t, pop, t, K(j)) /\ stack'[t][j] = stack[t][K(j)]
      BY <1>1, <3>2
    <3>4. OwnersAreYounger(stack[t])
      BY DEF StackInv
    <3> HIDE DEF K
    <3> QED
      BY <2>1, <3>1, <3>3, <3>4 DEF Stays, OwnersAreYounger
  <2> QED
    BY <2>2, <2>3
<1>9. LookupOnTop(stack'[t])
  <2> SUFFICES ASSUME NEW i \in 1 .. Len(stack'[t]), stack'[t][i].op = "lookup"
               PROVE  i = 1
    BY DEF LookupOnTop
  <2>1. CASE i \in 1 .. Len(fs) /\ stack'[t][i] = fs[i]
    BY <2>1
  <2>2. CASE ~(i \in 1 .. Len(fs) /\ stack'[t][i] = fs[i])
    <3> DEFINE k == i - Len(fs) + (IF pop THEN 1 ELSE 0)
    <3>1. i > Len(fs) /\ Stays(t, pop, t, k) /\ stack'[t][i] = stack[t][k]
      BY <1>1, <2>2
    <3>2. k = 1
      BY <3>1 DEF StackInv, LookupOnTop, Stays
    <3>3. ~pop
      BY <3>1, <3>2 DEF Stays
    <3>4. Len(stack[t]) # 0 /\ stack[t][1].op = "lookup"
      BY <3>1, <3>2, <1>2 DEF Stays
    <3>5. stack[t] # << >>
      BY <3>4
    <3>6. In(t, "lookup")
      BY <3>4, <3>5, TopFacts DEF In
    <3>7. Len(fs) = 0
      BY <3>3, <3>6
    <3> QED
      BY <1>3, <3>2, <3>3, <3>7
  <2> QED
    BY <2>1, <2>2
<1>10. ASSUME NEW u \in Threads
       PROVE  /\ \A i \in 1 .. Len(stack'[u]) : FrameNames(stack'[u][i]) /\ OwnQueue(u, stack'[u][i], made'[u])
              /\ OwnersAreYounger(stack'[u]) /\ LookupOnTop(stack'[u])
  <2>1. CASE u = t
    BY <2>1, <1>7, <1>8, <1>9
  <2>2. CASE u # t
    BY <2>2, <1>6
  <2> QED
    BY <2>1, <2>2
<1>11. StackInv' <=> \A u \in Threads :
                        /\ \A i \in 1 .. Len(stack'[u]) : FrameNames(stack'[u][i]) /\ OwnQueue(u, stack'[u][i], made'[u])
                        /\ OwnersAreYounger(stack'[u]) /\ LookupOnTop(stack'[u])
  BY DEF StackInv
<1> QED
  BY <1>10, <1>11

LEMMA RebuiltCases ==
    ASSUME StackType, NEW t \in Threads, NEW fs \in Seq(Frames), NEW pop \in BOOLEAN, Rebuilds(t, fs, pop)
    PROVE  /\ \A v \in Threads : v # t => stack'[v] = stack[v]
           /\ \A k \in 1 .. Len(stack'[t]) :
                 \/ k \in 1 .. Len(fs) /\ stack'[t][k] = fs[k]
                 \/ \E n : Stays(t, pop, t, n) /\ stack'[t][k] = stack[t][n]
<1>1. \A v \in Threads : v # t => stack'[v] = stack[v]
  BY RebuiltFrames
<1>2. ASSUME NEW k \in 1 .. Len(stack'[t])
      PROVE  \/ k \in 1 .. Len(fs) /\ stack'[t][k] = fs[k]
             \/ \E n : Stays(t, pop, t, n) /\ stack'[t][k] = stack[t][n]
  <2> DEFINE n == k - Len(fs) + (IF pop THEN 1 ELSE 0)
  <2>0. \A i \in 1 .. Len(stack'[t]) :
           \/ i \in 1 .. Len(fs) /\ stack'[t][i] = fs[i]
           \/ LET j == i - Len(fs) + (IF pop THEN 1 ELSE 0)
              IN  i > Len(fs) /\ Stays(t, pop, t, j) /\ stack'[t][i] = stack[t][j]
    BY ONLY StackType, t \in Threads, fs \in Seq(Frames), pop \in BOOLEAN, Rebuilds(t, fs, pop), RebuiltFrames
  <2>1. \/ k \in 1 .. Len(fs) /\ stack'[t][k] = fs[k]
        \/ Stays(t, pop, t, n) /\ stack'[t][k] = stack[t][n]
    BY ONLY <2>0, k \in 1 .. Len(stack'[t])
  <2> HIDE DEF n
  <2> QED
    BY <2>1
<1> QED
  BY <1>1, <1>2

LEMMA AcceptStep ==
    ASSUME StackType, AcceptInv,
           NEW t \in Threads, NEW fs \in Seq(Frames), NEW pop \in BOOLEAN, Rebuilds(t, fs, pop),
           \A i \in 1 .. Len(fs) : fs[i].op = "wait" => mAcceptingEvents'[fs[i].q],
           \A u \in Threads : \A i \in 1 .. Len(stack[u]) :
              (Stays(t, pop, u, i) /\ stack[u][i].op = "wait" /\ mAcceptingEvents[stack[u][i].q])
                  => mAcceptingEvents'[stack[u][i].q]
    PROVE  AcceptInv'
<1> SUFFICES ASSUME NEW u \in Threads, NEW i \in 1 .. Len(stack'[u]), stack'[u][i].op = "wait"
             PROVE  mAcceptingEvents'[stack'[u][i].q]
  BY DEF AcceptInv
<1>1. /\ \A v \in Threads : v # t => stack'[v] = stack[v]
      /\ \A k \in 1 .. Len(stack'[t]) :
            \/ k \in 1 .. Len(fs) /\ stack'[t][k] = fs[k]
            \/ \E n : Stays(t, pop, t, n) /\ stack'[t][k] = stack[t][n]
  BY RebuiltCases
<1>2. CASE u # t
  BY <1>1, <1>2 DEF AcceptInv, Stays
<1>3. CASE u = t /\ i \in 1 .. Len(fs) /\ stack'[t][i] = fs[i]
  BY <1>3
<1>4. ASSUME u = t, NEW n, Stays(t, pop, t, n), stack'[t][i] = stack[t][n]
      PROVE  mAcceptingEvents'[stack'[u][i].q]
  BY <1>4 DEF AcceptInv, Stays
<1> QED
  BY <1>1, <1>2, <1>3, <1>4

\* The queue that its owner stops is none on which someone waits.
LEMMA OwnerStops ==
    ASSUME StackType, StackInv, mAcceptingEvents \in [Queues -> BOOLEAN], \A u \in Threads : made[u] \in Nat,
           NEW t \in Threads, stack[t] # << >>, Owns(Top(t)),
           mAcceptingEvents' = [mAcceptingEvents EXCEPT ![Top(t).q] = FALSE],
           NEW u \in Threads, NEW i \in 1 .. Len(stack[u]), Stays(t, TRUE, u, i),
           stack[u][i].op = "wait", mAcceptingEvents[stack[u][i].q]
    PROVE  mAcceptingEvents'[stack[u][i].q]
<1>1. Top(t) = stack[t][1] /\ 1 \in 1 .. Len(stack[t]) /\ Top(t) \in Frames
  BY TopFacts
<1>2. /\ FrameNames(Top(t)) /\ OwnQueue(t, Top(t), made[t])
      /\ FrameNames(stack[u][i]) /\ OwnQueue(u, stack[u][i], made[u])
      /\ OwnersAreYounger(stack[t])
  BY <1>1 DEF StackInv
<1>3. Top(t).q \in Queues /\ stack[u][i].q \in Queues /\ Top(t).q[1] = t /\ stack[u][i].q[1] = u
  BY <1>1, <1>2 DEF FrameNames, OwnQueue, Owns
<1>4. Top(t).q # stack[u][i].q
  <2>1. CASE u # t
    BY <2>1, <1>3
  <2>2. CASE u = t
    <3>1. 1 < i
      BY <2>2 DEF Stays
    <3>2. stack[t][i].q[2] < Top(t).q[2]
      BY <1>1, <1>2, <2>2, <3>1 DEF OwnersAreYounger
    <3>3. Top(t).q[2] \in Nat
      BY <1>3, QueueAssumption DEF Queues
    <3> QED
      BY <2>2, <3>2, <3>3
  <2> QED
    BY <2>1, <2>2
<1> QED
  BY <1>3, <1>4

\* Who waits for the answer to a call, waits until it is there.
LEMMA CallerStep ==
    ASSUME StackType, CallerInv, call \in [Calls -> CallInfo], call' \in [Calls -> CallInfo],
           NEW t \in Threads, NEW fs \in Seq(Frames), NEW pop \in BOOLEAN, Rebuilds(t, fs, pop),
           \A c \in Calls : (call'[c].type = "sync" /\ call'[c].mCallersEventQ # NoQueue) =>
              \/ /\ call[c].type = "sync" /\ call[c].mCallersEventQ = call'[c].mCallersEventQ
                 /\ pop => ~(Top(t).op = "wait" /\ Top(t).c = c)
              \/ /\ call'[c].mCallersEventQ[1] = t
                 /\ \E i \in 1 .. Len(fs) : WaitsFor(fs[i], c, call'[c].mCallersEventQ)
    PROVE  CallerInv'
<1> SUFFICES ASSUME NEW c \in Calls, call'[c].type = "sync", call'[c].mCallersEventQ # NoQueue
             PROVE  \E i \in 1 .. Len(stack'[call'[c].mCallersEventQ[1]]) :
                       WaitsFor(stack'[call'[c].mCallersEventQ[1]][i], c, call'[c].mCallersEventQ)
  BY DEF CallerInv, WaitsFor
<1> DEFINE q == call'[c].mCallersEventQ
<1>1. q \in Queues /\ q[1] \in Threads
  BY DEF CallInfo, Queues
<1>2. /\ \A u \in Threads : u # t => stack'[u] = stack[u]
      /\ \A i \in 1 .. Len(fs) : i \in 1 .. Len(stack'[t]) /\ stack'[t][i] = fs[i]
      /\ \A k \in 1 .. Len(stack[t]) : Stays(t, pop, t, k) =>
             \E i \in 1 .. Len(stack'[t]) : stack'[t][i] = stack[t][k]
  BY RebuiltFrames
<1>3. CASE /\ call[c].type = "sync" /\ call[c].mCallersEventQ = q
           /\ pop => ~(Top(t).op = "wait" /\ Top(t).c = c)
  <2>1. PICK k \in 1 .. Len(stack[q[1]]) : WaitsFor(stack[q[1]][k], c, q)
    BY <1>3 DEF CallerInv
  <2>2. CASE q[1] # t
    BY <1>1, <1>2, <2>1, <2>2
  <2>3. CASE q[1] = t
    <3>1. Stays(t, pop, t, k)
      <4> SUFFICES ASSUME pop, k = 1 PROVE FALSE
        BY <2>1, <2>3 DEF Stays
      <4>1. stack[t] # << >>
        BY DEF Rebuilds
      <4> QED
        BY <1>3, <2>1, <2>3, <4>1, TopFacts DEF WaitsFor
    <3> QED
      BY <1>2, <2>1, <2>3, <3>1
  <2> QED
    BY <2>2, <2>3
<1>4. CASE q[1] = t /\ \E i \in 1 .. Len(fs) : WaitsFor(fs[i], c, q)
  BY <1>2, <1>4
<1> QED
  BY <1>3, <1>4

-----------------------------------------------------------------------------
(* Where calls are.                                                            *)

CallType == queue \in [Queues -> Seq(Events)] /\ call \in [Calls -> CallInfo]

LEMMA NoneCounted ==
    ASSUME NEW S, NEW s \in Seq(S), NEW W, Count(s, W) = 0
    PROVE  \A i \in 1 .. Len(s) : s[i] \notin W
<1>1. ~(Count(s, W) > 0)
  OBVIOUS
<1> QED
  BY <1>1, CountPositive

LEMMA QueueCounts ==
    ASSUME CallType, NEW q \in Queues, NEW c
    PROVE  /\ InQueue(q, c) \in Nat
           /\ \A i \in 1 .. Len(queue[q]) : queue[q][i] \in Events
           /\ InQueue(q, c) = 0 => \A i \in 1 .. Len(queue[q]) : queue[q][i].c # c
<1>1. queue[q] \in Seq(Events)
  BY DEF CallType
<1>2. \A i \in 1 .. Len(queue[q]) : queue[q][i] \in Events
  BY <1>1, LenProperties
<1>3. InQueue(q, c) \in Nat /\ (InQueue(q, c) > 0 <=> \E i \in 1 .. Len(queue[q]) : queue[q][i] \in EventsOf(c))
  BY <1>1, CountType, CountPositive DEF InQueue
<1> QED
  BY <1>2, <1>3 DEF EventsOf

LEMMA StackCounts ==
    ASSUME StackType, NEW t \in Threads, NEW c
    PROVE  /\ OnStack(t, c) \in Nat
           /\ \A i \in 1 .. Len(stack[t]) : stack[t][i] \in Frames
           /\ OnStack(t, c) = 0 => \A i \in 1 .. Len(stack[t]) : Hits(stack[t][i], c) = 0
<1>1. stack[t] \in Seq(Frames)
  BY DEF StackType
<1>2. \A i \in 1 .. Len(stack[t]) : stack[t][i] \in Frames
  BY <1>1, LenProperties
<1>3. OnStack(t, c) \in Nat /\ (OnStack(t, c) > 0 <=> \E i \in 1 .. Len(stack[t]) : stack[t][i] \in HeldFrames(c))
  BY <1>1, CountType, CountPositive DEF OnStack
<1> QED
  BY <1>2, <1>3 DEF HeldFrames, Hits

\* A call that the top of a stack holds is nowhere else.
LEMMA TopHolds ==
    ASSUME StackType, CallType, PlacesInv, NEW t \in Threads, stack[t] # << >>, NEW c \in Calls,
           Top(t).c = c, Top(t).op \in Held
    PROVE  /\ call[c].made /\ ThreadHas(c, t) /\ Hits(Top(t), c) = 1
           /\ \A u \in Threads : \A i \in 1 .. Len(stack[u]) : Stays(t, TRUE, u, i) => Hits(stack[u][i], c) = 0
           /\ \A q \in Queues : \A i \in 1 .. Len(queue[q]) : queue[q][i].c # c
<1>1. stack[t] \in Seq(Frames) /\ Top(t) = stack[t][1] /\ 1 \in 1 .. Len(stack[t]) /\ Top(t) \in Frames
  BY TopFacts DEF StackType
<1>2. Hits(Top(t), c) = 1
  BY DEF Hits
<1>3. OnStack(t, c) # 0
  BY <1>1, <1>2, StackCounts
<1>4. call[c].made /\ ThreadHas(c, t)
  BY <1>3 DEF PlacesInv, PlaceOf, Located, NobodyHas, QueueHas, ThreadHas
<1>5. \A q \in Queues : \A i \in 1 .. Len(queue[q]) : queue[q][i].c # c
  BY <1>4, QueueCounts DEF ThreadHas
<1>6. ASSUME NEW u \in Threads, NEW i \in 1 .. Len(stack[u]), Stays(t, TRUE, u, i)
      PROVE  Hits(stack[u][i], c) = 0
  <2>1. CASE u # t
    BY <1>4, <2>1, StackCounts DEF ThreadHas
  <2>2. CASE u = t
    <3>1. /\ Tail(stack[t]) \in Seq(Frames)
          /\ Count(Tail(stack[t]), HeldFrames(c)) = OnStack(t, c) - (IF Top(t) \in HeldFrames(c) THEN 1 ELSE 0)
      BY <1>1, CountTail DEF Top, OnStack
    <3>2. Count(Tail(stack[t]), HeldFrames(c)) = 0
      BY <1>1, <1>4, <3>1 DEF HeldFrames, ThreadHas
    <3>3. i - 1 \in 1 .. Len(Tail(stack[t])) /\ Tail(stack[t])[i - 1] = stack[t][i]
      BY <1>6, <2>2, TopFacts DEF Stays
    <3>4. Tail(stack[t])[i - 1] \notin HeldFrames(c)
      BY <3>1, <3>2, <3>3, NoneCounted
    <3>5. stack[t][i] \in Frames
      BY <2>2, StackCounts
    <3> QED
      BY <2>2, <3>3, <3>4, <3>5 DEF HeldFrames, Hits
  <2> QED
    BY <2>1, <2>2
<1> QED
  BY <1>2, <1>4, <1>5, <1>6

\* A call that the first event of a queue is about is nowhere else.
LEMMA HeadHolds ==
    ASSUME StackType, CallType, PlacesInv, NEW q \in Queues, queue[q] # << >>
    PROVE  LET e == Head(queue[q])
           IN  /\ e \in Events /\ e = queue[q][1] /\ 1 \in 1 .. Len(queue[q]) /\ e.c \in Calls
               /\ call[e.c].made /\ QueueHas(e.c, q)
               /\ Tail(queue[q]) \in Seq(Events)
               /\ \A c : Count(Tail(queue[q]), EventsOf(c)) = InQueue(q, c) - (IF e.c = c THEN 1 ELSE 0)
               /\ \A i \in 1 .. Len(Tail(queue[q])) : i + 1 \in 1 .. Len(queue[q]) /\ Tail(queue[q])[i] = queue[q][i + 1]
               /\ \A u \in Threads : \A i \in 1 .. Len(stack[u]) : Hits(stack[u][i], e.c) = 0
               /\ \A p \in Queues : \A i \in 1 .. Len(queue[p]) : (p # q \/ i # 1) => queue[p][i].c # e.c
<1> DEFINE e == Head(queue[q])
           s == Tail(queue[q])
<1>1. queue[q] \in Seq(Events)
  BY DEF CallType
<1>2. /\ e = queue[q][1] /\ e \in Events /\ s \in Seq(Events) /\ Len(s) = Len(queue[q]) - 1
      /\ \A W : Count(s, W) = Count(queue[q], W) - (IF e \in W THEN 1 ELSE 0)
  BY <1>1, CountTail
<1>3. Len(queue[q]) \in Nat \ {0} /\ 1 \in 1 .. Len(queue[q])
  BY <1>1, EmptySeq
<1>4. \A i \in 1 .. Len(s) : i + 1 \in 1 .. Len(queue[q]) /\ s[i] = queue[q][i + 1]
  BY <1>1, <1>2, <1>3, HeadTailProperties
<1>5. e.c \in Calls /\ \A c : e \in EventsOf(c) <=> e.c = c
  BY <1>2 DEF Events, EventsOf
<1>6. \A c : Count(s, EventsOf(c)) = InQueue(q, c) - (IF e.c = c THEN 1 ELSE 0)
  BY <1>2, <1>5 DEF InQueue
<1>7. InQueue(q, e.c) # 0
  BY <1>2, <1>3, QueueCounts
<1>8. call[e.c].made /\ QueueHas(e.c, q)
  BY <1>5, <1>7 DEF PlacesInv, PlaceOf, Located, NobodyHas, ThreadHas, QueueHas
<1>9. \A u \in Threads : \A i \in 1 .. Len(stack[u]) : Hits(stack[u][i], e.c) = 0
  BY <1>8, StackCounts DEF QueueHas
<1>10. ASSUME NEW p \in Queues, NEW i \in 1 .. Len(queue[p]), p # q \/ i # 1
       PROVE  queue[p][i].c # e.c
  <2>1. CASE p # q
    BY <1>8, <2>1, QueueCounts DEF QueueHas
  <2>2. CASE p = q
    <3>1. i - 1 \in 1 .. Len(s) /\ s[i - 1] = queue[q][i]
      BY <1>2, <1>3, <1>4, <1>10, <2>2
    <3>2. Count(s, EventsOf(e.c)) = 0
      BY <1>6, <1>8 DEF QueueHas
    <3>3. s[i - 1] \notin EventsOf(e.c)
      BY <1>2, <3>1, <3>2, NoneCounted
    <3>4. queue[q][i] \in Events
      BY <2>2, QueueCounts
    <3> QED
      BY <2>2, <3>1, <3>3, <3>4 DEF EventsOf
  <2> QED
    BY <2>1, <2>2
<1> QED
  BY <1>2, <1>3, <1>4, <1>5, <1>6, <1>8, <1>9, <1>10

\* A call whose end is known, or that has not been made, is with nobody.
LEMMA NobodyHolds ==
    ASSUME StackType, CallType, NEW c, NobodyHas(c)
    PROVE  /\ \A u \in Threads : \A i \in 1 .. Len(stack[u]) : Hits(stack[u][i], c) = 0
           /\ \A q \in Queues : \A i \in 1 .. Len(queue[q]) : queue[q][i].c # c
  BY StackCounts, QueueCounts DEF NobodyHas

LEMMA SamePlace ==
    ASSUME NEW c, PlaceOf(c), call'[c].made = call[c].made, Flag(c)' = Flag(c),
           \A u \in Threads : OnStack(u, c)' = OnStack(u, c),
           \A q \in Queues : InQueue(q, c)' = InQueue(q, c)
    PROVE  PlaceOf(c)'
<1>1. NobodyHas(c)' <=> NobodyHas(c)
  BY DEF NobodyHas
<1>2. \A t \in Threads : ThreadHas(c, t)' <=> ThreadHas(c, t)
  BY DEF ThreadHas
<1>3. \A q \in Queues : QueueHas(c, q)' <=> QueueHas(c, q)
  BY DEF QueueHas
<1>4. Located(c)' <=> Located(c)
  BY <1>1, <1>2, <1>3 DEF Located
<1> QED
  BY <1>1, <1>4 DEF PlaceOf

LEMMA Posted ==
    ASSUME CallType, NEW q \in Queues, NEW e \in Events, queue' = [queue EXCEPT ![q] = Append(@, e)]
    PROVE  /\ queue' \in [Queues -> Seq(Events)]
           /\ \A p \in Queues : \A c : InQueue(p, c)' = InQueue(p, c) + (IF p = q /\ e.c = c THEN 1 ELSE 0)
           /\ \A p \in Queues : \A i \in 1 .. Len(queue'[p]) :
                 \/ p = q /\ queue'[p][i] = e
                 \/ i \in 1 .. Len(queue[p]) /\ queue'[p][i] = queue[p][i]
<1>1. \A p \in Queues : queue[p] \in Seq(Events)
  BY DEF CallType
<1>2. queue'[q] = Append(queue[q], e) /\ \A p \in Queues : p # q => queue'[p] = queue[p]
  BY DEF CallType
<1>3. /\ Append(queue[q], e) \in Seq(Events) /\ Len(Append(queue[q], e)) = Len(queue[q]) + 1
      /\ \A i \in 1 .. Len(queue[q]) : Append(queue[q], e)[i] = queue[q][i]
      /\ Append(queue[q], e)[Len(queue[q]) + 1] = e
      /\ Len(queue[q]) \in Nat
  BY <1>1, AppendProperties, LenProperties
<1>4. queue' \in [Queues -> Seq(Events)]
  BY <1>3 DEF CallType
<1>5. ASSUME NEW p \in Queues, NEW c
      PROVE  InQueue(p, c)' = InQueue(p, c) + (IF p = q /\ e.c = c THEN 1 ELSE 0)
  <2>1. CASE p = q
    <3>1. e \in EventsOf(c) <=> e.c = c
      BY DEF EventsOf
    <3>2. Count(Append(queue[q], e), EventsOf(c)) = Count(queue[q], EventsOf(c)) + (IF e \in EventsOf(c) THEN 1 ELSE 0)
      BY <1>1, CountAppend
    <3> QED
      BY <1>2, <2>1, <3>1, <3>2 DEF InQueue
  <2>2. CASE p # q
    BY <1>2, <2>2, QueueCounts DEF InQueue
  <2> QED
    BY <2>1, <2>2
<1>6. ASSUME NEW p \in Queues, NEW i \in 1 .. Len(queue'[p])
      PROVE  \/ p = q /\ queue'[p][i] = e
             \/ i \in 1 .. Len(queue[p]) /\ queue'[p][i] = queue[p][i]
  BY <1>2, <1>3
<1> QED
  BY <1>4, <1>5, <1>6

LEMMA Got ==
    ASSUME StackType, CallType, PlacesInv, NEW q \in Queues, queue[q] # << >>,
           queue' = [queue EXCEPT ![q] = Tail(@)]
    PROVE  LET e == Head(queue[q])
           IN  /\ queue' \in [Queues -> Seq(Events)]
               /\ \A p \in Queues : \A c : InQueue(p, c)' = InQueue(p, c) - (IF p = q /\ e.c = c THEN 1 ELSE 0)
               /\ \A p \in Queues : \A i \in 1 .. Len(queue'[p]) :
                     \E k \in 1 .. Len(queue[p]) : (p # q \/ k # 1) /\ queue'[p][i] = queue[p][k]
<1> DEFINE e == Head(queue[q])
<1>1. /\ Tail(queue[q]) \in Seq(Events) /\ Len(Tail(queue[q])) \in Nat
      /\ \A c : Count(Tail(queue[q]), EventsOf(c)) = InQueue(q, c) - (IF e.c = c THEN 1 ELSE 0)
      /\ \A i \in 1 .. Len(Tail(queue[q])) : i + 1 \in 1 .. Len(queue[q]) /\ Tail(queue[q])[i] = queue[q][i + 1]
  BY HeadHolds, LenProperties
<1>2. queue'[q] = Tail(queue[q]) /\ \A p \in Queues : p # q => queue'[p] = queue[p]
  BY DEF CallType
<1>3. queue' \in [Queues -> Seq(Events)]
  BY <1>1 DEF CallType
<1>4. ASSUME NEW p \in Queues, NEW c
      PROVE  InQueue(p, c)' = InQueue(p, c) - (IF p = q /\ e.c = c THEN 1 ELSE 0)
  <2>1. CASE p = q
    BY <1>1, <1>2, <2>1 DEF InQueue
  <2>2. CASE p # q
    BY <1>2, <2>2, QueueCounts DEF InQueue
  <2> QED
    BY <2>1, <2>2
<1>5. ASSUME NEW p \in Queues, NEW i \in 1 .. Len(queue'[p])
      PROVE  \E k \in 1 .. Len(queue[p]) : (p # q \/ k # 1) /\ queue'[p][i] = queue[p][k]
  <2>1. CASE p = q
    <3>1. i \in 1 .. Len(Tail(queue[q])) /\ queue'[p][i] = Tail(queue[q])[i]
      BY <1>2, <2>1
    <3>2. i + 1 # 1 /\ i + 1 \in 1 .. Len(queue[p]) /\ queue'[p][i] = queue[p][i + 1]
      BY <1>1, <2>1, <3>1
    <3> QED
      BY <3>2
  <2>2. CASE p # q
    BY <1>2, <2>2
  <2> QED
    BY <2>1, <2>2
<1> QED
  BY <1>3, <1>4, <1>5

\* Frames keep their records as long as a record is changed only under the call that is taken away.
LEMMA FramesStep ==
    ASSUME StackType, FramesFit,
           NEW t \in Threads, NEW fs \in Seq(Frames), NEW pop \in BOOLEAN, Rebuilds(t, fs, pop),
           \A i \in 1 .. Len(fs) : FrameFits(fs[i], call'[fs[i].c]),
           \A u \in Threads : \A i \in 1 .. Len(stack[u]) :
              Stays(t, pop, u, i) => (stack[u][i].op \notin Held \/ call'[stack[u][i].c] = call[stack[u][i].c])
    PROVE  FramesFit'
<1> SUFFICES ASSUME NEW u \in Threads, NEW i \in 1 .. Len(stack'[u])
             PROVE  FrameFits(stack'[u][i], call'[stack'[u][i].c])
  BY DEF FramesFit
<1>1. /\ \A v \in Threads : v # t => stack'[v] = stack[v]
      /\ \A k \in 1 .. Len(stack'[t]) :
            \/ k \in 1 .. Len(fs) /\ stack'[t][k] = fs[k]
            \/ \E n : Stays(t, pop, t, n) /\ stack'[t][k] = stack[t][n]
  BY RebuiltCases
<1>2. ASSUME NEW n, Stays(t, pop, u, n), stack'[u][i] = stack[u][n]
      PROVE  FrameFits(stack'[u][i], call'[stack'[u][i].c])
  <2>1. n \in 1 .. Len(stack[u])
    BY <1>2 DEF Stays
  <2>2. FrameFits(stack[u][n], call[stack[u][n].c])
    BY <2>1 DEF FramesFit
  <2>3. CASE stack[u][n].op \notin Held
    BY <1>2, <2>3 DEF FrameFits, Held
  <2>4. CASE call'[stack[u][n].c] = call[stack[u][n].c]
    BY <1>2, <2>2, <2>4
  <2> QED
    BY <1>2, <2>1, <2>3, <2>4
<1>3. CASE u # t
  <2>1. Stays(t, pop, u, i) /\ stack'[u][i] = stack[u][i]
    BY <1>1, <1>3 DEF Stays
  <2> QED
    BY <1>2, <2>1
<1>4. CASE u = t
  BY <1>1, <1>2, <1>4
<1> QED
  BY <1>3, <1>4

\* Steps that leave records and events alone: t holds after them the calls that it held.
LEMMA QuietStep ==
    ASSUME StackType, CallType, PlacesInv, FitsInv, CallerInv, UNCHANGED <<queue, call>>,
           NEW t \in Threads, NEW fs \in Seq(Frames), NEW pop \in BOOLEAN, Rebuilds(t, fs, pop),
           \A c \in Calls : Count(fs, HeldFrames(c)) = IF pop THEN Hits(Top(t), c) ELSE 0,
           \A i \in 1 .. Len(fs) : FrameFits(fs[i], call[fs[i].c]),
           pop => Top(t).op # "wait"
    PROVE  PlacesInv' /\ FitsInv' /\ CallerInv'
<1>1. PlacesInv'
  <2> SUFFICES ASSUME NEW c \in Calls PROVE PlaceOf(c)'
    BY DEF PlacesInv
  <2>1. \A u \in Threads : OnStack(u, c)' = OnStack(u, c)
    <3>1. /\ \A u \in Threads : OnStack(u, c) \in Nat /\ (u # t => OnStack(u, c)' = OnStack(u, c))
          /\ OnStack(t, c)' = Count(fs, HeldFrames(c)) + OnStack(t, c) - (IF pop THEN Hits(Top(t), c) ELSE 0)
      BY RebuiltCounts
    <3>2. Count(fs, HeldFrames(c)) = (IF pop THEN Hits(Top(t), c) ELSE 0) /\ Count(fs, HeldFrames(c)) \in Nat
      BY CountType
    <3>3. OnStack(t, c)' = OnStack(t, c)
      BY <3>1, <3>2
    <3> QED
      BY <3>1, <3>3
  <2>2. \A q \in Queues : InQueue(q, c)' = InQueue(q, c)
    BY DEF InQueue
  <2>3. PlaceOf(c) /\ call'[c].made = call[c].made /\ Flag(c)' = Flag(c)
    BY DEF PlacesInv, Flag
  <2> QED
    BY <2>1, <2>2, <2>3, SamePlace
<1>2. FramesFit'
  <2>1. FramesFit /\ call' = call
    BY DEF FitsInv, FramesFit
  <2> QED
    BY <2>1, FramesStep
<1>3. FitsInv'
  BY <1>2 DEF FitsInv, EventsFit
<1>4. CallerInv'
  <2>1. call \in [Calls -> CallInfo] /\ call' \in [Calls -> CallInfo]
    BY DEF CallType
  <2>2. \A c \in Calls : call[c].mCallersEventQ = call'[c].mCallersEventQ /\ call[c].type = call'[c].type
    OBVIOUS
  <2>3. pop => \A c \in Calls : ~(Top(t).op = "wait" /\ Top(t).c = c)
    OBVIOUS
  <2> QED
    BY <2>1, <2>2, <2>3, CallerStep
<1> QED
  BY <1>1, <1>3, <1>4

-----------------------------------------------------------------------------
(* The steps.                                                                  *)

OtherTypes ==
    /\ eventPipe \in [Queues -> 0 .. PipeSize]
    /\ notified \in [Queues -> BOOLEAN]
    /\ processingEvents \in [Queues -> BOOLEAN]
    /\ asleep \subseteq Threads
    /\ mEventQMonitor \in Threads \union {NoThread}
ChainTypes ==
    /\ mAcceptingEvents \in [Queues -> BOOLEAN]
    /\ mElderQueue \in [Queues -> Queues \union {NoQueue}]
    /\ made \in [Threads -> 0 .. MaxQueues]
    /\ table \in [Threads -> Queues \union {NoQueue}]

LEMMA TypeParts == TypeOK <=> StackType /\ CallType /\ OtherTypes /\ ChainTypes
  BY DEF TypeOK, EventQueueTypeOK, StackType, CallType, OtherTypes, ChainTypes

LEMMA TypePartsNext == TypeOK' <=> StackType' /\ CallType' /\ OtherTypes' /\ ChainTypes'
  BY DEF TypeOK, EventQueueTypeOK, StackType, CallType, OtherTypes, ChainTypes

LEMMA MadeGrows ==
    ASSUME ChainTypes, ChainTypes', \A u \in Threads : made'[u] = made[u] \/ made'[u] = made[u] + 1
    PROVE  GrowsFrom(made, made')
<1>1. \A u \in Threads : made[u] \in Nat /\ made'[u] \in Nat
  BY QueueAssumption DEF ChainTypes
<1> QED
  BY <1>1 DEF GrowsFrom

\* A step that changes nothing but its thread's stack, and nothing that a call depends on.
LEMMA QuietKeeps ==
    ASSUME CallInv, NEW t \in Threads, NEW fs \in Seq(Frames), NEW pop \in BOOLEAN, Rebuilds(t, fs, pop),
           UNCHANGED <<queue, call, table, chainVars>>, OtherTypes',
           \A c \in Calls : Count(fs, HeldFrames(c)) = IF pop THEN Hits(Top(t), c) ELSE 0,
           \A i \in 1 .. Len(fs) : /\ FrameFits(fs[i], call[fs[i].c]) /\ FrameNames(fs[i])
                                   /\ fs[i].op \notin {"wait", "modal", "lookup"},
           pop => Top(t).op # "wait",
           pop \/ ~In(t, "lookup")
    PROVE  CallInv'
<1>1. StackType /\ CallType /\ ChainTypes
  BY TypeParts DEF CallInv
<1>2. StackType' /\ CallType' /\ ChainTypes'
  BY <1>1, RebuiltFrames DEF CallType, ChainTypes, chainVars
<1>3. TypeOK'
  BY <1>2, TypePartsNext
<1>4. PlacesInv' /\ FitsInv' /\ CallerInv'
  BY <1>1, QuietStep DEF CallInv
<1>5. GrowsFrom(made, made')
  BY <1>1, <1>2, MadeGrows DEF chainVars
<1>6. \A i \in 1 .. Len(fs) :
         /\ FrameNames(fs[i]) /\ OwnQueue(t, fs[i], made'[t]) /\ ~Owns(fs[i])
         /\ fs[i].op # "lookup" /\ fs[i].op # "wait"
  BY DEF OwnQueue, Owns
<1>7. StackInv'
  BY <1>1, <1>5, <1>6, StackStep DEF CallInv
<1>8. AcceptInv'
  BY <1>1, <1>6, AcceptStep DEF CallInv, chainVars
<1>9. TableInv'
  BY DEF CallInv, TableInv, chainVars
<1> QED
  BY <1>3, <1>4, <1>7, <1>8, <1>9 DEF CallInv

\* One frame takes the place of another, with the same call if it holds one.
LEMMA ReplaceKeeps ==
    ASSUME CallInv, NEW t \in Threads, stack[t] # << >>, NEW f \in Frames, Rebuilds(t, << f >>, TRUE),
           UNCHANGED <<queue, call, table, chainVars>>, OtherTypes',
           \A c \in Calls : Hits(f, c) = Hits(Top(t), c),
           FrameFits(f, call[f.c]), FrameNames(f), f.op \notin {"wait", "modal", "lookup"}, Top(t).op # "wait"
    PROVE  CallInv'
<1> DEFINE fs == << f >>
<1>1. fs \in Seq(Frames) /\ (\A i \in 1 .. Len(fs) : fs[i] = f) /\ Rebuilds(t, fs, TRUE)
  BY NewFrames
<1>2. \A c \in Calls : Count(fs, HeldFrames(c)) = Hits(f, c)
  BY NewCounts
<1> HIDE DEF fs
<1> QED
  BY <1>1, <1>2, QuietKeeps

LEMMA PushKeeps ==
    ASSUME CallInv, NEW t \in Threads, NEW f \in Frames, Rebuilds(t, << f >>, FALSE),
           UNCHANGED <<queue, call, table, chainVars>>, OtherTypes',
           f.op \notin Held, FrameNames(f), f.op \notin {"wait", "modal"}, ~In(t, "lookup")
    PROVE  CallInv'
<1> DEFINE fs == << f >>
<1>1. fs \in Seq(Frames) /\ (\A i \in 1 .. Len(fs) : fs[i] = f) /\ Rebuilds(t, fs, FALSE)
  BY NewFrames
<1>2. \A c \in Calls : Count(fs, HeldFrames(c)) = 0
  BY NewCounts DEF Hits
<1>3. FrameFits(f, call[f.c]) /\ f.op # "lookup"
  BY DEF FrameFits, Held
<1> HIDE DEF fs
<1> QED
  BY <1>1, <1>2, <1>3, QuietKeeps

LEMMA PopKeeps ==
    ASSUME CallInv, NEW t \in Threads, stack[t] # << >>, Rebuilds(t, << >>, TRUE),
           UNCHANGED <<queue, call, table, chainVars>>, OtherTypes',
           Top(t).op \notin Held \union {"wait"}
    PROVE  CallInv'
<1> DEFINE fs == << >>
<1>1. fs \in Seq(Frames) /\ Len(fs) = 0 /\ Rebuilds(t, fs, TRUE)
  BY NewCounts
<1>2. \A c \in Calls : Count(fs, HeldFrames(c)) = 0 /\ Hits(Top(t), c) = 0
  BY NewCounts DEF Hits
<1> HIDE DEF fs
<1>3. \A i \in 1 .. Len(fs) : FALSE
  BY <1>1
<1> QED
  BY <1>1, <1>2, <1>3, QuietKeeps

LEMMA TopInv ==
    ASSUME CallInv, NEW t \in Threads, stack[t] # << >>
    PROVE  /\ Top(t) \in Frames /\ FrameFits(Top(t), call[Top(t).c]) /\ FrameNames(Top(t))
           /\ OwnQueue(t, Top(t), made[t]) /\ (Top(t).op = "wait" => mAcceptingEvents[Top(t).q])
<1>1. StackType
  BY TypeParts DEF CallInv
<1>2. Top(t) = stack[t][1] /\ Top(t) \in Frames /\ 1 \in 1 .. Len(stack[t])
  BY <1>1, TopFacts
<1> QED
  BY <1>2 DEF CallInv, StackInv, FitsInv, FramesFit, AcceptInv

LEMMA StackUpdates ==
    ASSUME NEW t \in Threads, NEW fs
    PROVE  /\ (Becomes(t, fs) /\ stack[t] # << >>) => Rebuilds(t, fs, TRUE)
           /\ Pushes(t, fs) => Rebuilds(t, fs, FALSE)
  BY DEF Becomes, Pushes, Rebuilds, Rest

LEMMA SameOthers ==
    ASSUME CallInv, UNCHANGED <<plVars, asleep, mEventQMonitor>>
    PROVE  OtherTypes'
<1>1. OtherTypes
  BY TypeParts DEF CallInv
<1> QED
  BY <1>1 DEF OtherTypes, plVars

\* Frames of ProcessPendingEvents and its likes.
QuietOps == {"sync", "pop", "enter", "loop", "after", "again", "loop2", "leave"}
LEMMA QuietFrame ==
    ASSUME NEW f \in Frames, f.op \in QuietOps \ {"sync"}, f.q \in Queues
    PROVE  /\ \A c : Hits(f, c) = 0
           /\ FrameNames(f) /\ (\A r : FrameFits(f, r))
           /\ f.op \notin {"wait", "modal", "lookup"} /\ f.op \notin Held
  BY DEF QuietOps, Hits, Held, FrameNames, FrameFits

\* From one of them to another.
LEMMA ProcessingGoesOn ==
    ASSUME CallInv, NEW t \in Threads, stack[t] # << >>, Top(t).op \in QuietOps,
           NEW f \in Frames, Rebuilds(t, << f >>, TRUE), f.op \in QuietOps \ {"sync"}, f.q \in Queues,
           UNCHANGED <<queue, call, table, chainVars>>, OtherTypes'
    PROVE  CallInv'
<1>1. \A c : Hits(Top(t), c) = 0
  BY DEF Hits, QuietOps, Held
<1>2. Top(t).op # "wait"
  BY DEF QuietOps
<1> QED
  BY <1>1, <1>2, QuietFrame, ReplaceKeeps

LEMMA AcceptedKeeps ==
    ASSUME CallInv, NEW t \in Threads, Accepted(t)
    PROVE  CallInv'
<1> DEFINE f == [Top(t) EXCEPT !.op = "append"]
<1>1. stack[t] # << >> /\ Top(t).op = "post" /\ Becomes(t, << f >>)
  BY DEF Accepted, In
<1>2. UNCHANGED <<queue, call, table, chainVars>> /\ OtherTypes'
  BY SameOthers DEF Accepted, queueVars, plVars
<1>3. Top(t) \in Frames /\ FrameFits(Top(t), call[Top(t).c]) /\ FrameNames(Top(t))
  BY <1>1, TopInv
<1>4. f \in Frames /\ f.op = "append" /\ f.c = Top(t).c /\ f.q = Top(t).q
  BY <1>3 DEF Frames, Ops
<1> HIDE DEF f
<1>5. \A c \in Calls : Hits(f, c) = Hits(Top(t), c)
  BY <1>1, <1>4 DEF Hits, Held
<1>6. FrameFits(f, call[f.c]) /\ FrameNames(f)
  BY <1>1, <1>3, <1>4 DEF FrameFits, FrameNames, Held
<1> QED
  BY <1>1, <1>2, <1>4, <1>5, <1>6, StackUpdates, ReplaceKeeps

LEMMA PassedOnKeeps ==
    ASSUME CallInv, NEW t \in Threads, PassedOn(t)
    PROVE  CallInv'
<1> DEFINE f == [Top(t) EXCEPT !.q = mElderQueue[Top(t).q]]
<1>1. stack[t] # << >> /\ Top(t).op = "post" /\ Becomes(t, << f >>) /\ mElderQueue[Top(t).q] # NoQueue
  BY DEF PassedOn, In
<1>2. UNCHANGED <<queue, call, table, chainVars>> /\ OtherTypes'
  BY SameOthers DEF PassedOn, queueVars, plVars
<1>3. Top(t) \in Frames /\ FrameFits(Top(t), call[Top(t).c]) /\ FrameNames(Top(t))
  BY <1>1, TopInv
<1>4. mElderQueue[Top(t).q] \in Queues
  <2>1. Top(t).q \in Queues
    BY <1>1, <1>3 DEF FrameNames
  <2> QED
    BY <1>1, <2>1, TypeParts DEF CallInv, ChainTypes
<1>5. f \in Frames /\ f.op = "post" /\ f.c = Top(t).c /\ f.q \in Queues
  BY <1>1, <1>3, <1>4 DEF Frames
<1> HIDE DEF f
<1>6. \A c \in Calls : Hits(f, c) = Hits(Top(t), c)
  BY <1>1, <1>5 DEF Hits
<1>7. FrameFits(f, call[f.c]) /\ FrameNames(f)
  BY <1>1, <1>3, <1>5 DEF FrameFits, FrameNames, Held
<1> QED
  BY <1>1, <1>2, <1>5, <1>6, <1>7, StackUpdates, ReplaceKeeps

LEMMA SyncReturnsKeeps ==
    ASSUME CallInv, NEW t \in Threads, SyncReturns(t)
    PROVE  CallInv'
<1>1. stack[t] # << >> /\ Top(t).op = "sync" /\ Rebuilds(t, << >>, TRUE)
  BY StackUpdates DEF SyncReturns, In, Returns
<1>2. UNCHANGED <<queue, call, table, chainVars>> /\ OtherTypes'
  BY SameOthers DEF SyncReturns, queueVars, plVars
<1>3. Top(t).op \notin Held \union {"wait"}
  BY <1>1 DEF Held
<1> QED
  BY <1>1, <1>2, <1>3, PopKeeps

LEMMA PopReturnsKeeps ==
    ASSUME CallInv, NEW t \in Threads, PopReturns(t)
    PROVE  CallInv'
<1>1. stack[t] # << >> /\ Top(t).op = "pop" /\ Rebuilds(t, << >>, TRUE)
  BY StackUpdates DEF PopReturns, In, Returns
<1>2. UNCHANGED <<queue, call, table, chainVars>>
  BY DEF PopReturns, queueVars, plVars
<1>3. OtherTypes'
  <2>1. OtherTypes
    BY TypeParts DEF CallInv
  <2> QED
    BY <2>1 DEF PopReturns, OtherTypes, queueVars, plVars
<1>4. Top(t).op \notin Held \union {"wait"}
  BY <1>1 DEF Held
<1> QED
  BY <1>1, <1>2, <1>3, <1>4, PopKeeps

LEMMA NativeLoopKeeps ==
    ASSUME CallInv, NEW t \in Threads, NativeLoop(t)
    PROVE  CallInv'
<1>1. PICK q \in Queues : Pushes(t, << Frame("enter", 0, q) >>)
  BY DEF NativeLoop
<1> DEFINE f == Frame("enter", 0, q)
<1>2. f \in Frames /\ f.op = "enter" /\ f.q = q
  BY FrameType DEF Ops
<1>3. UNCHANGED <<queue, call, table, chainVars>> /\ OtherTypes'
  BY SameOthers DEF NativeLoop, queueVars, plVars
<1>4. ~In(t, "lookup")
  BY DEF NativeLoop, In
<1> HIDE DEF f
<1>5. Rebuilds(t, << f >>, FALSE)
  BY <1>1, StackUpdates DEF f
<1> QED
  BY <1>2, <1>3, <1>4, <1>5, QuietFrame, PushKeeps DEF QuietOps

\* To begin or end the processing of a queue keeps the types of the queues.
LEMMA ProcessingTypes ==
    ASSUME OtherTypes, NEW q, ProcessNested(q) \/ BeginProcessing(q) \/ EndProcessing(q),
           UNCHANGED <<asleep, mEventQMonitor>>
    PROVE  OtherTypes' /\ UNCHANGED queue
<1>1. UNCHANGED queue
  BY DEF ProcessNested, BeginProcessing, EndProcessing
<1>2. ASSUME NativeNotify(q) \/ AcknowledgeNativeNotify(q) \/ UNCHANGED eventPipe
      PROVE  eventPipe' \in [Queues -> 0 .. PipeSize]
  BY <1>2, QueueAssumption DEF OtherTypes, NativeNotify, AcknowledgeNativeNotify
<1>3. eventPipe' \in [Queues -> 0 .. PipeSize]
  BY <1>2 DEF ProcessNested, BeginProcessing, EndProcessing
<1>4. notified' \in [Queues -> BOOLEAN] /\ processingEvents' \in [Queues -> BOOLEAN]
  BY DEF ProcessNested, BeginProcessing, EndProcessing, OtherTypes
<1> QED
  BY <1>1, <1>3, <1>4 DEF OtherTypes

LEMMA EnterKeeps ==
    ASSUME CallInv, NEW t \in Threads, EnterNested(t) \/ Enter(t)
    PROVE  CallInv'
<1>1. stack[t] # << >> /\ Top(t).op \in {"enter", "again"}
  BY DEF EnterNested, Enter, In
<1>2. Top(t) \in Frames /\ FrameNames(Top(t))
  BY <1>1, TopInv
<1>3. Top(t).q \in Queues
  BY <1>1, <1>2 DEF FrameNames
<1>4. OtherTypes /\ CallType
  BY TypeParts DEF CallInv
<1>5. UNCHANGED <<queue, call, table, chainVars>> /\ OtherTypes'
  BY <1>4, ProcessingTypes DEF EnterNested, Enter
<1>6. Len(queue[Top(t).q]) \in Nat
  BY <1>3, <1>4, LenProperties DEF CallType
<1>7. CASE EnterNested(t)
  <2> DEFINE f == [Top(t) EXCEPT !.op = IF @ = "enter" THEN "after" ELSE "leave"]
  <2>1. Becomes(t, << f >>)
    BY <1>7 DEF EnterNested
  <2>2. f \in Frames /\ f.op \in {"after", "leave"} /\ f.q = Top(t).q
    BY <1>2 DEF Frames, Ops
  <2> HIDE DEF f
  <2> QED
    BY <1>1, <1>3, <1>5, <2>1, <2>2, StackUpdates, ProcessingGoesOn DEF QuietOps
<1>8. CASE Enter(t)
  <2> DEFINE f == [Top(t) EXCEPT !.op = IF @ = "enter" THEN "loop" ELSE "loop2",
                                 !.n = Len(queue[Top(t).q])]
  <2>1. Becomes(t, << f >>)
    BY <1>8 DEF Enter
  <2>2. f \in Frames /\ f.op \in {"loop", "loop2"} /\ f.q = Top(t).q
    BY <1>2, <1>6 DEF Frames, Ops
  <2> HIDE DEF f
  <2> QED
    BY <1>1, <1>3, <1>5, <2>1, <2>2, StackUpdates, ProcessingGoesOn DEF QuietOps
<1> QED
  BY <1>7, <1>8

LEMMA FinishKeeps ==
    ASSUME CallInv, NEW t \in Threads, Finish(t)
    PROVE  CallInv'
<1> DEFINE f == [Top(t) EXCEPT !.op = IF @ = "loop" THEN "after" ELSE "leave", !.n = 0]
<1>1. stack[t] # << >> /\ Top(t).op \in {"loop", "loop2"} /\ Becomes(t, << f >>)
  BY DEF Finish, InLoop, In
<1>2. Top(t) \in Frames /\ FrameNames(Top(t))
  BY <1>1, TopInv
<1>3. Top(t).q \in Queues
  BY <1>1, <1>2 DEF FrameNames
<1>4. OtherTypes
  BY TypeParts DEF CallInv
<1>5. UNCHANGED <<queue, call, table, chainVars>> /\ OtherTypes'
  BY <1>4, ProcessingTypes DEF Finish
<1>6. f \in Frames /\ f.op \in {"after", "leave"} /\ f.q = Top(t).q
  BY <1>2 DEF Frames, Ops
<1> HIDE DEF f
<1> QED
  BY <1>1, <1>3, <1>5, <1>6, StackUpdates, ProcessingGoesOn DEF QuietOps

LEMMA OnceMoreKeeps ==
    ASSUME CallInv, NEW t \in Threads, OnceMore(t)
    PROVE  CallInv'
<1> DEFINE f == [Top(t) EXCEPT !.op = "again"]
<1>1. stack[t] # << >> /\ Top(t).op = "after" /\ Becomes(t, << f >>)
  BY DEF OnceMore, In
<1>2. Top(t) \in Frames /\ FrameNames(Top(t))
  BY <1>1, TopInv
<1>3. Top(t).q \in Queues
  BY <1>1, <1>2 DEF FrameNames
<1>4. UNCHANGED <<queue, call, table, chainVars>> /\ OtherTypes'
  BY SameOthers DEF OnceMore, queueVars, plVars
<1>5. f \in Frames /\ f.op = "again" /\ f.q = Top(t).q
  BY <1>2 DEF Frames, Ops
<1> HIDE DEF f
<1> QED
  BY <1>1, <1>3, <1>4, <1>5, StackUpdates, ProcessingGoesOn DEF QuietOps

LEMMA ToElderKeeps ==
    ASSUME CallInv, NEW t \in Threads, ToElder(t)
    PROVE  CallInv'
<1>1. stack[t] # << >> /\ Top(t).op \in {"after", "leave"}
  BY DEF ToElder, In
<1>2. Top(t) \in Frames /\ FrameNames(Top(t))
  BY <1>1, TopInv
<1>3. Top(t).q \in Queues
  BY <1>1, <1>2 DEF FrameNames
<1>4. UNCHANGED <<queue, call, table, chainVars>> /\ OtherTypes'
  BY SameOthers DEF ToElder, queueVars, plVars
<1>5. mElderQueue[Top(t).q] \in Queues \union {NoQueue}
  BY <1>3, TypeParts DEF CallInv, ChainTypes
<1>6. CASE mElderQueue[Top(t).q] = NoQueue
  <2>1. Rebuilds(t, << >>, TRUE)
    BY <1>1, <1>6, StackUpdates DEF ToElder, Returns
  <2>2. Top(t).op \notin Held \union {"wait"}
    BY <1>1 DEF Held
  <2> QED
    BY <1>1, <1>4, <2>1, <2>2, PopKeeps
<1>7. CASE mElderQueue[Top(t).q] # NoQueue
  <2> DEFINE f == Frame("enter", 0, mElderQueue[Top(t).q])
  <2>1. Becomes(t, << f >>)
    BY <1>7 DEF ToElder
  <2>2. f \in Frames /\ f.op = "enter" /\ f.q \in Queues
    BY <1>5, <1>7, FrameType DEF Ops
  <2> HIDE DEF f
  <2> QED
    BY <1>1, <1>4, <2>1, <2>2, StackUpdates, ProcessingGoesOn DEF QuietOps
<1> QED
  BY <1>6, <1>7

\* The youngest active queue is one of its thread's own, and accepts events.
LEMMA DestinationFacts ==
    ASSUME CallInv, NEW u \in Threads, Destination(u) # NoQueue
    PROVE  /\ Destination(u) \in Queues /\ Destination(u)[1] = u /\ Destination(u)[2] <= made[u]
           /\ mAcceptingEvents[Destination(u)]
<1> DEFINE active == {q \in Chain(table[u]) : mAcceptingEvents[q]}
           A == {MaxQueues - q[2] : q \in active}
           Youngest(q) == \A p \in active : p[2] <= q[2]
<1>1. table[u] # NoQueue /\ table[u][1] = u
  BY DEF Destination, CallInv, TableInv
<1>2. active # {} /\ Destination(u) = CHOOSE q \in active : Youngest(q)
  BY <1>1 DEF Destination, YoungestActive
<1>3. \A q \in active : q \in Queues /\ q[1] = u /\ q[2] <= made[u] /\ mAcceptingEvents[q] /\ q[2] \in 1 .. MaxQueues
  BY <1>1, QueueAssumption DEF Chain, handlerThread, Queues
<1> HIDE DEF active
<1>4. A \subseteq Nat /\ A # {}
  BY <1>2, <1>3, QueueAssumption
<1>5. PICK k \in A : \A j \in A : k <= j
  <2> HIDE DEF A
  <2> QED
    BY <1>4, FirstExists
<1>6. PICK q \in active : k = MaxQueues - q[2]
  BY <1>5
<1>7. Youngest(q)
  <2> SUFFICES ASSUME NEW p \in active PROVE p[2] <= q[2]
    OBVIOUS
  <2>1. MaxQueues - q[2] <= MaxQueues - p[2]
    BY <1>5, <1>6
  <2> QED
    BY <1>3, <2>1, QueueAssumption
<1> HIDE DEF Youngest
<1>8. Destination(u) \in active
  BY <1>2, <1>7
<1> QED
  BY <1>3, <1>8

LEMMA ProcessOwnKeeps ==
    ASSUME CallInv, NEW t \in Threads, ProcessOwn(t)
    PROVE  CallInv'
<1> DEFINE f == Frame("enter", 0, Destination(t))
           g == [Top(t) EXCEPT !.n = 1]
           fs == << f, g >>
<1>1. stack[t] # << >> /\ Top(t).op = "run" /\ Becomes(t, << f, g >>) /\ Destination(t) # NoQueue
  BY DEF ProcessOwn, In
<1>2. Top(t) \in Frames /\ FrameNames(Top(t)) /\ FrameFits(Top(t), call[Top(t).c])
  BY <1>1, TopInv
<1>3. UNCHANGED <<queue, call, table, chainVars>> /\ OtherTypes'
  BY SameOthers DEF ProcessOwn, queueVars, plVars
<1>4. f \in Frames /\ f.op = "enter" /\ f.q \in Queues
  <2>1. Destination(t) \in Queues
    BY <1>1, DestinationFacts
  <2>2. "enter" \in Ops
    BY DEF Ops
  <2> QED
    BY ONLY <2>1, <2>2, FrameType
<1>5. g \in Frames /\ g.op = "run" /\ g.c = Top(t).c /\ g.q = Top(t).q
  BY <1>1, <1>2 DEF Frames
<1>6. Rebuilds(t, fs, TRUE)
  BY <1>1, StackUpdates
<1> HIDE DEF f, g
<1>7. fs \in Seq(Frames) /\ Len(fs) = 2 /\ \A i \in 1 .. Len(fs) : fs[i] = f \/ fs[i] = g
  BY <1>4, <1>5, NewFrames
<1>8. \A c \in Calls : Count(fs, HeldFrames(c)) = Hits(Top(t), c)
  BY <1>1, <1>4, <1>5, NewCounts DEF Hits, Held
<1>9. /\ FrameFits(f, call[f.c]) /\ FrameNames(f) /\ f.op \notin {"wait", "modal", "lookup"}
      /\ FrameFits(g, call[g.c]) /\ FrameNames(g) /\ g.op \notin {"wait", "modal", "lookup"}
  BY <1>1, <1>2, <1>4, <1>5, QuietFrame DEF FrameFits, FrameNames, Held, QuietOps
<1>10. Top(t).op # "wait"
  BY <1>1
<1> HIDE DEF fs
<1> QED
  BY <1>3, <1>6, <1>7, <1>8, <1>9, <1>10, QuietKeeps

-----------------------------------------------------------------------------
(* Queues come and go.                                                         *)

LEMMA NewQueue ==
    ASSUME CallInv, NEW t \in Threads, made[t] < MaxQueues, NEW elder \in Queues \union {NoQueue},
           MakeNewQueue(t, elder)
    PROVE  LET q == NextQueue(t)
           IN  /\ q \in Queues /\ q[1] = t /\ q[2] = made[t] + 1 /\ made'[t] = made[t] + 1 /\ made[t] < q[2]
               /\ q[2] <= made'[t]
               /\ mAcceptingEvents' \in [Queues -> BOOLEAN]
               /\ mElderQueue' \in [Queues -> Queues \union {NoQueue}]
               /\ made' \in [Threads -> 0 .. MaxQueues]
               /\ GrowsFrom(made, made')
               /\ \A p \in Queues : mAcceptingEvents[p] => mAcceptingEvents'[p]
               /\ mAcceptingEvents'[q]
<1> DEFINE q == NextQueue(t)
<1>1. ChainTypes
  BY TypeParts DEF CallInv
<1>2. made[t] \in Nat /\ made[t] + 1 \in 1 .. MaxQueues
  BY <1>1, QueueAssumption DEF ChainTypes
<1>3. q \in Queues /\ q[1] = t /\ q[2] = made[t] + 1
  BY <1>2 DEF NextQueue, Queues
<1> HIDE DEF q
<1>4. /\ made' = [made EXCEPT ![t] = made[t] + 1]
      /\ mAcceptingEvents' = [mAcceptingEvents EXCEPT ![q] = TRUE]
      /\ mElderQueue' = [mElderQueue EXCEPT ![q] = elder]
  BY DEF MakeNewQueue, q
<1>5. made' \in [Threads -> 0 .. MaxQueues] /\ made'[t] = made[t] + 1
  BY <1>1, <1>2, <1>4, QueueAssumption DEF ChainTypes
<1>6. mAcceptingEvents' \in [Queues -> BOOLEAN] /\ mElderQueue' \in [Queues -> Queues \union {NoQueue}]
  BY <1>1, <1>3, <1>4 DEF ChainTypes
<1>7. /\ \A p \in Queues : mAcceptingEvents[p] => mAcceptingEvents'[p]
      /\ mAcceptingEvents'[q]
  BY <1>1, <1>3, <1>4 DEF ChainTypes
<1>8. GrowsFrom(made, made')
  <2>1. \A u \in Threads : made[u] \in Nat /\ (made'[u] = made[u] \/ made'[u] = made[u] + 1)
    BY <1>1, <1>4, QueueAssumption DEF ChainTypes
  <2> QED
    BY <2>1 DEF GrowsFrom
<1>9. made[t] < q[2] /\ q[2] <= made'[t]
  BY <1>2, <1>3, <1>5
<1> QED
  BY <1>3, <1>5, <1>6, <1>7, <1>8, <1>9 DEF q

LEMMA PushModalKeeps ==
    ASSUME CallInv, NEW t \in Threads, PushModal(t)
    PROVE  CallInv'
<1> DEFINE q == NextQueue(t)
           f == Frame("modal", 0, q)
           fs == << f >>
<1>1. /\ made[t] < MaxQueues /\ t \in NativeThreads /\ MakeNewQueue(t, <<t, made[t]>>) /\ Pushes(t, << f >>)
      /\ UNCHANGED <<plVars, asleep, call, table, mEventQMonitor>> /\ ~In(t, "lookup")
  BY DEF PushModal, InCode, In
<1>2. StackType /\ CallType /\ OtherTypes /\ ChainTypes
  BY TypeParts DEF CallInv
<1>3. <<t, made[t]>> \in Queues
  <2>1. made[t] \in 1 .. MaxQueues
    BY <1>1, <1>2, QueueAssumption DEF CallInv, TableInv, ChainTypes
  <2> QED
    BY <2>1 DEF Queues
<1>4. /\ q \in Queues /\ q[1] = t /\ made[t] < q[2] /\ q[2] <= made'[t]
      /\ mAcceptingEvents' \in [Queues -> BOOLEAN]
      /\ mElderQueue' \in [Queues -> Queues \union {NoQueue}]
      /\ made' \in [Threads -> 0 .. MaxQueues]
      /\ GrowsFrom(made, made')
      /\ \A p \in Queues : mAcceptingEvents[p] => mAcceptingEvents'[p]
  BY <1>1, <1>3, NewQueue
<1> HIDE DEF q
<1>5. f \in Frames /\ f.op = "modal" /\ f.q = q /\ f.c = 0
  BY <1>4, FrameType DEF Ops
<1>6. Rebuilds(t, fs, FALSE)
  BY <1>1, StackUpdates
<1> HIDE DEF f
<1>7. fs \in Seq(Frames) /\ \A i \in 1 .. Len(fs) : fs[i] = f
  BY <1>5, NewFrames
<1>8. \A c \in Calls : Count(fs, HeldFrames(c)) = 0
  BY <1>5, NewCounts DEF Hits, Held
<1>9. FrameFits(f, call[f.c]) /\ FrameNames(f)
  BY <1>4, <1>5 DEF FrameFits, FrameNames, Held
<1> HIDE DEF fs
<1>10. UNCHANGED <<queue, call>>
  BY <1>1 DEF plVars
<1>11. PlacesInv' /\ FitsInv' /\ CallerInv'
  BY <1>2, <1>6, <1>7, <1>8, <1>9, <1>10, QuietStep DEF CallInv
<1>12. StackInv'
  <2>1. \A i \in 1 .. Len(fs) :
           /\ FrameNames(fs[i]) /\ OwnQueue(t, fs[i], made'[t])
           /\ fs[i].op # "lookup" /\ fs[i].op # "wait" /\ made[t] < fs[i].q[2]
    BY <1>4, <1>5, <1>7, <1>9 DEF OwnQueue
  <2> QED
    BY <1>1, <1>2, <1>4, <1>6, <1>7, <2>1, StackStep DEF CallInv
<1>13. AcceptInv'
  <2>1. \A i \in 1 .. Len(fs) : fs[i].op # "wait"
    BY <1>5, <1>7
  <2>2. \A u \in Threads : \A i \in 1 .. Len(stack[u]) : stack[u][i].op = "wait" => stack[u][i].q \in Queues
    BY DEF CallInv, StackInv, FrameNames
  <2> QED
    BY <1>2, <1>4, <1>6, <1>7, <2>1, <2>2, AcceptStep DEF CallInv
<1>14. TableInv'
  <2>1. \A u \in Threads : made[u] > 0 => made'[u] > 0
    BY <1>4 DEF GrowsFrom
  <2> QED
    BY <1>1, <2>1, QueueAssumption DEF CallInv, TableInv
<1>15. TypeOK'
  <2>1. StackType'
    BY <1>2, <1>6, <1>7, RebuiltFrames
  <2>2. CallType' /\ ChainTypes'
    BY <1>1, <1>2, <1>4 DEF CallType, ChainTypes, plVars
  <2>3. OtherTypes'
    BY <1>1, SameOthers
  <2> QED
    BY <2>1, <2>2, <2>3, TypePartsNext
<1> QED
  BY <1>11, <1>12, <1>13, <1>14, <1>15 DEF CallInv

LEMMA ModalEndsKeeps ==
    ASSUME CallInv, NEW t \in Threads, ModalEnds(t)
    PROVE  CallInv'
<1> DEFINE f == Frame("enter", 0, Top(t).q)
           g == [Top(t) EXCEPT !.op = "pop"]
           fs == << f, g >>
<1>1. /\ stack[t] # << >> /\ Top(t).op = "modal" /\ StopAcceptingEvents(Top(t).q) /\ Becomes(t, << f, g >>)
      /\ mEventQMonitor' = t /\ UNCHANGED <<plVars, asleep, call, table>>
  BY DEF ModalEnds, In
<1>2. StackType /\ CallType /\ OtherTypes /\ ChainTypes
  BY TypeParts DEF CallInv
<1>3. Top(t) \in Frames /\ FrameNames(Top(t))
  BY <1>1, TopInv
<1>4. Top(t).q \in Queues
  BY <1>1, <1>3 DEF FrameNames
<1>5. f \in Frames /\ f.op = "enter" /\ f.q = Top(t).q
  BY <1>4, FrameType DEF Ops
<1>6. g \in Frames /\ g.op = "pop" /\ g.q = Top(t).q
  BY <1>3 DEF Frames, Ops
<1>7. Rebuilds(t, fs, TRUE)
  BY <1>1, StackUpdates
<1> HIDE DEF f, g
<1>8. fs \in Seq(Frames) /\ Len(fs) = 2 /\ \A i \in 1 .. Len(fs) : fs[i] = f \/ fs[i] = g
  BY <1>5, <1>6, NewFrames
<1>9. \A c \in Calls : Count(fs, HeldFrames(c)) = 0 /\ Hits(Top(t), c) = 0
  BY <1>1, <1>5, <1>6, NewCounts DEF Hits, Held
<1>10. /\ FrameFits(f, call[f.c]) /\ FrameNames(f) /\ FrameFits(g, call[g.c]) /\ FrameNames(g)
  BY <1>4, <1>5, <1>6, QuietFrame DEF QuietOps
<1> HIDE DEF fs
<1>11. UNCHANGED <<queue, call>> /\ Top(t).op # "wait"
  BY <1>1 DEF plVars
<1>12. PlacesInv' /\ FitsInv' /\ CallerInv'
  <2>1. \A i \in 1 .. Len(fs) : FrameFits(fs[i], call[fs[i].c])
    BY <1>8, <1>10
  <2> QED
    BY <1>2, <1>7, <1>8, <1>9, <1>11, <2>1, QuietStep DEF CallInv
<1>13. GrowsFrom(made, made') /\ UNCHANGED <<made, mElderQueue>>
  BY <1>1, <1>2, QueueAssumption DEF StopAcceptingEvents, GrowsFrom, ChainTypes
<1>14. \A i \in 1 .. Len(fs) :
         /\ FrameNames(fs[i]) /\ OwnQueue(t, fs[i], made'[t])
         /\ fs[i].op # "lookup" /\ fs[i].op # "wait" /\ ~Owns(fs[i])
  BY <1>5, <1>6, <1>8, <1>10 DEF OwnQueue, Owns
<1>15. StackInv'
  BY <1>2, <1>7, <1>8, <1>13, <1>14, StackStep DEF CallInv
<1>16. AcceptInv'
  <2>1. Owns(Top(t)) /\ mAcceptingEvents' = [mAcceptingEvents EXCEPT ![Top(t).q] = FALSE]
    BY <1>1 DEF Owns, StopAcceptingEvents
  <2>2. mAcceptingEvents \in [Queues -> BOOLEAN] /\ \A u \in Threads : made[u] \in Nat
    BY <1>2, QueueAssumption DEF ChainTypes
  <2>3. \A u \in Threads : \A i \in 1 .. Len(stack[u]) :
           (Stays(t, TRUE, u, i) /\ stack[u][i].op = "wait" /\ mAcceptingEvents[stack[u][i].q])
               => mAcceptingEvents'[stack[u][i].q]
    BY <1>1, <1>2, <2>1, <2>2, OwnerStops DEF CallInv
  <2> QED
    BY <1>2, <1>7, <1>8, <1>14, <2>3, AcceptStep DEF CallInv
<1>17. TableInv'
  BY <1>1, <1>13 DEF CallInv, TableInv
<1>18. TypeOK'
  <2>1. StackType'
    BY <1>2, <1>7, <1>8, RebuiltFrames
  <2>2. CallType' /\ ChainTypes'
    BY <1>1, <1>2, <1>13 DEF CallType, ChainTypes, plVars, StopAcceptingEvents
  <2>3. OtherTypes'
    BY <1>1, <1>2 DEF OtherTypes, plVars
  <2> QED
    BY <2>1, <2>2, <2>3, TypePartsNext
<1> QED
  BY <1>12, <1>15, <1>16, <1>17, <1>18 DEF CallInv

-----------------------------------------------------------------------------
(* A call goes on.                                                             *)

\* What a step that leaves the queues in their chains has to show of the stack.
LEMMA FrameStep ==
    ASSUME CallInv, NEW t \in Threads, NEW fs \in Seq(Frames), NEW pop \in BOOLEAN, Rebuilds(t, fs, pop),
           UNCHANGED <<table, chainVars>>,
           \A i \in 1 .. Len(fs) :
              /\ FrameNames(fs[i]) /\ OwnQueue(t, fs[i], made[t]) /\ ~Owns(fs[i])
              /\ fs[i].op = "lookup" => i = 1
              /\ fs[i].op = "wait" => mAcceptingEvents[fs[i].q],
           pop \/ ~In(t, "lookup")
    PROVE  StackInv' /\ AcceptInv' /\ TableInv' /\ StackType' /\ ChainTypes'
<1>1. StackType /\ CallType /\ ChainTypes
  BY TypeParts DEF CallInv
<1>2. StackType' /\ ChainTypes'
  BY <1>1, RebuiltFrames DEF ChainTypes, chainVars
<1>3. GrowsFrom(made, made') /\ made' = made
  BY <1>1, <1>2, MadeGrows DEF chainVars
<1>4. StackInv'
  BY <1>1, <1>3, StackStep DEF CallInv
<1>5. AcceptInv'
  BY <1>1, AcceptStep DEF CallInv, chainVars
<1>6. TableInv'
  BY DEF CallInv, TableInv, chainVars
<1> QED
  BY <1>2, <1>4, <1>5, <1>6

\* What a step of one call has to show of the calls.
LEMMA CallStep ==
    ASSUME CallInv, NEW t \in Threads, NEW fs \in Seq(Frames), NEW pop \in BOOLEAN, Rebuilds(t, fs, pop),
           NEW c \in Calls, CallType', \A d \in Calls : d # c => call'[d] = call[d],
           \A d \in Calls : d # c => Count(fs, HeldFrames(d)) = IF pop THEN Hits(Top(t), d) ELSE 0,
           \A d \in Calls : d # c => \A q \in Queues : InQueue(q, d)' = InQueue(q, d),
           PlaceOf(c)',
           \A i \in 1 .. Len(fs) : FrameFits(fs[i], call'[fs[i].c]),
           \A u \in Threads : \A i \in 1 .. Len(stack[u]) : Stays(t, pop, u, i) => Hits(stack[u][i], c) = 0,
           EventsFit', CallFits(call'[c]),
           (pop /\ Top(t).op = "wait") => Top(t).c = c,
           (call'[c].type = "sync" /\ call'[c].mCallersEventQ # NoQueue) =>
              \/ /\ call[c].type = "sync" /\ call[c].mCallersEventQ = call'[c].mCallersEventQ
                 /\ pop => Top(t).op # "wait"
              \/ /\ call'[c].mCallersEventQ[1] = t
                 /\ \E i \in 1 .. Len(fs) : WaitsFor(fs[i], c, call'[c].mCallersEventQ)
    PROVE  PlacesInv' /\ FitsInv' /\ CallerInv'
<1>0. StackType /\ CallType
  BY TypeParts DEF CallInv
<1>1. PlacesInv'
  <2> SUFFICES ASSUME NEW d \in Calls, d # c PROVE PlaceOf(d)'
    BY DEF PlacesInv
  <2>1. \A u \in Threads : OnStack(u, d)' = OnStack(u, d)
    <3>1. /\ \A u \in Threads : OnStack(u, d) \in Nat /\ (u # t => OnStack(u, d)' = OnStack(u, d))
          /\ OnStack(t, d)' = Count(fs, HeldFrames(d)) + OnStack(t, d) - (IF pop THEN Hits(Top(t), d) ELSE 0)
      BY <1>0, RebuiltCounts
    <3>2. Count(fs, HeldFrames(d)) = (IF pop THEN Hits(Top(t), d) ELSE 0) /\ Count(fs, HeldFrames(d)) \in Nat
      BY CountType
    <3>3. OnStack(t, d)' = OnStack(t, d)
      BY <3>1, <3>2
    <3> QED
      BY <3>1, <3>3
  <2>2. PlaceOf(d) /\ call'[d].made = call[d].made /\ Flag(d)' = Flag(d)
    BY DEF CallInv, PlacesInv, Flag
  <2> QED
    BY <2>1, <2>2, SamePlace
<1>2. FramesFit'
  <2>1. ASSUME NEW u \in Threads, NEW i \in 1 .. Len(stack[u]), Stays(t, pop, u, i)
        PROVE  stack[u][i].op \notin Held \/ call'[stack[u][i].c] = call[stack[u][i].c]
    <3>1. Hits(stack[u][i], c) = 0
      BY <2>1
    <3>2. stack[u][i].op \notin Held \/ stack[u][i].c # c
      BY <3>1 DEF Hits
    <3>3. stack[u][i].op \in Held => stack[u][i].c \in Calls
      BY DEF CallInv, StackInv, FrameNames
    <3> QED
      BY <3>2, <3>3
  <2>2. FramesFit
    BY DEF CallInv, FitsInv
  <2> QED
    BY <1>0, <2>1, <2>2, FramesStep
<1>3. \A d \in Calls : CallFits(call'[d])
  BY DEF CallInv, FitsInv
<1>4. FitsInv'
  BY <1>2, <1>3 DEF FitsInv
<1>5. CallerInv'
  <2>1. call \in [Calls -> CallInfo] /\ call' \in [Calls -> CallInfo]
    BY <1>0 DEF CallType
  <2>2. ASSUME NEW d \in Calls, call'[d].type = "sync", call'[d].mCallersEventQ # NoQueue
        PROVE  \/ /\ call[d].type = "sync" /\ call[d].mCallersEventQ = call'[d].mCallersEventQ
                  /\ pop => ~(Top(t).op = "wait" /\ Top(t).c = d)
               \/ /\ call'[d].mCallersEventQ[1] = t
                  /\ \E i \in 1 .. Len(fs) : WaitsFor(fs[i], d, call'[d].mCallersEventQ)
    <3>1. CASE d # c
      BY <2>2, <3>1
    <3>2. CASE d = c
      BY <2>2, <3>2
    <3> QED
      BY <3>1, <3>2
  <2>3. CallerInv
    BY DEF CallInv
  <2> QED
    BY <1>0, <2>1, <2>2, <2>3, CallerStep
<1> QED
  BY <1>1, <1>4, <1>5

\* A step that changes no event.
LEMMA EventsStay ==
    ASSUME CallInv, UNCHANGED queue, NEW c \in Calls, \A d \in Calls : d # c => call'[d] = call[d],
           \/ \A q \in Queues : \A i \in 1 .. Len(queue[q]) : queue[q][i].c # c
           \/ call'[c] = call[c]
    PROVE  EventsFit' /\ \A q \in Queues : \A d : InQueue(q, d)' = InQueue(q, d)
<1>1. ASSUME NEW q \in Queues, NEW i \in 1 .. Len(queue[q])
      PROVE  EventFits(queue[q][i], call'[queue[q][i].c])
  <2>1. queue[q][i].c \in Calls
    <3>1. queue[q][i] \in Events
      BY QueueCounts, TypeParts DEF CallInv
    <3> QED
      BY <3>1 DEF Events
  <2>2. call'[queue[q][i].c] = call[queue[q][i].c]
    BY <2>1
  <2>3. EventFits(queue[q][i], call[queue[q][i].c])
    BY DEF CallInv, FitsInv, EventsFit
  <2> QED
    BY <2>2, <2>3
<1> QED
  BY <1>1 DEF EventsFit, InQueue

\* Where a call is after a step of a thread: counted from where it was.
LEMMA PlaceAfterTop ==
    ASSUME CallInv, NEW t \in Threads, NEW fs \in Seq(Frames), Rebuilds(t, fs, TRUE),
           NEW c \in Calls, \A q \in Queues : InQueue(q, c)' = InQueue(q, c),
           ThreadHas(c, t), Hits(Top(t), c) = 1
    PROVE  /\ Count(fs, HeldFrames(c)) = 1 => (~Flag(c)' => ThreadHas(c, t)')
           /\ Count(fs, HeldFrames(c)) = 0 => NobodyHas(c)'
<1>1. /\ \A u \in Threads : OnStack(u, c) \in Nat /\ (u # t => OnStack(u, c)' = OnStack(u, c))
      /\ OnStack(t, c)' = Count(fs, HeldFrames(c)) + OnStack(t, c) - Hits(Top(t), c)
  BY RebuiltCounts, TypeParts DEF CallInv
<1>2. Count(fs, HeldFrames(c)) \in Nat
  BY CountType
<1>3. OnStack(t, c)' = Count(fs, HeldFrames(c))
  BY <1>1, <1>2 DEF ThreadHas
<1> QED
  BY <1>1, <1>3 DEF NobodyHas, ThreadHas

LEMMA PlaceAfterNobody ==
    ASSUME CallInv, NEW t \in Threads, NEW fs \in Seq(Frames), NEW pop \in BOOLEAN, Rebuilds(t, fs, pop),
           NEW c \in Calls, \A q \in Queues : InQueue(q, c)' = InQueue(q, c),
           NobodyHas(c), pop => Hits(Top(t), c) = 0
    PROVE  /\ Count(fs, HeldFrames(c)) = 1 => (~Flag(c)' => ThreadHas(c, t)')
           /\ Count(fs, HeldFrames(c)) = 0 => NobodyHas(c)'
<1>1. /\ \A u \in Threads : OnStack(u, c) \in Nat /\ (u # t => OnStack(u, c)' = OnStack(u, c))
      /\ OnStack(t, c)' = Count(fs, HeldFrames(c)) + OnStack(t, c) - (IF pop THEN Hits(Top(t), c) ELSE 0)
  BY RebuiltCounts, TypeParts DEF CallInv
<1>2. Count(fs, HeldFrames(c)) \in Nat
  BY CountType
<1>3. OnStack(t, c)' = Count(fs, HeldFrames(c))
  BY <1>1, <1>2 DEF NobodyHas
<1> QED
  BY <1>1, <1>3 DEF NobodyHas, ThreadHas

LEMMA SleepKeeps ==
    ASSUME CallInv, NEW t \in Threads, Sleep(t)
    PROVE  CallInv'
<1>1. UNCHANGED <<queueVars, stack, call, table, mEventQMonitor>> /\ asleep' = asleep \union {t}
  BY DEF Sleep
<1>2. TypeOK'
  BY <1>1 DEF CallInv, TypeOK, EventQueueTypeOK, queueVars, plVars, chainVars
<1>3. StackInv' /\ AcceptInv' /\ TableInv' /\ CallerInv'
  BY <1>1 DEF CallInv, StackInv, AcceptInv, TableInv, CallerInv, queueVars, chainVars
<1>4. PlacesInv'
  BY <1>1 DEF CallInv, PlacesInv, PlaceOf, Located, NobodyHas, ThreadHas, QueueHas, Flag, OnStack, InQueue, queueVars, plVars
<1>5. FitsInv'
  BY <1>1 DEF CallInv, FitsInv, FramesFit, EventsFit, queueVars, plVars
<1> QED
  BY <1>2, <1>3, <1>4, <1>5 DEF CallInv

LEMMA Standing ==
    ASSUME StackType, UNCHANGED stack, NEW t \in Threads
    PROVE  Rebuilds(t, << >>, FALSE) /\ << >> \in Seq(Frames) /\ Len(<< >>) = 0
<1>1. << >> \o stack[t] = stack[t] /\ << >> \in Seq(Frames) /\ Len(<< >>) = 0
  BY ConcatEmptySeq, EmptySeq DEF StackType
<1> QED
  BY <1>1 DEF Rebuilds, Rest, StackType

LEMMA CallChanges ==
    ASSUME CallType, NEW c \in Calls, NEW r \in CallInfo, call' = [call EXCEPT ![c] = r],
           queue' \in [Queues -> Seq(Events)]
    PROVE  CallType' /\ call'[c] = r /\ \A d \in Calls : d # c => call'[d] = call[d]
  BY DEF CallType

LEMMA MakeProxyKeeps ==
    ASSUME CallInv, NEW t \in Threads, NEW c \in Calls, NEW u \in Threads, NEW type \in {"sync", "async"},
           MakeProxy(t, c, u, type)
    PROVE  CallInv'
<1> DEFINE r == [call[c] EXCEPT !.type = type, !.from = t, !.dest = Destination(u)]
           fs == << >>
<1>1. /\ Destination(u) # NoQueue /\ call[c].type = "none" /\ call' = [call EXCEPT ![c] = r]
      /\ UNCHANGED <<queueVars, stack, asleep, table, mEventQMonitor>>
  BY DEF MakeProxy
<1>2. StackType /\ CallType /\ OtherTypes /\ ChainTypes
  BY TypeParts DEF CallInv
<1>3. Destination(u) \in Queues
  BY <1>1, DestinationFacts
<1>4. call[c] \in CallInfo /\ call[c] = NewCall
  BY <1>1, <1>2 DEF CallType, CallInv, FitsInv, CallFits
<1>5. /\ r \in CallInfo /\ r.type = type /\ r.made = FALSE /\ r.dest \in Queues /\ r.mCallersEventQ = NoQueue
      /\ r.invoked = 0 /\ r.returned = FALSE /\ r.mCompleted = FALSE /\ r.refused = FALSE
  <2>1. r \in CallInfo
    <3>1. call[c] \in CallInfo
      BY <1>4
    <3> QED
      BY <1>3, <3>1 DEF CallInfo
  <2>2. /\ r.type = type /\ r.dest = Destination(u) /\ r.made = call[c].made
        /\ r.mCallersEventQ = call[c].mCallersEventQ /\ r.invoked = call[c].invoked
        /\ r.returned = call[c].returned /\ r.mCompleted = call[c].mCompleted /\ r.refused = call[c].refused
    BY <1>4 DEF CallInfo
  <2> QED
    BY <1>3, <1>4, <2>1, <2>2 DEF NewCall
<1> HIDE DEF r
<1>6. CallType' /\ call'[c] = r /\ \A d \in Calls : d # c => call'[d] = call[d]
  BY <1>1, <1>2, <1>5, CallChanges DEF CallType, queueVars, plVars
<1>7. Rebuilds(t, fs, FALSE) /\ fs \in Seq(Frames) /\ Len(fs) = 0
  BY <1>1, <1>2, Standing
<1>8. \A d : Count(fs, HeldFrames(d)) = 0
  BY NewCounts
<1> HIDE DEF fs
<1>9. NobodyHas(c) /\ ~Flag(c)
  <2>1. call[c].made = FALSE
    BY <1>4 DEF NewCall
  <2> QED
    BY <2>1 DEF CallInv, PlacesInv, PlaceOf
<1>10. /\ \A v \in Threads : \A i \in 1 .. Len(stack[v]) : Hits(stack[v][i], c) = 0
       /\ \A q \in Queues : \A i \in 1 .. Len(queue[q]) : queue[q][i].c # c
  BY <1>2, <1>9, NobodyHolds
<1>11. EventsFit' /\ \A q \in Queues : \A d : InQueue(q, d)' = InQueue(q, d)
  BY <1>1, <1>6, <1>10, EventsStay DEF queueVars, plVars
<1>12. PlaceOf(c)'
  <2>1. NobodyHas(c)'
    BY <1>7, <1>8, <1>9, <1>11, PlaceAfterNobody
  <2> QED
    BY <1>5, <1>6, <2>1 DEF PlaceOf, Flag
<1>13. \A i \in 1 .. Len(fs) : FALSE
  BY <1>7
<1>14. CallFits(call'[c])
  BY <1>5, <1>6 DEF CallFits
<1>15. PlacesInv' /\ FitsInv' /\ CallerInv'
  BY <1>5, <1>6, <1>7, <1>8, <1>10, <1>11, <1>12, <1>13, <1>14, CallStep
<1>16. TypeOK'
  <2>1. StackType' /\ ChainTypes' /\ OtherTypes'
    BY <1>1, <1>2 DEF StackType, ChainTypes, OtherTypes, queueVars, plVars, chainVars
  <2> QED
    BY <1>6, <2>1, TypePartsNext
<1>17. StackInv' /\ AcceptInv' /\ TableInv'
  BY <1>1 DEF CallInv, StackInv, AcceptInv, TableInv, queueVars, chainVars
<1> QED
  BY <1>15, <1>16, <1>17 DEF CallInv

\* The call is made: its thread has it.
LEMMA CallKeeps ==
    ASSUME CallInv, NEW t \in Threads, NEW c \in Calls, CallSync(t, c) \/ CallAsync(t, c)
    PROVE  CallInv'
<1> DEFINE r == [call[c] EXCEPT !.made = TRUE]
<1>1. /\ call[c].type \in {"sync", "async"} /\ call[c].made = FALSE /\ call' = [call EXCEPT ![c] = r]
      /\ UNCHANGED <<queueVars, asleep, table, mEventQMonitor>>
  <2>1. call[c] \in CallInfo
    BY TypeParts DEF CallInv, CallType
  <2> QED
    BY <2>1 DEF CallSync, CallAsync, CallInfo
<1>2. StackType /\ CallType /\ OtherTypes /\ ChainTypes
  BY TypeParts DEF CallInv
<1>3. call[c] \in CallInfo /\ CallFits(call[c]) /\ NobodyHas(c) /\ ~Flag(c)
  BY <1>1, <1>2 DEF CallType, CallInv, FitsInv, PlacesInv, PlaceOf
<1>4. /\ r \in CallInfo /\ r.type = call[c].type /\ r.made = TRUE /\ r.dest \in Queues /\ r.mCallersEventQ = NoQueue
      /\ r.invoked = 0 /\ r.returned = FALSE /\ r.mCompleted = FALSE /\ r.refused = FALSE
  BY <1>1, <1>3 DEF CallInfo, CallFits, Flag
<1>5. PICK f \in Frames : /\ Pushes(t, << f >>) /\ f.c = c /\ f.op \in {"lookup", "post"} /\ f.n = 0
                          /\ f.op = "post" => f.q \in Queues /\ r.type = "async"
                          /\ f.op = "lookup" => r.type = "sync"
  <2>1. CASE CallSync(t, c)
    <3>1. Pushes(t, << Frame("lookup", c, NoQueue) >>) /\ call[c].type = "sync"
      BY <2>1 DEF CallSync
    <3>2. /\ Frame("lookup", c, NoQueue) \in Frames /\ Frame("lookup", c, NoQueue).op = "lookup"
          /\ Frame("lookup", c, NoQueue).c = c /\ Frame("lookup", c, NoQueue).n = 0
      BY FrameType DEF Ops
    <3> QED
      BY <1>4, <3>1, <3>2
  <2>2. CASE CallAsync(t, c)
    <3>1. Pushes(t, << Frame("post", c, call[c].dest) >>) /\ call[c].type = "async" /\ call[c].dest \in Queues
      BY <1>3, <2>2 DEF CallAsync, CallFits
    <3>2. /\ Frame("post", c, call[c].dest) \in Frames /\ Frame("post", c, call[c].dest).op = "post"
          /\ Frame("post", c, call[c].dest).c = c /\ Frame("post", c, call[c].dest).n = 0
          /\ Frame("post", c, call[c].dest).q = call[c].dest
      BY <3>1, FrameType DEF Ops
    <3> QED
      BY <1>4, <3>1, <3>2
  <2> QED
    BY <2>1, <2>2
<1>6. ~In(t, "lookup")
  BY DEF CallSync, CallAsync, InCode, In
<1> HIDE DEF r
<1> DEFINE fs == << f >>
<1>7. CallType' /\ call'[c] = r /\ \A d \in Calls : d # c => call'[d] = call[d]
  BY <1>1, <1>2, <1>4, CallChanges DEF CallType, queueVars, plVars
<1>8. Rebuilds(t, fs, FALSE) /\ fs \in Seq(Frames) /\ \A i \in 1 .. Len(fs) : fs[i] = f
  BY <1>5, StackUpdates, NewFrames
<1>9. \A d : Count(fs, HeldFrames(d)) = IF d = c THEN 1 ELSE 0
  BY <1>5, NewCounts DEF Hits, Held
<1>10. Len(fs) = 1
  OBVIOUS
<1> HIDE DEF fs
<1>11. /\ \A v \in Threads : \A i \in 1 .. Len(stack[v]) : Hits(stack[v][i], c) = 0
       /\ \A q \in Queues : \A i \in 1 .. Len(queue[q]) : queue[q][i].c # c
  BY <1>2, <1>3, NobodyHolds
<1>12. EventsFit' /\ \A q \in Queues : \A d : InQueue(q, d)' = InQueue(q, d)
  BY <1>1, <1>7, <1>11, EventsStay DEF queueVars, plVars
<1>13. PlaceOf(c)'
  <2>1. ~Flag(c)'
    BY <1>4, <1>7 DEF Flag
  <2>2. ThreadHas(c, t)'
    BY <1>3, <1>8, <1>9, <1>12, <2>1, PlaceAfterNobody
  <2> QED
    BY <1>4, <1>7, <2>2 DEF PlaceOf, Located
<1>14. FrameFits(f, r) /\ FrameNames(f) /\ f.op \notin {"wait", "modal"}
  BY <1>1, <1>4, <1>5 DEF FrameFits, FrameNames, Held, IsOut, HasAnswerQueue
<1>15. \A i \in 1 .. Len(fs) : FrameFits(fs[i], call'[fs[i].c])
  BY <1>5, <1>7, <1>8, <1>14
<1>16. CallFits(call'[c])
  BY <1>1, <1>4, <1>7 DEF CallFits
<1>17. PlacesInv' /\ FitsInv' /\ CallerInv'
  <2>1. \A d \in Calls : d # c => Count(fs, HeldFrames(d)) = IF FALSE THEN Hits(Top(t), d) ELSE 0
    BY <1>9
  <2>2. \A d \in Calls : d # c => \A q \in Queues : InQueue(q, d)' = InQueue(q, d)
    BY <1>12
  <2>3. \A u \in Threads : \A i \in 1 .. Len(stack[u]) : Stays(t, FALSE, u, i) => Hits(stack[u][i], c) = 0
    BY <1>11
  <2>4. ~(call'[c].type = "sync" /\ call'[c].mCallersEventQ # NoQueue)
    BY <1>4, <1>7
  <2> QED
    BY ONLY CallInv, t \in Threads, c \in Calls, <1>7, <1>8, <1>12, <1>13, <1>15, <1>16, <2>1, <2>2, <2>3, <2>4, CallStep
<1>18. StackInv' /\ AcceptInv' /\ TableInv' /\ StackType' /\ ChainTypes'
  <2>1. \A i \in 1 .. Len(fs) :
           /\ FrameNames(fs[i]) /\ OwnQueue(t, fs[i], made[t]) /\ ~Owns(fs[i])
           /\ fs[i].op = "lookup" => i = 1
           /\ fs[i].op # "wait"
    BY <1>8, <1>10, <1>14 DEF OwnQueue, Owns
  <2> QED
    BY <1>1, <1>6, <1>8, <2>1, FrameStep DEF queueVars
<1>19. OtherTypes'
  BY <1>1, SameOthers DEF queueVars
<1>20. TypeOK'
  BY <1>7, <1>18, <1>19, TypePartsNext
<1> QED
  BY <1>17, <1>18, <1>20 DEF CallInv

\* A step in which the thread that has a call goes on with it.
LEMMA TopStep ==
    ASSUME CallInv, NEW t \in Threads, stack[t] # << >>, NEW c \in Calls, Top(t).c = c, Top(t).op \in Held,
           NEW fs \in Seq(Frames), Rebuilds(t, fs, TRUE), UNCHANGED queue,
           CallType', \A d \in Calls : d # c => call'[d] = call[d],
           \A d \in Calls : d # c => Count(fs, HeldFrames(d)) = 0,
           \/ Count(fs, HeldFrames(c)) = 1 /\ call'[c].made /\ ~Flag(c)'
           \/ Count(fs, HeldFrames(c)) = 0 /\ call'[c].made = Flag(c)',
           \A i \in 1 .. Len(fs) : FrameFits(fs[i], call'[fs[i].c]),
           CallFits(call'[c]),
           (call'[c].type = "sync" /\ call'[c].mCallersEventQ # NoQueue) =>
              \/ call[c].type = "sync" /\ call[c].mCallersEventQ = call'[c].mCallersEventQ
              \/ /\ call'[c].mCallersEventQ[1] = t
                 /\ \E i \in 1 .. Len(fs) : WaitsFor(fs[i], c, call'[c].mCallersEventQ)
    PROVE  PlacesInv' /\ FitsInv' /\ CallerInv'
<1>1. StackType /\ CallType /\ PlacesInv
  BY TypeParts DEF CallInv
<1>2. /\ call[c].made /\ ThreadHas(c, t) /\ Hits(Top(t), c) = 1
      /\ \A u \in Threads : \A i \in 1 .. Len(stack[u]) : Stays(t, TRUE, u, i) => Hits(stack[u][i], c) = 0
      /\ \A p \in Queues : \A i \in 1 .. Len(queue[p]) : queue[p][i].c # c
  BY <1>1, TopHolds
<1>3. EventsFit' /\ \A p \in Queues : \A d : InQueue(p, d)' = InQueue(p, d)
  BY <1>2, EventsStay
<1>4. /\ Count(fs, HeldFrames(c)) = 1 => (~Flag(c)' => ThreadHas(c, t)')
      /\ Count(fs, HeldFrames(c)) = 0 => NobodyHas(c)'
  <2>1. ThreadHas(c, t) /\ Hits(Top(t), c) = 1 /\ \A q \in Queues : InQueue(q, c)' = InQueue(q, c)
    BY <1>2, <1>3
  <2> QED
    BY <2>1, PlaceAfterTop
<1>5. PlaceOf(c)'
  <2>1. CASE Count(fs, HeldFrames(c)) = 1 /\ call'[c].made /\ ~Flag(c)'
    BY <1>4, <2>1 DEF PlaceOf, Located
  <2>2. CASE Count(fs, HeldFrames(c)) = 0 /\ call'[c].made = Flag(c)'
    BY <1>4, <2>2 DEF PlaceOf, Located
  <2> QED
    BY <2>1, <2>2
<1>6. \A d \in Calls : d # c => Count(fs, HeldFrames(d)) = IF TRUE THEN Hits(Top(t), d) ELSE 0
  BY DEF Hits
<1>7. \A d \in Calls : d # c => \A p \in Queues : InQueue(p, d)' = InQueue(p, d)
  BY <1>3
<1>8. Top(t).op # "wait"
  BY DEF Held
<1> QED
  BY <1>2, <1>3, <1>5, <1>6, <1>7, <1>8, CallStep

\* PostAndWait knows the queue for the answer, and posts the call.
LEMMA AskStep ==
    ASSUME CallInv, NEW t \in Threads, In(t, "lookup"), NEW c, c = Top(t).c, NEW q \in Queues, q[1] = t,
           NEW w \in Frames, WaitsFor(w, c, q), NEW f, f = Frame("post", c, call[c].dest),
           call' = [call EXCEPT ![c].mCallersEventQ = q], UNCHANGED queue,
           NEW fs, fs = << f, w >>, Rebuilds(t, fs, TRUE)
    PROVE  /\ PlacesInv' /\ FitsInv' /\ CallerInv' /\ CallType'
           /\ f \in Frames /\ c \in Calls /\ call[c].dest \in Queues
<1> DEFINE r == [call[c] EXCEPT !.mCallersEventQ = q]
<1>1. stack[t] # << >> /\ Top(t).op = "lookup" /\ Top(t).c = c
  BY DEF In
<1>2. StackType /\ CallType
  BY TypeParts DEF CallInv
<1>3. c \in Calls /\ IsOut(call[c]) /\ call[c].type = "sync"
  BY <1>1, TopInv DEF FrameNames, FrameFits, Held
<1>4. /\ call[c].made /\ ThreadHas(c, t) /\ Hits(Top(t), c) = 1
      /\ \A u \in Threads : \A i \in 1 .. Len(stack[u]) : Stays(t, TRUE, u, i) => Hits(stack[u][i], c) = 0
      /\ \A p \in Queues : \A i \in 1 .. Len(queue[p]) : queue[p][i].c # c
  <2>1. Top(t).op \in Held
    BY <1>1 DEF Held
  <2> QED
    BY <1>1, <1>2, <1>3, <2>1, TopHolds DEF CallInv
<1>5. call[c] \in CallInfo /\ CallFits(call[c]) /\ ~Flag(c)
  BY <1>2, <1>3, <1>4 DEF CallType, CallInv, FitsInv, ThreadHas
<1>6. /\ r \in CallInfo /\ r.type = "sync" /\ r.made = call[c].made /\ r.dest = call[c].dest
      /\ r.mCallersEventQ = q /\ r.invoked = call[c].invoked /\ r.returned = call[c].returned
      /\ r.mCompleted = call[c].mCompleted /\ r.refused = call[c].refused
  BY <1>3, <1>5 DEF CallInfo
<1>7. call' = [call EXCEPT ![c] = r]
  OBVIOUS
<1> HIDE DEF r
<1>8. CallType' /\ call'[c] = r /\ \A d \in Calls : d # c => call'[d] = call[d]
  BY <1>2, <1>3, <1>6, <1>7, CallChanges DEF CallType
<1>9. call[c].dest \in Queues
  BY <1>3, <1>5 DEF CallFits
<1>10. f \in Frames /\ f.op = "post" /\ f.c = c /\ f.q \in Queues
  BY <1>3, <1>9, FrameType DEF Ops
<1>11. fs \in Seq(Frames) /\ Len(fs) = 2 /\ (\A i \in 1 .. 2 : fs[i] = IF i = 1 THEN f ELSE w)
  BY <1>10, NewFrames
<1>13. \A d : Count(fs, HeldFrames(d)) = IF d = c THEN 1 ELSE 0
  BY <1>10, NewCounts DEF Hits, Held, WaitsFor
<1>14. Count(fs, HeldFrames(c)) = 1 /\ \A d \in Calls : d # c => Count(fs, HeldFrames(d)) = 0
  BY <1>13
<1>15. call'[c].made /\ ~Flag(c)' /\ Top(t).op \in Held
  BY <1>1, <1>4, <1>5, <1>6, <1>8 DEF Flag, Held
<1>16. \A i \in 1 .. Len(fs) : FrameFits(fs[i], call'[fs[i].c])
  <2>1. FrameFits(f, r) /\ FrameFits(w, r)
    BY <1>3, <1>6, <1>10 DEF FrameFits, IsOut, HasAnswerQueue, WaitsFor
  <2> QED
    BY <1>8, <1>10, <1>11, <2>1 DEF WaitsFor
<1>17. CallFits(call'[c])
  BY <1>3, <1>4, <1>5, <1>6, <1>8 DEF CallFits, Flag
<1>19. /\ call'[c].mCallersEventQ[1] = t
       /\ \E i \in 1 .. Len(fs) : WaitsFor(fs[i], c, call'[c].mCallersEventQ)
  <2>1. fs[2] = w /\ 2 \in 1 .. Len(fs)
    BY <1>11
  <2> QED
    BY <1>6, <1>8, <2>1
<1>20. PlacesInv' /\ FitsInv' /\ CallerInv'
  <2>1. \/ Count(fs, HeldFrames(c)) = 1 /\ call'[c].made /\ ~Flag(c)'
        \/ Count(fs, HeldFrames(c)) = 0 /\ call'[c].made = Flag(c)'
    BY <1>14, <1>15
  <2>2. (call'[c].type = "sync" /\ call'[c].mCallersEventQ # NoQueue) =>
              \/ call[c].type = "sync" /\ call[c].mCallersEventQ = call'[c].mCallersEventQ
              \/ /\ call'[c].mCallersEventQ[1] = t
                 /\ \E i \in 1 .. Len(fs) : WaitsFor(fs[i], c, call'[c].mCallersEventQ)
    BY <1>19
  <2>3. CallInv /\ UNCHANGED queue /\ Rebuilds(t, fs, TRUE)
    OBVIOUS
  <2>4. \A d \in Calls : d # c => Count(fs, HeldFrames(d)) = 0
    BY <1>14
  <2> QED
    BY ONLY t \in Threads, <1>1, <1>3, <1>8, <1>11, <1>15, <1>16, <1>17, <2>1, <2>2, <2>3, <2>4, TopStep
<1> QED
  BY <1>3, <1>8, <1>9, <1>10, <1>20

LEMMA UseOwnQueueKeeps ==
    ASSUME CallInv, NEW t \in Threads, UseOwnQueue(t)
    PROVE  CallInv'
<1> DEFINE c == Top(t).c
           q == Destination(t)
           f == Frame("post", c, call[c].dest)
           w == Frame("wait", c, q)
           fs == << f, w >>
<1>1. /\ In(t, "lookup") /\ stack[t] # << >> /\ Top(t).op = "lookup" /\ q # NoQueue
      /\ call' = [call EXCEPT ![c].mCallersEventQ = q] /\ Becomes(t, << f, w >>)
      /\ UNCHANGED <<queueVars, asleep, table, mEventQMonitor>>
  BY DEF UseOwnQueue, In
<1>2. q \in Queues /\ q[1] = t /\ q[2] <= made[t] /\ mAcceptingEvents[q]
  BY <1>1, DestinationFacts
<1>3. c \in Calls
  BY <1>1, TopInv DEF FrameNames, Held
<1>4. w \in Frames /\ WaitsFor(w, c, q) /\ w.n = 0
  BY <1>2, <1>3, FrameType DEF Ops, WaitsFor
<1>5. Rebuilds(t, fs, TRUE) /\ UNCHANGED queue
  BY <1>1, StackUpdates DEF queueVars, plVars
<1>6. PlacesInv' /\ FitsInv' /\ CallerInv' /\ CallType' /\ f \in Frames /\ call[c].dest \in Queues
  <2>1. c = Top(t).c /\ f = Frame("post", c, call[c].dest) /\ fs = << f, w >>
    OBVIOUS
  <2> HIDE DEF f, w, fs, q, c
  <2> QED
    BY <1>1, <1>2, <1>4, <1>5, <2>1, AskStep
<1>7. f.op = "post" /\ f.c = c /\ f.q \in Queues
  BY <1>3, <1>6, FrameType DEF Ops
<1>8. fs \in Seq(Frames) /\ Len(fs) = 2 /\ (\A i \in 1 .. 2 : fs[i] = IF i = 1 THEN f ELSE w)
  BY <1>4, <1>6, NewFrames
<1> HIDE DEF f, w, q, c
<1>9. /\ FrameNames(f) /\ OwnQueue(t, f, made[t]) /\ ~Owns(f) /\ f.op # "lookup" /\ f.op # "wait"
      /\ FrameNames(w) /\ OwnQueue(t, w, made[t]) /\ ~Owns(w) /\ w.op # "lookup" /\ mAcceptingEvents[w.q]
  BY <1>2, <1>3, <1>4, <1>7 DEF FrameNames, OwnQueue, Owns, WaitsFor, Held
<1> HIDE DEF fs
<1>10. \A i \in 1 .. Len(fs) :
          /\ FrameNames(fs[i]) /\ OwnQueue(t, fs[i], made[t]) /\ ~Owns(fs[i])
          /\ fs[i].op = "lookup" => i = 1
          /\ fs[i].op = "wait" => mAcceptingEvents[fs[i].q]
  BY <1>8, <1>9
<1>11. StackInv' /\ AcceptInv' /\ TableInv' /\ StackType' /\ ChainTypes'
  BY <1>1, <1>5, <1>8, <1>10, FrameStep DEF queueVars
<1>12. OtherTypes'
  BY <1>1, SameOthers DEF queueVars
<1>13. TypeOK'
  BY <1>6, <1>11, <1>12, TypePartsNext
<1> QED
  BY <1>6, <1>11, <1>13 DEF CallInv

LEMMA UseNewQueueKeeps ==
    ASSUME CallInv, NEW t \in Threads, UseNewQueue(t)
    PROVE  CallInv'
<1> DEFINE c == Top(t).c
           q == NextQueue(t)
           f == Frame("post", c, call[c].dest)
           w == [Frame("wait", c, q) EXCEPT !.n = 1]
           fs == << f, w >>
<1>1. /\ In(t, "lookup") /\ stack[t] # << >> /\ Top(t).op = "lookup"
      /\ made[t] < MaxQueues /\ MakeNewQueue(t, NoQueue) /\ table' = [table EXCEPT ![t] = q]
      /\ call' = [call EXCEPT ![c].mCallersEventQ = q] /\ Becomes(t, << f, w >>)
      /\ UNCHANGED <<plVars, asleep, mEventQMonitor>>
  BY DEF UseNewQueue, In
<1>2. StackType /\ CallType /\ OtherTypes /\ ChainTypes
  BY TypeParts DEF CallInv
<1>3. /\ q \in Queues /\ q[1] = t /\ made[t] < q[2] /\ q[2] <= made'[t]
      /\ mAcceptingEvents' \in [Queues -> BOOLEAN]
      /\ mElderQueue' \in [Queues -> Queues \union {NoQueue}]
      /\ made' \in [Threads -> 0 .. MaxQueues]
      /\ GrowsFrom(made, made')
      /\ \A p \in Queues : mAcceptingEvents[p] => mAcceptingEvents'[p]
      /\ mAcceptingEvents'[q]
  BY <1>1, NewQueue
<1> HIDE DEF q
<1>4. c \in Calls
  BY <1>1, TopInv DEF FrameNames, Held
<1>5. w \in Frames /\ WaitsFor(w, c, q) /\ w.n = 1
  <2>1. /\ Frame("wait", c, q) \in Frames /\ Frame("wait", c, q).op = "wait"
        /\ Frame("wait", c, q).c = c /\ Frame("wait", c, q).q = q
    BY <1>3, <1>4, FrameType DEF Ops
  <2> QED
    BY <2>1 DEF Frames, WaitsFor
<1> HIDE DEF w
<1>6. Rebuilds(t, fs, TRUE) /\ UNCHANGED queue
  BY <1>1, StackUpdates DEF plVars
<1>7. PlacesInv' /\ FitsInv' /\ CallerInv' /\ CallType' /\ f \in Frames /\ call[c].dest \in Queues
  <2>1. c = Top(t).c /\ f = Frame("post", c, call[c].dest) /\ fs = << f, w >>
    OBVIOUS
  <2> HIDE DEF f, fs, c
  <2> QED
    BY <1>1, <1>3, <1>5, <1>6, <2>1, AskStep
<1>8. f.op = "post" /\ f.c = c /\ f.q \in Queues
  BY <1>4, <1>7, FrameType DEF Ops
<1>9. fs \in Seq(Frames) /\ Len(fs) = 2 /\ (\A i \in 1 .. 2 : fs[i] = IF i = 1 THEN f ELSE w)
  BY <1>5, <1>7, NewFrames
<1> HIDE DEF f, c
<1>10. /\ FrameNames(f) /\ OwnQueue(t, f, made'[t]) /\ ~Owns(f) /\ f.op # "lookup" /\ f.op # "wait"
       /\ FrameNames(w) /\ OwnQueue(t, w, made'[t]) /\ w.op # "lookup" /\ w.q = q
  BY <1>3, <1>4, <1>5, <1>8 DEF FrameNames, OwnQueue, Owns, WaitsFor, Held
<1> HIDE DEF fs
<1>11. StackInv'
  <2>1. \A i \in 1 .. Len(fs) :
           /\ FrameNames(fs[i])
           /\ OwnQueue(t, fs[i], made'[t])
           /\ fs[i].op = "lookup" => i = 1
           /\ Owns(fs[i]) => made[t] < fs[i].q[2] /\ \A j \in 1 .. Len(fs) : fs[j].op = "wait" => j <= i
    BY <1>3, <1>9, <1>10
  <2> QED
    BY <1>2, <1>3, <1>6, <1>9, <2>1, StackStep DEF CallInv
<1>12. AcceptInv'
  <2>1. \A i \in 1 .. Len(fs) : fs[i].op = "wait" => mAcceptingEvents'[fs[i].q]
    BY <1>3, <1>9, <1>10
  <2>2. \A u \in Threads : \A i \in 1 .. Len(stack[u]) : stack[u][i].op = "wait" => stack[u][i].q \in Queues
    BY DEF CallInv, StackInv, FrameNames
  <2> QED
    BY <1>2, <1>3, <1>6, <1>9, <2>1, <2>2, AcceptStep DEF CallInv
<1>13. TableInv'
  <2>1. \A u \in Threads : made[u] > 0 => made'[u] > 0
    BY <1>3 DEF GrowsFrom
  <2>2. \A u \in Threads : table'[u] = IF u = t THEN q ELSE table[u]
    BY <1>1, <1>2 DEF ChainTypes
  <2> QED
    BY <1>3, <2>1, <2>2, QueueAssumption DEF CallInv, TableInv
<1>14. TypeOK'
  <2>1. StackType'
    BY <1>2, <1>6, <1>9, RebuiltFrames
  <2>2. ChainTypes'
    BY <1>1, <1>2, <1>3 DEF ChainTypes
  <2>3. OtherTypes'
    BY <1>1, SameOthers
  <2> QED
    BY <1>7, <2>1, <2>2, <2>3, TypePartsNext
<1> QED
  BY <1>7, <1>11, <1>12, <1>13, <1>14 DEF CallInv

\* The rest of a step that takes the top away or puts one frame in its place.
LEMMA TopFrameStep ==
    ASSUME CallInv, NEW t \in Threads, stack[t] # << >>, NEW fs, Rebuilds(t, fs, TRUE), UNCHANGED <<table, chainVars>>,
           \/ fs = << >>
           \/ \E f \in Frames : fs = << f >> /\ FrameNames(f) /\ f.op \notin {"wait", "modal", "lookup"}
    PROVE  StackInv' /\ AcceptInv' /\ TableInv' /\ StackType' /\ ChainTypes'
<1>1. fs \in Seq(Frames) /\ \A i \in 1 .. Len(fs) : FrameNames(fs[i]) /\ fs[i].op \notin {"wait", "modal", "lookup"}
  <2>1. CASE fs = << >>
    BY <2>1, EmptySeq
  <2>2. ASSUME NEW f \in Frames, fs = << f >>, FrameNames(f), f.op \notin {"wait", "modal", "lookup"}
        PROVE  fs \in Seq(Frames) /\ \A i \in 1 .. Len(fs) : FrameNames(fs[i]) /\ fs[i].op \notin {"wait", "modal", "lookup"}
    BY <2>2, NewFrames
  <2> QED
    BY <2>1, <2>2
<1>2. \A i \in 1 .. Len(fs) :
         /\ FrameNames(fs[i]) /\ OwnQueue(t, fs[i], made[t]) /\ ~Owns(fs[i])
         /\ fs[i].op # "lookup" /\ fs[i].op # "wait"
  BY <1>1 DEF OwnQueue, Owns
<1> QED
  BY <1>1, <1>2, FrameStep

LEMMA RefusedKeeps ==
    ASSUME CallInv, NEW t \in Threads, Refused(t)
    PROVE  CallInv'
<1>0. PICK c : Top(t).c = c
  OBVIOUS
<1> DEFINE r == [call[c] EXCEPT !.refused = TRUE]
           fs == << >>
<1>1. /\ stack[t] # << >> /\ Top(t).op = "post" /\ Becomes(t, << >>)
      /\ call' = [call EXCEPT ![c] = r] /\ UNCHANGED <<queueVars, asleep, table, mEventQMonitor>>
  BY <1>0 DEF Refused, In, Returns
<1>2. c \in Calls /\ IsOut(call[c]) /\ Top(t).op \in Held
  BY <1>0, <1>1, TopInv DEF FrameNames, FrameFits, Held
<1>4. call[c] \in CallInfo /\ CallFits(call[c]) /\ CallType
  BY <1>2, TypeParts DEF CallInv, FitsInv, CallType
<1>5. /\ r \in CallInfo /\ r.type = call[c].type /\ r.made = call[c].made /\ r.dest = call[c].dest
      /\ r.mCallersEventQ = call[c].mCallersEventQ /\ r.invoked = call[c].invoked /\ r.returned = call[c].returned
      /\ r.mCompleted = call[c].mCompleted /\ r.refused = TRUE
  BY <1>4 DEF CallInfo
<1> HIDE DEF r
<1>6. CallType' /\ call'[c] = r /\ \A d \in Calls : d # c => call'[d] = call[d]
  BY <1>1, <1>2, <1>4, <1>5, CallChanges DEF CallType, queueVars, plVars
<1>7. Rebuilds(t, fs, TRUE) /\ fs \in Seq(Frames) /\ Len(fs) = 0 /\ UNCHANGED queue
  BY <1>1, StackUpdates, EmptySeq DEF queueVars, plVars
<1>8. \A d : Count(fs, HeldFrames(d)) = 0
  BY NewCounts
<1>9. StackInv' /\ AcceptInv' /\ TableInv' /\ StackType' /\ ChainTypes'
  BY <1>1, <1>7, TopFrameStep DEF queueVars
<1> HIDE DEF fs
<1>10. call'[c].made = Flag(c)'
  BY <1>2, <1>5, <1>6 DEF Flag, IsOut
<1>11. CallFits(call'[c])
  BY <1>2, <1>4, <1>5, <1>6 DEF CallFits, IsOut, IsReturned
<1>12. \A i \in 1 .. Len(fs) : FrameFits(fs[i], call'[fs[i].c])
  BY <1>7
<1>13. PlacesInv' /\ FitsInv' /\ CallerInv'
  <2>1. call'[c].type = call[c].type /\ call'[c].mCallersEventQ = call[c].mCallersEventQ
    BY <1>5, <1>6
  <2>2. Count(fs, HeldFrames(c)) = 0 /\ \A d \in Calls : d # c => Count(fs, HeldFrames(d)) = 0
    BY <1>8
  <2> QED
    BY <1>1, <1>2, <1>0, <1>6, <1>7, <1>10, <1>11, <1>12, <2>1, <2>2, TopStep
<1>14. OtherTypes'
  BY <1>1, SameOthers DEF queueVars
<1>15. TypeOK'
  BY <1>6, <1>9, <1>14, TypePartsNext
<1> QED
  BY <1>9, <1>13, <1>15 DEF CallInv

LEMMA DeletedFacts ==
    /\ DeletedCall \in CallInfo /\ DeletedCall.made = FALSE /\ DeletedCall.type = "deleted"
    /\ DeletedCall.mCompleted = FALSE /\ DeletedCall.refused = FALSE /\ CallFits(DeletedCall)
<1>1. /\ NewCall \in CallInfo /\ NewCall.made = FALSE /\ NewCall.invoked = 0
      /\ NewCall.mCompleted = FALSE /\ NewCall.refused = FALSE /\ NewCall.returned = FALSE
      /\ NewCall.mCallersEventQ = NoQueue
  BY DEF NewCall, CallInfo
<1>2. /\ DeletedCall \in CallInfo /\ DeletedCall.type = "deleted" /\ DeletedCall.made = NewCall.made
      /\ DeletedCall.invoked = NewCall.invoked /\ DeletedCall.mCompleted = NewCall.mCompleted
      /\ DeletedCall.refused = NewCall.refused /\ DeletedCall.returned = NewCall.returned
      /\ DeletedCall.mCallersEventQ = NewCall.mCallersEventQ
  BY <1>1 DEF DeletedCall, CallInfo
<1> QED
  BY <1>1, <1>2 DEF CallFits

LEMMA MethodReturnsKeeps ==
    ASSUME CallInv, NEW t \in Threads, MethodReturns(t)
    PROVE  CallInv'
<1>0. PICK c : Top(t).c = c
  OBVIOUS
<1>1. /\ stack[t] # << >> /\ Top(t).op = "run" /\ UNCHANGED <<queueVars, asleep, table, mEventQMonitor>>
  BY DEF MethodReturns, In
<1>2. c \in Calls /\ IsRunning(call[c]) /\ HasAnswerQueue(call[c]) /\ Top(t).op \in Held
  BY <1>0, <1>1, TopInv DEF FrameNames, FrameFits, Held
<1>4. call[c] \in CallInfo /\ CallFits(call[c]) /\ CallType
  BY <1>2, TypeParts DEF CallInv, FitsInv, CallType
<1>5. OtherTypes'
  BY <1>1, SameOthers DEF queueVars
<1>6. UNCHANGED queue
  BY <1>1 DEF queueVars, plVars
<1>7. CASE call[c].type = "async"
  <2> DEFINE fs == << >>
  <2>1. call' = [call EXCEPT ![c] = DeletedCall] /\ Becomes(t, << >>)
    BY <1>0, <1>7 DEF MethodReturns, Returns
  <2>2. /\ DeletedCall \in CallInfo /\ DeletedCall.made = FALSE /\ DeletedCall.type = "deleted"
        /\ DeletedCall.mCompleted = FALSE /\ DeletedCall.refused = FALSE /\ CallFits(DeletedCall)
    BY DeletedFacts
  <2>3. CallType' /\ call'[c] = DeletedCall /\ \A d \in Calls : d # c => call'[d] = call[d]
    BY <1>2, <1>4, <1>6, <2>1, <2>2, CallChanges DEF CallType
  <2>4. Rebuilds(t, fs, TRUE) /\ fs \in Seq(Frames) /\ Len(fs) = 0
    BY <1>1, <2>1, StackUpdates, EmptySeq
  <2>5. \A d : Count(fs, HeldFrames(d)) = 0
    BY NewCounts
  <2>6. StackInv' /\ AcceptInv' /\ TableInv' /\ StackType' /\ ChainTypes'
    BY <1>1, <2>4, TopFrameStep DEF queueVars
  <2> HIDE DEF fs
  <2>7. call'[c].made = Flag(c)'
    BY <2>2, <2>3 DEF Flag
  <2>8. \A i \in 1 .. Len(fs) : FrameFits(fs[i], call'[fs[i].c])
    BY <2>4
  <2>9. PlacesInv' /\ FitsInv' /\ CallerInv'
    BY <1>1, <1>2, <1>0, <1>6, <2>2, <2>3, <2>4, <2>5, <2>7, <2>8, TopStep
  <2>10. TypeOK'
    BY <1>5, <2>3, <2>6, TypePartsNext
  <2> QED
    BY <2>6, <2>9, <2>10 DEF CallInv
<1>8. CASE call[c].type # "async"
  <2> DEFINE r == [call[c] EXCEPT !.returned = TRUE]
             f == Frame("complete", c, call[c].mCallersEventQ)
             fs == << f >>
  <2>1. call' = [call EXCEPT ![c] = r] /\ Becomes(t, << f >>)
    BY <1>0, <1>8 DEF MethodReturns
  <2>2. call[c].type = "sync" /\ call[c].mCallersEventQ \in Queues
    BY <1>2, <1>8 DEF IsRunning, HasAnswerQueue
  <2>3. /\ r \in CallInfo /\ r.type = "sync" /\ r.made = call[c].made /\ r.dest = call[c].dest
        /\ r.mCallersEventQ = call[c].mCallersEventQ /\ r.invoked = call[c].invoked /\ r.returned = TRUE
        /\ r.mCompleted = call[c].mCompleted /\ r.refused = call[c].refused
    BY <1>4, <2>2 DEF CallInfo
  <2> HIDE DEF r
  <2>4. f \in Frames /\ f.op = "complete" /\ f.c = c /\ f.q = call[c].mCallersEventQ
    BY <1>2, <2>2, FrameType DEF Ops
  <2> HIDE DEF f
  <2>5. CallType' /\ call'[c] = r /\ \A d \in Calls : d # c => call'[d] = call[d]
    BY <1>2, <1>4, <1>6, <2>1, <2>3, CallChanges DEF CallType
  <2>6. Rebuilds(t, fs, TRUE) /\ fs \in Seq(Frames) /\ \A i \in 1 .. Len(fs) : fs[i] = f
    BY <1>1, <2>1, <2>4, StackUpdates, NewFrames
  <2>7. \A d : Count(fs, HeldFrames(d)) = IF d = c THEN 1 ELSE 0
    BY <2>4, NewCounts DEF Hits, Held
  <2>8. FrameFits(f, r) /\ FrameNames(f)
    BY <1>2, <2>2, <2>3, <2>4 DEF FrameFits, FrameNames, IsRunning, IsReturned, HasAnswerQueue, Held
  <2>9. StackInv' /\ AcceptInv' /\ TableInv' /\ StackType' /\ ChainTypes'
    BY <1>1, <2>4, <2>6, <2>8, TopFrameStep DEF queueVars
  <2> HIDE DEF fs
  <2>10. Count(fs, HeldFrames(c)) = 1 /\ \A d \in Calls : d # c => Count(fs, HeldFrames(d)) = 0
    BY <2>7
  <2>11. call'[c].made /\ ~Flag(c)'
    <3>1. ~Flag(c)
      BY <1>1, <1>2, <1>0, TopHolds, TypeParts DEF CallInv, ThreadHas
    <3> QED
      BY <1>2, <2>3, <2>5, <3>1 DEF Flag, IsRunning
  <2>12. CallFits(call'[c])
    BY <1>2, <1>4, <2>2, <2>3, <2>5 DEF CallFits, IsRunning, IsReturned
  <2>13. \A i \in 1 .. Len(fs) : FrameFits(fs[i], call'[fs[i].c])
    BY <2>4, <2>5, <2>6, <2>8
  <2>14. PlacesInv' /\ FitsInv' /\ CallerInv'
    BY <1>1, <1>2, <1>0, <1>6, <2>2, <2>3, <2>5, <2>6, <2>10, <2>11, <2>12, <2>13, TopStep
  <2>15. TypeOK'
    BY <1>5, <2>5, <2>9, TypePartsNext
  <2> QED
    BY <2>9, <2>14, <2>15 DEF CallInv
<1> QED
  BY <1>7, <1>8

\* The thread that has a call posts an event about it.
LEMMA TopPosts ==
    ASSUME CallInv, NEW t \in Threads, stack[t] # << >>, NEW c \in Calls, Top(t).c = c, Top(t).op \in Held,
           NEW fs \in Seq(Frames), Rebuilds(t, fs, TRUE), UNCHANGED call,
           \A d \in Calls : Count(fs, HeldFrames(d)) = 0,
           \A i \in 1 .. Len(fs) : FrameFits(fs[i], call[fs[i].c]),
           NEW q \in Queues, NEW e \in Events, e.c = c, EventFits(e, call[c]),
           queue' = [queue EXCEPT ![q] = Append(@, e)]
    PROVE  PlacesInv' /\ FitsInv' /\ CallerInv' /\ CallType'
<1>1. StackType /\ CallType /\ PlacesInv
  BY TypeParts DEF CallInv
<1>2. /\ call[c].made /\ ThreadHas(c, t) /\ Hits(Top(t), c) = 1
      /\ \A u \in Threads : \A i \in 1 .. Len(stack[u]) : Stays(t, TRUE, u, i) => Hits(stack[u][i], c) = 0
  BY <1>1, TopHolds
<1>3. /\ queue' \in [Queues -> Seq(Events)]
      /\ \A p \in Queues : \A d : InQueue(p, d)' = InQueue(p, d) + (IF p = q /\ e.c = d THEN 1 ELSE 0)
      /\ \A p \in Queues : \A i \in 1 .. Len(queue'[p]) :
            \/ p = q /\ queue'[p][i] = e
            \/ i \in 1 .. Len(queue[p]) /\ queue'[p][i] = queue[p][i]
  BY <1>1, Posted
<1>4. CallType'
  BY <1>1, <1>3 DEF CallType
<1>5. EventsFit'
  <2> SUFFICES ASSUME NEW p \in Queues, NEW i \in 1 .. Len(queue'[p])
               PROVE  EventFits(queue'[p][i], call'[queue'[p][i].c])
    BY DEF EventsFit
  <2>1. CASE queue'[p][i] = e
    BY <2>1
  <2>2. CASE i \in 1 .. Len(queue[p]) /\ queue'[p][i] = queue[p][i]
    BY <2>2 DEF CallInv, FitsInv, EventsFit
  <2> QED
    BY <1>3, <2>1, <2>2
<1>6. /\ \A u \in Threads : OnStack(u, c) \in Nat /\ (u # t => OnStack(u, c)' = OnStack(u, c))
      /\ OnStack(t, c)' = Count(fs, HeldFrames(c)) + OnStack(t, c) - Hits(Top(t), c)
  BY ONLY <1>1, t \in Threads, c \in Calls, fs \in Seq(Frames), Rebuilds(t, fs, TRUE), stack[t] # << >>, RebuiltCounts
<1>7. OnStack(t, c)' = 0
  BY <1>2, <1>6 DEF ThreadHas
<1>8. \A p \in Queues : InQueue(p, c)' = IF p = q THEN 1 ELSE 0
  BY <1>2, <1>3 DEF ThreadHas
<1>9. ~Flag(c)'
  BY <1>2 DEF ThreadHas, Flag
<1>10. QueueHas(c, q)'
  BY <1>2, <1>6, <1>7, <1>8, <1>9 DEF ThreadHas, QueueHas
<1>11. PlaceOf(c)'
  BY <1>2, <1>10 DEF PlaceOf, Located
<1>12. \A d \in Calls : d # c => Count(fs, HeldFrames(d)) = IF TRUE THEN Hits(Top(t), d) ELSE 0
  BY DEF Hits
<1>13. \A d \in Calls : d # c => \A p \in Queues : InQueue(p, d)' = InQueue(p, d)
  BY <1>1, <1>3, QueueCounts
<1>14. CallFits(call'[c]) /\ Top(t).op # "wait"
  BY DEF Held, CallInv, FitsInv
<1>15. call'[c].type = call[c].type /\ call'[c].mCallersEventQ = call[c].mCallersEventQ
  OBVIOUS
<1>16. PlacesInv' /\ FitsInv' /\ CallerInv'
  BY <1>2, <1>4, <1>5, <1>11, <1>12, <1>13, <1>14, <1>15, CallStep
<1> QED
  BY <1>4, <1>16

LEMMA PostTypes ==
    ASSUME OtherTypes, NEW q, NEW event, PL_PostEvent(q, event), asleep' \subseteq Threads, UNCHANGED mEventQMonitor
    PROVE  OtherTypes'
<1>1. eventPipe' \in [Queues -> 0 .. PipeSize]
  BY QueueAssumption DEF OtherTypes, PL_PostEvent, NativeNotify
<1>2. notified' \in [Queues -> BOOLEAN] /\ processingEvents' \in [Queues -> BOOLEAN]
  BY DEF OtherTypes, PL_PostEvent
<1> QED
  BY <1>1, <1>2 DEF OtherTypes

LEMMA AppendEventKeeps ==
    ASSUME CallInv, NEW t \in Threads, AppendEvent(t)
    PROVE  CallInv'
<1> DEFINE c == Top(t).c
           q == Top(t).q
           fs == << >>
<1>1. /\ stack[t] # << >> /\ Top(t).op = "append" /\ Becomes(t, << >>) /\ PL_PostEvent(q, CallEvent(c))
      /\ Notify(q) /\ UNCHANGED <<chainVars, call, table, mEventQMonitor>>
  BY DEF AppendEvent, In, Returns
<1>2. c \in Calls /\ IsOut(call[c]) /\ HasAnswerQueue(call[c]) /\ Top(t).op \in Held /\ q \in Queues
  BY <1>1, TopInv DEF FrameNames, FrameFits, Held
<1>3. Top(t).c = c
  OBVIOUS
<1> HIDE DEF c, q
<1>4. Rebuilds(t, fs, TRUE) /\ fs \in Seq(Frames) /\ Len(fs) = 0
  BY <1>1, StackUpdates, EmptySeq
<1>5. \A d : Count(fs, HeldFrames(d)) = 0
  BY NewCounts
<1>6. StackInv' /\ AcceptInv' /\ TableInv' /\ StackType' /\ ChainTypes'
  BY <1>1, <1>4, TopFrameStep
<1> HIDE DEF fs
<1>7. /\ CallEvent(c) \in Events /\ CallEvent(c).c = c /\ EventFits(CallEvent(c), call[c])
  BY <1>2 DEF CallEvent, Events, EventFits
<1>8. queue' = [queue EXCEPT ![q] = Append(@, CallEvent(c))]
  BY <1>1 DEF PL_PostEvent
<1>9. \A i \in 1 .. Len(fs) : FrameFits(fs[i], call[fs[i].c])
  BY <1>4
<1>10. PlacesInv' /\ FitsInv' /\ CallerInv' /\ CallType'
  BY <1>1, <1>2, <1>3, <1>4, <1>5, <1>7, <1>8, <1>9, TopPosts
<1>11. OtherTypes'
  <2>1. OtherTypes /\ asleep' \subseteq Threads
    BY <1>1, TypeParts DEF CallInv, OtherTypes, Notify
  <2> QED
    BY <1>1, <2>1, PostTypes
<1>12. TypeOK'
  BY <1>6, <1>10, <1>11, TypePartsNext
<1> QED
  BY <1>6, <1>10, <1>12 DEF CallInv

LEMMA PostCompletedKeeps ==
    ASSUME CallInv, NEW t \in Threads, PostCompleted(t)
    PROVE  CallInv'
<1> DEFINE c == Top(t).c
           q == Top(t).q
           f == [Top(t) EXCEPT !.op = "sync"]
           fs == << f >>
<1>1. /\ stack[t] # << >> /\ Top(t).op = "complete" /\ Becomes(t, << f >>) /\ PL_PostEvent(q, CompletedEvent(c))
      /\ Notify(q) /\ UNCHANGED <<chainVars, call, table, mEventQMonitor>>
  BY DEF PostCompleted, In
<1>2. /\ c \in Calls /\ IsReturned(call[c]) /\ HasAnswerQueue(call[c]) /\ Top(t).op \in Held /\ q \in Queues
      /\ Top(t) \in Frames
  BY <1>1, TopInv DEF FrameNames, FrameFits, Held
<1>3. f \in Frames /\ f.op = "sync" /\ f.c = c /\ f.q = q
  BY <1>2 DEF Frames, Ops
<1>4. Top(t).c = c
  OBVIOUS
<1> HIDE DEF c, q, f
<1>5. Rebuilds(t, fs, TRUE) /\ fs \in Seq(Frames) /\ \A i \in 1 .. Len(fs) : fs[i] = f
  BY <1>1, <1>3, StackUpdates, NewFrames
<1>6. \A d : Count(fs, HeldFrames(d)) = 0
  BY <1>3, NewCounts DEF Hits, Held
<1>7. FrameNames(f) /\ \A r : FrameFits(f, r)
  BY <1>2, <1>3 DEF FrameNames, FrameFits
<1>8. StackInv' /\ AcceptInv' /\ TableInv' /\ StackType' /\ ChainTypes'
  BY <1>1, <1>3, <1>5, <1>7, TopFrameStep
<1> HIDE DEF fs
<1>9. /\ CompletedEvent(c) \in Events /\ CompletedEvent(c).c = c /\ EventFits(CompletedEvent(c), call[c])
  BY <1>2 DEF CompletedEvent, Events, EventFits
<1>10. queue' = [queue EXCEPT ![q] = Append(@, CompletedEvent(c))]
  BY <1>1 DEF PL_PostEvent
<1>11. \A i \in 1 .. Len(fs) : FrameFits(fs[i], call[fs[i].c])
  BY <1>5, <1>7
<1>12. PlacesInv' /\ FitsInv' /\ CallerInv' /\ CallType'
  BY <1>1, <1>2, <1>4, <1>5, <1>6, <1>9, <1>10, <1>11, TopPosts
<1>13. OtherTypes'
  <2>1. OtherTypes /\ asleep' \subseteq Threads
    BY <1>1, TypeParts DEF CallInv, OtherTypes, Notify
  <2> QED
    BY <1>1, <2>1, PostTypes
<1>14. TypeOK'
  BY <1>8, <1>12, <1>13, TypePartsNext
<1> QED
  BY <1>8, <1>12, <1>14 DEF CallInv

\* What the step that ends PostAndWait does to the chain of its thread: a queue of its own goes dark.
LEMMA WaitReturnsChain ==
    ASSUME CallInv, NEW t \in Threads, WaitReturns(t)
    PROVE  StackInv' /\ AcceptInv' /\ TableInv' /\ StackType' /\ ChainTypes'
<1> DEFINE fs == << >>
<1>1. stack[t] # << >> /\ Top(t).op = "wait" /\ Becomes(t, << >>)
  BY DEF WaitReturns, In, Returns
<1>2. StackType /\ CallType /\ OtherTypes /\ ChainTypes
  BY TypeParts DEF CallInv
<1>3. Rebuilds(t, fs, TRUE) /\ fs \in Seq(Frames) /\ Len(fs) = 0
  BY <1>1, StackUpdates, EmptySeq
<1>4. CASE Top(t).n # 1
  <2>1. UNCHANGED <<table, chainVars>>
    BY <1>4 DEF WaitReturns
  <2> QED
    BY <1>1, <1>3, <2>1, TopFrameStep
<1>5. CASE Top(t).n = 1
  <2>1. /\ UNCHANGED <<made, mElderQueue>> /\ table' = [table EXCEPT ![t] = NoQueue]
        /\ mAcceptingEvents' = [mAcceptingEvents EXCEPT ![Top(t).q] = FALSE]
    BY <1>5 DEF WaitReturns, StopAcceptingEvents
  <2>2. Owns(Top(t))
    BY <1>1, <1>5 DEF Owns
  <2> HIDE DEF fs
  <2>3. GrowsFrom(made, made')
    BY <1>2, <2>1, QueueAssumption DEF GrowsFrom, ChainTypes
  <2>4. \A i \in 1 .. Len(fs) :
           /\ FrameNames(fs[i])
           /\ OwnQueue(t, fs[i], made'[t])
           /\ fs[i].op = "lookup" => i = 1
           /\ Owns(fs[i]) => made[t] < fs[i].q[2] /\ \A j \in 1 .. Len(fs) : fs[j].op = "wait" => j <= i
    BY <1>3
  <2>5. StackInv'
    BY <1>2, <1>3, <2>3, <2>4, StackStep DEF CallInv
  <2>6. mAcceptingEvents \in [Queues -> BOOLEAN] /\ \A u \in Threads : made[u] \in Nat
    BY <1>2, QueueAssumption DEF ChainTypes
  <2>7. \A u \in Threads : \A i \in 1 .. Len(stack[u]) :
           (Stays(t, TRUE, u, i) /\ stack[u][i].op = "wait" /\ mAcceptingEvents[stack[u][i].q])
               => mAcceptingEvents'[stack[u][i].q]
    BY <1>1, <1>2, <2>1, <2>2, <2>6, OwnerStops DEF CallInv
  <2>8. \A i \in 1 .. Len(fs) : fs[i].op = "wait" => mAcceptingEvents'[fs[i].q]
    BY <1>3
  <2>9. AcceptInv'
    BY <1>2, <1>3, <2>7, <2>8, AcceptStep DEF CallInv
  <2>10. TableInv' /\ ChainTypes'
    BY <1>2, <2>1 DEF CallInv, TableInv, ChainTypes
  <2>11. StackType'
    BY <1>2, <1>3, RebuiltFrames
  <2> QED
    BY <2>5, <2>9, <2>10, <2>11
<1> QED
  BY <1>4, <1>5

LEMMA WaitReturnsKeeps ==
    ASSUME CallInv, NEW t \in Threads, WaitReturns(t)
    PROVE  CallInv'
<1> DEFINE fs == << >>
<1>0. PICK c : Top(t).c = c
  OBVIOUS
<1>1. /\ stack[t] # << >> /\ Top(t).op = "wait" /\ call[c].mCompleted /\ Becomes(t, << >>)
      /\ call' = [call EXCEPT ![c] = DeletedCall] /\ UNCHANGED <<plVars, asleep, mEventQMonitor>>
  BY <1>0 DEF WaitReturns, In, Returns
<1>2. StackType /\ CallType /\ c \in Calls
  BY <1>0, <1>1, TypeParts, TopInv DEF CallInv, FrameNames
<1>3. StackInv' /\ AcceptInv' /\ TableInv' /\ StackType' /\ ChainTypes'
  BY WaitReturnsChain
<1>4. Rebuilds(t, fs, TRUE) /\ fs \in Seq(Frames) /\ Len(fs) = 0 /\ UNCHANGED queue
  BY <1>1, StackUpdates, EmptySeq DEF plVars
<1>5. \A d : Count(fs, HeldFrames(d)) = 0 /\ Hits(Top(t), d) = 0
  BY <1>1, NewCounts DEF Hits, Held
<1> HIDE DEF fs
<1>6. IsReturned(call[c]) /\ Flag(c)
  BY <1>1, <1>2 DEF CallInv, FitsInv, CallFits, Flag
<1>7. NobodyHas(c)
  BY <1>2, <1>6 DEF CallInv, PlacesInv, PlaceOf, Located, ThreadHas, QueueHas, IsReturned
<1>8. /\ \A u \in Threads : \A i \in 1 .. Len(stack[u]) : Hits(stack[u][i], c) = 0
      /\ \A q \in Queues : \A i \in 1 .. Len(queue[q]) : queue[q][i].c # c
  BY <1>2, <1>7, NobodyHolds
<1>9. /\ DeletedCall \in CallInfo /\ DeletedCall.made = FALSE /\ DeletedCall.type = "deleted"
      /\ DeletedCall.mCompleted = FALSE /\ DeletedCall.refused = FALSE /\ CallFits(DeletedCall)
  BY DeletedFacts
<1>10. CallType' /\ call'[c] = DeletedCall /\ \A d \in Calls : d # c => call'[d] = call[d]
  BY <1>1, <1>2, <1>4, <1>9, CallChanges DEF CallType
<1>11. EventsFit' /\ \A q \in Queues : \A d : InQueue(q, d)' = InQueue(q, d)
  BY <1>2, <1>4, <1>8, <1>10, EventsStay
<1>12. PlaceOf(c)'
  <2>1. NobodyHas(c)'
    BY <1>2, <1>4, <1>5, <1>7, <1>11, PlaceAfterNobody
  <2>2. ~Flag(c)' /\ ~call'[c].made
    BY <1>9, <1>10 DEF Flag
  <2> QED
    BY <2>1, <2>2 DEF PlaceOf
<1>13. PlacesInv' /\ FitsInv' /\ CallerInv'
  <2>1. \A d \in Calls : d # c => Count(fs, HeldFrames(d)) = IF TRUE THEN Hits(Top(t), d) ELSE 0
    BY <1>5
  <2>2. \A i \in 1 .. Len(fs) : FrameFits(fs[i], call'[fs[i].c])
    BY <1>4
  <2>3. \A u \in Threads : \A i \in 1 .. Len(stack[u]) : Stays(t, TRUE, u, i) => Hits(stack[u][i], c) = 0
    BY <1>8
  <2>4. call'[c].type # "sync" /\ CallFits(call'[c])
    BY <1>9, <1>10
  <2>5. \A d \in Calls : d # c => \A q \in Queues : InQueue(q, d)' = InQueue(q, d)
    BY <1>11
  <2> QED
    BY <1>0, <1>2, <1>4, <1>10, <1>11, <1>12, <2>1, <2>2, <2>3, <2>4, <2>5, CallStep
<1>14. OtherTypes'
  BY <1>1, SameOthers
<1>15. TypeOK'
  BY <1>3, <1>10, <1>14, TypePartsNext
<1> QED
  BY <1>3, <1>13, <1>15 DEF CallInv

-----------------------------------------------------------------------------
(* Handling events.                                                            *)

LEMMA InvokedType ==
    ASSUME NEW s \in CallInfo
    PROVE  LET r == [s EXCEPT !.invoked = 1]
           IN  /\ r \in CallInfo /\ r.type = s.type /\ r.made = s.made /\ r.dest = s.dest
               /\ r.mCallersEventQ = s.mCallersEventQ /\ r.invoked = 1 /\ r.returned = s.returned
               /\ r.mCompleted = s.mCompleted /\ r.refused = s.refused
<1>1. 1 \in 0 .. 2
  OBVIOUS
<1> QED
  BY ONLY s \in CallInfo, <1>1 DEF CallInfo

LEMMA InvokedRecord ==
    ASSUME CallType, NEW c \in Calls, IsOut(call[c]), queue' \in [Queues -> Seq(Events)],
           call' = [call EXCEPT ![c].invoked = @ + 1]
    PROVE  LET r == [call[c] EXCEPT !.invoked = 1]
           IN  /\ r.type = call[c].type /\ r.made = call[c].made /\ r.dest = call[c].dest
               /\ r.mCallersEventQ = call[c].mCallersEventQ /\ r.invoked = 1 /\ r.returned = call[c].returned
               /\ r.mCompleted = call[c].mCompleted /\ r.refused = call[c].refused
               /\ CallType' /\ call'[c] = r /\ \A d \in Calls : d # c => call'[d] = call[d]
<1> DEFINE r == [call[c] EXCEPT !.invoked = 1]
<1>1. call[c] \in CallInfo /\ call[c].invoked + 1 = 1
  BY DEF CallType, IsOut
<1>2. r \in CallInfo
  BY <1>1, InvokedType
<1>3. /\ r.type = call[c].type /\ r.made = call[c].made /\ r.dest = call[c].dest
      /\ r.mCallersEventQ = call[c].mCallersEventQ /\ r.invoked = 1 /\ r.returned = call[c].returned
      /\ r.mCompleted = call[c].mCompleted /\ r.refused = call[c].refused
  BY <1>1, InvokedType
<1>4. call' = [call EXCEPT ![c] = r]
  BY <1>1 DEF CallType
<1> HIDE DEF r
<1>5. CallType' /\ call'[c] = r /\ \A d \in Calls : d # c => call'[d] = call[d]
  BY <1>2, <1>4, CallChanges
<1> QED
  BY <1>3, <1>5 DEF r

\* The event that is taken calls a method: the thread has the call then.
LEMMA InvokesKeeps ==
    ASSUME CallInv, NEW t \in Threads, NEW q \in Queues, queue[q] # << >>,
           queue' = [queue EXCEPT ![q] = Tail(@)], NEW c \in Calls, c = Head(queue[q]).c, Head(queue[q]).kind = "call",
           call' = [call EXCEPT ![c].invoked = @ + 1],
           NEW fs \in Seq(Frames), NEW pop \in BOOLEAN, Rebuilds(t, fs, pop), UNCHANGED <<table, chainVars>>,
           OtherTypes', Count(fs, HeldFrames(c)) = 1,
           \A d \in Calls : d # c => Count(fs, HeldFrames(d)) = 0,
           \A i \in 1 .. Len(fs) :
              /\ fs[i].op \notin Held \/ (fs[i].op = "run" /\ fs[i].c = c)
              /\ FrameNames(fs[i]) /\ fs[i].op \notin {"wait", "modal"},
           pop => Top(t).op \notin Held \union {"wait"},
           pop \/ ~In(t, "lookup")
    PROVE  CallInv'
<1> DEFINE e == Head(queue[q])
           r == [call[c] EXCEPT !.invoked = 1]
<1>1. StackType /\ CallType /\ PlacesInv
  BY TypeParts DEF CallInv
<1>2. /\ e \in Events /\ e = queue[q][1] /\ 1 \in 1 .. Len(queue[q]) /\ c \in Calls
      /\ call[c].made /\ QueueHas(c, q)
      /\ \A u \in Threads : \A i \in 1 .. Len(stack[u]) : Hits(stack[u][i], c) = 0
      /\ \A p \in Queues : \A i \in 1 .. Len(queue[p]) : (p # q \/ i # 1) => queue[p][i].c # c
  BY <1>1, HeadHolds
<1>3. /\ queue' \in [Queues -> Seq(Events)]
      /\ \A p \in Queues : \A d : InQueue(p, d)' = InQueue(p, d) - (IF p = q /\ c = d THEN 1 ELSE 0)
      /\ \A p \in Queues : \A i \in 1 .. Len(queue'[p]) :
            \E k \in 1 .. Len(queue[p]) : (p # q \/ k # 1) /\ queue'[p][i] = queue[p][k]
  <2>1. /\ queue' \in [Queues -> Seq(Events)]
        /\ \A p \in Queues : \A d : InQueue(p, d)' = InQueue(p, d) - (IF p = q /\ Head(queue[q]).c = d THEN 1 ELSE 0)
        /\ \A p \in Queues : \A i \in 1 .. Len(queue'[p]) :
              \E k \in 1 .. Len(queue[p]) : (p # q \/ k # 1) /\ queue'[p][i] = queue[p][k]
    BY <1>1, Got
  <2> QED
    BY <2>1
<1>4. IsOut(call[c]) /\ HasAnswerQueue(call[c]) /\ CallFits(call[c]) /\ call[c] \in CallInfo
  BY <1>1, <1>2 DEF CallInv, FitsInv, EventsFit, EventFits, CallType
<1>5. /\ r.type = call[c].type /\ r.made = call[c].made /\ r.dest = call[c].dest
      /\ r.mCallersEventQ = call[c].mCallersEventQ /\ r.invoked = 1 /\ r.returned = call[c].returned
      /\ r.mCompleted = call[c].mCompleted /\ r.refused = call[c].refused
      /\ CallType' /\ call'[c] = r /\ \A d \in Calls : d # c => call'[d] = call[d]
  BY <1>1, <1>2, <1>3, <1>4, InvokedRecord
<1>6. CallType' /\ call'[c] = r /\ \A d \in Calls : d # c => call'[d] = call[d]
  BY <1>5
<1> HIDE DEF r, e
<1>7. IsRunning(r) /\ HasAnswerQueue(r)
  <2>1. IsRunning(r)
    BY ONLY <1>4, <1>5 DEF IsOut, IsRunning
  <2>2. HasAnswerQueue(r)
    BY ONLY <1>4, <1>5 DEF HasAnswerQueue
  <2> QED
    BY <2>1, <2>2
<1>8. ~Flag(c) /\ ~Flag(c)'
  BY <1>2, <1>5, <1>6 DEF QueueHas, Flag
<1>9. CallFits(call'[c])
  BY <1>2, <1>4, <1>5, <1>6, <1>8 DEF CallFits, IsOut, Flag
<1>10. EventsFit'
  <2> SUFFICES ASSUME NEW p \in Queues, NEW i \in 1 .. Len(queue'[p])
               PROVE  EventFits(queue'[p][i], call'[queue'[p][i].c])
    BY DEF EventsFit
  <2>1. PICK k \in 1 .. Len(queue[p]) : (p # q \/ k # 1) /\ queue'[p][i] = queue[p][k]
    BY <1>3
  <2>2. queue[p][k].c # c /\ queue[p][k] \in Events
    BY <1>1, <1>2, <2>1, QueueCounts
  <2>3. call'[queue[p][k].c] = call[queue[p][k].c]
    BY <1>6, <2>2 DEF Events
  <2> QED
    BY <2>1, <2>3 DEF CallInv, FitsInv, EventsFit
<1>11. /\ \A u \in Threads : OnStack(u, c) \in Nat /\ (u # t => OnStack(u, c)' = OnStack(u, c))
       /\ OnStack(t, c)' = Count(fs, HeldFrames(c)) + OnStack(t, c) - (IF pop THEN Hits(Top(t), c) ELSE 0)
  BY <1>1, RebuiltCounts
<1>12. pop => Hits(Top(t), c) = 0
  BY DEF Hits
<1>13. ThreadHas(c, t)'
  <2>1. OnStack(t, c)' = 1 /\ \A u \in Threads \ {t} : OnStack(u, c)' = 0
    BY <1>2, <1>11, <1>12 DEF QueueHas
  <2>2. \A p \in Queues : InQueue(p, c)' = 0
    BY <1>2, <1>3 DEF QueueHas
  <2> QED
    BY <1>8, <2>1, <2>2 DEF ThreadHas
<1>14. PlaceOf(c)'
  BY <1>2, <1>5, <1>6, <1>13 DEF PlaceOf, Located
<1>15. \A d \in Calls : d # c => \A p \in Queues : InQueue(p, d)' = InQueue(p, d)
  BY <1>1, <1>3, QueueCounts
<1>16. \A i \in 1 .. Len(fs) : FrameFits(fs[i], call'[fs[i].c])
  BY <1>6, <1>7 DEF FrameFits, Held
<1>17. \A u \in Threads : \A i \in 1 .. Len(stack[u]) : Stays(t, pop, u, i) => Hits(stack[u][i], c) = 0
  BY <1>2
<1>18. call'[c].type = call[c].type /\ call'[c].mCallersEventQ = call[c].mCallersEventQ
  BY <1>5, <1>6
<1>19. PlacesInv' /\ FitsInv' /\ CallerInv'
  <2>1. \A d \in Calls : d # c => Count(fs, HeldFrames(d)) = IF pop THEN Hits(Top(t), d) ELSE 0
    BY DEF Hits
  <2>2. pop => Top(t).op # "wait"
    OBVIOUS
  <2>3. (call'[c].type = "sync" /\ call'[c].mCallersEventQ # NoQueue) =>
           \/ /\ call[c].type = "sync" /\ call[c].mCallersEventQ = call'[c].mCallersEventQ
              /\ pop => Top(t).op # "wait"
           \/ /\ call'[c].mCallersEventQ[1] = t
              /\ \E i \in 1 .. Len(fs) : WaitsFor(fs[i], c, call'[c].mCallersEventQ)
    BY <1>18, <2>2
  <2>4. (pop /\ Top(t).op = "wait") => Top(t).c = c
    BY <2>2
  <2>5. CallInv /\ t \in Threads /\ fs \in Seq(Frames) /\ pop \in BOOLEAN /\ Rebuilds(t, fs, pop) /\ c \in Calls
    OBVIOUS
  <2> QED
    BY ONLY <1>6, <1>9, <1>10, <1>14, <1>15, <1>16, <1>17, <2>1, <2>3, <2>4, <2>5, CallStep
<1>20. StackInv' /\ AcceptInv' /\ TableInv' /\ StackType' /\ ChainTypes'
  <2>1. \A i \in 1 .. Len(fs) :
           /\ FrameNames(fs[i]) /\ OwnQueue(t, fs[i], made[t]) /\ ~Owns(fs[i])
           /\ fs[i].op = "lookup" => i = 1
           /\ fs[i].op = "wait" => mAcceptingEvents[fs[i].q]
    BY DEF OwnQueue, Owns, Held
  <2> QED
    BY <2>1, FrameStep
<1>21. TypeOK'
  BY <1>6, <1>20, TypePartsNext
<1> QED
  BY <1>19, <1>20, <1>21 DEF CallInv

\* Stacks that differ in what is counted or waited for only.
Alike(s, u) ==
    /\ Len(u) = Len(s)
    /\ \A i \in 1 .. Len(s) :
          /\ u[i].op = s[i].op /\ u[i].c = s[i].c /\ u[i].q = s[i].q
          /\ u[i].op \in {"sync", "loop", "loop2"} \/ u[i].n = s[i].n

LEMMA AlikeTop ==
    ASSUME NEW s \in Seq(Frames), s # << >>, NEW f \in Frames,
           f.op = Head(s).op, f.c = Head(s).c, f.q = Head(s).q, f.op \in {"sync", "loop", "loop2"}
    PROVE  << f >> \o Tail(s) \in Seq(Frames) /\ Alike(s, << f >> \o Tail(s))
<1>1. /\ Head(s) = s[1] /\ Tail(s) \in Seq(Frames) /\ Len(Tail(s)) = Len(s) - 1 /\ Len(s) \in Nat
      /\ \A i \in 1 .. Len(Tail(s)) : Tail(s)[i] = s[i + 1]
  BY HeadTailProperties, LenProperties
<1>2. << f >> \in Seq(Frames) /\ Len(<< f >>) = 1 /\ << f >>[1] = f
  BY NewFrames
<1>3. /\ << f >> \o Tail(s) \in Seq(Frames) /\ Len(<< f >> \o Tail(s)) = Len(s)
      /\ \A i \in 1 .. Len(s) : (<< f >> \o Tail(s))[i] = IF i <= 1 THEN << f >>[i] ELSE Tail(s)[i - 1]
  BY <1>1, <1>2, ConcatProperties
<1>4. \A i \in 1 .. Len(s) : (<< f >> \o Tail(s))[i] = IF i = 1 THEN f ELSE s[i]
  BY <1>1, <1>2, <1>3
<1> QED
  BY <1>1, <1>3, <1>4 DEF Alike

LEMMA AlikeSelf == \A s : Alike(s, s)
  BY DEF Alike

LEMMA AlikeStacks ==
    ASSUME StackType, StackType', \A u \in Threads : Alike(stack[u], stack'[u]), UNCHANGED <<table, chainVars>>
    PROVE  /\ \A u \in Threads : \A c : OnStack(u, c)' = OnStack(u, c)
           /\ StackInv => StackInv'
           /\ AcceptInv => AcceptInv'
<1>1. ASSUME NEW u \in Threads, NEW c
      PROVE  OnStack(u, c)' = OnStack(u, c)
  <2>1. \A i \in 1 .. Len(stack[u]) : stack[u][i] \in Frames /\ stack'[u][i] \in Frames
    BY <1>1 DEF StackType, Alike
  <2>2. At(stack'[u], HeldFrames(c)) = At(stack[u], HeldFrames(c))
    BY <1>1, <2>1 DEF At, HeldFrames, Alike
  <2> QED
    BY <2>2 DEF OnStack, Count
<1>2. ASSUME StackInv
      PROVE  StackInv'
  <2> SUFFICES ASSUME NEW u \in Threads
               PROVE  /\ \A i \in 1 .. Len(stack'[u]) : FrameNames(stack'[u][i]) /\ OwnQueue(u, stack'[u][i], made'[u])
                      /\ OwnersAreYounger(stack'[u])
                      /\ LookupOnTop(stack'[u])
    BY DEF StackInv
  <2>1. Alike(stack[u], stack'[u]) /\ made'[u] = made[u]
    BY DEF chainVars
  <2>2. \A i \in 1 .. Len(stack[u]) : FrameNames(stack'[u][i]) /\ OwnQueue(u, stack'[u][i], made[u])
    BY <1>2, <2>1 DEF Alike, StackInv, FrameNames, OwnQueue
  <2>3. \A i \in 1 .. Len(stack[u]) : Owns(stack'[u][i]) => Owns(stack[u][i])
    BY <2>1 DEF Alike, Owns
  <2>4. OwnersAreYounger(stack'[u])
    BY <1>2, <2>1, <2>3 DEF Alike, StackInv, OwnersAreYounger
  <2>5. LookupOnTop(stack'[u])
    BY <1>2, <2>1 DEF Alike, StackInv, LookupOnTop
  <2> QED
    BY <2>1, <2>2, <2>4, <2>5 DEF Alike
<1>3. ASSUME AcceptInv
      PROVE  AcceptInv'
  BY <1>3 DEF AcceptInv, Alike, chainVars
<1> QED
  BY <1>1, <1>2, <1>3

\* The event that is taken says that a call is completed.
LEMMA CompletesKeeps ==
    ASSUME CallInv, NEW t \in Threads, NEW q \in Queues, queue[q] # << >>,
           queue' = [queue EXCEPT ![q] = Tail(@)], Head(queue[q]).kind = "completed",
           NEW rest \in Seq(Frames), Alike(stack[t], rest), Completes(t, Head(queue[q]), rest),
           UNCHANGED <<table, chainVars>>, OtherTypes'
    PROVE  CallInv'
<1> DEFINE e == Head(queue[q])
<1>0. PICK c : e.c = c
  OBVIOUS
<1> DEFINE r == [call[c] EXCEPT !.mCompleted = TRUE]
<1>1. StackType /\ CallType /\ PlacesInv
  BY TypeParts DEF CallInv
<1>2. /\ e \in Events /\ e = queue[q][1] /\ 1 \in 1 .. Len(queue[q]) /\ c \in Calls
      /\ call[c].made /\ QueueHas(c, q)
      /\ \A u \in Threads : \A i \in 1 .. Len(stack[u]) : Hits(stack[u][i], c) = 0
      /\ \A p \in Queues : \A i \in 1 .. Len(queue[p]) : (p # q \/ i # 1) => queue[p][i].c # c
  BY <1>0, <1>1, HeadHolds
<1>3. /\ queue' \in [Queues -> Seq(Events)]
      /\ \A p \in Queues : \A d : InQueue(p, d)' = InQueue(p, d) - (IF p = q /\ c = d THEN 1 ELSE 0)
      /\ \A p \in Queues : \A i \in 1 .. Len(queue'[p]) :
            \E k \in 1 .. Len(queue[p]) : (p # q \/ k # 1) /\ queue'[p][i] = queue[p][k]
  <2>1. /\ queue' \in [Queues -> Seq(Events)]
        /\ \A p \in Queues : \A d : InQueue(p, d)' = InQueue(p, d) - (IF p = q /\ Head(queue[q]).c = d THEN 1 ELSE 0)
        /\ \A p \in Queues : \A i \in 1 .. Len(queue'[p]) :
              \E k \in 1 .. Len(queue[p]) : (p # q \/ k # 1) /\ queue'[p][i] = queue[p][k]
    BY <1>1, Got
  <2> QED
    BY <1>0, <2>1
<1>4. IsReturned(call[c]) /\ HasAnswerQueue(call[c]) /\ CallFits(call[c]) /\ call[c] \in CallInfo
  BY <1>0, <1>1, <1>2 DEF CallInv, FitsInv, EventsFit, EventFits, CallType
<1>5. /\ r \in CallInfo /\ r.type = call[c].type /\ r.made = call[c].made /\ r.dest = call[c].dest
      /\ r.mCallersEventQ = call[c].mCallersEventQ /\ r.invoked = call[c].invoked /\ r.returned = call[c].returned
      /\ r.mCompleted = TRUE /\ r.refused = call[c].refused
  BY <1>4 DEF CallInfo
<1>6. CallType' /\ call'[c] = r /\ \A d \in Calls : d # c => call'[d] = call[d]
  <2>1. call' = [call EXCEPT ![c] = r]
    BY <1>0, <1>1, <1>2 DEF CallType, Completes
  <2> HIDE DEF r
  <2> QED
    BY <1>1, <1>2, <1>3, <1>5, <2>1, CallChanges
<1>7. StackType' /\ \A u \in Threads : Alike(stack[u], stack'[u])
  <2>1. stack' = [u \in Threads |->
                    IF u = t THEN rest
                    ELSE IF In(u, "sync") /\ Top(u).c = e.c
                         THEN <<[Top(u) EXCEPT !.n = 1]>> \o Tail(stack[u])
                    ELSE stack[u]]
    BY DEF Completes
  <2>2. ASSUME NEW u \in Threads
        PROVE  stack'[u] \in Seq(Frames) /\ Alike(stack[u], stack'[u])
    <3>1. CASE u = t
      BY <2>1, <3>1
    <3>2. CASE u # t /\ In(u, "sync") /\ Top(u).c = e.c
      <4> DEFINE f == [Top(u) EXCEPT !.n = 1]
      <4>1. stack[u] # << >> /\ Top(u).op = "sync" /\ Top(u) \in Frames /\ stack[u] \in Seq(Frames)
        BY <1>1, <3>2, TopFacts DEF In, StackType
      <4>2. f \in Frames /\ f.op = Top(u).op /\ f.c = Top(u).c /\ f.q = Top(u).q
        BY <4>1 DEF Frames
      <4>3. stack'[u] = << f >> \o Tail(stack[u])
        BY <2>1, <3>2
      <4> HIDE DEF f
      <4> QED
        BY <4>1, <4>2, <4>3, AlikeTop DEF Top
    <3>3. CASE u # t /\ ~(In(u, "sync") /\ Top(u).c = e.c)
      <4>1. stack'[u] = stack[u]
        BY <2>1, <3>3
      <4> QED
        BY <1>1, <4>1, AlikeSelf DEF StackType
    <3> QED
      BY <3>1, <3>2, <3>3
  <2>3. stack' \in [Threads -> Seq(Frames)]
    BY <2>1, <2>2
  <2> QED
    BY <2>2, <2>3 DEF StackType
<1> HIDE DEF r, e
<1>8. StackInv' /\ AcceptInv' /\ \A u \in Threads : \A d : OnStack(u, d)' = OnStack(u, d)
  BY <1>1, <1>7, AlikeStacks DEF CallInv
<1>9. TableInv' /\ ChainTypes'
  BY TypeParts DEF CallInv, TableInv, ChainTypes, chainVars
<1>10. TypeOK'
  BY <1>6, <1>7, <1>9, TypePartsNext
<1>11. PlacesInv'
  <2> SUFFICES ASSUME NEW d \in Calls
               PROVE  PlaceOf(d)'
    BY DEF PlacesInv
  <2>1. CASE d = c
    <3>1. NobodyHas(c)'
      BY <1>2, <1>3, <1>8 DEF QueueHas, NobodyHas
    <3>2. Flag(c)' /\ call'[c].made
      BY <1>2, <1>5, <1>6 DEF Flag
    <3> QED
      BY <2>1, <3>1, <3>2 DEF PlaceOf, Located
  <2>2. CASE d # c
    <3>1. \A p \in Queues : InQueue(p, d)' = InQueue(p, d)
      BY <1>1, <1>3, <2>2, QueueCounts
    <3>2. call'[d].made = call[d].made /\ Flag(d)' = Flag(d)
      BY <1>6, <2>2 DEF Flag
    <3> QED
      BY <1>1, <1>8, <3>1, <3>2, SamePlace DEF PlacesInv
  <2> QED
    BY <2>1, <2>2
<1>12. FramesFit'
  <2> SUFFICES ASSUME NEW u \in Threads, NEW i \in 1 .. Len(stack'[u])
               PROVE  FrameFits(stack'[u][i], call'[stack'[u][i].c])
    BY DEF FramesFit
  <2>1. /\ i \in 1 .. Len(stack[u]) /\ stack'[u][i].op = stack[u][i].op /\ stack'[u][i].c = stack[u][i].c
    BY <1>7 DEF Alike
  <2>2. stack[u][i] \in Frames
    BY <1>1, <2>1, StackCounts
  <2>3. FrameNames(stack[u][i]) /\ FrameFits(stack[u][i], call[stack[u][i].c]) /\ Hits(stack[u][i], c) = 0
    BY <1>2, <2>1 DEF CallInv, StackInv, FitsInv, FramesFit
  <2>4. CASE stack[u][i].op \notin Held
    BY <2>1, <2>4 DEF FrameFits, Held
  <2>5. CASE stack[u][i].op \in Held
    <3>1. stack[u][i].c \in Calls /\ stack[u][i].c # c
      BY <2>3, <2>5 DEF FrameNames, Hits
    <3>2. call'[stack[u][i].c] = call[stack[u][i].c]
      BY <1>6, <3>1
    <3> QED
      BY <2>1, <2>3, <3>2 DEF FrameFits
  <2> QED
    BY <2>4, <2>5
<1>13. EventsFit'
  <2> SUFFICES ASSUME NEW p \in Queues, NEW i \in 1 .. Len(queue'[p])
               PROVE  EventFits(queue'[p][i], call'[queue'[p][i].c])
    BY DEF EventsFit
  <2>1. PICK k \in 1 .. Len(queue[p]) : (p # q \/ k # 1) /\ queue'[p][i] = queue[p][k]
    BY <1>3
  <2>2. queue[p][k].c # c /\ queue[p][k] \in Events
    BY <1>1, <1>2, <2>1, QueueCounts
  <2>3. call'[queue[p][k].c] = call[queue[p][k].c]
    BY <1>6, <2>2 DEF Events
  <2> QED
    BY <2>1, <2>3 DEF CallInv, FitsInv, EventsFit
<1>14. FitsInv'
  <2>1. CallFits(call'[c])
    BY <1>4, <1>5, <1>6 DEF CallFits, IsReturned
  <2>2. \A d \in Calls : CallFits(call'[d])
    BY <1>6, <2>1 DEF CallInv, FitsInv
  <2> QED
    BY <1>12, <1>13, <2>2 DEF FitsInv
<1>15. CallerInv'
  <2> SUFFICES ASSUME NEW d \in Calls, call'[d].type = "sync", call'[d].mCallersEventQ # NoQueue
               PROVE  \E i \in 1 .. Len(stack'[call'[d].mCallersEventQ[1]]) :
                         WaitsFor(stack'[call'[d].mCallersEventQ[1]][i], d, call'[d].mCallersEventQ)
    BY DEF CallerInv
  <2>1. call[d].type = "sync" /\ call'[d].mCallersEventQ = call[d].mCallersEventQ
    BY <1>5, <1>6
  <2> DEFINE p == call[d].mCallersEventQ
  <2>2. p[1] \in Threads
    BY <1>1, <2>1 DEF CallType, CallInfo, Queues
  <2>3. PICK i \in 1 .. Len(stack[p[1]]) : WaitsFor(stack[p[1]][i], d, p)
    BY <2>1 DEF CallInv, CallerInv
  <2>4. i \in 1 .. Len(stack'[p[1]]) /\ WaitsFor(stack'[p[1]][i], d, p)
    BY <1>7, <2>2, <2>3 DEF Alike, WaitsFor
  <2> QED
    BY <2>1, <2>4
<1> QED
  BY <1>8, <1>9, <1>10, <1>11, <1>14, <1>15 DEF CallInv

LEMMA TwoOnTop ==
    ASSUME NEW f \in Frames, NEW g \in Frames, NEW s \in Seq(Frames)
    PROVE  << f >> \o (<< g >> \o s) = << f, g >> \o s
<1>1. << f >> \in Seq(Frames) /\ << g >> \in Seq(Frames) /\ << f >> \o << g >> = << f, g >>
  <2>1. << f >> \in Seq(Frames) /\ << g >> \in Seq(Frames)
    BY NewFrames
  <2>2. Append(<< f >>, g) = << f >> \o << g >>
    BY <2>1, AppendIsConcat
  <2> QED
    BY <2>1, <2>2, PairIsAppend
<1>2. (<< f >> \o << g >>) \o s = << f >> \o (<< g >> \o s)
  BY <1>1, ConcatAssociative
<1> QED
  BY <1>1, <1>2

\* What is common to the loops that take events and handle them.
LEMMA TakenFacts ==
    ASSUME CallInv, NEW t \in Threads, NEW q \in Queues, PL_EventAvailable(q), PL_GetEvent(q),
           UNCHANGED <<asleep, mEventQMonitor>>
    PROVE  /\ queue[q] # << >> /\ queue' = [queue EXCEPT ![q] = Tail(@)] /\ OtherTypes'
           /\ Head(queue[q]) \in Events /\ Head(queue[q]).c \in Calls
           /\ LET f == Frame("run", Head(queue[q]).c, call[Head(queue[q]).c].mCallersEventQ)
              IN  f \in Frames /\ f.op = "run" /\ f.c = Head(queue[q]).c /\ FrameNames(f)
<1>1. StackType /\ CallType /\ PlacesInv /\ OtherTypes
  BY TypeParts DEF CallInv
<1>2. queue[q] # << >> /\ queue' = [queue EXCEPT ![q] = Tail(@)] /\ UNCHANGED <<eventPipe, notified, processingEvents>>
  BY DEF PL_EventAvailable, PL_GetEvent
<1>3. OtherTypes'
  BY <1>1, <1>2 DEF OtherTypes
<1>4. Head(queue[q]) \in Events /\ Head(queue[q]).c \in Calls
  BY <1>1, <1>2, HeadHolds
<1> DEFINE f == Frame("run", Head(queue[q]).c, call[Head(queue[q]).c].mCallersEventQ)
<1>5. call[Head(queue[q]).c].mCallersEventQ \in Queues \union {NoQueue}
  BY <1>1, <1>4 DEF CallType, CallInfo
<1>6. f \in Frames /\ f.op = "run" /\ f.c = Head(queue[q]).c
  BY <1>4, <1>5, FrameType DEF Ops
<1> HIDE DEF f
<1>7. FrameNames(f)
  BY <1>4, <1>6 DEF FrameNames
<1> QED
  BY <1>2, <1>3, <1>4, <1>6, <1>7 DEF f

LEMMA TakeEventKeeps ==
    ASSUME CallInv, NEW t \in Threads, TakeEvent(t)
    PROVE  CallInv'
<1>0. PICK q : q = WaitsOn(t)
  OBVIOUS
<1> DEFINE c == Head(queue[q]).c
           f == Frame("run", c, call[c].mCallersEventQ)
           fs == << f >>
<1>1. /\ q # NoQueue /\ PL_EventAvailable(q) /\ PL_GetEvent(q) /\ Handle(t, Head(queue[q]), stack[t])
      /\ UNCHANGED <<chainVars, asleep, table, mEventQMonitor>>
  BY <1>0 DEF TakeEvent
<1>2. StackType /\ CallType /\ ChainTypes
  BY TypeParts DEF CallInv
<1>3. q \in Queues /\ ~In(t, "lookup")
  <2>1. CASE InEventLoop(t)
    BY <1>0, <1>1, <1>2, <2>1 DEF WaitsOn, InEventLoop, ChainTypes, In
  <2>2. CASE ~InEventLoop(t)
    <3>1. In(t, "wait") /\ q = Top(t).q
      BY <1>0, <1>1, <2>2 DEF WaitsOn
    <3> QED
      BY <3>1, TopInv DEF In, FrameNames
  <2> QED
    BY <2>1, <2>2
<1>4. /\ queue[q] # << >> /\ queue' = [queue EXCEPT ![q] = Tail(@)] /\ OtherTypes'
      /\ Head(queue[q]) \in Events /\ Head(queue[q]).c \in Calls
      /\ f \in Frames /\ f.op = "run" /\ f.c = c /\ FrameNames(f)
  BY <1>1, <1>3, TakenFacts
<1>5. CASE Head(queue[q]).kind = "completed"
  <2>1. Completes(t, Head(queue[q]), stack[t])
    BY <1>1, <1>5 DEF Handle
  <2>2. stack[t] \in Seq(Frames) /\ Alike(stack[t], stack[t])
    BY <1>2, AlikeSelf DEF StackType
  <2> QED
    BY <1>1, <1>3, <1>4, <1>5, <2>1, <2>2, CompletesKeeps
<1>6. CASE Head(queue[q]).kind = "call"
  <2>1. /\ stack' = [stack EXCEPT ![t] = << f >> \o stack[t]]
        /\ call' = [call EXCEPT ![c].invoked = @ + 1]
    BY <1>1, <1>6 DEF Handle, Invokes
  <2> HIDE DEF f
  <2>2. fs \in Seq(Frames) /\ \A i \in 1 .. Len(fs) : fs[i] = f
    BY <1>4, NewFrames
  <2>3. Rebuilds(t, fs, FALSE)
    BY <2>1 DEF Rebuilds, Rest
  <2>4. \A d : Count(fs, HeldFrames(d)) = IF d = c THEN 1 ELSE 0
    BY <1>4, NewCounts DEF Hits, Held
  <2> HIDE DEF fs
  <2>5. PICK d : d = c
    OBVIOUS
  <2> HIDE DEF c
  <2>6. d \in Calls /\ d = Head(queue[q]).c /\ call' = [call EXCEPT ![d].invoked = @ + 1] /\ Count(fs, HeldFrames(d)) = 1
    BY <1>4, <2>1, <2>4, <2>5 DEF c
  <2>7. \A b \in Calls : b # d => Count(fs, HeldFrames(b)) = 0
    BY <2>4, <2>5
  <2>8. \A i \in 1 .. Len(fs) :
           /\ fs[i].op \notin Held \/ (fs[i].op = "run" /\ fs[i].c = d)
           /\ FrameNames(fs[i]) /\ fs[i].op \notin {"wait", "modal"}
    BY <1>4, <2>2, <2>5
  <2> QED
    BY <1>1, <1>3, <1>4, <1>6, <2>2, <2>3, <2>6, <2>7, <2>8, InvokesKeeps
<1> QED
  BY <1>4, <1>5, <1>6 DEF Events

LEMMA ProcessEventKeeps ==
    ASSUME CallInv, NEW t \in Threads, ProcessEvent(t)
    PROVE  CallInv'
<1>0. PICK q : q = Top(t).q
  OBVIOUS
<1> DEFINE c == Head(queue[q]).c
           f == Frame("run", c, call[c].mCallersEventQ)
           g == [Top(t) EXCEPT !.n = @ - 1]
           fs == << f, g >>
<1>1. /\ stack[t] # << >> /\ Top(t).op \in {"loop", "loop2"} /\ Top(t).n > 0
      /\ PL_EventAvailable(q) /\ PL_GetEvent(q) /\ Handle(t, Head(queue[q]), << g >> \o Tail(stack[t]))
      /\ UNCHANGED <<chainVars, asleep, table, mEventQMonitor>>
  BY <1>0 DEF ProcessEvent, InLoop, In
<1>2. /\ StackType /\ CallType /\ ChainTypes /\ Top(t) \in Frames /\ q \in Queues
      /\ Tail(stack[t]) \in Seq(Frames) /\ stack[t] \in Seq(Frames)
  BY <1>0, <1>1, TypeParts, TopInv, TopFacts DEF CallInv, FrameNames, StackType
<1>3. g \in Frames /\ g.op = Top(t).op /\ g.c = Top(t).c /\ g.q = Top(t).q
  BY <1>1, <1>2 DEF Frames
<1>4. /\ queue[q] # << >> /\ queue' = [queue EXCEPT ![q] = Tail(@)] /\ OtherTypes'
      /\ Head(queue[q]) \in Events /\ Head(queue[q]).c \in Calls
      /\ f \in Frames /\ f.op = "run" /\ f.c = c /\ FrameNames(f)
  BY <1>1, <1>2, TakenFacts
<1> HIDE DEF g
<1>5. CASE Head(queue[q]).kind = "completed"
  <2>1. Completes(t, Head(queue[q]), << g >> \o Tail(stack[t]))
    BY <1>1, <1>5 DEF Handle
  <2>2. << g >> \o Tail(stack[t]) \in Seq(Frames) /\ Alike(stack[t], << g >> \o Tail(stack[t]))
    BY <1>1, <1>2, <1>3, AlikeTop DEF Top
  <2> QED
    BY <1>1, <1>2, <1>4, <1>5, <2>1, <2>2, CompletesKeeps
<1>6. CASE Head(queue[q]).kind = "call"
  <2>1. /\ stack' = [stack EXCEPT ![t] = << f >> \o (<< g >> \o Tail(stack[t]))]
        /\ call' = [call EXCEPT ![c].invoked = @ + 1]
    BY <1>1, <1>6 DEF Handle, Invokes
  <2> HIDE DEF f
  <2>2. fs \in Seq(Frames) /\ \A i \in 1 .. Len(fs) : fs[i] = f \/ fs[i] = g
    BY <1>3, <1>4, NewFrames
  <2>3. Rebuilds(t, fs, TRUE)
    BY <1>1, <1>2, <1>3, <1>4, <2>1, TwoOnTop DEF Rebuilds, Rest
  <2>4. Top(t).op \notin Held /\ \A d : Count(fs, HeldFrames(d)) = IF d = c THEN 1 ELSE 0
    BY <1>1, <1>3, <1>4, NewCounts DEF Hits, Held
  <2> HIDE DEF fs
  <2>5. PICK d : d = c
    OBVIOUS
  <2> HIDE DEF c
  <2>6. d \in Calls /\ d = Head(queue[q]).c /\ call' = [call EXCEPT ![d].invoked = @ + 1] /\ Count(fs, HeldFrames(d)) = 1
    BY <1>4, <2>1, <2>4, <2>5 DEF c
  <2>7. \A b \in Calls : b # d => Count(fs, HeldFrames(b)) = 0
    BY <2>4, <2>5
  <2>8. FrameNames(g) /\ g.op \notin Held \union {"wait", "modal"} /\ Top(t).op \notin Held \union {"wait"}
    BY <1>0, <1>1, <1>2, <1>3 DEF FrameNames, Held
  <2>9. \A i \in 1 .. Len(fs) :
           /\ fs[i].op \notin Held \/ (fs[i].op = "run" /\ fs[i].c = d)
           /\ FrameNames(fs[i]) /\ fs[i].op \notin {"wait", "modal"}
    BY <1>4, <2>2, <2>5, <2>8
  <2> QED
    BY <1>1, <1>2, <1>4, <1>6, <2>2, <2>3, <2>6, <2>7, <2>8, <2>9, InvokesKeeps
<1> QED
  BY <1>4, <1>5, <1>6 DEF Events

-----------------------------------------------------------------------------
(* The invariant.                                                              *)

LEMMA InitCallInv == Init => CallInv
<1> SUFFICES ASSUME Init PROVE CallInv
  OBVIOUS
<1>0. PICK Loops \in SUBSET Threads : NativeThreads \subseteq Loops /\ InitQueues(Loops)
  BY QueueAssumption DEF Init
<1>1. /\ queue = [q \in Queues |-> << >>] /\ eventPipe = [q \in Queues |-> 0] /\ notified = [q \in Queues |-> FALSE]
      /\ processingEvents = [q \in Queues |-> FALSE] /\ mElderQueue = [q \in Queues |-> NoQueue]
      /\ stack = [t \in Threads |-> << >>] /\ asleep = {} /\ call = [c \in Calls |-> NewCall]
      /\ mEventQMonitor = NoThread
  BY DEF Init
<1>2. << >> \in Seq(Frames) /\ << >> \in Seq(Events) /\ Len(<< >>) = 0 /\ \A W : Count(<< >>, W) = 0
  BY EmptySeq, CountEmpty
<1>3. /\ NewCall \in CallInfo /\ NewCall.made = FALSE /\ NewCall.invoked = 0
      /\ NewCall.mCompleted = FALSE /\ NewCall.refused = FALSE /\ NewCall.returned = FALSE
      /\ NewCall.mCallersEventQ = NoQueue /\ NewCall.type = "none"
  BY DEF NewCall, CallInfo
<1>4. StackType /\ CallType /\ OtherTypes
  BY <1>1, <1>2, <1>3, QueueAssumption DEF StackType, CallType, OtherTypes
<1>5. ChainTypes
  <2>1. mAcceptingEvents \in [Queues -> BOOLEAN] /\ mElderQueue \in [Queues -> Queues \union {NoQueue}]
    BY <1>0, <1>1 DEF InitQueues
  <2>2. made \in [Threads -> 0 .. MaxQueues]
    BY <1>0, QueueAssumption DEF InitQueues
  <2>3. \A t \in Threads : <<t, 1>> \in Queues
    BY QueueAssumption DEF Queues
  <2>4. table \in [Threads -> Queues \union {NoQueue}]
    BY <1>0, <2>3 DEF InitQueues
  <2> QED
    BY <2>1, <2>2, <2>4 DEF ChainTypes
<1>6. TableInv
  <2> SUFFICES ASSUME NEW t \in Threads
               PROVE  (table[t] # NoQueue => table[t][1] = t) /\ (t \in NativeThreads => made[t] > 0)
    BY DEF TableInv
  <2>1. table[t] = (IF t \in Loops THEN <<t, 1>> ELSE NoQueue) /\ made[t] = IF t \in Loops THEN 1 ELSE 0
    BY <1>0 DEF InitQueues
  <2> QED
    BY <1>0, <2>1
<1>7. StackInv /\ AcceptInv /\ FramesFit /\ EventsFit
  BY <1>1, <1>2 DEF StackInv, OwnersAreYounger, LookupOnTop, AcceptInv, FramesFit, EventsFit
<1>8. PlacesInv
  BY <1>1, <1>2, <1>3 DEF PlacesInv, PlaceOf, NobodyHas, OnStack, InQueue, Flag
<1>9. \A c \in Calls : CallFits(call[c])
  BY <1>1, <1>3 DEF CallFits
<1>10. CallerInv
  BY <1>1, <1>3 DEF CallerInv
<1> QED
  BY <1>4, <1>5, <1>6, <1>7, <1>8, <1>9, <1>10, TypeParts DEF CallInv, FitsInv

LEMMA ContinueKeepsCalls ==
    ASSUME CallInv, NEW t \in Threads, Continue(t)
    PROVE  CallInv'
<1>1. CASE UseOwnQueue(t) \/ UseNewQueue(t)
  BY <1>1, UseOwnQueueKeeps, UseNewQueueKeeps
<1>2. CASE Accepted(t) \/ PassedOn(t) \/ Refused(t) \/ AppendEvent(t)
  BY <1>2, AcceptedKeeps, PassedOnKeeps, RefusedKeeps, AppendEventKeeps
<1>3. CASE WaitReturns(t) \/ TakeEvent(t) \/ Sleep(t)
  BY <1>3, WaitReturnsKeeps, TakeEventKeeps, SleepKeeps
<1>4. CASE MethodReturns(t) \/ PostCompleted(t) \/ SyncReturns(t)
  BY <1>4, MethodReturnsKeeps, PostCompletedKeeps, SyncReturnsKeeps
<1>5. CASE NativeLoop(t) \/ ModalEnds(t) \/ PopReturns(t)
  BY <1>5, NativeLoopKeeps, ModalEndsKeeps, PopReturnsKeeps
<1>6. CASE EnterNested(t) \/ Enter(t) \/ ProcessEvent(t)
  BY <1>6, EnterKeeps, ProcessEventKeeps
<1>7. CASE Finish(t) \/ OnceMore(t) \/ ToElder(t)
  BY <1>7, FinishKeeps, OnceMoreKeeps, ToElderKeeps
<1> QED
  BY <1>1, <1>2, <1>3, <1>4, <1>5, <1>6, <1>7 DEF Continue

LEMMA StepCallInv == CallInv /\ [Next]_vars => CallInv'
<1> SUFFICES ASSUME CallInv, [Next]_vars PROVE CallInv'
  OBVIOUS
<1>1. CASE UNCHANGED vars
  <2> USE <1>1 DEF vars, queueVars, plVars, chainVars, threadVars
  <2>1. TypeOK'
    BY DEF CallInv, TypeOK, EventQueueTypeOK
  <2>2. StackInv' /\ AcceptInv' /\ TableInv' /\ CallerInv'
    BY DEF CallInv, StackInv, AcceptInv, TableInv, CallerInv
  <2>3. PlacesInv'
    BY DEF CallInv, PlacesInv, PlaceOf, Located, NobodyHas, ThreadHas, QueueHas, Flag, OnStack, InQueue
  <2>4. FitsInv'
    BY DEF CallInv, FitsInv, FramesFit, EventsFit
  <2> QED
    BY <2>1, <2>2, <2>3, <2>4 DEF CallInv
<1>2. CASE Next
  <2> PICK t \in Threads :
        \/ Continue(t)
        \/ PushModal(t) \/ ProcessOwn(t)
        \/ \E c \in Calls : CallSync(t, c) \/ CallAsync(t, c)
        \/ \E c \in Calls, u \in Threads, type \in {"sync", "async"} : MakeProxy(t, c, u, type)
    BY <1>2 DEF Next
  <2>1. CASE Continue(t)
    BY <2>1, ContinueKeepsCalls
  <2>2. CASE PushModal(t)
    BY <2>2, PushModalKeeps
  <2>3. CASE ProcessOwn(t)
    BY <2>3, ProcessOwnKeeps
  <2>4. CASE \E c \in Calls : CallSync(t, c) \/ CallAsync(t, c)
    BY <2>4, CallKeeps
  <2>5. CASE \E c \in Calls, u \in Threads, type \in {"sync", "async"} : MakeProxy(t, c, u, type)
    BY <2>5, MakeProxyKeeps
  <2> QED
    BY <2>1, <2>2, <2>3, <2>4, <2>5
<1> QED
  BY <1>1, <1>2

\* The inductive invariant of calls is an invariant of threads and queues.
THEOREM CallInvariance == Spec => []CallInv
  BY InitCallInv, StepCallInv, PTL DEF Spec

\* Frames, events and records are what the queues, loops and calls of the code take them for.
THEOREM TypesAreKept == Spec => []TypeOK
<1>1. CallInv => TypeOK
  BY DEF CallInv
<1> QED
  BY <1>1, CallInvariance, PTL

-----------------------------------------------------------------------------
(* What the counts say of the places in which a call can be.                   *)

LEMMA CountNone ==
    ASSUME NEW S, NEW s \in Seq(S), NEW W, Count(s, W) = 0
    PROVE  At(s, W) = {}
  BY CountType, FS_EmptySet DEF Count

LEMMA CountOne ==
    ASSUME NEW S, NEW s \in Seq(S), NEW W, Count(s, W) = 1
    PROVE  \E i : At(s, W) = {i}
<1>1. IsFiniteSet(At(s, W)) /\ Cardinality(At(s, W)) = 1
  BY CountType DEF Count
<1> QED
  BY <1>1, FS_Singleton

StackPlaces(c) == UNION {{<<t, i>> : i \in At(stack[t], HeldFrames(c))} : t \in Threads}
QueuePlaces(c) == UNION {{<<q, i>> : i \in At(queue[q], EventsOf(c))} : q \in Queues}
FlagPlaces(c) == IF Flag(c) THEN {"flag"} ELSE {}

LEMMA PlacesAre ==
    ASSUME CallInv, NEW c \in Calls, ~\E t \in Threads : In(t, "lookup") /\ Top(t).c = c
    PROVE  Places(c) = StackPlaces(c) \union QueuePlaces(c) \union FlagPlaces(c)
<1>1. StackType /\ CallType
  BY TypeParts DEF CallInv
<1>2. ASSUME NEW t \in Threads
      PROVE  {j \in DOMAIN stack[t] : stack[t][j].c = c /\ stack[t][j].op \in {"post", "append", "run", "complete"}}
                = At(stack[t], HeldFrames(c))
  <2>1. stack[t] \in Seq(Frames) /\ DOMAIN stack[t] = 1 .. Len(stack[t])
    BY <1>1, LenProperties DEF StackType
  <2>2. ASSUME NEW j \in 1 .. Len(stack[t]), stack[t][j].c = c
        PROVE  stack[t][j].op # "lookup"
    <3>1. SUFFICES ASSUME stack[t][j].op = "lookup" PROVE FALSE
      OBVIOUS
    <3>2. j = 1 /\ stack[t] # << >>
      BY <2>1, <3>1 DEF CallInv, StackInv, LookupOnTop
    <3>3. Top(t) = stack[t][1]
      BY <1>1, <3>2, TopFacts
    <3> QED
      BY <2>2, <3>1, <3>2, <3>3 DEF In
  <2>3. \A j \in 1 .. Len(stack[t]) : stack[t][j] \in Frames
    BY <2>1
  <2> QED
    BY <2>1, <2>2, <2>3 DEF At, HeldFrames, Held
<1>3. ASSUME NEW q \in Queues
      PROVE  {j \in DOMAIN queue[q] : queue[q][j].c = c} = At(queue[q], EventsOf(c))
  <2>1. queue[q] \in Seq(Events) /\ DOMAIN queue[q] = 1 .. Len(queue[q])
    BY <1>1, LenProperties DEF CallType
  <2>2. \A j \in 1 .. Len(queue[q]) : queue[q][j] \in Events
    BY <2>1
  <2> QED
    BY <2>1, <2>2 DEF At, EventsOf
<1>4. UNION {{<<t, i>> : i \in {j \in DOMAIN stack[t] :
               stack[t][j].c = c /\ stack[t][j].op \in {"post", "append", "run", "complete"}}} : t \in Threads}
         = StackPlaces(c)
  BY <1>2 DEF StackPlaces
<1>5. UNION {{<<q, i>> : i \in {j \in DOMAIN queue[q] : queue[q][j].c = c}} : q \in Queues} = QueuePlaces(c)
  BY <1>3 DEF QueuePlaces
<1> QED
  BY <1>4, <1>5 DEF Places, FlagPlaces, Flag

LEMMA PlacesCount ==
    ASSUME CallInv, NEW c \in Calls
    PROVE  /\ Located(c) => \E p : StackPlaces(c) \union QueuePlaces(c) \union FlagPlaces(c) = {p}
           /\ (NobodyHas(c) /\ ~Flag(c)) => StackPlaces(c) \union QueuePlaces(c) \union FlagPlaces(c) = {}
<1>1. (\A t \in Threads : stack[t] \in Seq(Frames)) /\ (\A q \in Queues : queue[q] \in Seq(Events))
  BY TypeParts DEF CallInv, StackType, CallType
<1>2. \A t \in Threads : /\ OnStack(t, c) = 0 => At(stack[t], HeldFrames(c)) = {}
                         /\ OnStack(t, c) = 1 => \E i : At(stack[t], HeldFrames(c)) = {i}
  BY <1>1, CountNone, CountOne DEF OnStack
<1>3. \A q \in Queues : /\ InQueue(q, c) = 0 => At(queue[q], EventsOf(c)) = {}
                        /\ InQueue(q, c) = 1 => \E i : At(queue[q], EventsOf(c)) = {i}
  BY <1>1, CountNone, CountOne DEF InQueue
<1>4. ASSUME \A t \in Threads : OnStack(t, c) = 0
      PROVE  StackPlaces(c) = {}
  BY <1>2, <1>4 DEF StackPlaces
<1>5. ASSUME \A q \in Queues : InQueue(q, c) = 0
      PROVE  QueuePlaces(c) = {}
  BY <1>3, <1>5 DEF QueuePlaces
<1>6. ASSUME NEW t \in Threads, ThreadHas(c, t)
      PROVE  \E p : StackPlaces(c) \union QueuePlaces(c) \union FlagPlaces(c) = {p}
  <2>1. PICK i : At(stack[t], HeldFrames(c)) = {i}
    BY <1>2, <1>6 DEF ThreadHas
  <2>2. \A u \in Threads : u # t => At(stack[u], HeldFrames(c)) = {}
    BY <1>2, <1>6 DEF ThreadHas
  <2>3. StackPlaces(c) = {<<t, i>>}
    BY <2>1, <2>2 DEF StackPlaces
  <2>4. QueuePlaces(c) = {} /\ FlagPlaces(c) = {}
    BY <1>5, <1>6 DEF ThreadHas, FlagPlaces
  <2> QED
    BY <2>3, <2>4
<1>7. ASSUME NEW q \in Queues, QueueHas(c, q)
      PROVE  \E p : StackPlaces(c) \union QueuePlaces(c) \union FlagPlaces(c) = {p}
  <2>1. PICK i : At(queue[q], EventsOf(c)) = {i}
    BY <1>3, <1>7 DEF QueueHas
  <2>2. \A p \in Queues : p # q => At(queue[p], EventsOf(c)) = {}
    BY <1>3, <1>7 DEF QueueHas
  <2>3. QueuePlaces(c) = {<<q, i>>}
    BY <2>1, <2>2 DEF QueuePlaces
  <2>4. StackPlaces(c) = {} /\ FlagPlaces(c) = {}
    BY <1>4, <1>7 DEF QueueHas, FlagPlaces
  <2> QED
    BY <2>3, <2>4
<1>8. ASSUME NobodyHas(c)
      PROVE  StackPlaces(c) = {} /\ QueuePlaces(c) = {}
  BY <1>4, <1>5, <1>8 DEF NobodyHas
<1>9. (NobodyHas(c) /\ Flag(c)) => \E p : StackPlaces(c) \union QueuePlaces(c) \union FlagPlaces(c) = {p}
  BY <1>8 DEF FlagPlaces
<1>10. (NobodyHas(c) /\ ~Flag(c)) => StackPlaces(c) \union QueuePlaces(c) \union FlagPlaces(c) = {}
  BY <1>8 DEF FlagPlaces
<1> QED
  BY <1>6, <1>7, <1>9, <1>10 DEF Located

\* From the post to the end a call is in one place, and a deleted call in none.
LEMMA CallsAreInOnePlace == CallInv => OnePlace
<1> SUFFICES ASSUME CallInv, NEW c \in Calls
             PROVE  /\ (call[c].made /\ ~\E t \in Threads : In(t, "lookup") /\ Top(t).c = c)
                          => Cardinality(Places(c)) = 1
                    /\ call[c].type = "deleted" => call[c] = DeletedCall /\ Places(c) = {}
  BY DEF OnePlace
<1>1. PlaceOf(c) /\ CallFits(call[c])
  BY DEF CallInv, PlacesInv, FitsInv
<1>2. ASSUME call[c].made, ~\E t \in Threads : In(t, "lookup") /\ Top(t).c = c
      PROVE  Cardinality(Places(c)) = 1
  <2>1. Located(c)
    BY <1>1, <1>2 DEF PlaceOf
  <2>2. PICK p : Places(c) = {p}
    BY <1>2, <2>1, PlacesAre, PlacesCount
  <2> QED
    BY <2>2, FS_Singleton
<1>3. ASSUME call[c].type = "deleted"
      PROVE  call[c] = DeletedCall /\ Places(c) = {}
  <2>1. call[c] = DeletedCall
    BY <1>1, <1>3 DEF CallFits
  <2>2. NobodyHas(c) /\ ~Flag(c)
    BY <1>1, <2>1, DeletedFacts DEF PlaceOf
  <2>3. ASSUME NEW t \in Threads, In(t, "lookup"), Top(t).c = c
        PROVE  FALSE
    BY <1>3, <2>3, TopInv DEF In, FrameFits, IsOut
  <2>4. Places(c) = {}
    BY <2>2, <2>3, PlacesAre, PlacesCount
  <2> QED
    BY <2>1, <2>4
<1> QED
  BY <1>2, <1>3

LEMMA CallersDoListen == CallInv => CallerListens
<1> SUFFICES ASSUME CallInv, NEW c \in Calls, call[c].type = "sync", call[c].mCallersEventQ # NoQueue
             PROVE  /\ mAcceptingEvents[call[c].mCallersEventQ]
                    /\ \E t \in Threads, i \in 1 .. Len(stack[handlerThread(call[c].mCallersEventQ)]) :
                          /\ t = handlerThread(call[c].mCallersEventQ)
                          /\ stack[t][i].op = "wait" /\ stack[t][i].c = c
                          /\ stack[t][i].q = call[c].mCallersEventQ
  BY DEF CallerListens
<1> DEFINE q == call[c].mCallersEventQ
<1>1. q[1] \in Threads
  BY TypeParts DEF CallInv, CallType, CallInfo, Queues
<1>2. PICK i \in 1 .. Len(stack[q[1]]) : WaitsFor(stack[q[1]][i], c, q)
  BY DEF CallInv, CallerInv
<1>3. mAcceptingEvents[q]
  BY <1>1, <1>2 DEF CallInv, AcceptInv, WaitsFor
<1> QED
  BY <1>1, <1>2, <1>3 DEF WaitsFor, handlerThread

\* No call is lost, made twice or touched after its end, and whoever answers a synchronous call
\* finds the queue of its caller listening, however posts, modal loops and nested loops interleave.
THEOREM CallsAreNotLost == Spec => []NoCallIsLost
<1>1. CallInv => NoCallIsLost
  BY CallsAreInOnePlace, CallersDoListen DEF NoCallIsLost
<1> QED
  BY <1>1, CallInvariance, PTL

-----------------------------------------------------------------------------
(* What callers may rely on: every step is a step of RemoteCall or none.       *)

PhaseOf(r) ==
    IF r.type = "deleted" THEN "ended"
    ELSE IF ~r.made THEN "idle"
    ELSE IF r.returned THEN "returned"
    ELSE IF r.invoked = 0 THEN IF r.type = "sync" THEN "called" ELSE "sent"
    ELSE IF r.invoked = 1 THEN IF r.type = "sync" THEN "running" ELSE "acting"
    ELSE "twice"

LEMMA PhasesAre == /\ phase = [c \in Calls |-> PhaseOf(call[c])]
                   /\ phase' = [c \in Calls |-> PhaseOf(call'[c])]
  BY DEF phase, PhaseOf

\* One call moves, or none.
LEMMA PhaseStep ==
    ASSUME CallType, NEW c \in Calls, NEW r, call' = [call EXCEPT ![c] = r]
    PROVE  /\ phase' = [phase EXCEPT ![c] = PhaseOf(r)] /\ phase[c] = PhaseOf(call[c])
           /\ PhaseOf(r) = PhaseOf(call[c]) => UNCHANGED phase
<1>1. call'[c] = r /\ \A d \in Calls : d # c => call'[d] = call[d]
  BY DEF CallType
<1> QED
  BY <1>1, PhasesAre

RemoteStep == [Remote!Next]_phase

LEMMA CallsStand ==
    ASSUME UNCHANGED call
    PROVE  RemoteStep
<1>1. UNCHANGED phase
  BY PhasesAre
<1> QED
  BY <1>1 DEF RemoteStep

\* How the phase of the one call that a step changes may move.
Allowed == {<<"idle", "called">>, <<"called", "running">>, <<"running", "returned">>, <<"returned", "ended">>,
            <<"idle", "sent">>, <<"sent", "acting">>, <<"acting", "ended">>}
LEMMA CallMoves ==
    ASSUME CallType, NEW c \in Calls, NEW r, call' = [call EXCEPT ![c] = r],
           \/ PhaseOf(r) = PhaseOf(call[c])
           \/ <<PhaseOf(call[c]), PhaseOf(r)>> \in Allowed
    PROVE  RemoteStep
<1>1. CASE PhaseOf(r) = PhaseOf(call[c])
  BY <1>1, PhaseStep DEF RemoteStep
<1>2. CASE <<PhaseOf(call[c]), PhaseOf(r)>> \in Allowed
  <2> DEFINE from == PhaseOf(call[c])
             to == PhaseOf(r)
  <2>1. Remote!Moves(c, from, to)
    BY PhaseStep DEF Remote!Moves
  <2>2. \/ from = "idle" /\ to = "called"
        \/ from = "called" /\ to = "running"
        \/ from = "running" /\ to = "returned"
        \/ from = "returned" /\ to = "ended"
        \/ from = "idle" /\ to = "sent"
        \/ from = "sent" /\ to = "acting"
        \/ from = "acting" /\ to = "ended"
    BY <1>2 DEF Allowed
  <2> HIDE DEF from, to
  <2>3. Remote!Call(c) \/ Remote!Begin(c) \/ Remote!Return(c) \/ Remote!End(c) \/ Remote!Send(c) \/ Remote!Act(c)
        \/ Remote!Done(c)
    BY <2>1, <2>2 DEF Remote!Call, Remote!Begin, Remote!Return, Remote!End, Remote!Send, Remote!Act, Remote!Done
  <2> QED
    BY <2>3 DEF RemoteStep, Remote!Next
<1> QED
  BY <1>1, <1>2

\* A change of what the phase does not look at.
LEMMA CallStays ==
    ASSUME CallType, NEW c \in Calls, NEW r, call' = [call EXCEPT ![c] = r],
           r.type = call[c].type, r.made = call[c].made, r.returned = call[c].returned, r.invoked = call[c].invoked
    PROVE  RemoteStep
<1>1. PhaseOf(r) = PhaseOf(call[c])
  BY DEF PhaseOf
<1> QED
  BY <1>1, CallMoves

LEMMA HandleMoves ==
    ASSUME CallInv, NEW t, NEW q \in Queues, PL_EventAvailable(q), NEW rest, Handle(t, Head(queue[q]), rest)
    PROVE  RemoteStep
<1>0. PICK c : c = Head(queue[q]).c
  OBVIOUS
<1>1. CallType /\ c \in Calls /\ call[c] \in CallInfo /\ EventFits(Head(queue[q]), call[c]) /\ Head(queue[q]) \in Events
  <2>1. StackType /\ CallType /\ PlacesInv /\ queue[q] # << >>
    BY TypeParts DEF CallInv, PL_EventAvailable
  <2>2. /\ Head(queue[q]) \in Events /\ Head(queue[q]) = queue[q][1] /\ 1 \in 1 .. Len(queue[q])
        /\ Head(queue[q]).c \in Calls
    BY <2>1, HeadHolds
  <2> QED
    BY <1>0, <2>1, <2>2 DEF CallInv, FitsInv, EventsFit, CallType
<1>2. CASE Head(queue[q]).kind = "completed"
  <2> DEFINE r == [call[c] EXCEPT !.mCompleted = TRUE]
  <2>1. call' = [call EXCEPT ![c] = r]
    BY <1>0, <1>2 DEF Handle, Completes
  <2>2. /\ r.type = call[c].type /\ r.made = call[c].made /\ r.returned = call[c].returned
        /\ r.invoked = call[c].invoked
    BY <1>1 DEF CallInfo
  <2> HIDE DEF r
  <2> QED
    BY <1>1, <2>1, <2>2, CallStays
<1>3. CASE Head(queue[q]).kind = "call"
  <2> DEFINE r == [call[c] EXCEPT !.invoked = 1]
  <2>1. IsOut(call[c])
    BY <1>1, <1>3 DEF EventFits
  <2>2. call' = [call EXCEPT ![c] = r]
    BY <1>0, <1>1, <1>3, <2>1 DEF Handle, Invokes, IsOut, CallType
  <2>3. r.type = call[c].type /\ r.made = call[c].made /\ r.returned = call[c].returned /\ r.invoked = 1
    BY <1>1 DEF CallInfo
  <2> HIDE DEF r
  <2>4. <<PhaseOf(call[c]), PhaseOf(r)>> \in Allowed
    BY <2>1, <2>3 DEF PhaseOf, IsOut, Allowed
  <2> QED
    BY <1>1, <2>2, <2>4, CallMoves
<1> QED
  BY <1>1, <1>2, <1>3 DEF Events

LEMMA MakeProxyMoves ==
    ASSUME CallInv, NEW t \in Threads, NEW c \in Calls, NEW u \in Threads, NEW type \in {"sync", "async"},
           MakeProxy(t, c, u, type)
    PROVE  RemoteStep
<1> DEFINE r == [call[c] EXCEPT !.type = type, !.from = t, !.dest = Destination(u)]
<1>1. call[c].type = "none" /\ call' = [call EXCEPT ![c] = r]
  BY DEF MakeProxy
<1>2. CallType /\ call[c] \in CallInfo /\ call[c] = NewCall
  BY <1>1, TypeParts DEF CallType, CallInv, FitsInv, CallFits
<1>3. r.type = type /\ r.made = call[c].made
  BY <1>2 DEF CallInfo
<1>4. call[c].made = FALSE
  BY <1>2 DEF NewCall
<1> HIDE DEF r
<1>5. PhaseOf(r) = PhaseOf(call[c])
  BY <1>1, <1>3, <1>4 DEF PhaseOf
<1> QED
  BY <1>1, <1>2, <1>5, CallMoves

LEMMA CallIsMade ==
    ASSUME CallInv, NEW t \in Threads, NEW c \in Calls, CallSync(t, c) \/ CallAsync(t, c)
    PROVE  RemoteStep
<1> DEFINE r == [call[c] EXCEPT !.made = TRUE]
<1>1. CallType /\ call[c] \in CallInfo /\ CallFits(call[c])
  BY TypeParts DEF CallType, CallInv, FitsInv
<1>2. /\ call[c].type \in {"sync", "async"} /\ call[c].made = FALSE /\ call' = [call EXCEPT ![c] = r]
  BY <1>1 DEF CallSync, CallAsync, CallInfo
<1>3. r.type = call[c].type /\ r.made = TRUE /\ r.invoked = call[c].invoked /\ r.returned = call[c].returned
  BY <1>1 DEF CallInfo
<1>4. call[c].invoked = 0 /\ call[c].returned = FALSE
  BY <1>1, <1>2 DEF CallFits, CallInfo
<1> HIDE DEF r
<1>5. <<PhaseOf(call[c]), PhaseOf(r)>> \in Allowed
  BY <1>2, <1>3, <1>4 DEF PhaseOf, Allowed
<1> QED
  BY <1>1, <1>2, <1>5, CallMoves

LEMMA QueueIsAsked ==
    ASSUME CallInv, NEW t \in Threads, UseOwnQueue(t) \/ UseNewQueue(t)
    PROVE  RemoteStep
<1>0. PICK c : Top(t).c = c
  OBVIOUS
<1>1. PICK q : call' = [call EXCEPT ![c].mCallersEventQ = q]
  BY <1>0 DEF UseOwnQueue, UseNewQueue
<1> DEFINE r == [call[c] EXCEPT !.mCallersEventQ = q]
<1>2. stack[t] # << >> /\ Top(t).op = "lookup"
  BY DEF UseOwnQueue, UseNewQueue, In
<1>3. c \in Calls
  BY <1>0, <1>2, TopInv DEF FrameNames, Held
<1>4. CallType /\ call[c] \in CallInfo
  BY <1>3, TypeParts DEF CallType, CallInv
<1>5. /\ call' = [call EXCEPT ![c] = r] /\ r.type = call[c].type /\ r.made = call[c].made
      /\ r.returned = call[c].returned /\ r.invoked = call[c].invoked
  BY <1>1, <1>4 DEF CallInfo
<1> HIDE DEF r
<1> QED
  BY <1>3, <1>4, <1>5, CallStays

LEMMA RefusedMoves ==
    ASSUME CallInv, NEW t \in Threads, Refused(t)
    PROVE  RemoteStep
<1>0. PICK c : Top(t).c = c
  OBVIOUS
<1> DEFINE r == [call[c] EXCEPT !.refused = TRUE]
<1>1. stack[t] # << >> /\ Top(t).op = "post" /\ call' = [call EXCEPT ![c] = r]
  BY <1>0 DEF Refused, In
<1>2. c \in Calls
  BY <1>0, <1>1, TopInv DEF FrameNames, Held
<1>3. CallType /\ call[c] \in CallInfo
  BY <1>2, TypeParts DEF CallType, CallInv
<1>4. /\ r.type = call[c].type /\ r.made = call[c].made
      /\ r.returned = call[c].returned /\ r.invoked = call[c].invoked
  BY <1>3 DEF CallInfo
<1> HIDE DEF r
<1> QED
  BY <1>1, <1>2, <1>3, <1>4, CallStays

LEMMA WaitReturnsMoves ==
    ASSUME CallInv, NEW t \in Threads, WaitReturns(t)
    PROVE  RemoteStep
<1>0. PICK c : Top(t).c = c
  OBVIOUS
<1>1. /\ stack[t] # << >> /\ Top(t).op = "wait" /\ call[c].mCompleted /\ call' = [call EXCEPT ![c] = DeletedCall]
  BY <1>0 DEF WaitReturns, In
<1>2. c \in Calls
  BY <1>0, <1>1, TopInv DEF FrameNames
<1>3. CallType /\ IsReturned(call[c])
  BY <1>1, <1>2, TypeParts DEF CallInv, FitsInv, CallFits
<1>4. <<PhaseOf(call[c]), PhaseOf(DeletedCall)>> \in Allowed
  BY <1>3, DeletedFacts DEF PhaseOf, IsReturned, Allowed
<1> QED
  BY <1>1, <1>2, <1>3, <1>4, CallMoves

LEMMA MethodReturnsMoves ==
    ASSUME CallInv, NEW t \in Threads, MethodReturns(t)
    PROVE  RemoteStep
<1>0. PICK c : Top(t).c = c
  OBVIOUS
<1>1. stack[t] # << >> /\ Top(t).op = "run"
  BY DEF MethodReturns, In
<1>2. c \in Calls /\ IsRunning(call[c])
  BY <1>0, <1>1, TopInv DEF FrameNames, FrameFits, Held
<1>3. CallType /\ call[c] \in CallInfo
  BY <1>2, TypeParts DEF CallType, CallInv
<1>4. CASE call[c].type = "async"
  <2>1. call' = [call EXCEPT ![c] = DeletedCall]
    BY <1>0, <1>4 DEF MethodReturns
  <2>2. <<PhaseOf(call[c]), PhaseOf(DeletedCall)>> \in Allowed
    BY <1>2, <1>4, DeletedFacts DEF PhaseOf, IsRunning, Allowed
  <2> QED
    BY <1>2, <1>3, <2>1, <2>2, CallMoves
<1>5. CASE call[c].type # "async"
  <2> DEFINE r == [call[c] EXCEPT !.returned = TRUE]
  <2>1. call' = [call EXCEPT ![c] = r]
    BY <1>0, <1>5 DEF MethodReturns
  <2>2. r.type = call[c].type /\ r.made = call[c].made /\ r.returned = TRUE
    BY <1>3 DEF CallInfo
  <2>3. call[c].type = "sync"
    BY <1>2, <1>5 DEF IsRunning
  <2> HIDE DEF r
  <2>4. <<PhaseOf(call[c]), PhaseOf(r)>> \in Allowed
    BY <1>2, <2>2, <2>3 DEF PhaseOf, IsRunning, Allowed
  <2> QED
    BY <1>2, <1>3, <2>1, <2>4, CallMoves
<1> QED
  BY <1>4, <1>5

LEMMA EventMoves ==
    ASSUME CallInv, NEW t \in Threads, TakeEvent(t) \/ ProcessEvent(t)
    PROVE  RemoteStep
<1>1. CASE TakeEvent(t)
  <2>1. WaitsOn(t) \in Queues
    <3>1. CASE InEventLoop(t)
      BY <1>1, <3>1, TypeParts DEF TakeEvent, WaitsOn, InEventLoop, CallInv, ChainTypes
    <3>2. CASE ~InEventLoop(t)
      <4>1. In(t, "wait") /\ WaitsOn(t) = Top(t).q
        BY <1>1, <3>2 DEF TakeEvent, WaitsOn
      <4> QED
        BY <4>1, TopInv DEF In, FrameNames
    <3> QED
      BY <3>1, <3>2
  <2> QED
    BY <1>1, <2>1, HandleMoves DEF TakeEvent
<1>2. CASE ProcessEvent(t)
  <2>1. Top(t).q \in Queues
    BY <1>2, TopInv DEF ProcessEvent, InLoop, In, FrameNames
  <2> QED
    BY <1>2, <2>1, HandleMoves DEF ProcessEvent
<1> QED
  BY <1>1, <1>2

LEMMA EveryStepIsRemote ==
    ASSUME CallInv, [Next]_vars
    PROVE  RemoteStep
<1>1. CASE UNCHANGED vars
  BY <1>1, CallsStand DEF vars, threadVars
<1>2. ASSUME NEW t \in Threads, Continue(t)
      PROVE  RemoteStep
  <2>1. CASE UseOwnQueue(t) \/ UseNewQueue(t)
    BY <2>1, QueueIsAsked
  <2>2. CASE Refused(t) \/ WaitReturns(t) \/ MethodReturns(t)
    BY <2>2, RefusedMoves, WaitReturnsMoves, MethodReturnsMoves
  <2>3. CASE TakeEvent(t) \/ ProcessEvent(t)
    BY <2>3, EventMoves
  <2>4. CASE Accepted(t) \/ PassedOn(t) \/ AppendEvent(t) \/ Sleep(t) \/ PostCompleted(t) \/ SyncReturns(t)
    BY <2>4, CallsStand DEF Accepted, PassedOn, AppendEvent, Sleep, PostCompleted, SyncReturns
  <2>5. CASE NativeLoop(t) \/ ModalEnds(t) \/ PopReturns(t) \/ EnterNested(t) \/ Enter(t) \/ Finish(t)
             \/ OnceMore(t) \/ ToElder(t)
    BY <2>5, CallsStand DEF NativeLoop, ModalEnds, PopReturns, EnterNested, Enter, Finish, OnceMore, ToElder
  <2> QED
    BY <1>2, <2>1, <2>2, <2>3, <2>4, <2>5 DEF Continue
<1>3. CASE Next
  <2> PICK t \in Threads :
        \/ Continue(t)
        \/ PushModal(t) \/ ProcessOwn(t)
        \/ \E c \in Calls : CallSync(t, c) \/ CallAsync(t, c)
        \/ \E c \in Calls, u \in Threads, type \in {"sync", "async"} : MakeProxy(t, c, u, type)
    BY <1>3 DEF Next
  <2>1. CASE Continue(t)
    BY <1>2, <2>1
  <2>2. CASE PushModal(t) \/ ProcessOwn(t)
    BY <2>2, CallsStand DEF PushModal, ProcessOwn
  <2>3. CASE \E c \in Calls : CallSync(t, c) \/ CallAsync(t, c)
    BY <2>3, CallIsMade
  <2>4. CASE \E c \in Calls, u \in Threads, type \in {"sync", "async"} : MakeProxy(t, c, u, type)
    BY <2>4, MakeProxyMoves
  <2> QED
    BY <2>1, <2>2, <2>3, <2>4
<1> QED
  BY <1>1, <1>3

\* A method is called once for each call, a synchronous call ends after its method has returned, and
\* an asynchronous one leaves nothing behind: threads and queues do what RemoteCall promises.
THEOREM CallsAreRemoteCalls == Spec => ImplementsRemoteCall
<1>1. Init => Remote!Init
  <2> SUFFICES ASSUME Init PROVE Remote!Init
    OBVIOUS
  <2>1. call = [c \in Calls |-> NewCall] /\ NewCall.type = "none" /\ NewCall.made = FALSE
    BY DEF Init, NewCall
  <2>2. phase = [c \in Calls |-> "idle"]
    BY <2>1 DEF phase
  <2> QED
    BY <2>2 DEF Remote!Init
<1>2. CallInv /\ [Next]_vars => [Remote!Next]_phase
  BY EveryStepIsRemote DEF RemoteStep
<1> QED
  BY <1>1, <1>2, CallInvariance, PTL DEF Spec, ImplementsRemoteCall, Remote!Spec
==============================================================================
