----------------------------- MODULE EventQueue ------------------------------
(***************************************************************************)
(* The event queues of threads: the list of events and the notification of *)
(* the native event loop (plevent.c), and what nsEventQueueImpl adds to    *)
(* them: a queue that does not accept events hands them to its elder.      *)
(*                                                                         *)
(* This module has no specification of its own.  It holds the queues and   *)
(* their operations, each of them one critical section of the queue's      *)
(* monitor; ProxyEvent has the threads that call them.                     *)
(*                                                                         *)
(* A native queue has a pipe with which it wakes the native event loop of  *)
(* its thread (the Unix code); a monitored queue has only its monitor.     *)
(***************************************************************************)
EXTENDS Naturals, Sequences

CONSTANTS
    Threads,
    NativeThreads,  \* those that have a native event loop
    MaxQueues,      \* queues that one thread may make
    PipeSize,       \* bytes that a pipe can hold
    NoQueue

ASSUME QueueAssumption ==
    /\ NativeThreads \subseteq Threads
    /\ MaxQueues \in Nat \ {0}
    /\ PipeSize \in Nat \ {0}
    /\ NoQueue \notin Threads \X (1 .. MaxQueues)

VARIABLES
    queue,              \* PLEventQueue::queue
    eventPipe,          \* bytes in PLEventQueue::eventPipe
    notified,           \* PLEventQueue::notified
    processingEvents,   \* PLEventQueue::processingEvents
    mAcceptingEvents,
    mElderQueue,
    made                \* how many queues a thread has made

plVars == <<queue, eventPipe, notified, processingEvents>>
chainVars == <<mAcceptingEvents, mElderQueue, made>>
queueVars == <<plVars, chainVars>>

Queues == Threads \X (1 .. MaxQueues)
handlerThread(q) == q[1]

\* The kind of a queue: a pushed queue is of the kind of the eldest one, and a queue that
\* PostAndWait makes for a thread without queues is monitored.
IsQueueNative(q) == handlerThread(q) \in NativeThreads

\* Mutant: the byte is taken to be there.
AcknowledgeUnseen(q) == eventPipe' = [eventPipe EXCEPT ![q] = @ - 1]

\* A byte more, unless the pipe is full (EAGAIN counts as success); a byte less, unless it is empty.
NativeNotify(q) == eventPipe' = [eventPipe EXCEPT ![q] = IF @ < PipeSize THEN @ + 1 ELSE @]
AcknowledgeNativeNotify(q) == eventPipe' = [eventPipe EXCEPT ![q] = IF @ > 0 THEN @ - 1 ELSE @]

PL_PostEvent(q, event) ==
    /\ queue' = [queue EXCEPT ![q] = Append(@, event)]
    /\ IF IsQueueNative(q) /\ ~notified[q]
       THEN NativeNotify(q) /\ notified' = [notified EXCEPT ![q] = TRUE]
       ELSE UNCHANGED <<eventPipe, notified>>
    /\ UNCHANGED processingEvents

PL_EventAvailable(q) == queue[q] # << >>

\* Mutant: the event stays in the list.
PL_PeekEvent(q) == PL_EventAvailable(q) /\ UNCHANGED plVars

\* The event is gone from the list; the notification stays (the test for it in PL_GetEvent
\* asks for an empty list and is made only when the list is not empty).
PL_GetEvent(q) ==
    /\ queue' = [queue EXCEPT ![q] = Tail(@)]
    /\ UNCHANGED <<eventPipe, notified, processingEvents>>

\* PL_ProcessPendingEvents of a queue that is being processed already, further out on the stack.
ProcessNested(q) ==
    /\ processingEvents[q]
    /\ AcknowledgeNativeNotify(q)
    /\ notified' = [notified EXCEPT ![q] = FALSE]
    /\ UNCHANGED <<queue, processingEvents>>

BeginProcessing(q) ==
    /\ ~processingEvents[q]
    /\ processingEvents' = [processingEvents EXCEPT ![q] = TRUE]
    /\ UNCHANGED <<queue, eventPipe, notified>>

\* Mutants: events that came meanwhile are not announced; the last byte is not read.
EndProcessingSilently(q) ==
    /\ IF ~IsQueueNative(q) THEN UNCHANGED <<eventPipe, notified>>
       ELSE AcknowledgeNativeNotify(q) /\ notified' = [notified EXCEPT ![q] = FALSE]
    /\ processingEvents' = [processingEvents EXCEPT ![q] = FALSE]
    /\ UNCHANGED queue
EndProcessingUnread(q) ==
    /\ notified' = [notified EXCEPT ![q] = PL_EventAvailable(q)]
    /\ processingEvents' = [processingEvents EXCEPT ![q] = FALSE]
    /\ UNCHANGED <<queue, eventPipe>>

\* Its end: if more events have come, they are announced again.
EndProcessing(q) ==
    /\ IF ~IsQueueNative(q) THEN UNCHANGED <<eventPipe, notified>>
       ELSE IF PL_EventAvailable(q)
            THEN NativeNotify(q) /\ notified' = [notified EXCEPT ![q] = TRUE]
            ELSE AcknowledgeNativeNotify(q) /\ notified' = [notified EXCEPT ![q] = FALSE]
    /\ processingEvents' = [processingEvents EXCEPT ![q] = FALSE]
    /\ UNCHANGED queue

-----------------------------------------------------------------------------
(* The chain of a thread's queues.  A queue that is dark and empty stays in  *)
(* it here; the code deletes it when nobody refers to it any more.           *)

NextQueue(t) == <<t, made[t] + 1>>

MakeNewQueue(t, elder) ==
    LET q == NextQueue(t)
    IN  /\ made' = [made EXCEPT ![t] = @ + 1]
        /\ mAcceptingEvents' = [mAcceptingEvents EXCEPT ![q] = TRUE]
        /\ mElderQueue' = [mElderQueue EXCEPT ![q] = elder]

StopAcceptingEvents(q) ==
    /\ mAcceptingEvents' = [mAcceptingEvents EXCEPT ![q] = FALSE]
    /\ UNCHANGED <<mElderQueue, made>>

\* The queues that can be reached from an eldest one by younger links.
Chain(eldest) ==
    {q \in Queues : /\ handlerThread(q) = handlerThread(eldest)
                    /\ eldest[2] <= q[2] /\ q[2] <= made[q[1]]}

\* GetYoungestActive, or NoQueue.
YoungestActive(eldest) ==
    LET active == {q \in Chain(eldest) : mAcceptingEvents[q]}
    IN  IF active = {} THEN NoQueue
        ELSE CHOOSE q \in active : \A p \in active : p[2] <= q[2]

-----------------------------------------------------------------------------
EventQueueTypeOK(Events) ==
    /\ queue \in [Queues -> Seq(Events)]
    /\ eventPipe \in [Queues -> 0 .. PipeSize]
    /\ notified \in [Queues -> BOOLEAN]
    /\ processingEvents \in [Queues -> BOOLEAN]
    /\ mAcceptingEvents \in [Queues -> BOOLEAN]
    /\ mElderQueue \in [Queues -> Queues \union {NoQueue}]
    /\ made \in [Threads -> 0 .. MaxQueues]

\* A native queue with events in it makes its thread's event loop wake up, unless a call of
\* PL_ProcessPendingEvents is on the thread's stack, which will look again before it ends.
\* PL_PostEvent writes to the pipe only if it has not been notified; nested calls take the
\* notification away while events wait.
EventsAreAnnounced ==
    \A q \in Queues : (IsQueueNative(q) /\ queue[q] # << >> /\ ~processingEvents[q]) => eventPipe[q] > 0
==============================================================================
