----------------------------- MODULE ProxyEvent ------------------------------
(***************************************************************************)
(* Threads that call each other's objects through proxies                  *)
(* (nsProxyEvent.cpp), over the event queues of EventQueue: synchronous    *)
(* and asynchronous calls, the loops that wait for their completion, modal *)
(* loops with a queue of their own, and the native event loop.             *)
(*                                                                         *)
(* stack[t] is what thread t is in the middle of, innermost first.  Its    *)
(* frames are                                                              *)
(*   lookup    about to ask the service for the queue of the other thread  *)
(*   post      nsEventQueueImpl::PostEvent, before it tests the flag       *)
(*   append    the same, after it has found the queue accepting            *)
(*   wait      PostAndWait                                                 *)
(*   run       the method that an event calls                              *)
(*   complete  PostCompleted                                               *)
(*   sync      PL_PostSynchronousEvent, waiting on the event's condition   *)
(*   modal     a modal loop, which runs the native event loop              *)
(*   pop       PopThreadEventQueue, with the service's monitor             *)
(*   enter, loop, after, again, loop2, leave                               *)
(*             nsEventQueueImpl::ProcessPendingEvents: the first call of   *)
(*             PL_ProcessPendingEvents, its loop, the test for another     *)
(*             call, that call and its loop, the step to the elder queue   *)
(***************************************************************************)
EXTENDS EventQueue, FiniteSets

CONSTANTS
    MaxCalls,       \* calls that are made altogether
    NoThread

ASSUME LoopAssumption ==
    /\ MaxCalls \in Nat
    /\ NoThread \notin Threads

VARIABLES
    stack,
    asleep,         \* threads in PR_Wait on the monitor of the queue they wait for
    call,           \* nsProxyObjectCallInfo
    table,          \* nsEventQueueServiceImpl::mEventQTable
    mEventQMonitor  \* who holds the service's monitor from one step to the next

threadVars == <<stack, asleep, call, table, mEventQMonitor>>
vars == <<queueVars, threadVars>>

Calls == 1 .. MaxCalls

Ops == {"lookup", "post", "append", "wait", "run", "complete", "sync", "modal", "pop",
        "enter", "loop", "after", "again", "loop2", "leave"}
Frame(op, c, q) == [op |-> op, c |-> c, q |-> q, n |-> 0]
Frames == [op : Ops, c : Calls \union {0}, q : Queues \union {NoQueue}, n : Nat]

\* A call event, or the event that tells its caller that it has been completed.
Events == [kind : {"call", "completed"}, c : Calls]
CallEvent(c) == [kind |-> "call", c |-> c]
CompletedEvent(c) == [kind |-> "completed", c |-> c]

\* nsProxyObject and nsProxyObjectCallInfo in one record, which names the call.  A record that
\* has been deleted keeps nothing, so that whoever writes to it afterwards is seen.
CallInfo == [type : {"none", "sync", "async", "deleted"}, from : Threads \union {NoThread},
             made : BOOLEAN, dest : Queues \union {NoQueue}, mCallersEventQ : Queues \union {NoQueue},
             invoked : 0 .. 2, returned : BOOLEAN, mCompleted : BOOLEAN, refused : BOOLEAN]
NewCall == [type |-> "none", from |-> NoThread, made |-> FALSE, dest |-> NoQueue,
            mCallersEventQ |-> NoQueue, invoked |-> 0, returned |-> FALSE, mCompleted |-> FALSE,
            refused |-> FALSE]
DeletedCall == [NewCall EXCEPT !.type = "deleted"]

\* Some threads have a queue from the start, and a loop that handles what comes: the native
\* event loop, or PL_EventLoop.
InitQueues(Loops) ==
    /\ mAcceptingEvents = [q \in Queues |-> q[1] \in Loops /\ q[2] = 1]
    /\ made = [t \in Threads |-> IF t \in Loops THEN 1 ELSE 0]
    /\ table = [t \in Threads |-> IF t \in Loops THEN <<t, 1>> ELSE NoQueue]

Init ==
    /\ queue = [q \in Queues |-> << >>]
    /\ eventPipe = [q \in Queues |-> 0]
    /\ notified = [q \in Queues |-> FALSE]
    /\ processingEvents = [q \in Queues |-> FALSE]
    /\ \E EventThreads \in SUBSET (Threads \ NativeThreads) : InitQueues(NativeThreads \union EventThreads)
    /\ mElderQueue = [q \in Queues |-> NoQueue]
    /\ stack = [t \in Threads |-> << >>]
    /\ asleep = {}
    /\ call = [c \in Calls |-> NewCall]
    /\ mEventQMonitor = NoThread

-----------------------------------------------------------------------------
(* Where a thread is.                                                       *)

Top(t) == Head(stack[t])
In(t, op) == stack[t] # << >> /\ Top(t).op = op
Becomes(t, frames) == stack' = [stack EXCEPT ![t] = frames \o Tail(@)]
Pushes(t, frames) == stack' = [stack EXCEPT ![t] = frames \o @]
Returns(t) == Becomes(t, << >>)

\* A thread in PL_EventLoop.  Threads without a loop have a queue only while PostAndWait waits.
InEventLoop(t) == stack[t] = << >> /\ t \notin NativeThreads /\ table[t] # NoQueue
\* Code of the thread's own, or a method that runs on it.
InCode(t) == In(t, "run") \/ (stack[t] = << >> /\ ~InEventLoop(t))
MonitorIsFree(t) == mEventQMonitor \in {NoThread, t}

\* The queue on which a thread waits for events, outside the native event loop.
WaitsOn(t) ==
    IF InEventLoop(t) THEN table[t]
    ELSE IF In(t, "wait") /\ ~call[Top(t).c].mCompleted THEN Top(t).q
    ELSE NoQueue

\* Mutant: nobody wakes up.
NotifyNobody(q) == UNCHANGED asleep

\* PR_Notify on the monitor of q: only its own thread can be waiting there.
Notify(q) == asleep' = asleep \ {t \in asleep : WaitsOn(t) = q}

-----------------------------------------------------------------------------
(* A call through a proxy: nsProxyObject::Post and PostAndWait.             *)

\* A proxy is made for an object of thread u; it keeps the queue that was youngest then.
Destination(u) == IF table[u] = NoQueue THEN NoQueue ELSE YoungestActive(table[u])

MakeProxy(t, c, u, type) ==
    /\ InCode(t) /\ MonitorIsFree(t)
    /\ t # u /\ Destination(u) # NoQueue
    /\ call[c].type = "none" /\ \A d \in Calls : d < c => call[d].type # "none"
    /\ \A d \in Calls : call[d].from = t => call[d].made
    /\ call' = [call EXCEPT ![c].type = type, ![c].from = t, ![c].dest = Destination(u)]
    /\ UNCHANGED <<queueVars, stack, asleep, table, mEventQMonitor>>

CallAsync(t, c) ==
    /\ InCode(t)
    /\ call[c].type = "async" /\ call[c].from = t /\ ~call[c].made
    /\ call' = [call EXCEPT ![c].made = TRUE]
    /\ Pushes(t, <<Frame("post", c, call[c].dest)>>)
    /\ UNCHANGED <<queueVars, asleep, table, mEventQMonitor>>

CallSync(t, c) ==
    /\ InCode(t)
    /\ call[c].type = "sync" /\ call[c].from = t /\ ~call[c].made
    /\ Destination(t) # NoQueue \/ made[t] < MaxQueues
    /\ call' = [call EXCEPT ![c].made = TRUE]
    /\ Pushes(t, <<Frame("lookup", c, NoQueue)>>)
    /\ UNCHANGED <<queueVars, asleep, table, mEventQMonitor>>

\* PostAndWait asks for the thread's own queue, which the completion is to come to.
UseOwnQueue(t) ==
    /\ In(t, "lookup") /\ MonitorIsFree(t)
    /\ Destination(t) # NoQueue
    /\ LET c == Top(t).c
       IN  /\ call' = [call EXCEPT ![c].mCallersEventQ = Destination(t)]
           /\ Becomes(t, <<Frame("post", c, call[c].dest), Frame("wait", c, Destination(t))>>)
    /\ UNCHANGED <<queueVars, asleep, table, mEventQMonitor>>

\* CreateMonitoredThreadEventQueue; n = 1 says that PostAndWait has to destroy the queue.
UseNewQueue(t) ==
    /\ In(t, "lookup") /\ MonitorIsFree(t)
    /\ Destination(t) = NoQueue /\ made[t] < MaxQueues
    /\ MakeNewQueue(t, NoQueue)
    /\ table' = [table EXCEPT ![t] = NextQueue(t)]
    /\ LET c == Top(t).c
       IN  /\ call' = [call EXCEPT ![c].mCallersEventQ = NextQueue(t)]
           /\ Becomes(t, <<Frame("post", c, call[c].dest),
                           [Frame("wait", c, NextQueue(t)) EXCEPT !.n = 1]>>)
    /\ UNCHANGED <<plVars, asleep, mEventQMonitor>>

\* nsEventQueueImpl::PostEvent tests mAcceptingEvents with no lock ...
Accepted(t) ==
    /\ In(t, "post") /\ mAcceptingEvents[Top(t).q]
    /\ Becomes(t, <<[Top(t) EXCEPT !.op = "append"]>>)
    /\ UNCHANGED <<queueVars, asleep, call, table, mEventQMonitor>>

PassedOn(t) ==
    /\ In(t, "post") /\ ~mAcceptingEvents[Top(t).q]
    /\ mElderQueue[Top(t).q] # NoQueue
    /\ Becomes(t, <<[Top(t) EXCEPT !.q = mElderQueue[Top(t).q]]>>)
    /\ UNCHANGED <<queueVars, asleep, call, table, mEventQMonitor>>

\* PR_FAILURE, which neither Post nor PostAndWait looks at.
Refused(t) ==
    /\ In(t, "post") /\ ~mAcceptingEvents[Top(t).q]
    /\ mElderQueue[Top(t).q] = NoQueue
    /\ call' = [call EXCEPT ![Top(t).c].refused = TRUE]
    /\ Returns(t)
    /\ UNCHANGED <<queueVars, asleep, table, mEventQMonitor>>

\* ... and PL_PostEvent takes the queue's monitor afterwards.
AppendEvent(t) ==
    /\ In(t, "append")
    /\ PL_PostEvent(Top(t).q, CallEvent(Top(t).c))
    /\ Notify(Top(t).q)
    /\ Returns(t)
    /\ UNCHANGED <<chainVars, call, table, mEventQMonitor>>

\* Mutant: the queue is destroyed whoever made it.
WaitReturnsAndDestroys(t) ==
    /\ In(t, "wait") /\ call[Top(t).c].mCompleted /\ MonitorIsFree(t)
    /\ StopAcceptingEvents(Top(t).q)
    /\ table' = [table EXCEPT ![t] = NoQueue]
    /\ call' = [call EXCEPT ![Top(t).c] = DeletedCall]
    /\ Returns(t)
    /\ UNCHANGED <<plVars, asleep, mEventQMonitor>>

\* The loop of PostAndWait ends.  A queue of its own goes from the table (DestroyThreadEventQueue).
WaitReturns(t) ==
    /\ In(t, "wait") /\ call[Top(t).c].mCompleted
    /\ IF Top(t).n = 1
       THEN /\ MonitorIsFree(t)
            /\ StopAcceptingEvents(Top(t).q)
            /\ table' = [table EXCEPT ![t] = NoQueue]
       ELSE UNCHANGED <<chainVars, table>>
    /\ call' = [call EXCEPT ![Top(t).c] = DeletedCall]
    /\ Returns(t)
    /\ UNCHANGED <<plVars, asleep, mEventQMonitor>>

-----------------------------------------------------------------------------
(* Handling events.                                                         *)

\* A completion is handled at once: its handler sets mCompleted, and PL_HandleEvent wakes the
\* thread that posted it.
Completes(t, event, rest) ==
    /\ stack' = [u \in Threads |->
                    IF u = t THEN rest
                    ELSE IF In(u, "sync") /\ Top(u).c = event.c
                         THEN <<[Top(u) EXCEPT !.n = 1]>> \o Tail(stack[u])
                    ELSE stack[u]]
    /\ call' = [call EXCEPT ![event.c].mCompleted = TRUE]

Invokes(t, event, op, rest) ==
    /\ stack' = [stack EXCEPT ![t] = <<Frame(op, event.c, call[event.c].mCallersEventQ)>> \o rest]
    /\ call' = [call EXCEPT ![event.c].invoked = @ + 1]

\* Mutant: a call is destroyed, and so completed, before it is handled.
HandleDestroyed(t, event, rest) ==
    IF event.kind = "completed" THEN Completes(t, event, rest)
    ELSE IF call[event.c].type = "sync" THEN Invokes(t, event, "complete", rest)
    ELSE Invokes(t, event, "run", rest)

\* PL_HandleEvent; the thread goes on with rest below the event's handler.
Handle(t, event, rest) ==
    IF event.kind = "completed" THEN Completes(t, event, rest) ELSE Invokes(t, event, "run", rest)

\* nsEventQueueImpl::WaitForEvent and HandleEvent, in PostAndWait and in PL_EventLoop.
TakeEvent(t) ==
    /\ WaitsOn(t) # NoQueue
    /\ PL_EventAvailable(WaitsOn(t))
    /\ t \notin asleep
    /\ PL_GetEvent(WaitsOn(t))
    /\ Handle(t, Head(queue[WaitsOn(t)]), stack[t])
    /\ UNCHANGED <<chainVars, asleep, table, mEventQMonitor>>

Sleep(t) ==
    /\ WaitsOn(t) # NoQueue
    /\ ~PL_EventAvailable(WaitsOn(t))
    /\ t \notin asleep
    /\ asleep' = asleep \union {t}
    /\ UNCHANGED <<queueVars, stack, call, table, mEventQMonitor>>

\* The method returns to EventHandler, and PL_HandleEvent destroys the event: DestroyHandler
\* deletes an asynchronous call and completes a synchronous one.
MethodReturns(t) ==
    /\ In(t, "run")
    /\ LET c == Top(t).c
       IN  IF call[c].type = "async"
           THEN /\ call' = [call EXCEPT ![c] = DeletedCall]
                /\ Returns(t)
           ELSE /\ call' = [call EXCEPT ![c].returned = TRUE]
                /\ Becomes(t, <<Frame("complete", c, call[c].mCallersEventQ)>>)
    /\ UNCHANGED <<queueVars, asleep, table, mEventQMonitor>>

\* PostCompleted.  The caller's queue accepts it: see CallerListens.
PostCompleted(t) ==
    /\ In(t, "complete") /\ mAcceptingEvents[Top(t).q]
    /\ PL_PostEvent(Top(t).q, CompletedEvent(Top(t).c))
    /\ Notify(Top(t).q)
    /\ Becomes(t, <<[Top(t) EXCEPT !.op = "sync"]>>)
    /\ UNCHANGED <<chainVars, call, table, mEventQMonitor>>

SyncReturns(t) ==
    /\ In(t, "sync") /\ Top(t).n = 1
    /\ Returns(t)
    /\ UNCHANGED <<queueVars, asleep, call, table, mEventQMonitor>>

-----------------------------------------------------------------------------
(* The native event loop and modal loops.                                   *)

\* A pipe is readable.  The native loop listens to all native queues of the thread.
NativeLoop(t) ==
    /\ In(t, "modal") \/ (stack[t] = << >> /\ t \in NativeThreads)
    /\ \E q \in Queues :
          /\ handlerThread(q) = t /\ eventPipe[q] > 0
          /\ Pushes(t, <<Frame("enter", 0, q)>>)
    /\ UNCHANGED <<queueVars, asleep, call, table, mEventQMonitor>>

\* A method that processes its thread's events itself; once is enough here.
ProcessOwn(t) ==
    /\ In(t, "run") /\ Top(t).n = 0 /\ MonitorIsFree(t)
    /\ Destination(t) # NoQueue
    /\ Becomes(t, <<Frame("enter", 0, Destination(t)), [Top(t) EXCEPT !.n = 1]>>)
    /\ UNCHANGED <<queueVars, asleep, call, table, mEventQMonitor>>

PushModal(t) ==
    /\ InCode(t) /\ t \in NativeThreads /\ MonitorIsFree(t)
    /\ made[t] < MaxQueues
    /\ MakeNewQueue(t, <<t, made[t]>>)
    /\ Pushes(t, <<Frame("modal", 0, NextQueue(t))>>)
    /\ UNCHANGED <<plVars, asleep, call, table, mEventQMonitor>>

\* PopThreadEventQueue takes the service's monitor, and handles what is left with it.
ModalEnds(t) ==
    /\ In(t, "modal") /\ MonitorIsFree(t)
    /\ StopAcceptingEvents(Top(t).q)
    /\ mEventQMonitor' = t
    /\ Becomes(t, <<Frame("enter", 0, Top(t).q), [Top(t) EXCEPT !.op = "pop"]>>)
    /\ UNCHANGED <<plVars, asleep, call, table>>

PopReturns(t) ==
    /\ In(t, "pop")
    /\ mEventQMonitor' = NoThread
    /\ Returns(t)
    /\ UNCHANGED <<queueVars, asleep, call, table>>

-----------------------------------------------------------------------------
(* nsEventQueueImpl::ProcessPendingEvents.                                  *)

EnterNested(t) ==
    /\ In(t, "enter") \/ In(t, "again")
    /\ ProcessNested(Top(t).q)
    /\ Becomes(t, <<[Top(t) EXCEPT !.op = IF @ = "enter" THEN "after" ELSE "leave"]>>)
    /\ UNCHANGED <<chainVars, asleep, call, table, mEventQMonitor>>

Enter(t) ==
    /\ In(t, "enter") \/ In(t, "again")
    /\ BeginProcessing(Top(t).q)
    /\ Becomes(t, <<[Top(t) EXCEPT !.op = IF @ = "enter" THEN "loop" ELSE "loop2",
                                   !.n = Len(queue[Top(t).q])]>>)
    /\ UNCHANGED <<chainVars, asleep, call, table, mEventQMonitor>>

InLoop(t) == In(t, "loop") \/ In(t, "loop2")

ProcessEvent(t) ==
    /\ InLoop(t) /\ Top(t).n > 0 /\ PL_EventAvailable(Top(t).q)
    /\ PL_GetEvent(Top(t).q)
    /\ Handle(t, Head(queue[Top(t).q]), <<[Top(t) EXCEPT !.n = @ - 1]>> \o Tail(stack[t]))
    /\ UNCHANGED <<chainVars, asleep, table, mEventQMonitor>>

Finish(t) ==
    /\ InLoop(t)
    /\ Top(t).n = 0 \/ ~PL_EventAvailable(Top(t).q)
    /\ EndProcessing(Top(t).q)
    /\ Becomes(t, <<[Top(t) EXCEPT !.op = IF @ = "loop" THEN "after" ELSE "leave", !.n = 0]>>)
    /\ UNCHANGED <<chainVars, asleep, call, table, mEventQMonitor>>

\* A dark queue with events is processed once more; then it is the elder queue's turn.
OnceMore(t) ==
    /\ In(t, "after")
    /\ ~mAcceptingEvents[Top(t).q] /\ PL_EventAvailable(Top(t).q)
    /\ Becomes(t, <<[Top(t) EXCEPT !.op = "again"]>>)
    /\ UNCHANGED <<queueVars, asleep, call, table, mEventQMonitor>>

ToElder(t) ==
    /\ \/ In(t, "leave")
       \/ In(t, "after") /\ (mAcceptingEvents[Top(t).q] \/ ~PL_EventAvailable(Top(t).q))
    /\ IF mElderQueue[Top(t).q] = NoQueue THEN Returns(t)
       ELSE Becomes(t, <<Frame("enter", 0, mElderQueue[Top(t).q])>>)
    /\ UNCHANGED <<queueVars, asleep, call, table, mEventQMonitor>>

-----------------------------------------------------------------------------
\* What a thread does when nothing more is started.
Continue(t) ==
    \/ UseOwnQueue(t) \/ UseNewQueue(t)
    \/ Accepted(t) \/ PassedOn(t) \/ Refused(t) \/ AppendEvent(t) \/ WaitReturns(t)
    \/ TakeEvent(t) \/ Sleep(t) \/ MethodReturns(t) \/ PostCompleted(t) \/ SyncReturns(t)
    \/ NativeLoop(t) \/ ModalEnds(t) \/ PopReturns(t)
    \/ EnterNested(t) \/ Enter(t) \/ ProcessEvent(t) \/ Finish(t) \/ OnceMore(t) \/ ToElder(t)

Next ==
    \E t \in Threads :
        \/ Continue(t)
        \/ PushModal(t) \/ ProcessOwn(t)
        \/ \E c \in Calls : CallSync(t, c) \/ CallAsync(t, c)
        \/ \E c \in Calls, u \in Threads, type \in {"sync", "async"} : MakeProxy(t, c, u, type)

Spec == Init /\ [][Next]_vars
FairSpec == Spec /\ \A t \in Threads : WF_vars(Continue(t))

-----------------------------------------------------------------------------
TypeOK ==
    /\ EventQueueTypeOK(Events)
    /\ stack \in [Threads -> Seq(Frames)]
    /\ asleep \subseteq Threads
    /\ call \in [Calls -> CallInfo]
    /\ table \in [Threads -> Queues \union {NoQueue}]
    /\ mEventQMonitor \in Threads \union {NoThread}

\* Everything that will touch the record of a call or wake its caller: a post, an event, a
\* handler, and, when that is done, the flag that the caller's loop tests.
Places(c) ==
    (UNION {{<<t, i>> : i \in {j \in DOMAIN stack[t] :
                stack[t][j].c = c /\ stack[t][j].op \in {"post", "append", "run", "complete"}}} : t \in Threads})
    \union (UNION {{<<q, i>> : i \in {j \in DOMAIN queue[q] : queue[q][j].c = c}} : q \in Queues})
    \union (IF call[c].mCompleted \/ call[c].refused THEN {"flag"} ELSE {})

\* From the post to the end a call is in one place: one event, or one thread, has it, so that it
\* is neither forgotten nor made twice.  PostAndWait deletes the record, asynchronous calls are
\* deleted by the thread that handles them: nobody has a call that is deleted, or changes it.
OnePlace ==
    \A c \in Calls :
        /\ (call[c].made /\ ~\E t \in Threads : In(t, "lookup") /\ Top(t).c = c) => Cardinality(Places(c)) = 1
        /\ call[c].type = "deleted" => call[c] = DeletedCall /\ Places(c) = {}

\* As long as a synchronous call is out, its caller is in PostAndWait, and the queue that its
\* completion goes to accepts events and is the one that the caller takes events from: modal
\* loops and nested calls come and go above it, and none of them makes that queue go dark.
CallerListens ==
    \A c \in Calls :
        (call[c].type = "sync" /\ call[c].mCallersEventQ # NoQueue) =>
            /\ mAcceptingEvents[call[c].mCallersEventQ]
            /\ \E t \in Threads, i \in 1 .. Len(stack[handlerThread(call[c].mCallersEventQ)]) :
                  /\ t = handlerThread(call[c].mCallersEventQ)
                  /\ stack[t][i].op = "wait" /\ stack[t][i].c = c
                  /\ stack[t][i].q = call[c].mCallersEventQ

\* No call is lost: its event, its record and the answer to it are where they are looked for.
NoCallIsLost == OnePlace /\ CallerListens

\* What a caller may rely on: see RemoteCall.
phase == [c \in Calls |->
    IF call[c].type = "deleted" THEN "ended"
    ELSE IF ~call[c].made THEN "idle"
    ELSE IF call[c].returned THEN "returned"
    ELSE IF call[c].invoked = 0 THEN IF call[c].type = "sync" THEN "called" ELSE "sent"
    ELSE IF call[c].invoked = 1 THEN IF call[c].type = "sync" THEN "running" ELSE "acting"
    ELSE "twice"]
Remote == INSTANCE RemoteCall
ImplementsRemoteCall == Remote!Spec

-----------------------------------------------------------------------------
(* When a thread never goes on.                                             *)

HasCall(t, c) == \E i \in DOMAIN stack[t] : stack[t][i].c = c /\ stack[t][i].op \in {"run", "complete", "sync"}
IsQueued(q, c) == \E i \in DOMAIN queue[q] : queue[q][i] = CallEvent(c)

\* The threads one of which has to act before t can: the one that has t's call or its queue, the
\* one that is to take t's completion event, the one with the service's monitor.
Awaits(t) ==
    IF In(t, "sync") /\ Top(t).n = 0 THEN {handlerThread(Top(t).q)}
    ELSE IF ~MonitorIsFree(t) /\ (In(t, "lookup") \/ (In(t, "wait") /\ call[Top(t).c].mCompleted /\ Top(t).n = 1))
         THEN {mEventQMonitor}
    ELSE IF In(t, "wait") /\ t \in asleep
         THEN {u \in Threads : HasCall(u, Top(t).c) \/ \E q \in Queues : handlerThread(q) = u /\ IsQueued(q, Top(t).c)}
    ELSE {}

\* Threads that wait for each other.
Embrace == \E S \in SUBSET Threads : S # {} /\ \A t \in S : Awaits(t) # {} /\ Awaits(t) \subseteq S

\* A call that was refused, or whose queue was destroyed with the loop that it was made for.
Lost(c) == call[c].refused \/ \E q \in Queues : IsQueued(q, c) /\ ~mAcceptingEvents[q] /\ ~IsQueueNative(q)

Stuck == Embrace \/ \E c \in Calls : Lost(c)

\* Every call ends, unless threads come to wait for each other or a call is lost: nobody sleeps
\* beside an event, nothing is left in the queue of a modal loop, whoever posts to it and when,
\* and nested loops return in the end.  And the native loop comes to rest: bytes that were
\* written for events that some other loop has taken do not wake it for ever.
ComesToRest ==
    <>[](Stuck \/ (/\ \A c \in Calls : ~call[c].made
                  /\ \A q \in Queues : eventPipe[q] = 0))
==============================================================================
