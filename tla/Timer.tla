------------------------------- MODULE Timer ---------------------------------
(***************************************************************************)
(* Timers (xpcom/threads): nsTimerImpl, used by the thread that owns the   *)
(* timers, and TimerThread, which keeps the armed ones in a list and posts *)
(* an event to the owner's queue when one is due.                          *)
(*                                                                         *)
(* What is done under TimerThread::mLock is one action.  nsTimerImpl reads *)
(* and writes its fields without a lock, so Init, SetDelay, Release and    *)
(* PostTimerEvent are several actions each.  Time is a counter that wraps. *)
(* The model ends when Shutdown has joined the timer thread.               *)
(***************************************************************************)
EXTENDS Integers, Sequences, FiniteSets

CONSTANTS
    Timers, NoTimer,
    Domain,             \* interval times are 0..Domain - 1
    Delays,             \* delays that are asked for
    Types,              \* timer types that are asked for
    Adjustments,        \* values of mTimeoutAdjustment
    IdleOps,            \* what the owner calls outside of callbacks
    CallbackOps,        \* what callbacks call
    MaxGeneration,      \* bound: number of Inits
    MaxReferences,      \* bound: references to a timer beyond which SetDelay and SetType are not called
    MaxLag              \* bound: how late a due timer and its event are served

ONE_SHOT == 0
REPEATING_SLACK == 1
REPEATING_PRECISE == 2
Forever == -1           \* PR_INTERVAL_NO_TIMEOUT

ASSUME TimerAssumption ==
    /\ NoTimer \notin Timers
    /\ Domain \in Nat \ {0} /\ Domain % 2 = 0
    /\ Types \subseteq {ONE_SHOT, REPEATING_SLACK, REPEATING_PRECISE}
    /\ Delays \subseteq Nat /\ Adjustments \subseteq Int
    /\ MaxGeneration \in Nat /\ MaxReferences \in Nat /\ MaxLag \in Nat
    /\ \A d \in Delays : d + MaxLag < Domain \div 2

VARIABLES
    now,            \* PR_IntervalNow()
    \* nsTimerImpl, for every timer
    mArmed, mCanceled, mGeneration, mType, mDelay, mTimeout, mRefCnt,
    gGenerator,
    \* TimerThread
    mTimers, mShutdown,
    pc,             \* where Run and PostTimerEvent are
    cur,            \* the timer Run has taken out of the list
    curGeneration,  \* the generation PostTimerEvent has copied
    wakeAt,         \* when the wait on mCondVar ends
    \* The owner's thread
    events,         \* its event queue: timer and generation
    ownerPc,        \* idle, in a callback, in Fire behind it, or in Shutdown
    handled,        \* the timer whose event is handled
    opPc, opTimer,  \* where the owner is in Init or SetDelay, and of which timer
    held,           \* does the owner have a reference?
    relPc, relTimer,    \* where the owner is in Release, and of which timer
    lag,            \* how many ticks the threads are behind
    tooEarly,       \* ticks until the timer may call back, counted in real time
    raced           \* timers ever initialised while PostTimerEvent was at work on them

implVars == <<mArmed, mCanceled, mGeneration, mType, mDelay, mTimeout, mRefCnt, gGenerator>>
threadVars == <<mTimers, mShutdown, pc, cur, curGeneration, wakeAt>>
ownerVars == <<events, ownerPc, handled, opPc, opTimer, held, relPc, relTimer>>
ghosts == <<tooEarly, raced>>
vars == <<now, implVars, threadVars, ownerVars, lag, ghosts>>

Init ==
    /\ now \in 0..Domain - 1
    /\ mArmed = [t \in Timers |-> FALSE] /\ mCanceled = [t \in Timers |-> FALSE]
    /\ mGeneration = [t \in Timers |-> 0] /\ mType = [t \in Timers |-> ONE_SHOT]
    /\ mDelay = [t \in Timers |-> 0] /\ mTimeout = [t \in Timers |-> 0]
    /\ mRefCnt = [t \in Timers |-> 1] /\ gGenerator = 0
    /\ mTimers = <<>> /\ mShutdown = FALSE
    /\ pc = "scan" /\ cur = NoTimer /\ curGeneration = 0 /\ wakeAt = Forever
    /\ events = <<>> /\ ownerPc = "idle" /\ handled = NoTimer
    /\ opPc = "none" /\ opTimer = NoTimer
    /\ held = [t \in Timers |-> TRUE]
    /\ relPc = "none" /\ relTimer = NoTimer
    /\ lag = 0 /\ tooEarly = [t \in Timers |-> 0] /\ raced = {}

------------------------------------------------------------------------------
(* Time and the list.                                                       *)

\* TIMER_LESS_THAN: is t before u, even if t has wrapped?
LessThan(t, u) == (t - u) % Domain > Domain \div 2

Listed(t) == \E i \in 1..Len(mTimers) : mTimers[i] = t

\* nsVoidArray::RemoveElement: the first of the elements that equal t.
RemoveElement(s, t) ==
    LET i == CHOOSE i \in 1..Len(s) : s[i] = t /\ \A j \in 1..i - 1 : s[j] # t
    IN  SubSeq(s, 1, i - 1) \o SubSeq(s, i + 1, Len(s))

\* Mutant: timers are listed in the order in which they are armed.
PositionAtEnd(s, t) == Len(s) + 1
\* Where AddTimerInternal puts t: before the first timer that is due later.
Position(s, t) ==
    CHOOSE i \in 1..Len(s) + 1 :
        /\ i <= Len(s) => LessThan(mTimeout[t], mTimeout[s[i]])
        /\ \A j \in 1..i - 1 : ~LessThan(mTimeout[t], mTimeout[s[j]])

InsertElement(s, t) ==
    LET i == Position(s, t) IN SubSeq(s, 1, i - 1) \o <<t>> \o SubSeq(s, i, Len(s))

\* Mutant: nobody is notified.
NoWakeup(cond) == UNCHANGED <<pc, wakeAt>>
\* PR_NotifyCondVar, when the timer thread waits and the condition holds.
Wakeup(cond) ==
    IF pc = "wait" /\ cond THEN pc' = "scan" /\ wakeAt' = Forever ELSE UNCHANGED <<pc, wakeAt>>

\* Mutant: the reference the list held is not dropped.
DisarmedKeepsReference(t) ==
    IF Listed(t)
    THEN /\ mTimers' = RemoveElement(mTimers, t)
         /\ mArmed' = [mArmed EXCEPT ![t] = FALSE] /\ UNCHANGED mRefCnt
    ELSE UNCHANGED <<mTimers, mArmed, mRefCnt>>
\* RemoveTimerInternal; dropping the list's reference may destroy the timer.
Disarmed(t) ==
    IF Listed(t)
    THEN /\ mTimers' = RemoveElement(mTimers, t)
         /\ mArmed' = [mArmed EXCEPT ![t] = FALSE]
         /\ mRefCnt' = [mRefCnt EXCEPT ![t] = @ - 1]
    ELSE UNCHANGED <<mTimers, mArmed, mRefCnt>>

\* AddTimerInternal, with the list's own reference.
Armed(t) ==
    /\ mTimers' = InsertElement(mTimers, t)
    /\ mArmed' = [mArmed EXCEPT ![t] = TRUE]
    /\ mRefCnt' = [mRefCnt EXCEPT ![t] = @ + 1]

\* Mutant: a precise timer starts anew from the present time.
DelayedFromNow(t, type, d) == (now + d) % Domain
\* SetDelayInternal: the timeout of a timer of this type with this delay.  The value 0
\* of mTimeout stands for "never set".
KeepsPhase(t, type) == mTimeout[t] # 0 /\ type = REPEATING_PRECISE
Delayed(t, type, d) == ((IF KeepsPhase(t, type) THEN mTimeout[t] ELSE now) + d) % Domain

------------------------------------------------------------------------------
(* TimerThread::Run and nsTimerImpl::PostTimerEvent.                        *)

Due(t, adjustment) == ~LessThan(now, (mTimeout[t] + adjustment) % Domain)

\* Mutant: Run takes no reference of its own.
RunTakesUncounted(adjustment) ==
    /\ pc = "scan" /\ ~mShutdown
    /\ mTimers # <<>> /\ Due(Head(mTimers), adjustment)
    /\ cur' = Head(mTimers)
    /\ mTimers' = Tail(mTimers)
    /\ mArmed' = [mArmed EXCEPT ![Head(mTimers)] = FALSE]
    /\ mRefCnt' = [mRefCnt EXCEPT ![Head(mTimers)] = @ - 1]
    /\ pc' = "copy"
    /\ UNCHANGED <<now, mCanceled, mGeneration, mType, mDelay, mTimeout, gGenerator,
                   mShutdown, curGeneration, wakeAt, ownerVars, ghosts>>
\* Run takes the first timer when it is due.  Its own reference takes the place of
\* the list's.
RunTakes(adjustment) ==
    /\ pc = "scan" /\ ~mShutdown
    /\ mTimers # <<>> /\ Due(Head(mTimers), adjustment)
    /\ cur' = Head(mTimers)
    /\ mTimers' = Tail(mTimers)
    /\ mArmed' = [mArmed EXCEPT ![Head(mTimers)] = FALSE]
    /\ pc' = "copy"
    /\ UNCHANGED <<now, mCanceled, mGeneration, mType, mDelay, mTimeout, mRefCnt, gGenerator,
                   mShutdown, curGeneration, wakeAt, ownerVars, ghosts>>

RunWaits(adjustment) ==
    /\ pc = "scan" /\ ~mShutdown
    /\ mTimers # <<>> => ~Due(Head(mTimers), adjustment)
    /\ pc' = "wait"
    /\ wakeAt' = IF mTimers = <<>> THEN Forever ELSE (mTimeout[Head(mTimers)] + adjustment) % Domain
    /\ UNCHANGED <<now, implVars, mTimers, mShutdown, cur, curGeneration, ownerVars, ghosts>>

RunTimesOut ==
    /\ pc = "wait" /\ wakeAt # Forever /\ ~LessThan(now, wakeAt)
    /\ pc' = "scan" /\ wakeAt' = Forever
    /\ UNCHANGED <<now, implVars, mTimers, mShutdown, cur, curGeneration, ownerVars, ghosts>>

RunExits ==
    /\ pc = "scan" /\ mShutdown
    /\ pc' = "exit"
    /\ UNCHANGED <<now, implVars, mTimers, mShutdown, cur, curGeneration, wakeAt, ownerVars, ghosts>>

CopyGeneration ==
    /\ pc = "copy"
    /\ curGeneration' = mGeneration[cur]
    /\ pc' = "repeat"
    /\ UNCHANGED <<now, implVars, mTimers, mShutdown, cur, wakeAt, ownerVars, ghosts>>

\* The next time of a precise timer is computed before this one is delivered.
RepeatPrecise ==
    /\ pc = "repeat"
    /\ IF mType[cur] = REPEATING_PRECISE
       THEN /\ mTimeout' = [mTimeout EXCEPT ![cur] = Delayed(cur, mType[cur], mDelay[cur])]
            /\ pc' = "rearm"
       ELSE /\ pc' = "post" /\ UNCHANGED mTimeout
    /\ UNCHANGED <<now, mArmed, mCanceled, mGeneration, mType, mDelay, mRefCnt, gGenerator,
                   mTimers, mShutdown, cur, curGeneration, wakeAt, ownerVars, ghosts>>

Rearm ==
    /\ pc = "rearm"
    /\ Armed(cur)
    /\ pc' = "post"
    /\ UNCHANGED <<now, mCanceled, mGeneration, mType, mDelay, mTimeout, gGenerator,
                   mShutdown, cur, curGeneration, wakeAt, ownerVars, ghosts>>

\* Run's reference goes with the event.
PostEvent ==
    /\ pc = "post"
    /\ events' = Append(events, [timer |-> cur, generation |-> curGeneration])
    /\ cur' = NoTimer /\ curGeneration' = 0
    /\ pc' = "scan"
    /\ UNCHANGED <<now, implVars, mTimers, mShutdown, wakeAt,
                   ownerPc, handled, opPc, opTimer, held, relPc, relTimer, ghosts>>

ThreadStep ==
    \/ \E a \in Adjustments : RunTakes(a) \/ RunWaits(a)
    \/ RunTimesOut \/ RunExits \/ CopyGeneration \/ RepeatPrecise \/ Rearm \/ PostEvent

------------------------------------------------------------------------------
(* nsTimerImpl on the owner's thread.                                       *)

OwnerFree == ownerPc \in {"idle", "callback"} /\ opPc = "none" /\ relPc = "none"
May(op) == OwnerFree /\ op \in (IF ownerPc = "idle" THEN IdleOps ELSE CallbackOps)
Firing(t) == ownerPc = "callback" /\ handled = t

\* Mutant: an armed timer is not taken out of the list.
InitTimerListed(t) ==
    /\ May(IF mGeneration[t] = 0 THEN "init" ELSE "reinit") /\ held[t] /\ gGenerator < MaxGeneration
    /\ mCanceled' = [mCanceled EXCEPT ![t] = FALSE]
    /\ gGenerator' = gGenerator + 1
    /\ mGeneration' = [mGeneration EXCEPT ![t] = gGenerator + 1]
    /\ raced' = IF cur = t /\ pc # "post" THEN raced \cup {t} ELSE raced
    /\ opPc' = "delay" /\ opTimer' = t
    /\ UNCHANGED <<now, mArmed, mType, mDelay, mTimeout, mRefCnt, threadVars,
                   events, ownerPc, handled, held, relPc, relTimer, tooEarly>>
\* InitCommon, up to the new generation.
InitTimer(t) ==
    /\ May(IF mGeneration[t] = 0 THEN "init" ELSE "reinit") /\ held[t] /\ gGenerator < MaxGeneration
    /\ IF mArmed[t] THEN Disarmed(t) /\ Wakeup(Listed(t)) ELSE UNCHANGED <<mTimers, mArmed, mRefCnt, pc, wakeAt>>
    /\ mCanceled' = [mCanceled EXCEPT ![t] = FALSE]
    /\ gGenerator' = gGenerator + 1
    /\ mGeneration' = [mGeneration EXCEPT ![t] = gGenerator + 1]
    /\ raced' = IF cur = t /\ pc # "post" THEN raced \cup {t} ELSE raced
    /\ opPc' = "delay" /\ opTimer' = t
    /\ UNCHANGED <<now, mType, mDelay, mTimeout, mShutdown, cur, curGeneration,
                   events, ownerPc, handled, held, relPc, relTimer, tooEarly>>

InitDelay(type, d) ==
    /\ opPc = "delay"
    /\ mType' = [mType EXCEPT ![opTimer] = type]
    /\ mDelay' = [mDelay EXCEPT ![opTimer] = d]
    /\ mTimeout' = [mTimeout EXCEPT ![opTimer] = Delayed(opTimer, type, d)]
    /\ tooEarly' = [tooEarly EXCEPT ![opTimer] = IF KeepsPhase(opTimer, type) THEN 0 ELSE d]
    /\ opPc' = "add"
    /\ UNCHANGED <<now, mArmed, mCanceled, mGeneration, mRefCnt, gGenerator, threadVars,
                   events, ownerPc, handled, opTimer, held, relPc, relTimer, raced>>

\* TimerThread::AddTimer, called by InitCommon.
InitAdd ==
    /\ opPc = "add"
    /\ Armed(opTimer)
    /\ Wakeup(Position(mTimers, opTimer) = 1)
    /\ opPc' = "none" /\ opTimer' = NoTimer
    /\ UNCHANGED <<now, mCanceled, mGeneration, mType, mDelay, mTimeout, gGenerator,
                   mShutdown, cur, curGeneration,
                   events, ownerPc, handled, held, relPc, relTimer, ghosts>>

Cancel(t) ==
    /\ May("cancel") /\ held[t]
    /\ mCanceled' = [mCanceled EXCEPT ![t] = TRUE]
    /\ Disarmed(t) /\ Wakeup(Listed(t))
    /\ UNCHANGED <<now, mGeneration, mType, mDelay, mTimeout, gGenerator,
                   mShutdown, cur, curGeneration, ownerVars, ghosts>>

\* SetDelay, before TimerDelayChanged: whatever the type, the new delay counts from now.
SetDelay(t, d) ==
    /\ May("delay") /\ held[t] /\ mRefCnt[t] <= MaxReferences
    /\ mTimeout' = [mTimeout EXCEPT ![t] = (now + d) % Domain]
    /\ mDelay' = [mDelay EXCEPT ![t] = d]
    /\ tooEarly' = [tooEarly EXCEPT ![t] = 0]
    /\ IF Firing(t) THEN UNCHANGED <<opPc, opTimer>> ELSE opPc' = "changed" /\ opTimer' = t
    /\ UNCHANGED <<now, mArmed, mCanceled, mGeneration, mType, mRefCnt, gGenerator, threadVars,
                   events, ownerPc, handled, held, relPc, relTimer, raced>>

\* Mutant: the timer is added where it was not removed.
OthersAndItself(t) == mTimers
\* TimerDelayChanged removes the timer, if it is listed, and adds it.
Others(t) == IF Listed(t) THEN RemoveElement(mTimers, t) ELSE mTimers

TimerDelayChanged ==
    /\ opPc = "changed"
    /\ mTimers' = InsertElement(Others(opTimer), opTimer)
    /\ Wakeup(Position(Others(opTimer), opTimer) = 1)
    /\ mArmed' = [mArmed EXCEPT ![opTimer] = TRUE]
    /\ mRefCnt' = [mRefCnt EXCEPT ![opTimer] = IF Listed(opTimer) THEN @ ELSE @ + 1]
    /\ opPc' = "none" /\ opTimer' = NoTimer
    /\ UNCHANGED <<now, mCanceled, mGeneration, mType, mDelay, mTimeout, gGenerator,
                   mShutdown, cur, curGeneration,
                   events, ownerPc, handled, held, relPc, relTimer, ghosts>>

SetType(t, type) ==
    /\ May("type") /\ held[t] /\ mRefCnt[t] <= MaxReferences
    /\ mType' = [mType EXCEPT ![t] = type]
    /\ UNCHANGED <<now, mArmed, mCanceled, mGeneration, mDelay, mTimeout, mRefCnt, gGenerator,
                   threadVars, ownerVars, ghosts>>

\* The owner drops its reference.
ReleaseTimer(t) ==
    /\ May("release") /\ held[t]
    /\ held' = [held EXCEPT ![t] = FALSE]
    /\ relPc' = "drop" /\ relTimer' = t
    /\ UNCHANGED <<now, implVars, threadVars, events, ownerPc, handled, opPc, opTimer, ghosts>>

EndRelease == relPc' = "none" /\ relTimer' = NoTimer

\* nsTimerImpl::Release in three steps: the count, mArmed, TimerThread::RemoveTimer.
DropReference ==
    /\ relPc = "drop"
    /\ mRefCnt' = [mRefCnt EXCEPT ![relTimer] = @ - 1]
    /\ IF mRefCnt[relTimer] = 2 THEN relPc' = "test" /\ UNCHANGED relTimer ELSE EndRelease
    /\ UNCHANGED <<now, mArmed, mCanceled, mGeneration, mType, mDelay, mTimeout, gGenerator,
                   threadVars, events, ownerPc, handled, opPc, opTimer, held, ghosts>>

\* Mutant: an armed timer that nobody holds is left in the list.
LeaveArmed ==
    /\ relPc = "test"
    /\ EndRelease
    /\ UNCHANGED <<now, implVars, threadVars, events, ownerPc, handled, opPc, opTimer, held, ghosts>>
TestArmed ==
    /\ relPc = "test"
    /\ IF mArmed[relTimer]
       THEN mCanceled' = [mCanceled EXCEPT ![relTimer] = TRUE] /\ relPc' = "remove" /\ UNCHANGED relTimer
       ELSE EndRelease /\ UNCHANGED mCanceled
    /\ UNCHANGED <<now, mArmed, mGeneration, mType, mDelay, mTimeout, mRefCnt, gGenerator,
                   threadVars, events, ownerPc, handled, opPc, opTimer, held, ghosts>>

RemoveReleased ==
    /\ relPc = "remove"
    /\ Disarmed(relTimer) /\ Wakeup(Listed(relTimer))
    /\ EndRelease
    /\ UNCHANGED <<now, mCanceled, mGeneration, mType, mDelay, mTimeout, gGenerator,
                   mShutdown, cur, curGeneration,
                   events, ownerPc, handled, opPc, opTimer, held, ghosts>>

------------------------------------------------------------------------------
(* Events on the owner's thread.                                            *)

\* Mutant: the generation is not compared.
FiresAnyGeneration(e) == ~mCanceled[e.timer]
\* handleTimerEvent and the head of Fire.
Fires(e) == e.generation = mGeneration[e.timer] /\ ~mCanceled[e.timer]

\* Behind the handler destroyTimerEvent drops the event's reference.
DestroyEvent(t) == relPc' = "drop" /\ relTimer' = t

HandleEvent ==
    /\ ownerPc = "idle" /\ OwnerFree /\ events # <<>>
    /\ events' = Tail(events)
    /\ IF Fires(Head(events))
       THEN /\ ownerPc' = "callback" /\ handled' = Head(events).timer
            /\ UNCHANGED <<relPc, relTimer>>
       ELSE DestroyEvent(Head(events).timer) /\ UNCHANGED <<ownerPc, handled>>
    /\ UNCHANGED <<now, implVars, threadVars, opPc, opTimer, held, ghosts>>

\* A precise timer is started again by PostTimerEvent, a slack timer behind its callback.
StartsAgain(t) == mType[t] = REPEATING_SLACK

\* The callback has returned; a slack timer gets its next time.
CallbackReturns ==
    /\ ownerPc = "callback" /\ OwnerFree
    /\ IF StartsAgain(handled)
       THEN /\ mTimeout' = [mTimeout EXCEPT ![handled] = Delayed(handled, mType[handled], mDelay[handled])]
            /\ tooEarly' = [tooEarly EXCEPT ![handled] = mDelay[handled]]
            /\ ownerPc' = "rearm" /\ UNCHANGED <<handled, relPc, relTimer>>
       ELSE /\ DestroyEvent(handled)
            /\ ownerPc' = "idle" /\ handled' = NoTimer /\ UNCHANGED <<mTimeout, tooEarly>>
    /\ UNCHANGED <<now, mArmed, mCanceled, mGeneration, mType, mDelay, mRefCnt, gGenerator,
                   threadVars, events, opPc, opTimer, held, raced>>

\* Mutant: the slack timer is not started again.
RearmSlackForgets ==
    /\ ownerPc = "rearm"
    /\ DestroyEvent(handled)
    /\ ownerPc' = "idle" /\ handled' = NoTimer
    /\ UNCHANGED <<now, implVars, threadVars, events, opPc, opTimer, held, ghosts>>
\* Fire's AddTimer for a slack timer.
RearmSlack ==
    /\ ownerPc = "rearm"
    /\ Armed(handled) /\ Wakeup(Position(mTimers, handled) = 1)
    /\ DestroyEvent(handled)
    /\ ownerPc' = "idle" /\ handled' = NoTimer
    /\ UNCHANGED <<now, mCanceled, mGeneration, mType, mDelay, mTimeout, gGenerator,
                   mShutdown, cur, curGeneration, events, opPc, opTimer, held, ghosts>>

\* Mutant: the timer thread is not told.
ShutdownUntold ==
    /\ ownerPc = "idle" /\ OwnerFree /\ "shutdown" \in IdleOps
    /\ mShutdown' = TRUE /\ ownerPc' = "joining"
    /\ mTimers' = <<>> /\ mArmed' = [t \in Timers |-> mArmed[t] /\ ~Listed(t)]
    /\ mRefCnt' = [t \in Timers |-> mRefCnt[t] - Cardinality({i \in 1..Len(mTimers) : mTimers[i] = t})]
    /\ UNCHANGED <<now, mCanceled, mGeneration, mType, mDelay, mTimeout, gGenerator,
                   pc, cur, curGeneration, wakeAt, events, handled, opPc, opTimer, held, relPc, relTimer, ghosts>>
\* TimerThread::Shutdown, up to the join.
Shutdown ==
    /\ ownerPc = "idle" /\ OwnerFree /\ "shutdown" \in IdleOps
    /\ mShutdown' = TRUE /\ ownerPc' = "joining" /\ Wakeup(TRUE)
    /\ mTimers' = <<>> /\ mArmed' = [t \in Timers |-> mArmed[t] /\ ~Listed(t)]
    /\ mRefCnt' = [t \in Timers |-> mRefCnt[t] - Cardinality({i \in 1..Len(mTimers) : mTimers[i] = t})]
    /\ UNCHANGED <<now, mCanceled, mGeneration, mType, mDelay, mTimeout, gGenerator,
                   cur, curGeneration, events, handled, opPc, opTimer, held, relPc, relTimer, ghosts>>

ShutdownJoined ==
    /\ ownerPc = "joining" /\ pc = "exit"
    /\ ownerPc' = "closed"
    /\ UNCHANGED <<now, implVars, threadVars, events, handled, opPc, opTimer, held, relPc, relTimer, ghosts>>

OwnerCalls ==
    \/ \E t \in Timers : \/ InitTimer(t) \/ Cancel(t) \/ ReleaseTimer(t)
                         \/ \E d \in Delays : SetDelay(t, d)
                         \/ \E type \in Types : SetType(t, type)
    \/ Shutdown

OwnerStep ==
    \/ \E type \in Types, d \in Delays : InitDelay(type, d)
    \/ InitAdd \/ TimerDelayChanged
    \/ DropReference \/ TestArmed \/ RemoveReleased
    \/ HandleEvent \/ CallbackReturns \/ RearmSlack \/ ShutdownJoined

------------------------------------------------------------------------------
(* Time.                                                                    *)

\* One of the threads has something to do.
Outstanding ==
    \/ events # <<>> \/ cur # NoTimer \/ ownerPc # "idle"
    \/ opPc # "none" \/ relPc # "none"
    \/ pc = "scan" /\ mTimers # <<>> /\ Due(Head(mTimers), 0)
    \/ pc = "wait" /\ wakeAt # Forever /\ ~LessThan(now, wakeAt)

\* The threads are at most MaxLag ticks behind.
Tick ==
    /\ IF Outstanding THEN lag < MaxLag /\ lag' = lag + 1 ELSE lag' = 0
    /\ now' = (now + 1) % Domain
    /\ tooEarly' = [t \in Timers |-> IF tooEarly[t] > 0 THEN tooEarly[t] - 1 ELSE 0]
    /\ UNCHANGED <<implVars, threadVars, ownerVars, raced>>

Next ==
    \/ (ThreadStep \/ OwnerCalls \/ OwnerStep) /\ UNCHANGED lag
    \/ Tick
Spec == Init /\ [][Next]_vars

\* Both threads run, callbacks return and time goes on; nobody has to call.
FairSpec == Spec /\ WF_vars(ThreadStep /\ UNCHANGED lag) /\ WF_vars(OwnerStep /\ UNCHANGED lag) /\ WF_vars(Tick)

------------------------------------------------------------------------------
(* Properties.                                                              *)

\* Every field keeps its type.
TypeOK ==
    /\ now \in 0..Domain - 1 /\ lag \in 0..MaxLag
    /\ mArmed \in [Timers -> BOOLEAN] /\ mCanceled \in [Timers -> BOOLEAN]
    /\ mGeneration \in [Timers -> 0..MaxGeneration] /\ gGenerator \in 0..MaxGeneration
    /\ mType \in [Timers -> {ONE_SHOT, REPEATING_SLACK, REPEATING_PRECISE}]
    /\ mDelay \in [Timers -> Nat] /\ mTimeout \in [Timers -> 0..Domain - 1]
    /\ mRefCnt \in [Timers -> Nat]
    /\ mTimers \in Seq(Timers) /\ mShutdown \in BOOLEAN
    /\ pc \in {"scan", "wait", "copy", "repeat", "rearm", "post", "exit"}
    /\ cur \in Timers \cup {NoTimer} /\ curGeneration \in 0..MaxGeneration
    /\ wakeAt \in 0..Domain - 1 \cup {Forever}
    /\ events \in Seq([timer : Timers, generation : 0..MaxGeneration])
    /\ ownerPc \in {"idle", "callback", "rearm", "joining", "closed"}
    /\ handled \in Timers \cup {NoTimer}
    /\ opPc \in {"none", "delay", "add", "changed"} /\ opTimer \in Timers \cup {NoTimer}
    /\ held \in [Timers -> BOOLEAN]
    /\ relPc \in {"none", "drop", "test", "remove"} /\ relTimer \in Timers \cup {NoTimer}
    /\ tooEarly \in [Timers -> Nat] /\ raced \subseteq Timers

\* The reference count of a timer is the number of references there are: the
\* owner's, the list's, Run's, those of events in the queue and in handling, and
\* those Release is about to drop.
One(b) == IF b THEN 1 ELSE 0
References(t) ==
    One(held[t]) + Cardinality({i \in 1..Len(mTimers) : mTimers[i] = t}) + One(cur = t)
    + Cardinality({i \in 1..Len(events) : events[i].timer = t}) + One(handled = t)
    + One(relPc = "drop" /\ relTimer = t)
CountsAreReferences == \A t \in Timers : mRefCnt[t] = References(t)

\* With exact counts, Release looks at mArmed and writes mCanceled of a timer that still
\* exists, although it has given its reference up by then: "we defer destruction until we're
\* sure that only one thread has its hot little hands on this timer."
HandsOff == CountsAreReferences /\ (relPc = "test" => mRefCnt[relTimer] > 0)

\* A timer is armed exactly while it is in the list, and it is there once.
ArmedIsListed == \A t \in Timers : mArmed[t] <=> Listed(t)
ListedOnce == \A i, j \in 1..Len(mTimers) : mTimers[i] = mTimers[j] => i = j

\* However often timers are initialised, one that was never initialised while PostTimerEvent
\* was at work on it is armed exactly while it is in the list, and it is there once.
ListedAsArmed ==
    \A t \in Timers \ raced :
        /\ mArmed[t] <=> Listed(t)
        /\ \A i, j \in 1..Len(mTimers) : mTimers[i] = t /\ mTimers[j] = t => i = j

\* The list is in the order of the timeouts, across the wrap of the interval time.
ListIsOrdered ==
    \A i, j \in 1..Len(mTimers) : i < j => ~LessThan(mTimeout[mTimers[j]], mTimeout[mTimers[i]])

\* The timer thread's list: what a timer thinks of it, and what Run relies on.
ListIsRight == ArmedIsListed /\ ListedOnce /\ ListIsOrdered

\* The timer thread does not sleep beyond the time of the first timer, unless that
\* is being changed.
NoOversleep ==
    pc = "wait" /\ mTimers # <<>> /\ opPc # "changed" =>
        /\ wakeAt # Forever
        /\ \E a \in Adjustments : ~LessThan((mTimeout[Head(mTimers)] + a) % Domain, wakeAt)

\* A callback comes no earlier than the delay after Init, or after the end of a slack
\* timer's last callback.
NeverEarly == [][\A t \in Timers : ~Firing(t) /\ Firing(t)' => tooEarly[t] = 0]_vars

\* An event of an earlier Init calls nobody back early, unless the timer was once
\* initialised while PostTimerEvent was at work on it: before it had the generation,
\* or before it had added a precise timer anew.  No later Init makes up for that: of the
\* two places the timer then has in the list, RemoveTimer finds one.
EarlyOnlyByRace ==
    [][\A t \in Timers \ raced : ~Firing(t) /\ Firing(t)' => tooEarly[t] = 0]_vars

\* Wanted: initialised, not cancelled, still held, and not a one-shot that has fired.
Wanted(t) ==
    /\ mGeneration[t] > 0 /\ ~mCanceled[t] /\ held[t] /\ ~mShutdown
    /\ mArmed[t] \/ mType[t] # ONE_SHOT
Rings == \A t \in Timers : Wanted(t) ~> (Firing(t) \/ ~Wanted(t))

\* Shutdown returns.
ShutdownReturns == mShutdown ~> ownerPc = "closed"

\* A timer that nobody but the timers' own machinery holds any more is destroyed,
\* unless it was initialised while PostTimerEvent was at work on it: a precise timer is
\* then listed twice, and Release never finds the list's to be the last reference.
Destroyed == \A t \in Timers : (~held[t] /\ t \notin raced) ~> (mRefCnt[t] = 0 \/ mShutdown)

\* Timers ring while they are wanted, and come to an end when they are not.
Progress == Rings /\ ShutdownReturns /\ Destroyed
==============================================================================
