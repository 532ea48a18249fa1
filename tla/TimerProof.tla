------------------------------ MODULE TimerProof -------------------------------
(***************************************************************************)
(* Proofs about Timer: every field keeps its type, and the reference       *)
(* counts are what the holders of references make them, whatever the owner *)
(* calls and whenever, so that Release touches no timer that is gone.      *)
(*                                                                         *)
(* Of owners that do not change the delay or the type of a timer and whose *)
(* callbacks initialise new timers only (OneAtATime): a timer that was     *)
(* never initialised while PostTimerEvent was at work on it has one place, *)
(* is listed just while it is armed, and calls back no earlier than Run's  *)
(* adjustment makes it; the timer thread does not oversleep.  Of those     *)
(* that also initialise each timer once (InitOnce): the list stays in the  *)
(* order of the timeouts, across the wrap of the clock.                    *)
(***************************************************************************)
EXTENDS Timer, SequenceCounts

Event == [timer : Timers, generation : 0..MaxGeneration]
EventsOf(t) == {e \in Event : e.timer = t}

\* CountsAreReferences in terms of Count; Holders are the references outside of the list
\* and the queue.
Holders(t) == One(held[t]) + One(cur = t) + One(handled = t) + One(relPc = "drop" /\ relTimer = t)
Counted(t) == mRefCnt[t] = Count(mTimers, {t}) + Count(events, EventsOf(t)) + Holders(t)
AllCounted == \A t \in Timers : Counted(t)

\* Who is where: a thread has a timer in hand exactly where its place in the code says
\* so, and the owner is in one of Init, SetDelay, Release and Fire's tail at a time.
Control ==
    /\ cur # NoTimer <=> pc \in {"copy", "repeat", "rearm", "post"}
    /\ opPc # "none" <=> opTimer # NoTimer
    /\ relPc # "none" <=> relTimer # NoTimer
    /\ handled # NoTimer <=> ownerPc \in {"callback", "rearm"}
    /\ ownerPc \notin {"idle", "callback"} => opPc = "none" /\ relPc = "none"
    /\ opPc # "none" => relPc = "none"
    /\ relPc = "test" => mRefCnt[relTimer] > 0

TimerInv == TypeOK /\ AllCounted /\ Control

------------------------------------------------------------------------------
(* The operators of the model.                                               *)

LEMMA ModRange == \A x \in Int, n \in Nat \ {0} : x % n \in 0..n - 1
  OBVIOUS

\* What RemoveTimerInternal takes out.
LEMMA RemoveElementPlace ==
    ASSUME NEW s \in Seq(Timers), NEW t \in Timers, \E i \in 1..Len(s) : s[i] = t
    PROVE  \E n \in 1..Len(s) : s[n] = t /\ RemoveElement(s, t) = Removed(s, n)
<1> DEFINE P(i) == s[i] = t /\ \A j \in 1..i - 1 : s[j] # t
           n == CHOOSE i \in 1..Len(s) : P(i)
           A == {i \in 1..Len(s) : s[i] = t}
<1>1. Len(s) \in Nat /\ A \subseteq Nat /\ A # {}
  BY LenProperties
<1>2. PICK i \in A : \A j \in A : i <= j
  <2> HIDE DEF A
  <2> QED
    BY <1>1, FirstExists
<1>3. i \in 1..Len(s) /\ P(i)
  BY <1>1, <1>2
<1>4. n \in 1..Len(s) /\ P(n)
  <2> HIDE DEF P
  <2> QED
    BY <1>3
<1>5. RemoveElement(s, t) = Removed(s, n)
  BY DEF RemoveElement, Removed
<1> HIDE DEF n
<1> QED
  BY <1>4, <1>5

LEMMA RemoveElementFacts ==
    ASSUME NEW s \in Seq(Timers), NEW t \in Timers, \E i \in 1..Len(s) : s[i] = t
    PROVE  /\ RemoveElement(s, t) \in Seq(Timers)
           /\ \A u \in Timers :
                  Count(RemoveElement(s, t), {u}) = Count(s, {u}) - One(u = t)
<1>1. PICK n \in 1..Len(s) : s[n] = t /\ RemoveElement(s, t) = Removed(s, n)
  BY RemoveElementPlace
<1>2. Removed(s, n) \in Seq(Timers)
  BY CountRemoved
<1>3. ASSUME NEW u \in Timers
      PROVE  Count(Removed(s, n), {u}) = Count(s, {u}) - One(u = t)
  <2>1. Count(Removed(s, n), {u}) = Count(s, {u}) - (IF s[n] \in {u} THEN 1 ELSE 0)
    BY CountRemoved
  <2> QED
    BY <1>1, <2>1 DEF One
<1> QED
  BY <1>1, <1>2, <1>3

\* Where AddTimerInternal puts a timer.
LEMMA PositionFacts ==
    ASSUME NEW s \in Seq(Timers), NEW t \in Timers
    PROVE  /\ Position(s, t) \in 1..Len(s) + 1
           /\ Position(s, t) <= Len(s) => LessThan(mTimeout[t], mTimeout[s[Position(s, t)]])
           /\ \A j \in 1..Position(s, t) - 1 : ~LessThan(mTimeout[t], mTimeout[s[j]])
           /\ InsertElement(s, t) = Inserted(s, Position(s, t), t)
<1> DEFINE L(i) == i <= Len(s) => LessThan(mTimeout[t], mTimeout[s[i]])
           P(i) == L(i) /\ \A j \in 1..i - 1 : ~LessThan(mTimeout[t], mTimeout[s[j]])
           A == {i \in 1..Len(s) + 1 : L(i)}
           n == CHOOSE i \in 1..Len(s) + 1 : P(i)
<1>1. Len(s) \in Nat
  BY LenProperties
<1>2. A \subseteq Nat /\ Len(s) + 1 \in A
  BY <1>1
<1>3. PICK i \in A : \A j \in A : i <= j
  <2> HIDE DEF A
  <2> QED
    BY <1>2, FirstExists
<1>4. i \in 1..Len(s) + 1 /\ P(i)
  <2>1. i \in 1..Len(s) + 1 /\ L(i)
    BY <1>3
  <2>2. ASSUME NEW j \in 1..i - 1 PROVE ~LessThan(mTimeout[t], mTimeout[s[j]])
    <3>1. j \in 1..Len(s) + 1 /\ ~(i <= j) /\ j <= Len(s)
      BY <1>1, <2>1
    <3>2. ~L(j)
      BY <1>3, <3>1
    <3> QED
      BY <3>2
  <2> QED
    BY <2>1, <2>2
<1>5. n \in 1..Len(s) + 1 /\ P(n)
  <2> HIDE DEF P
  <2> QED
    BY <1>4
<1>6. Position(s, t) = n
  BY DEF Position
<1>7. InsertElement(s, t) = Inserted(s, n, t)
  BY <1>6 DEF InsertElement, Inserted
<1> HIDE DEF n
<1> QED
  BY <1>5, <1>6, <1>7

LEMMA InsertElementFacts ==
    ASSUME NEW s \in Seq(Timers), NEW t \in Timers
    PROVE  /\ InsertElement(s, t) \in Seq(Timers)
           /\ \A u \in Timers :
                  Count(InsertElement(s, t), {u}) = Count(s, {u}) + One(u = t)
<1> DEFINE n == Position(s, t)
<1>1. n \in 1..Len(s) + 1
  BY PositionFacts
<1>2. InsertElement(s, t) = Inserted(s, n, t)
  BY PositionFacts
<1> HIDE DEF n
<1>3. Inserted(s, n, t) \in Seq(Timers)
  BY <1>1, CountInserted
<1>4. ASSUME NEW u \in Timers
      PROVE  Count(Inserted(s, n, t), {u}) = Count(s, {u}) + One(u = t)
  <2>1. Count(Inserted(s, n, t), {u}) = Count(s, {u}) + (IF t \in {u} THEN 1 ELSE 0)
    BY <1>1, CountInserted
  <2> QED
    BY <2>1 DEF One
<1> QED
  BY <1>2, <1>3, <1>4

\* A timer is listed exactly if its count in the list is not 0.
LEMMA ListedCounts ==
    ASSUME TypeOK, NEW t \in Timers
    PROVE  /\ Count(mTimers, {t}) \in Nat
           /\ Listed(t) <=> Count(mTimers, {t}) > 0
<1>1. mTimers \in Seq(Timers)
  BY DEF TypeOK
<1>2. Count(mTimers, {t}) > 0 <=> \E i \in 1..Len(mTimers) : mTimers[i] \in {t}
  BY <1>1, CountPositive
<1>3. Count(mTimers, {t}) \in Nat
  BY <1>1, CountType
<1> QED
  BY <1>2, <1>3 DEF Listed

LEMMA EventsCount ==
    ASSUME TypeOK, NEW t \in Timers
    PROVE  Count(events, EventsOf(t)) \in Nat
<1>1. events \in Seq(Event)
  BY DEF TypeOK, Event
<1> QED
  BY <1>1, CountType

LEMMA HoldersType == ASSUME NEW t \in Timers PROVE Holders(t) \in Nat
<1> DEFINE a == One(held[t])
           b == One(cur = t)
           c == One(handled = t)
           d == One(relPc = "drop" /\ relTimer = t)
<1>1. a \in Nat /\ b \in Nat /\ c \in Nat /\ d \in Nat
  BY DEF One
<1>2. Holders(t) = a + b + c + d
  BY DEF Holders
<1> HIDE DEF a, b, c, d
<1> QED
  BY <1>1, <1>2

\* The parts of a count are numbers.
LEMMA CountParts ==
    ASSUME TypeOK, AllCounted, NEW t \in Timers
    PROVE  /\ Count(mTimers, {t}) \in Nat /\ Count(events, EventsOf(t)) \in Nat
           /\ Holders(t) \in Nat /\ mRefCnt[t] \in Nat
           /\ mRefCnt[t] = Count(mTimers, {t}) + Count(events, EventsOf(t)) + Holders(t)
<1>1. Count(mTimers, {t}) \in Nat
  BY ListedCounts
<1>2. Count(events, EventsOf(t)) \in Nat
  BY EventsCount
<1>3. mRefCnt[t] \in Nat
  BY DEF TypeOK
<1>4. Counted(t)
  BY DEF AllCounted
<1> QED
  BY <1>1, <1>2, <1>3, <1>4, HoldersType DEF Counted

\* With exact counts the list's references are among a timer's.
LEMMA CountedNat ==
    ASSUME TypeOK, AllCounted, NEW t \in Timers
    PROVE  /\ mRefCnt[t] >= Count(mTimers, {t})
           /\ Listed(t) => mRefCnt[t] > 0
           /\ relPc = "drop" /\ relTimer = t => mRefCnt[t] > 0
<1>1. relPc = "drop" /\ relTimer = t => Holders(t) > 0
  <2> DEFINE a == One(held[t])
             b == One(cur = t)
             c == One(handled = t)
  <2>1. a \in Nat /\ b \in Nat /\ c \in Nat
    BY DEF One
  <2>2. Holders(t) = a + b + c + One(relPc = "drop" /\ relTimer = t)
    BY DEF Holders
  <2> HIDE DEF a, b, c
  <2> QED
    BY <2>1, <2>2 DEF One
<1> QED
  <2>1. /\ Count(mTimers, {t}) \in Nat /\ Count(events, EventsOf(t)) \in Nat
        /\ Holders(t) \in Nat
        /\ mRefCnt[t] = Count(mTimers, {t}) + Count(events, EventsOf(t)) + Holders(t)
    BY CountParts
  <2>2. Listed(t) <=> Count(mTimers, {t}) > 0
    BY ListedCounts
  <2> QED
    BY <1>1, <2>1, <2>2

\* What AddTimerInternal and RemoveTimerInternal do to the types and the counts.
LEMMA ArmedFacts ==
    ASSUME TypeOK, NEW t \in Timers, Armed(t)
    PROVE  /\ mTimers' \in Seq(Timers) /\ mArmed' \in [Timers -> BOOLEAN]
           /\ mRefCnt' \in [Timers -> Nat]
           /\ \A u \in Timers : /\ Count(mTimers', {u}) = Count(mTimers, {u}) + One(u = t)
                                /\ mRefCnt'[u] = mRefCnt[u] + One(u = t)
<1>1. /\ mTimers \in Seq(Timers) /\ mArmed \in [Timers -> BOOLEAN]
      /\ mRefCnt \in [Timers -> Nat]
  BY DEF TypeOK
<1>2. /\ mTimers' = InsertElement(mTimers, t) /\ mArmed' = [mArmed EXCEPT ![t] = TRUE]
      /\ mRefCnt' = [mRefCnt EXCEPT ![t] = mRefCnt[t] + 1]
  BY DEF Armed
<1>3. /\ mTimers' \in Seq(Timers)
      /\ \A u \in Timers : Count(mTimers', {u}) = Count(mTimers, {u}) + One(u = t)
  BY <1>1, <1>2, InsertElementFacts
<1>4. mRefCnt' \in [Timers -> Nat] /\ mArmed' \in [Timers -> BOOLEAN]
  BY <1>1, <1>2
<1>5. \A u \in Timers : mRefCnt'[u] = mRefCnt[u] + One(u = t)
  BY <1>1, <1>2 DEF One
<1> QED
  BY <1>3, <1>4, <1>5

LEMMA DisarmedFacts ==
    ASSUME TypeOK, AllCounted, NEW t \in Timers, Disarmed(t)
    PROVE  /\ mTimers' \in Seq(Timers) /\ mArmed' \in [Timers -> BOOLEAN]
           /\ mRefCnt' \in [Timers -> Nat]
           /\ \A u \in Timers :
                  Count(mTimers', {u}) - mRefCnt'[u] = Count(mTimers, {u}) - mRefCnt[u]
<1>1. /\ mTimers \in Seq(Timers) /\ mArmed \in [Timers -> BOOLEAN]
      /\ mRefCnt \in [Timers -> Nat]
  BY DEF TypeOK
<1>2. CASE Listed(t)
  <2>1. /\ mTimers' = RemoveElement(mTimers, t) /\ mArmed' = [mArmed EXCEPT ![t] = FALSE]
        /\ mRefCnt' = [mRefCnt EXCEPT ![t] = mRefCnt[t] - 1]
    BY <1>2 DEF Disarmed
  <2>2. /\ mTimers' \in Seq(Timers)
        /\ \A u \in Timers : Count(mTimers', {u}) = Count(mTimers, {u}) - One(u = t)
    BY <1>1, <1>2, <2>1, RemoveElementFacts DEF Listed
  <2>3. mRefCnt[t] > 0
    BY <1>2, CountedNat
  <2>4. mRefCnt' \in [Timers -> Nat] /\ mArmed' \in [Timers -> BOOLEAN]
    BY <1>1, <2>1, <2>3
  <2>5. \A u \in Timers : mRefCnt'[u] = mRefCnt[u] - One(u = t)
    BY <1>1, <2>1 DEF One
  <2>6. \A u \in Timers : Count(mTimers, {u}) \in Nat
    BY ListedCounts
  <2>7. ASSUME NEW u \in Timers
        PROVE  Count(mTimers', {u}) - mRefCnt'[u] = Count(mTimers, {u}) - mRefCnt[u]
    <3> DEFINE x == Count(mTimers, {u})
               y == Count(mTimers', {u})
               z == One(u = t)
    <3>1. x \in Nat /\ mRefCnt[u] \in Nat /\ z \in Nat
      BY <1>1, <2>6 DEF One
    <3>2. y = x - z /\ mRefCnt'[u] = mRefCnt[u] - z
      BY <2>2, <2>5
    <3> HIDE DEF x, y, z
    <3>3. y - mRefCnt'[u] = x - mRefCnt[u]
      BY <3>1, <3>2
    <3> QED
      BY <3>3 DEF x, y
  <2> QED
    BY <2>2, <2>4, <2>7
<1>3. CASE ~Listed(t)
  BY <1>1, <1>3 DEF Disarmed
<1> QED
  BY <1>2, <1>3

------------------------------------------------------------------------------
(* Types.                                                                    *)

USE DEF implVars, threadVars, ownerVars, ghosts

\* TypeOK in three parts.
FieldTypes ==
    /\ mArmed \in [Timers -> BOOLEAN] /\ mCanceled \in [Timers -> BOOLEAN]
    /\ mGeneration \in [Timers -> 0..MaxGeneration] /\ gGenerator \in 0..MaxGeneration
    /\ mType \in [Timers -> {ONE_SHOT, REPEATING_SLACK, REPEATING_PRECISE}]
    /\ mDelay \in [Timers -> Nat] /\ mTimeout \in [Timers -> 0..Domain - 1]
    /\ mRefCnt \in [Timers -> Nat]
RunTypes ==
    /\ mTimers \in Seq(Timers) /\ mShutdown \in BOOLEAN
    /\ pc \in {"scan", "wait", "copy", "repeat", "rearm", "post", "exit"}
    /\ cur \in Timers \cup {NoTimer} /\ curGeneration \in 0..MaxGeneration
    /\ wakeAt \in 0..Domain - 1 \cup {Forever}
CallTypes ==
    /\ events \in Seq([timer : Timers, generation : 0..MaxGeneration])
    /\ ownerPc \in {"idle", "callback", "rearm", "joining", "closed"}
    /\ handled \in Timers \cup {NoTimer}
    /\ opPc \in {"none", "delay", "add", "changed"} /\ opTimer \in Timers \cup {NoTimer}
    /\ held \in [Timers -> BOOLEAN]
    /\ relPc \in {"none", "drop", "test", "remove"} /\ relTimer \in Timers \cup {NoTimer}
TimeTypes ==
    /\ now \in 0..Domain - 1 /\ lag \in 0..MaxLag
    /\ tooEarly \in [Timers -> Nat] /\ raced \subseteq Timers

LEMMA TypeParts == TypeOK <=> FieldTypes /\ RunTypes /\ CallTypes /\ TimeTypes
  BY Zenon DEF TypeOK, FieldTypes, RunTypes, CallTypes, TimeTypes

LEMMA TypePartsNext == TypeOK' <=> FieldTypes' /\ RunTypes' /\ CallTypes' /\ TimeTypes'
  BY Zenon DEF TypeOK, FieldTypes, RunTypes, CallTypes, TimeTypes

LEMMA DelayedType ==
    ASSUME TypeOK, NEW t \in Timers, NEW type, NEW d \in Nat
    PROVE  Delayed(t, type, d) \in 0..Domain - 1
<1> DEFINE from == IF KeepsPhase(t, type) THEN mTimeout[t] ELSE now
<1>1. from \in Nat
  BY TimerAssumption DEF TypeOK
<1>2. Delayed(t, type, d) = (from + d) % Domain
  BY DEF Delayed
<1> HIDE DEF from
<1> QED
  BY <1>1, <1>2, ModRange, TimerAssumption

LEMMA FromNowType == ASSUME TypeOK, NEW d \in Int PROVE (now + d) % Domain \in 0..Domain - 1
<1>1. now + d \in Int
  BY TimerAssumption DEF TypeOK
<1> QED
  BY <1>1, ModRange, TimerAssumption

LEMMA WakeupType ==
    ASSUME TypeOK, NEW c, Wakeup(c)
    PROVE  /\ pc' \in {"scan", "wait", "copy", "repeat", "rearm", "post", "exit"}
           /\ wakeAt' \in 0..Domain - 1 \cup {Forever}
  BY DEF TypeOK, Wakeup

LEMMA ThreadStepTypes ==
    ASSUME TimerInv, ThreadStep, UNCHANGED lag
    PROVE  TypeOK'
<1>0. TypeOK
  BY DEF TimerInv
<1>1. ASSUME NEW a \in Adjustments, RunTakes(a) PROVE TypeOK'
  <2>1. Head(mTimers) \in Timers /\ Tail(mTimers) \in Seq(Timers)
    BY <1>0, <1>1, HeadTailProperties DEF RunTakes, TypeOK
  <2>11. FieldTypes'
    BY <1>0, <1>1, <2>1, TypeParts DEF RunTakes, FieldTypes
  <2>21. RunTypes'
    BY <1>0, <1>1, <2>1, TypeParts DEF RunTakes, RunTypes
  <2>31. CallTypes'
    BY <1>0, <1>1, <2>1, TypeParts DEF RunTakes, CallTypes
  <2>41. TimeTypes'
    BY <1>0, <1>1, <2>1, TypeParts DEF RunTakes, TimeTypes
  <2> QED
    BY <2>11, <2>21, <2>31, <2>41, TypePartsNext
<1>2. ASSUME NEW a \in Adjustments, RunWaits(a) PROVE TypeOK'
  <2>1. wakeAt' \in 0..Domain - 1 \cup {Forever}
    <3>1. CASE mTimers = <<>>
      BY <1>2, <3>1 DEF RunWaits
    <3>2. CASE mTimers # <<>>
      <4>1. Head(mTimers) \in Timers
        BY <1>0, <3>2, HeadTailProperties DEF TypeOK
      <4>2. mTimeout[Head(mTimers)] + a \in Int
        BY <1>0, <4>1, TimerAssumption DEF TypeOK
      <4>3. wakeAt' = (mTimeout[Head(mTimers)] + a) % Domain
        BY <1>2, <3>2 DEF RunWaits
      <4> QED
        BY <4>2, <4>3, ModRange, TimerAssumption
    <3> QED
      BY <3>1, <3>2
  <2>11. FieldTypes'
    BY <1>0, <1>2, <2>1, TypeParts DEF RunWaits, FieldTypes
  <2>21. RunTypes'
    BY <1>0, <1>2, <2>1, TypeParts DEF RunWaits, RunTypes
  <2>31. CallTypes'
    BY <1>0, <1>2, <2>1, TypeParts DEF RunWaits, CallTypes
  <2>41. TimeTypes'
    BY <1>0, <1>2, <2>1, TypeParts DEF RunWaits, TimeTypes
  <2> QED
    BY <2>11, <2>21, <2>31, <2>41, TypePartsNext
<1>3. CASE RunTimesOut
  <2>11. FieldTypes'
    BY <1>0, <1>3, TypeParts DEF RunTimesOut, FieldTypes
  <2>21. RunTypes'
    BY <1>0, <1>3, TypeParts DEF RunTimesOut, RunTypes
  <2>31. CallTypes'
    BY <1>0, <1>3, TypeParts DEF RunTimesOut, CallTypes
  <2>41. TimeTypes'
    BY <1>0, <1>3, TypeParts DEF RunTimesOut, TimeTypes
  <2> QED
    BY <2>11, <2>21, <2>31, <2>41, TypePartsNext
<1>4. CASE RunExits
  <2>11. FieldTypes'
    BY <1>0, <1>4, TypeParts DEF RunExits, FieldTypes
  <2>21. RunTypes'
    BY <1>0, <1>4, TypeParts DEF RunExits, RunTypes
  <2>31. CallTypes'
    BY <1>0, <1>4, TypeParts DEF RunExits, CallTypes
  <2>41. TimeTypes'
    BY <1>0, <1>4, TypeParts DEF RunExits, TimeTypes
  <2> QED
    BY <2>11, <2>21, <2>31, <2>41, TypePartsNext
<1>5. CASE CopyGeneration
  <2>1. cur \in Timers
    BY <1>0, <1>5 DEF CopyGeneration, TypeOK, TimerInv, Control
  <2>11. FieldTypes'
    BY <1>0, <1>5, <2>1, TypeParts DEF CopyGeneration, FieldTypes
  <2>21. RunTypes'
    BY <1>0, <1>5, <2>1, TypeParts DEF CopyGeneration, RunTypes, FieldTypes
  <2>31. CallTypes'
    BY <1>0, <1>5, <2>1, TypeParts DEF CopyGeneration, CallTypes
  <2>41. TimeTypes'
    BY <1>0, <1>5, <2>1, TypeParts DEF CopyGeneration, TimeTypes
  <2> QED
    BY <2>11, <2>21, <2>31, <2>41, TypePartsNext
<1>6. CASE RepeatPrecise
  <2>1. cur \in Timers
    BY <1>0, <1>6 DEF RepeatPrecise, TypeOK, TimerInv, Control
  <2>2. Delayed(cur, mType[cur], mDelay[cur]) \in 0..Domain - 1
    BY <1>0, <2>1, DelayedType DEF TypeOK
  <2>11. FieldTypes'
    BY <1>0, <1>6, <2>1, <2>2, TypeParts DEF RepeatPrecise, FieldTypes
  <2>21. RunTypes'
    BY <1>0, <1>6, <2>1, <2>2, TypeParts DEF RepeatPrecise, RunTypes
  <2>31. CallTypes'
    BY <1>0, <1>6, <2>1, <2>2, TypeParts DEF RepeatPrecise, CallTypes
  <2>41. TimeTypes'
    BY <1>0, <1>6, <2>1, <2>2, TypeParts DEF RepeatPrecise, TimeTypes
  <2> QED
    BY <2>11, <2>21, <2>31, <2>41, TypePartsNext
<1>7. CASE Rearm
  <2>1. cur \in Timers
    BY <1>0, <1>7 DEF Rearm, TypeOK, TimerInv, Control
  <2>2. /\ mTimers' \in Seq(Timers) /\ mArmed' \in [Timers -> BOOLEAN]
        /\ mRefCnt' \in [Timers -> Nat]
    BY <1>0, <1>7, <2>1, ArmedFacts DEF Rearm
  <2>11. FieldTypes'
    BY <1>0, <1>7, <2>2, TypeParts DEF Rearm, FieldTypes
  <2>21. RunTypes'
    BY <1>0, <1>7, <2>2, TypeParts DEF Rearm, RunTypes
  <2>31. CallTypes'
    BY <1>0, <1>7, <2>2, TypeParts DEF Rearm, CallTypes
  <2>41. TimeTypes'
    BY <1>0, <1>7, <2>2, TypeParts DEF Rearm, TimeTypes
  <2> QED
    BY <2>11, <2>21, <2>31, <2>41, TypePartsNext
<1>8. CASE PostEvent
  <2>1. [timer |-> cur, generation |-> curGeneration] \in Event
    BY <1>0, <1>8 DEF PostEvent, TypeOK, TimerInv, Control, Event
  <2>2. events' \in Seq(Event)
    BY <1>0, <1>8, <2>1 DEF PostEvent, TypeOK, Event
  <2>3. 0 \in 0..MaxGeneration
    BY TimerAssumption
  <2>11. FieldTypes'
    BY <1>0, <1>8, <2>2, <2>3, TypeParts DEF PostEvent, Event, FieldTypes
  <2>21. RunTypes'
    BY <1>0, <1>8, <2>2, <2>3, TypeParts DEF PostEvent, Event, RunTypes
  <2>31. CallTypes'
    BY <1>0, <1>8, <2>2, <2>3, TypeParts DEF PostEvent, Event, CallTypes
  <2>41. TimeTypes'
    BY <1>0, <1>8, <2>2, <2>3, TypeParts DEF PostEvent, Event, TimeTypes
  <2> QED
    BY <2>11, <2>21, <2>31, <2>41, TypePartsNext
<1> QED
  BY <1>1, <1>2, <1>3, <1>4, <1>5, <1>6, <1>7, <1>8 DEF ThreadStep

LEMMA OwnerCallTypes ==
    ASSUME TimerInv, OwnerCalls, UNCHANGED lag
    PROVE  TypeOK'
<1>0. TypeOK /\ AllCounted
  BY DEF TimerInv
<1>1. ASSUME NEW t \in Timers, InitTimer(t) PROVE TypeOK'
  <2>1. /\ mTimers' \in Seq(Timers) /\ mArmed' \in [Timers -> BOOLEAN]
        /\ mRefCnt' \in [Timers -> Nat]
    BY <1>0, <1>1, DisarmedFacts DEF InitTimer, TypeOK
  <2>2. /\ pc' \in {"scan", "wait", "copy", "repeat", "rearm", "post", "exit"}
        /\ wakeAt' \in 0..Domain - 1 \cup {Forever}
    BY <1>0, <1>1, WakeupType DEF InitTimer, TypeOK
  <2>3. gGenerator + 1 \in 0..MaxGeneration
    BY <1>0, <1>1, TimerAssumption DEF InitTimer, TypeOK
  <2>11. FieldTypes'
    BY <1>0, <1>1, <2>1, <2>2, <2>3, TypeParts DEF InitTimer, FieldTypes
  <2>21. RunTypes'
    BY <1>0, <1>1, <2>1, <2>2, <2>3, TypeParts DEF InitTimer, RunTypes
  <2>31. CallTypes'
    BY <1>0, <1>1, <2>1, <2>2, <2>3, TypeParts DEF InitTimer, CallTypes
  <2>41. TimeTypes'
    BY <1>0, <1>1, <2>1, <2>2, <2>3, TypeParts DEF InitTimer, TimeTypes
  <2> QED
    BY <2>11, <2>21, <2>31, <2>41, TypePartsNext
<1>2. ASSUME NEW t \in Timers, Cancel(t) PROVE TypeOK'
  <2>1. /\ mTimers' \in Seq(Timers) /\ mArmed' \in [Timers -> BOOLEAN]
        /\ mRefCnt' \in [Timers -> Nat]
    BY <1>0, <1>2, DisarmedFacts DEF Cancel
  <2>2. /\ pc' \in {"scan", "wait", "copy", "repeat", "rearm", "post", "exit"}
        /\ wakeAt' \in 0..Domain - 1 \cup {Forever}
    BY <1>0, <1>2, WakeupType DEF Cancel
  <2>11. FieldTypes'
    BY <1>0, <1>2, <2>1, <2>2, TypeParts DEF Cancel, FieldTypes
  <2>21. RunTypes'
    BY <1>0, <1>2, <2>1, <2>2, TypeParts DEF Cancel, RunTypes
  <2>31. CallTypes'
    BY <1>0, <1>2, <2>1, <2>2, TypeParts DEF Cancel, CallTypes
  <2>41. TimeTypes'
    BY <1>0, <1>2, <2>1, <2>2, TypeParts DEF Cancel, TimeTypes
  <2> QED
    BY <2>11, <2>21, <2>31, <2>41, TypePartsNext
<1>3. ASSUME NEW t \in Timers, ReleaseTimer(t) PROVE TypeOK'
  <2>11. FieldTypes'
    BY <1>0, <1>3, TypeParts DEF ReleaseTimer, FieldTypes
  <2>21. RunTypes'
    BY <1>0, <1>3, TypeParts DEF ReleaseTimer, RunTypes
  <2>31. CallTypes'
    BY <1>0, <1>3, TypeParts DEF ReleaseTimer, CallTypes
  <2>41. TimeTypes'
    BY <1>0, <1>3, TypeParts DEF ReleaseTimer, TimeTypes
  <2> QED
    BY <2>11, <2>21, <2>31, <2>41, TypePartsNext
<1>4. ASSUME NEW t \in Timers, NEW d \in Delays, SetDelay(t, d) PROVE TypeOK'
  <2>1. d \in Nat
    BY TimerAssumption
  <2>2. (now + d) % Domain \in 0..Domain - 1
    BY <1>0, <2>1, FromNowType
  <2>11. FieldTypes'
    BY <1>0, <1>4, <2>1, <2>2, TypeParts DEF SetDelay, FieldTypes
  <2>21. RunTypes'
    BY <1>0, <1>4, <2>1, <2>2, TypeParts DEF SetDelay, RunTypes
  <2>31. CallTypes'
    BY <1>0, <1>4, <2>1, <2>2, TypeParts DEF SetDelay, CallTypes
  <2>41. TimeTypes'
    BY <1>0, <1>4, <2>1, <2>2, TypeParts DEF SetDelay, TimeTypes
  <2> QED
    BY <2>11, <2>21, <2>31, <2>41, TypePartsNext
<1>5. ASSUME NEW t \in Timers, NEW type \in Types, SetType(t, type) PROVE TypeOK'
  <2>11. FieldTypes'
    BY <1>0, <1>5, TimerAssumption, TypeParts DEF SetType, FieldTypes
  <2>21. RunTypes'
    BY <1>0, <1>5, TimerAssumption, TypeParts DEF SetType, RunTypes
  <2>31. CallTypes'
    BY <1>0, <1>5, TimerAssumption, TypeParts DEF SetType, CallTypes
  <2>41. TimeTypes'
    BY <1>0, <1>5, TimerAssumption, TypeParts DEF SetType, TimeTypes
  <2> QED
    BY <2>11, <2>21, <2>31, <2>41, TypePartsNext
<1>6. CASE Shutdown
  <2>1. ASSUME NEW t \in Timers
        PROVE  mRefCnt[t] - Cardinality({i \in 1..Len(mTimers) : mTimers[i] = t}) \in Nat
    <3>1. Count(mTimers, {t}) = Cardinality({i \in 1..Len(mTimers) : mTimers[i] = t})
      BY DEF Count, At
    <3>2. Count(mTimers, {t}) \in Nat
      BY <1>0, ListedCounts
    <3>3. mRefCnt[t] >= Count(mTimers, {t})
      BY <1>0, CountedNat
    <3>4. mRefCnt[t] \in Nat
      BY <1>0 DEF TypeOK
    <3> QED
      BY <3>1, <3>2, <3>3, <3>4
  <2>2. mRefCnt' \in [Timers -> Nat]
    BY <1>6, <2>1 DEF Shutdown
  <2>3. mArmed' \in [Timers -> BOOLEAN]
    BY <1>0, <1>6 DEF Shutdown, TypeOK
  <2>4. /\ pc' \in {"scan", "wait", "copy", "repeat", "rearm", "post", "exit"}
        /\ wakeAt' \in 0..Domain - 1 \cup {Forever}
    BY <1>0, <1>6, WakeupType DEF Shutdown
  <2>11. FieldTypes'
    BY <1>0, <1>6, <2>2, <2>3, <2>4, TypeParts DEF Shutdown, FieldTypes
  <2>21. RunTypes'
    BY <1>0, <1>6, <2>2, <2>3, <2>4, TypeParts DEF Shutdown, RunTypes
  <2>31. CallTypes'
    BY <1>0, <1>6, <2>2, <2>3, <2>4, TypeParts DEF Shutdown, CallTypes
  <2>41. TimeTypes'
    BY <1>0, <1>6, <2>2, <2>3, <2>4, TypeParts DEF Shutdown, TimeTypes
  <2> QED
    BY <2>11, <2>21, <2>31, <2>41, TypePartsNext
<1> QED
  BY <1>1, <1>2, <1>3, <1>4, <1>5, <1>6 DEF OwnerCalls

LEMMA OwnerStepTypes ==
    ASSUME TimerInv, OwnerStep, UNCHANGED lag
    PROVE  TypeOK'
<1>0. TypeOK /\ AllCounted
  BY DEF TimerInv
<1>1. ASSUME NEW type \in Types, NEW d \in Delays, InitDelay(type, d) PROVE TypeOK'
  <2>1. opTimer \in Timers
    BY <1>0, <1>1 DEF InitDelay, TypeOK, TimerInv, Control
  <2>2. d \in Nat /\ type \in {ONE_SHOT, REPEATING_SLACK, REPEATING_PRECISE}
    BY TimerAssumption
  <2>3. Delayed(opTimer, type, d) \in 0..Domain - 1
    BY <1>0, <2>1, <2>2, DelayedType
  <2>11. FieldTypes'
    BY <1>0, <1>1, <2>1, <2>2, <2>3, TypeParts DEF InitDelay, FieldTypes
  <2>21. RunTypes'
    BY <1>0, <1>1, <2>1, <2>2, <2>3, TypeParts DEF InitDelay, RunTypes
  <2>31. CallTypes'
    BY <1>0, <1>1, <2>1, <2>2, <2>3, TypeParts DEF InitDelay, CallTypes
  <2>41. TimeTypes'
    BY <1>0, <1>1, <2>1, <2>2, <2>3, TypeParts DEF InitDelay, TimeTypes
  <2> QED
    BY <2>11, <2>21, <2>31, <2>41, TypePartsNext
<1>2. CASE InitAdd
  <2>1. opTimer \in Timers
    BY <1>0, <1>2 DEF InitAdd, TypeOK, TimerInv, Control
  <2>2. /\ mTimers' \in Seq(Timers) /\ mArmed' \in [Timers -> BOOLEAN]
        /\ mRefCnt' \in [Timers -> Nat]
    BY <1>0, <1>2, <2>1, ArmedFacts DEF InitAdd
  <2>3. /\ pc' \in {"scan", "wait", "copy", "repeat", "rearm", "post", "exit"}
        /\ wakeAt' \in 0..Domain - 1 \cup {Forever}
    BY <1>0, <1>2, WakeupType DEF InitAdd
  <2>11. FieldTypes'
    BY <1>0, <1>2, <2>2, <2>3, TypeParts DEF InitAdd, FieldTypes
  <2>21. RunTypes'
    BY <1>0, <1>2, <2>2, <2>3, TypeParts DEF InitAdd, RunTypes
  <2>31. CallTypes'
    BY <1>0, <1>2, <2>2, <2>3, TypeParts DEF InitAdd, CallTypes
  <2>41. TimeTypes'
    BY <1>0, <1>2, <2>2, <2>3, TypeParts DEF InitAdd, TimeTypes
  <2> QED
    BY <2>11, <2>21, <2>31, <2>41, TypePartsNext
<1>3. CASE TimerDelayChanged
  <2>1. opTimer \in Timers
    BY <1>0, <1>3 DEF TimerDelayChanged, TypeOK, TimerInv, Control
  <2>2. Others(opTimer) \in Seq(Timers)
    BY <1>0, <2>1, RemoveElementFacts DEF Others, Listed, TypeOK
  <2>3. mTimers' \in Seq(Timers)
    BY <1>3, <2>1, <2>2, InsertElementFacts DEF TimerDelayChanged
  <2>4. /\ pc' \in {"scan", "wait", "copy", "repeat", "rearm", "post", "exit"}
        /\ wakeAt' \in 0..Domain - 1 \cup {Forever}
    BY <1>0, <1>3, WakeupType DEF TimerDelayChanged
  <2>11. FieldTypes'
    BY <1>0, <1>3, <2>1, <2>3, <2>4, TypeParts DEF TimerDelayChanged, FieldTypes
  <2>21. RunTypes'
    BY <1>0, <1>3, <2>1, <2>3, <2>4, TypeParts DEF TimerDelayChanged, RunTypes
  <2>31. CallTypes'
    BY <1>0, <1>3, <2>1, <2>3, <2>4, TypeParts DEF TimerDelayChanged, CallTypes
  <2>41. TimeTypes'
    BY <1>0, <1>3, <2>1, <2>3, <2>4, TypeParts DEF TimerDelayChanged, TimeTypes
  <2> QED
    BY <2>11, <2>21, <2>31, <2>41, TypePartsNext
<1>4. CASE DropReference
  <2>1. relTimer \in Timers
    BY <1>0, <1>4 DEF DropReference, TypeOK, TimerInv, Control
  <2>2. mRefCnt[relTimer] - 1 \in Nat
    <3>1. mRefCnt[relTimer] \in Nat
      BY <1>0, <2>1 DEF TypeOK
    <3>2. mRefCnt[relTimer] > 0
      BY <1>0, <1>4, <2>1, CountedNat DEF DropReference
    <3> QED
      BY <3>1, <3>2
  <2>3. mRefCnt' \in [Timers -> Nat]
    BY <1>0, <1>4, <2>2 DEF DropReference, TypeOK
  <2>11. FieldTypes'
    BY <1>0, <1>4, <2>3, TypeParts DEF DropReference, EndRelease, FieldTypes
  <2>21. RunTypes'
    BY <1>0, <1>4, <2>3, TypeParts DEF DropReference, EndRelease, RunTypes
  <2>31. CallTypes'
    BY <1>0, <1>4, <2>3, TypeParts DEF DropReference, EndRelease, CallTypes
  <2>41. TimeTypes'
    BY <1>0, <1>4, <2>3, TypeParts DEF DropReference, EndRelease, TimeTypes
  <2> QED
    BY <2>11, <2>21, <2>31, <2>41, TypePartsNext
<1>5. CASE TestArmed
  <2>11. FieldTypes'
    BY <1>0, <1>5, TypeParts DEF TestArmed, EndRelease, FieldTypes
  <2>21. RunTypes'
    BY <1>0, <1>5, TypeParts DEF TestArmed, EndRelease, RunTypes
  <2>31. CallTypes'
    BY <1>0, <1>5, TypeParts DEF TestArmed, EndRelease, CallTypes
  <2>41. TimeTypes'
    BY <1>0, <1>5, TypeParts DEF TestArmed, EndRelease, TimeTypes
  <2> QED
    BY <2>11, <2>21, <2>31, <2>41, TypePartsNext
<1>6. CASE RemoveReleased
  <2>1. relTimer \in Timers
    BY <1>0, <1>6 DEF RemoveReleased, TypeOK, TimerInv, Control
  <2>2. /\ mTimers' \in Seq(Timers) /\ mArmed' \in [Timers -> BOOLEAN]
        /\ mRefCnt' \in [Timers -> Nat]
    BY <1>0, <1>6, <2>1, DisarmedFacts DEF RemoveReleased
  <2>3. /\ pc' \in {"scan", "wait", "copy", "repeat", "rearm", "post", "exit"}
        /\ wakeAt' \in 0..Domain - 1 \cup {Forever}
    BY <1>0, <1>6, WakeupType DEF RemoveReleased
  <2>11. FieldTypes'
    BY <1>0, <1>6, <2>2, <2>3, TypeParts DEF RemoveReleased, EndRelease, FieldTypes
  <2>21. RunTypes'
    BY <1>0, <1>6, <2>2, <2>3, TypeParts DEF RemoveReleased, EndRelease, RunTypes
  <2>31. CallTypes'
    BY <1>0, <1>6, <2>2, <2>3, TypeParts DEF RemoveReleased, EndRelease, CallTypes
  <2>41. TimeTypes'
    BY <1>0, <1>6, <2>2, <2>3, TypeParts DEF RemoveReleased, EndRelease, TimeTypes
  <2> QED
    BY <2>11, <2>21, <2>31, <2>41, TypePartsNext
<1>7. CASE HandleEvent
  <2>1. Head(events) \in Event /\ Tail(events) \in Seq(Event)
    BY <1>0, <1>7, HeadTailProperties DEF HandleEvent, TypeOK, Event
  <2>2. Head(events).timer \in Timers
    BY <2>1 DEF Event
  <2>11. FieldTypes'
    BY <1>0, <1>7, <2>1, <2>2, TypeParts DEF HandleEvent, DestroyEvent, Event, FieldTypes
  <2>21. RunTypes'
    BY <1>0, <1>7, <2>1, <2>2, TypeParts DEF HandleEvent, DestroyEvent, Event, RunTypes
  <2>31. CallTypes'
    BY <1>0, <1>7, <2>1, <2>2, TypeParts DEF HandleEvent, DestroyEvent, Event, CallTypes
  <2>41. TimeTypes'
    BY <1>0, <1>7, <2>1, <2>2, TypeParts DEF HandleEvent, DestroyEvent, Event, TimeTypes
  <2> QED
    BY <2>11, <2>21, <2>31, <2>41, TypePartsNext
<1>8. CASE CallbackReturns
  <2>1. handled \in Timers
    BY <1>0, <1>8 DEF CallbackReturns, TypeOK, TimerInv, Control
  <2>2. mDelay[handled] \in Nat
    BY <1>0, <2>1 DEF TypeOK
  <2>3. Delayed(handled, mType[handled], mDelay[handled]) \in 0..Domain - 1
    BY <1>0, <2>1, <2>2, DelayedType
  <2>11. FieldTypes'
    BY <1>0, <1>8, <2>1, <2>2, <2>3, TypeParts DEF CallbackReturns, DestroyEvent, FieldTypes
  <2>21. RunTypes'
    BY <1>0, <1>8, <2>1, <2>2, <2>3, TypeParts DEF CallbackReturns, DestroyEvent, RunTypes
  <2>31. CallTypes'
    BY <1>0, <1>8, <2>1, <2>2, <2>3, TypeParts DEF CallbackReturns, DestroyEvent, CallTypes
  <2>41. TimeTypes'
    BY <1>0, <1>8, <2>1, <2>2, <2>3, TypeParts DEF CallbackReturns, DestroyEvent, TimeTypes
  <2> QED
    BY <2>11, <2>21, <2>31, <2>41, TypePartsNext
<1>9. CASE RearmSlack
  <2>1. handled \in Timers
    BY <1>0, <1>9 DEF RearmSlack, TypeOK, TimerInv, Control
  <2>2. /\ mTimers' \in Seq(Timers) /\ mArmed' \in [Timers -> BOOLEAN]
        /\ mRefCnt' \in [Timers -> Nat]
    BY <1>0, <1>9, <2>1, ArmedFacts DEF RearmSlack
  <2>3. /\ pc' \in {"scan", "wait", "copy", "repeat", "rearm", "post", "exit"}
        /\ wakeAt' \in 0..Domain - 1 \cup {Forever}
    BY <1>0, <1>9, WakeupType DEF RearmSlack
  <2>11. FieldTypes'
    BY <1>0, <1>9, <2>1, <2>2, <2>3, TypeParts DEF RearmSlack, DestroyEvent, FieldTypes
  <2>21. RunTypes'
    BY <1>0, <1>9, <2>1, <2>2, <2>3, TypeParts DEF RearmSlack, DestroyEvent, RunTypes
  <2>31. CallTypes'
    BY <1>0, <1>9, <2>1, <2>2, <2>3, TypeParts DEF RearmSlack, DestroyEvent, CallTypes
  <2>41. TimeTypes'
    BY <1>0, <1>9, <2>1, <2>2, <2>3, TypeParts DEF RearmSlack, DestroyEvent, TimeTypes
  <2> QED
    BY <2>11, <2>21, <2>31, <2>41, TypePartsNext
<1>10. CASE ShutdownJoined
  <2>11. FieldTypes'
    BY <1>0, <1>10, TypeParts DEF ShutdownJoined, FieldTypes
  <2>21. RunTypes'
    BY <1>0, <1>10, TypeParts DEF ShutdownJoined, RunTypes
  <2>31. CallTypes'
    BY <1>0, <1>10, TypeParts DEF ShutdownJoined, CallTypes
  <2>41. TimeTypes'
    BY <1>0, <1>10, TypeParts DEF ShutdownJoined, TimeTypes
  <2> QED
    BY <2>11, <2>21, <2>31, <2>41, TypePartsNext
<1> QED
  BY <1>1, <1>2, <1>3, <1>4, <1>5, <1>6, <1>7, <1>8, <1>9, <1>10 DEF OwnerStep

LEMMA TickTypes ==
    ASSUME TimerInv, Tick
    PROVE  TypeOK'
<1>1. TypeOK
  BY DEF TimerInv
<1>2. (now + 1) % Domain \in 0..Domain - 1
  BY <1>1, FromNowType
<1>3. lag' \in 0..MaxLag
  <2>1. lag \in 0..MaxLag /\ MaxLag \in Nat
    BY <1>1, TimerAssumption DEF TypeOK
  <2>2. lag' = 0 \/ (lag < MaxLag /\ lag' = lag + 1)
    BY DEF Tick
  <2> QED
    BY <2>1, <2>2
<1>4. tooEarly' \in [Timers -> Nat]
  <2>1. tooEarly \in [Timers -> Nat]
    BY <1>1 DEF TypeOK
  <2>2. tooEarly' = [t \in Timers |-> IF tooEarly[t] > 0 THEN tooEarly[t] - 1 ELSE 0]
    BY DEF Tick
  <2>3. \A t \in Timers : (IF tooEarly[t] > 0 THEN tooEarly[t] - 1 ELSE 0) \in Nat
    BY <2>1
  <2> QED
    BY <2>2, <2>3
<1>11. FieldTypes'
  BY <1>1, <1>2, <1>3, <1>4, TypeParts DEF Tick, FieldTypes
<1>21. RunTypes'
  BY <1>1, <1>2, <1>3, <1>4, TypeParts DEF Tick, RunTypes
<1>31. CallTypes'
  BY <1>1, <1>2, <1>3, <1>4, TypeParts DEF Tick, CallTypes
<1>41. TimeTypes'
  BY <1>1, <1>2, <1>3, <1>4, TypeParts DEF Tick, TimeTypes
<1> QED
  BY <1>11, <1>21, <1>31, <1>41, TypePartsNext

------------------------------------------------------------------------------
(* Counts.                                                                   *)

\* References that come and go do so with the count.
LEMMA CountStep ==
    ASSUME TypeOK, AllCounted, NEW t \in Timers, NEW p \in Int, NEW q \in Int, NEW r \in Int,
           Count(mTimers', {t}) = Count(mTimers, {t}) + p,
           Count(events', EventsOf(t)) = Count(events, EventsOf(t)) + q,
           Holders(t)' = Holders(t) + r,
           mRefCnt'[t] = mRefCnt[t] + p + q + r
    PROVE  Counted(t)'
<1> DEFINE a == Count(mTimers, {t})
           b == Count(events, EventsOf(t))
           c == Count(mTimers', {t})
           d == Count(events', EventsOf(t))
           h == Holders(t)
           k == Holders(t)'
<1>1. a \in Nat /\ b \in Nat /\ h \in Nat /\ mRefCnt[t] \in Nat /\ mRefCnt[t] = a + b + h
  BY CountParts
<1>2. c = a + p /\ d = b + q /\ k = h + r
  OBVIOUS
<1>3. mRefCnt'[t] = c + d + k
  <2> HIDE DEF a, b, c, d, h, k
  <2> QED
    BY <1>1, <1>2
<1> QED
  BY <1>3 DEF Counted

LEMMA CountKept ==
    ASSUME TypeOK, AllCounted, NEW t \in Timers,
           mRefCnt' = mRefCnt, mTimers' = mTimers, events' = events, Holders(t)' = Holders(t)
    PROVE  Counted(t)'
  BY DEF AllCounted, Counted

\* References that come to the list or leave it.
LEMMA CountList ==
    ASSUME TypeOK, AllCounted, NEW t \in Timers, NEW p \in Int,
           Count(mTimers', {t}) = Count(mTimers, {t}) + p,
           mRefCnt'[t] = mRefCnt[t] + p,
           events' = events, Holders(t)' = Holders(t)
    PROVE  Counted(t)'
<1> DEFINE a == Count(mTimers, {t})
           b == Count(events, EventsOf(t))
           c == Count(mTimers', {t})
           h == Holders(t)
<1>1. a \in Nat /\ b \in Nat /\ h \in Nat /\ mRefCnt[t] \in Nat /\ mRefCnt[t] = a + b + h
  BY CountParts
<1>2. c = a + p
  OBVIOUS
<1>3. mRefCnt'[t] = c + b + h
  <2> HIDE DEF a, b, c, h
  <2> QED
    BY <1>1, <1>2
<1> QED
  BY <1>3 DEF Counted

\* Disarmed keeps the counts right.
LEMMA CountDisarmed ==
    ASSUME TypeOK, AllCounted, NEW u \in Timers, Disarmed(u), NEW t \in Timers,
           events' = events, Holders(t)' = Holders(t)
    PROVE  Counted(t)'
<1> DEFINE a == Count(mTimers, {t})
           c == Count(mTimers', {t})
           m == mRefCnt[t]
           n == mRefCnt'[t]
           p == n - m
<1>1. mTimers' \in Seq(Timers) /\ mRefCnt' \in [Timers -> Nat] /\ c - n = a - m
  BY DisarmedFacts
<1>2. a \in Nat /\ m \in Nat
  BY CountParts
<1>3. c \in Nat /\ n \in Nat
  BY <1>1, CountType
<1>4. p \in Int /\ c = a + p /\ n = m + p
  <2> HIDE DEF a, c, m, n
  <2> QED
    BY <1>1, <1>2, <1>3
<1> HIDE DEF p
<1> QED
  BY <1>4, CountList

LEMMA CountArmed ==
    ASSUME TypeOK, AllCounted, NEW u \in Timers, Armed(u), NEW t \in Timers,
           events' = events, Holders(t)' = Holders(t)
    PROVE  Counted(t)'
<1>1. /\ Count(mTimers', {t}) = Count(mTimers, {t}) + One(t = u)
      /\ mRefCnt'[t] = mRefCnt[t] + One(t = u)
  BY ArmedFacts
<1>2. One(t = u) \in Int
  BY DEF One
<1> QED
  BY <1>1, <1>2, CountList

LEMMA ThreadStepCounts ==
    ASSUME TimerInv, ThreadStep
    PROVE  AllCounted'
<1> SUFFICES ASSUME NEW t \in Timers PROVE Counted(t)'
  BY DEF AllCounted
<1>0. TypeOK /\ AllCounted /\ Control
  BY DEF TimerInv
<1>1. ASSUME NEW a \in Adjustments, RunTakes(a) PROVE Counted(t)'
  <2> DEFINE u == Head(mTimers)
  <2>1. mTimers \in Seq(Timers) /\ mTimers # <<>>
    BY <1>0, <1>1 DEF RunTakes, TypeOK
  <2>2. u \in Timers /\ Count(Tail(mTimers), {t}) = Count(mTimers, {t}) - (IF u \in {t} THEN 1 ELSE 0)
    BY <2>1, CountTail
  <2>3. cur = NoTimer /\ cur' = u /\ mTimers' = Tail(mTimers) /\ mRefCnt' = mRefCnt /\ events' = events
    BY <1>0, <1>1 DEF RunTakes, Control
  <2>4. UNCHANGED <<held, handled, relPc, relTimer>>
    BY <1>1 DEF RunTakes
  <2> HIDE DEF u
  <2>5. Holders(t)' = Holders(t) + One(u = t)
    <3>1. One(cur' = t) = One(u = t) /\ One(cur = t) = 0
      BY <2>3, TimerAssumption DEF One
    <3>2. One(u = t) \in Nat
      BY DEF One
    <3> DEFINE x == One(held[t])
               y == One(handled = t)
               z == One(relPc = "drop" /\ relTimer = t)
    <3>3. x \in Nat /\ y \in Nat /\ z \in Nat
      BY DEF One
    <3>4. Holders(t) = x + One(cur = t) + y + z /\ Holders(t)' = x + One(cur' = t) + y + z
      BY <2>4 DEF Holders
    <3> HIDE DEF x, y, z
    <3> QED
      BY <3>1, <3>2, <3>3, <3>4
  <2>6. Count(mTimers', {t}) = Count(mTimers, {t}) - One(u = t)
    BY <2>2, <2>3 DEF One
  <2>7. /\ Count(mTimers, {t}) \in Nat /\ Count(events, EventsOf(t)) \in Nat
        /\ Holders(t) \in Nat
        /\ mRefCnt[t] = Count(mTimers, {t}) + Count(events, EventsOf(t)) + Holders(t)
    BY <1>0, CountParts
  <2>8. One(u = t) \in Nat
    BY DEF One
  <2>9. mRefCnt[t] = Count(mTimers', {t}) + Count(events, EventsOf(t)) + Holders(t)'
    BY <2>5, <2>6, <2>7, <2>8
  <2> QED
    BY <2>3, <2>9 DEF Counted
<1>2. ASSUME NEW a \in Adjustments, RunWaits(a) PROVE Counted(t)'
  BY <1>0, <1>2, CountKept DEF RunWaits, Holders
<1>3. CASE RunTimesOut
  BY <1>0, <1>3, CountKept DEF RunTimesOut, Holders
<1>4. CASE RunExits
  BY <1>0, <1>4, CountKept DEF RunExits, Holders
<1>5. CASE CopyGeneration
  BY <1>0, <1>5, CountKept DEF CopyGeneration, Holders
<1>6. CASE RepeatPrecise
  BY <1>0, <1>6, CountKept DEF RepeatPrecise, Holders
<1>7. CASE Rearm
  <2>1. cur \in Timers /\ Armed(cur)
    BY <1>0, <1>7 DEF Rearm, TypeOK, Control
  <2>2. events' = events /\ Holders(t)' = Holders(t)
    BY <1>7 DEF Rearm, Holders
  <2> QED
    BY <1>0, <2>1, <2>2, CountArmed
<1>8. CASE PostEvent
  <2> DEFINE e == [timer |-> cur, generation |-> curGeneration]
  <2>1. cur \in Timers /\ e \in Event /\ events \in Seq(Event)
    BY <1>0, <1>8 DEF PostEvent, TypeOK, Control, Event
  <2>2. e \in EventsOf(t) <=> cur = t
    BY <2>1 DEF EventsOf
  <2>3. /\ events' = Append(events, e) /\ cur' = NoTimer /\ mTimers' = mTimers /\ mRefCnt' = mRefCnt
        /\ UNCHANGED <<held, handled, relPc, relTimer>>
    BY <1>8 DEF PostEvent
  <2> HIDE DEF e
  <2>4. Count(events', EventsOf(t)) = Count(events, EventsOf(t)) + One(cur = t)
    <3>1. Count(Append(events, e), EventsOf(t))
            = Count(events, EventsOf(t)) + (IF e \in EventsOf(t) THEN 1 ELSE 0)
      BY <2>1, CountAppend
    <3> QED
      BY <2>2, <2>3, <3>1 DEF One
  <2>5. Holders(t) = Holders(t)' + One(cur = t) /\ Holders(t)' \in Nat
    <3>1. One(cur' = t) = 0
      BY <2>3, TimerAssumption DEF One
    <3>2. One(cur = t) \in Nat
      BY DEF One
    <3> DEFINE x == One(held[t])
               y == One(handled = t)
               z == One(relPc = "drop" /\ relTimer = t)
    <3>3. x \in Nat /\ y \in Nat /\ z \in Nat
      BY DEF One
    <3>4. Holders(t) = x + One(cur = t) + y + z /\ Holders(t)' = x + One(cur' = t) + y + z
      BY <2>3 DEF Holders
    <3> HIDE DEF x, y, z
    <3> QED
      BY <3>1, <3>2, <3>3, <3>4
  <2>6. /\ Count(mTimers, {t}) \in Nat /\ Count(events, EventsOf(t)) \in Nat
        /\ mRefCnt[t] = Count(mTimers, {t}) + Count(events, EventsOf(t)) + Holders(t)
    BY <1>0, CountParts
  <2>7. One(cur = t) \in Nat
    BY DEF One
  <2>8. mRefCnt[t] = Count(mTimers, {t}) + Count(events', EventsOf(t)) + Holders(t)'
    BY <2>4, <2>5, <2>6, <2>7
  <2> QED
    BY <2>3, <2>8 DEF Counted
<1> QED
  BY <1>1, <1>2, <1>3, <1>4, <1>5, <1>6, <1>7, <1>8 DEF ThreadStep

\* Wakeup does not disturb the counts, and InitTimer takes out of the list as Cancel does.
LEMMA CallCounts ==
    ASSUME TimerInv, OwnerCalls
    PROVE  AllCounted'
<1> SUFFICES ASSUME NEW t \in Timers PROVE Counted(t)'
  BY DEF AllCounted
<1>0. TypeOK /\ AllCounted /\ Control
  BY DEF TimerInv
<1>1. ASSUME NEW u \in Timers, InitTimer(u) PROVE Counted(t)'
  <2>1. events' = events /\ Holders(t)' = Holders(t)
    BY <1>1 DEF InitTimer, Holders
  <2>2. CASE mArmed[u]
    <3>1. Disarmed(u)
      BY <1>1, <2>2 DEF InitTimer
    <3> QED
      BY <1>0, <2>1, <3>1, CountDisarmed
  <2>3. CASE ~mArmed[u]
    <3>1. UNCHANGED <<mTimers, mRefCnt>>
      BY <1>1, <2>3 DEF InitTimer
    <3> QED
      BY <1>0, <2>1, <3>1, CountKept
  <2> QED
    BY <2>2, <2>3
<1>2. ASSUME NEW u \in Timers, Cancel(u) PROVE Counted(t)'
  <2>1. events' = events /\ Holders(t)' = Holders(t) /\ Disarmed(u)
    BY <1>2 DEF Cancel, Holders
  <2> QED
    BY <1>0, <2>1, CountDisarmed
<1>3. ASSUME NEW u \in Timers, ReleaseTimer(u) PROVE Counted(t)'
  <2>1. /\ mRefCnt' = mRefCnt /\ mTimers' = mTimers /\ events' = events
        /\ cur' = cur /\ handled' = handled
        /\ held[u] /\ held' = [held EXCEPT ![u] = FALSE] /\ relPc' = "drop" /\ relTimer' = u
        /\ relPc = "none"
    BY <1>3 DEF ReleaseTimer, May, OwnerFree
  <2>2. One(held[t]) + One(relPc = "drop" /\ relTimer = t)
          = One(held'[t]) + One(relPc' = "drop" /\ relTimer' = t)
    <3>1. CASE t = u
      BY <1>0, <2>1, <3>1 DEF One, TypeOK
    <3>2. CASE t # u
      BY <1>0, <2>1, <3>2 DEF One, TypeOK
    <3> QED
      BY <3>1, <3>2
  <2>3. Holders(t)' = Holders(t)
    <3> DEFINE x == One(held[t])
               y == One(held'[t])
               z == One(relPc = "drop" /\ relTimer = t)
               v == One(relPc' = "drop" /\ relTimer' = t)
               w == One(cur = t)
               h == One(handled = t)
    <3>1. x \in Nat /\ y \in Nat /\ z \in Nat /\ v \in Nat /\ w \in Nat /\ h \in Nat
      BY DEF One
    <3>2. x + z = y + v
      BY <2>2
    <3>3. Holders(t) = x + w + h + z /\ Holders(t)' = y + w + h + v
      BY <2>1 DEF Holders
    <3> HIDE DEF x, y, z, v, w, h
    <3> QED
      BY <3>1, <3>2, <3>3
  <2> QED
    BY <1>0, <2>1, <2>3, CountKept
<1>4. ASSUME NEW u \in Timers, NEW d \in Delays, SetDelay(u, d) PROVE Counted(t)'
  BY <1>0, <1>4, CountKept DEF SetDelay, Holders
<1>5. ASSUME NEW u \in Timers, NEW type \in Types, SetType(u, type) PROVE Counted(t)'
  BY <1>0, <1>5, CountKept DEF SetType, Holders
<1>6. CASE Shutdown
  <2> DEFINE n == Count(mTimers, {t})
  <2>1. n = Cardinality({i \in 1..Len(mTimers) : mTimers[i] = t})
    BY DEF Count, At
  <2>2. /\ mTimers' = <<>> /\ mRefCnt'[t] = mRefCnt[t] - n
        /\ events' = events /\ Holders(t)' = Holders(t)
    BY <1>6, <2>1 DEF Shutdown, Holders
  <2>3. Count(mTimers', {t}) = 0
    BY <2>2, CountEmpty
  <2>4. n \in Nat /\ mRefCnt[t] \in Nat
    BY <1>0, CountParts
  <2>5. Count(mTimers', {t}) = Count(mTimers, {t}) + (-n) /\ mRefCnt'[t] = mRefCnt[t] + (-n) /\ -n \in Int
    BY <2>2, <2>3, <2>4
  <2> HIDE DEF n
  <2> QED
    BY <1>0, <2>2, <2>5, CountList
<1> QED
  BY <1>1, <1>2, <1>3, <1>4, <1>5, <1>6 DEF OwnerCalls

\* The references of handling and of Release, of which one takes over from the other.
InHand(t) == One(handled = t) + One(relPc = "drop" /\ relTimer = t)

LEMMA HoldersInHand ==
    ASSUME NEW t \in Timers, UNCHANGED <<held, cur>>, NEW r \in Int, InHand(t)' = InHand(t) + r
    PROVE  Holders(t)' = Holders(t) + r
<1> DEFINE a == One(held[t])
           b == One(cur = t)
           c == One(handled = t)
           d == One(relPc = "drop" /\ relTimer = t)
           e == One(handled' = t)
           f == One(relPc' = "drop" /\ relTimer' = t)
<1>1. a \in Nat /\ b \in Nat /\ c \in Nat /\ d \in Nat /\ e \in Nat /\ f \in Nat
  BY DEF One
<1>2. Holders(t) = a + b + c + d /\ Holders(t)' = a + b + e + f
  BY DEF Holders
<1>3. e + f = c + d + r
  BY DEF InHand
<1> HIDE DEF a, b, c, d, e, f
<1> QED
  BY <1>1, <1>2, <1>3

LEMMA OwnerStepCounts ==
    ASSUME TimerInv, OwnerStep
    PROVE  AllCounted'
<1> SUFFICES ASSUME NEW t \in Timers PROVE Counted(t)'
  BY DEF AllCounted
<1>0. TypeOK /\ AllCounted /\ Control
  BY DEF TimerInv
<1>1. ASSUME NEW type \in Types, NEW d \in Delays, InitDelay(type, d) PROVE Counted(t)'
  BY <1>0, <1>1, CountKept DEF InitDelay, Holders
<1>2. CASE InitAdd
  <2>1. opTimer \in Timers /\ Armed(opTimer) /\ events' = events /\ Holders(t)' = Holders(t)
    BY <1>0, <1>2 DEF InitAdd, TypeOK, Control, Holders
  <2> QED
    BY <1>0, <2>1, CountArmed
<1>3. CASE TimerDelayChanged
  <2> DEFINE u == opTimer
             o == Others(opTimer)
             a == Count(mTimers, {t})
             b == Count(o, {t})
             z == One(t = u)
  <2>1. u \in Timers /\ mTimers \in Seq(Timers)
    BY <1>0, <1>3 DEF TimerDelayChanged, TypeOK, Control
  <2>2. /\ mTimers' = InsertElement(o, u)
        /\ mRefCnt' = [mRefCnt EXCEPT ![u] = IF Listed(u) THEN mRefCnt[u] ELSE mRefCnt[u] + 1]
        /\ events' = events /\ Holders(t)' = Holders(t)
    BY <1>3 DEF TimerDelayChanged, Holders
  <2>3. /\ o \in Seq(Timers)
        /\ Listed(u) => b = a - z
        /\ ~Listed(u) => b = a
    BY <2>1, RemoveElementFacts DEF Others, Listed
  <2>4. Count(mTimers', {t}) = b + z
    BY <2>1, <2>2, <2>3, InsertElementFacts
  <2>5. /\ Listed(u) => mRefCnt'[t] = mRefCnt[t]
        /\ ~Listed(u) => mRefCnt'[t] = mRefCnt[t] + z
    BY <1>0, <2>1, <2>2 DEF TypeOK, One
  <2>6. z \in Nat /\ a \in Nat /\ mRefCnt[t] \in Nat
    BY <1>0, CountParts DEF One
  <2>7. CASE Listed(u)
    <3>1. Count(mTimers', {t}) = a + 0 /\ mRefCnt'[t] = mRefCnt[t] + 0
      BY <2>3, <2>4, <2>5, <2>6, <2>7
    <3> QED
      BY <1>0, <2>2, <3>1, CountList
  <2>8. CASE ~Listed(u)
    <3>1. Count(mTimers', {t}) = a + z /\ mRefCnt'[t] = mRefCnt[t] + z
      BY <2>3, <2>4, <2>5, <2>8
    <3> QED
      BY <1>0, <2>2, <2>6, <3>1, CountList
  <2> QED
    BY <2>7, <2>8
<1>4. CASE DropReference
  <2> DEFINE u == relTimer
             z == One(t = u)
  <2>1. /\ u \in Timers /\ relPc = "drop" /\ relPc' # "drop"
        /\ mRefCnt' = [mRefCnt EXCEPT ![u] = mRefCnt[u] - 1]
        /\ mTimers' = mTimers /\ events' = events /\ UNCHANGED <<held, cur, handled>>
    BY <1>0, <1>4 DEF DropReference, EndRelease, TypeOK, Control
  <2>2. z \in Nat /\ One(handled = t) \in Nat
    BY DEF One
  <2>3. InHand(t) = One(handled = t) + z /\ InHand(t)' = One(handled = t)
    BY <2>1, <2>2 DEF InHand, One
  <2>4. -z \in Int /\ InHand(t)' = InHand(t) + (-z)
    BY <2>2, <2>3
  <2>5. Holders(t)' = Holders(t) + (-z)
    BY <2>1, <2>4, HoldersInHand
  <2>6. mRefCnt'[t] = mRefCnt[t] - z
    <3>1. mRefCnt \in [Timers -> Nat]
      BY <1>0 DEF TypeOK
    <3>2. CASE t = u
      BY <2>1, <3>1, <3>2 DEF One
    <3>3. CASE t # u
      BY <2>1, <3>1, <3>3 DEF One
    <3> QED
      BY <3>2, <3>3
  <2>7. /\ Count(mTimers, {t}) \in Nat /\ Count(events, EventsOf(t)) \in Nat /\ Holders(t) \in Nat
        /\ mRefCnt[t] = Count(mTimers, {t}) + Count(events, EventsOf(t)) + Holders(t)
    BY <1>0, CountParts
  <2> HIDE DEF z
  <2>8. mRefCnt'[t] = Count(mTimers, {t}) + Count(events, EventsOf(t)) + Holders(t)'
    BY <2>2, <2>5, <2>6, <2>7
  <2> QED
    BY <2>1, <2>8 DEF Counted
<1>5. CASE TestArmed
  BY <1>0, <1>5, CountKept DEF TestArmed, EndRelease, Holders
<1>6. CASE RemoveReleased
  <2>1. relTimer \in Timers /\ Disarmed(relTimer) /\ events' = events /\ Holders(t)' = Holders(t)
    BY <1>0, <1>6 DEF RemoveReleased, EndRelease, TypeOK, Control, Holders
  <2> QED
    BY <1>0, <2>1, CountDisarmed
<1>7. CASE HandleEvent
  <2> DEFINE u == Head(events).timer
             z == One(t = u)
             x == Count(events', EventsOf(t))
             y == Count(events, EventsOf(t))
  <2>1. events \in Seq(Event) /\ events # <<>> /\ events' = Tail(events)
    BY <1>0, <1>7 DEF HandleEvent, TypeOK, Event
  <2>2. Head(events) \in Event /\ u \in Timers
    <3>1. Head(events) \in Event
      BY <2>1, CountTail
    <3> QED
      BY <3>1 DEF Event
  <2>3. x = y - (IF Head(events) \in EventsOf(t) THEN 1 ELSE 0)
    BY <2>1, CountTail
  <2>4. x = y - z
    BY <2>2, <2>3 DEF EventsOf, One
  <2>5. /\ handled = NoTimer /\ relPc = "none"
        /\ \/ handled' = u /\ relPc' = "none"
           \/ handled' = NoTimer /\ relPc' = "drop" /\ relTimer' = u
        /\ mRefCnt' = mRefCnt /\ mTimers' = mTimers /\ UNCHANGED <<held, cur>>
    BY <1>0, <1>7 DEF HandleEvent, OwnerFree, DestroyEvent, Control
  <2>6. z \in Nat
    BY DEF One
  <2>7. InHand(t) = 0 /\ InHand(t)' = z
    BY <2>2, <2>5, TimerAssumption DEF InHand, One
  <2>8. Holders(t)' = Holders(t) + z
    BY <2>5, <2>6, <2>7, HoldersInHand
  <2>9. /\ Count(mTimers, {t}) \in Nat /\ y \in Nat /\ Holders(t) \in Nat
        /\ mRefCnt[t] = Count(mTimers, {t}) + y + Holders(t)
    BY <1>0, CountParts
  <2> HIDE DEF x, y, z
  <2>10. mRefCnt[t] = Count(mTimers, {t}) + x + Holders(t)'
    BY <2>4, <2>6, <2>8, <2>9
  <2> QED
    BY <2>5, <2>10 DEF Counted, x
<1>8. CASE CallbackReturns
  <2>1. /\ handled \in Timers /\ relPc = "none"
        /\ \/ handled' = handled /\ relPc' = "none"
           \/ handled' = NoTimer /\ relPc' = "drop" /\ relTimer' = handled
        /\ mRefCnt' = mRefCnt /\ mTimers' = mTimers /\ events' = events /\ UNCHANGED <<held, cur>>
    BY <1>0, <1>8 DEF CallbackReturns, OwnerFree, DestroyEvent, Control, TypeOK
  <2>2. InHand(t) \in Nat /\ InHand(t)' = InHand(t)
    BY <2>1, TimerAssumption DEF InHand, One
  <2>3. Holders(t)' = Holders(t)
    BY <2>1, <2>2 DEF InHand, Holders, One
  <2> QED
    BY <1>0, <2>1, <2>3, CountKept
<1>9. CASE RearmSlack
  <2>1. /\ handled \in Timers /\ Armed(handled) /\ relPc = "none"
        /\ handled' = NoTimer /\ relPc' = "drop" /\ relTimer' = handled
        /\ events' = events /\ UNCHANGED <<held, cur>>
    BY <1>0, <1>9 DEF RearmSlack, DestroyEvent, Control, TypeOK
  <2>2. InHand(t)' = InHand(t)
    BY <2>1, TimerAssumption DEF InHand, One
  <2>3. Holders(t)' = Holders(t)
    BY <2>1, <2>2 DEF InHand, Holders, One
  <2> QED
    BY <1>0, <2>1, <2>3, CountArmed
<1>10. CASE ShutdownJoined
  BY <1>0, <1>10, CountKept DEF ShutdownJoined, Holders
<1> QED
  BY <1>1, <1>2, <1>3, <1>4, <1>5, <1>6, <1>7, <1>8, <1>9, <1>10 DEF OwnerStep

LEMMA TickCounts ==
    ASSUME TimerInv, Tick
    PROVE  AllCounted'
<1>1. TypeOK /\ AllCounted
  BY DEF TimerInv
<1> SUFFICES ASSUME NEW t \in Timers PROVE Counted(t)'
  BY DEF AllCounted
<1> QED
  BY <1>1, CountKept DEF Tick, Holders

------------------------------------------------------------------------------
(* Who is where.                                                             *)

LEMMA WakeupPc == ASSUME NEW c, Wakeup(c) PROVE pc' = pc \/ (pc = "wait" /\ pc' = "scan")
  BY DEF Wakeup

LEMMA ControlNext ==
    ASSUME TimerInv, Next
    PROVE  Control'
<1>0. TypeOK /\ AllCounted /\ Control
  BY DEF TimerInv
<1>1. ASSUME NEW a \in Adjustments, RunTakes(a) PROVE Control'
  <2>1. Head(mTimers) \in Timers
    BY <1>0, <1>1, CountTail DEF RunTakes, TypeOK
  <2> QED
    BY <1>0, <1>1, <2>1, TimerAssumption DEF RunTakes, Control
<1>2. ASSUME NEW a \in Adjustments, RunWaits(a) PROVE Control'
  BY <1>0, <1>2 DEF RunWaits, Control
<1>3. CASE RunTimesOut
  BY <1>0, <1>3 DEF RunTimesOut, Control
<1>4. CASE RunExits
  BY <1>0, <1>4 DEF RunExits, Control
<1>5. CASE CopyGeneration
  BY <1>0, <1>5 DEF CopyGeneration, Control
<1>6. CASE RepeatPrecise
  BY <1>0, <1>6 DEF RepeatPrecise, Control
<1>7. CASE Rearm
  <2>1. cur \in Timers /\ Armed(cur)
    BY <1>0, <1>7 DEF Rearm, TypeOK, Control
  <2>2. \A u \in Timers : mRefCnt'[u] = mRefCnt[u] + One(u = cur)
    BY <1>0, <2>1, ArmedFacts
  <2>3. mRefCnt \in [Timers -> Nat] /\ relTimer \in Timers \cup {NoTimer}
    BY <1>0 DEF TypeOK
  <2>4. ASSUME relPc = "test" PROVE mRefCnt'[relTimer] > 0
    <3>1. relTimer \in Timers /\ mRefCnt[relTimer] > 0
      BY <1>0, <2>3, <2>4 DEF Control
    <3> QED
      BY <2>2, <2>3, <3>1 DEF One
  <2> QED
    BY <1>0, <1>7, <2>4 DEF Rearm, Control
<1>8. CASE PostEvent
  BY <1>0, <1>8 DEF PostEvent, Control
<1>9. ASSUME NEW t \in Timers, InitTimer(t) PROVE Control'
  <2>1. pc' = pc \/ (pc = "wait" /\ pc' = "scan")
    BY <1>9, WakeupPc DEF InitTimer
  <2> QED
    BY <1>0, <1>9, <2>1, TimerAssumption DEF InitTimer, May, OwnerFree, Control
<1>10. ASSUME NEW t \in Timers, Cancel(t) PROVE Control'
  <2>1. pc' = pc \/ (pc = "wait" /\ pc' = "scan")
    BY <1>10, WakeupPc DEF Cancel
  <2> QED
    BY <1>0, <1>10, <2>1 DEF Cancel, May, OwnerFree, Control
<1>11. ASSUME NEW t \in Timers, ReleaseTimer(t) PROVE Control'
  BY <1>0, <1>11, TimerAssumption DEF ReleaseTimer, May, OwnerFree, Control
<1>12. ASSUME NEW t \in Timers, NEW d \in Delays, SetDelay(t, d) PROVE Control'
  BY <1>0, <1>12, TimerAssumption DEF SetDelay, May, OwnerFree, Control
<1>13. ASSUME NEW t \in Timers, NEW type \in Types, SetType(t, type) PROVE Control'
  BY <1>0, <1>13 DEF SetType, May, OwnerFree, Control
<1>14. CASE Shutdown
  <2>1. pc' = pc \/ (pc = "wait" /\ pc' = "scan")
    BY <1>14, WakeupPc DEF Shutdown
  <2> QED
    BY <1>0, <1>14, <2>1 DEF Shutdown, OwnerFree, Control
<1>15. ASSUME NEW type \in Types, NEW d \in Delays, InitDelay(type, d) PROVE Control'
  BY <1>0, <1>15 DEF InitDelay, Control
<1>16. CASE InitAdd
  <2>1. pc' = pc \/ (pc = "wait" /\ pc' = "scan")
    BY <1>16, WakeupPc DEF InitAdd
  <2> QED
    BY <1>0, <1>16, <2>1 DEF InitAdd, Control
<1>17. CASE TimerDelayChanged
  <2>1. pc' = pc \/ (pc = "wait" /\ pc' = "scan")
    BY <1>17, WakeupPc DEF TimerDelayChanged
  <2> QED
    BY <1>0, <1>17, <2>1 DEF TimerDelayChanged, Control
<1>18. CASE DropReference
  <2>1. relTimer \in Timers
    BY <1>0, <1>18 DEF DropReference, TypeOK, Control
  <2>2. relPc' = "test" => mRefCnt'[relTimer'] > 0
    BY <1>0, <1>18, <2>1 DEF DropReference, EndRelease, TypeOK
  <2> QED
    BY <1>0, <1>18, <2>1, <2>2, TimerAssumption DEF DropReference, EndRelease, Control
<1>19. CASE TestArmed
  BY <1>0, <1>19 DEF TestArmed, EndRelease, Control
<1>20. CASE RemoveReleased
  <2>1. pc' = pc \/ (pc = "wait" /\ pc' = "scan")
    BY <1>20, WakeupPc DEF RemoveReleased
  <2> QED
    BY <1>0, <1>20, <2>1 DEF RemoveReleased, EndRelease, Control
<1>21. CASE HandleEvent
  <2>1. events \in Seq(Event) /\ events # <<>>
    BY <1>0, <1>21 DEF HandleEvent, TypeOK, Event
  <2>2. Head(events) \in Event
    BY <2>1, CountTail
  <2>3. Head(events).timer # NoTimer
    BY <2>2, TimerAssumption DEF Event
  <2> QED
    BY <1>0, <1>21, <2>3 DEF HandleEvent, OwnerFree, DestroyEvent, Control
<1>22. CASE CallbackReturns
  BY <1>0, <1>22 DEF CallbackReturns, OwnerFree, DestroyEvent, Control
<1>23. CASE RearmSlack
  <2>1. pc' = pc \/ (pc = "wait" /\ pc' = "scan")
    BY <1>23, WakeupPc DEF RearmSlack
  <2> QED
    BY <1>0, <1>23, <2>1 DEF RearmSlack, DestroyEvent, Control
<1>24. CASE ShutdownJoined
  BY <1>0, <1>24 DEF ShutdownJoined, Control
<1>25. CASE Tick
  BY <1>0, <1>25 DEF Tick, Control
<1> QED
  BY <1>1, <1>2, <1>3, <1>4, <1>5, <1>6, <1>7, <1>8, <1>9, <1>10, <1>11, <1>12, <1>13, <1>14,
     <1>15, <1>16, <1>17, <1>18, <1>19, <1>20, <1>21, <1>22, <1>23, <1>24, <1>25
     DEF Next, ThreadStep, OwnerCalls, OwnerStep

------------------------------------------------------------------------------
(* The theorems.                                                             *)

LEMMA TimerInit == Init => TimerInv
<1> SUFFICES ASSUME Init PROVE TimerInv
  OBVIOUS
<1>1. FieldTypes
  BY TimerAssumption DEF Init, FieldTypes
<1>2. RunTypes
  <2>1. <<>> \in Seq(Timers) /\ 0 \in 0..MaxGeneration
    BY TimerAssumption
  <2> QED
    BY <2>1 DEF Init, RunTypes
<1>3. CallTypes
  BY DEF Init, CallTypes
<1>4. TimeTypes
  BY TimerAssumption DEF Init, TimeTypes
<1>5. AllCounted
  <2> SUFFICES ASSUME NEW t \in Timers PROVE Counted(t)
    BY DEF AllCounted
  <2>1. Count(mTimers, {t}) = 0 /\ Count(events, EventsOf(t)) = 0
    BY CountEmpty DEF Init
  <2>2. Holders(t) = 1
    BY TimerAssumption DEF Init, Holders, One
  <2> QED
    BY <2>1, <2>2 DEF Init, Counted
<1>6. Control
  BY DEF Init, Control
<1> QED
  BY <1>1, <1>2, <1>3, <1>4, <1>5, <1>6, TypeParts DEF TimerInv

LEMMA TimerNext == TimerInv /\ [Next]_vars => TimerInv'
<1> SUFFICES ASSUME TimerInv, [Next]_vars PROVE TimerInv'
  OBVIOUS
<1>1. CASE Next
  <2>1. Control'
    BY <1>1, ControlNext
  <2>2. TypeOK'
    BY <1>1, ThreadStepTypes, OwnerCallTypes, OwnerStepTypes, TickTypes DEF Next
  <2>3. AllCounted'
    BY <1>1, ThreadStepCounts, CallCounts, OwnerStepCounts, TickCounts DEF Next
  <2> QED
    BY <2>1, <2>2, <2>3 DEF TimerInv
<1>2. CASE UNCHANGED vars
  <2>1. TypeOK'
    <3>1. FieldTypes'
      BY <1>2, TypeParts DEF vars, TimerInv, FieldTypes
    <3>2. RunTypes'
      BY <1>2, TypeParts DEF vars, TimerInv, RunTypes
    <3>3. CallTypes'
      BY <1>2, TypeParts DEF vars, TimerInv, CallTypes
    <3>4. TimeTypes'
      BY <1>2, TypeParts DEF vars, TimerInv, TimeTypes
    <3> QED
      BY <3>1, <3>2, <3>3, <3>4, TypePartsNext
  <2>2. AllCounted'
    BY <1>2 DEF vars, TimerInv, AllCounted, Counted, Holders
  <2>3. Control'
    BY <1>2 DEF vars, TimerInv, Control
  <2> QED
    BY <2>1, <2>2, <2>3 DEF TimerInv
<1> QED
  BY <1>1, <1>2

LEMMA TimerInvariant == Spec => []TimerInv
  BY TimerInit, TimerNext, PTL DEF Spec

\* Every field of the timers, of the timer thread and of the owner keeps its type, whatever
\* the owner calls in and out of callbacks.
THEOREM TypesHold == Spec => []TypeOK
<1>1. TimerInv => TypeOK
  BY DEF TimerInv
<1> QED
  BY <1>1, TimerInvariant, PTL

\* The reference counts are exact, and Release, which looks at mArmed and writes mCanceled
\* behind its own decrement, does so only of a timer that somebody still refers to.
THEOREM NobodyTouchesTheDead == Spec => []HandsOff
<1>1. TimerInv => HandsOff
  <2> SUFFICES ASSUME TimerInv PROVE HandsOff
    OBVIOUS
  <2>0. TypeOK /\ AllCounted /\ Control
    BY DEF TimerInv
  <2>1. ASSUME NEW t \in Timers PROVE mRefCnt[t] = References(t)
    <3> DEFINE l == Cardinality({i \in 1..Len(mTimers) : mTimers[i] = t})
               e == Cardinality({i \in 1..Len(events) : events[i].timer = t})
               x == One(held[t])
               y == One(cur = t)
               z == One(handled = t)
               w == One(relPc = "drop" /\ relTimer = t)
    <3>1. l = Count(mTimers, {t})
      BY DEF Count, At
    <3>2. e = Count(events, EventsOf(t))
      <4>1. \A i \in 1..Len(events) : events[i] \in Event
        <5>1. events \in Seq(Event)
          BY <2>0 DEF TypeOK, Event
        <5> QED
          BY <5>1, LenProperties
      <4>2. {i \in 1..Len(events) : events[i].timer = t} = At(events, EventsOf(t))
        BY <4>1 DEF At, EventsOf
      <4> QED
        BY <4>2 DEF Count
    <3>3. x \in Nat /\ y \in Nat /\ z \in Nat /\ w \in Nat
      BY DEF One
    <3>4. l \in Nat /\ e \in Nat /\ mRefCnt[t] = l + e + Holders(t)
      BY <2>0, <3>1, <3>2, CountParts
    <3>5. Holders(t) = x + y + z + w /\ References(t) = x + l + y + e + z + w
      BY DEF Holders, References
    <3> HIDE DEF l, e, x, y, z, w
    <3> QED
      BY <3>3, <3>4, <3>5
  <2> QED
    BY <2>0, <2>1 DEF HandsOff, CountsAreReferences, Control
<1> QED
  BY <1>1, TimerInvariant, PTL

------------------------------------------------------------------------------
(* The clock.                                                                *)

\* The wrap is within one turn of the clock.
LEMMA WrapFacts ==
    ASSUME NEW D \in Nat \ {0}, NEW x \in Int
    PROVE  /\ 0 <= x /\ x < D => x % D = x
           /\ D <= x /\ x < 2 * D => x % D = x - D
           /\ -D <= x /\ x < 0 => x % D = x + D
  OBVIOUS

Half == Domain \div 2

LEMMA HalfFacts == Half \in Nat /\ Half >= 1 /\ Domain = 2 * Half /\ Domain \in Nat \ {0}
  BY TimerAssumption DEF Half

LEMMA TurnFacts ==
    \A e \in Int :
                  /\ 0 <= e /\ e < Domain => e % Domain = e
                  /\ Domain <= e /\ e < 2 * Domain => e % Domain = e - Domain
                  /\ -Domain <= e /\ e < 0 => e % Domain = e + Domain
  BY WrapFacts, HalfFacts

\* How far a time is ahead of n, and of now: negative when it has passed.
AheadOf(x, n) ==
    IF x - n > Half THEN x - n - Domain ELSE IF x - n <= -Half THEN x - n + Domain ELSE x - n
Ahead(x) == AheadOf(x, now)

LEMMA AheadType ==
    ASSUME NEW x \in 0..Domain - 1, NEW n \in 0..Domain - 1
    PROVE  /\ AheadOf(x, n) \in Int /\ -Half < AheadOf(x, n) /\ AheadOf(x, n) <= Half
           /\ AheadOf(x, n) = x - n \/ AheadOf(x, n) = x - n - Domain \/ AheadOf(x, n) = x - n + Domain
  BY HalfFacts DEF AheadOf

\* TIMER_LESS_THAN compares how far two times are ahead, when these differ by less than half a turn.
LEMMA LessThanAhead ==
    ASSUME NEW n \in 0..Domain - 1, NEW x \in 0..Domain - 1, NEW y \in 0..Domain - 1,
           AheadOf(x, n) - AheadOf(y, n) < Half, AheadOf(y, n) - AheadOf(x, n) < Half
    PROVE  LessThan(x, y) <=> AheadOf(x, n) < AheadOf(y, n)
<1> DEFINE a == AheadOf(x, n)
           b == AheadOf(y, n)
<1>1. a \in Int /\ b \in Int /\ a - b < Half /\ b - a < Half
  BY AheadType
<1>2. a = x - n \/ a = x - n - Domain \/ a = x - n + Domain
  BY AheadType
<1>3. b = y - n \/ b = y - n - Domain \/ b = y - n + Domain
  BY AheadType
<1> HIDE DEF a, b
<1>4. /\ 0 <= x - y => (x - y) % Domain = x - y
      /\ x - y < 0 => (x - y) % Domain = x - y + Domain
  <2>1. x - y \in Int /\ -Domain <= x - y /\ x - y < Domain
    BY HalfFacts
  <2> QED
    BY <2>1, TurnFacts, HalfFacts
<1>5. LessThan(x, y) <=> (x - y) % Domain > Half
  BY DEF LessThan, Half
<1>6. (x - y) % Domain > Half <=> a < b
  <2>1. CASE 0 <= x - y
    BY <1>1, <1>2, <1>3, <1>4, <2>1, HalfFacts
  <2>2. CASE x - y < 0
    BY <1>1, <1>2, <1>3, <1>4, <2>2, HalfFacts
  <2> QED
    BY <2>1, <2>2
<1> QED
  BY <1>5, <1>6 DEF a, b

\* A time that is d later is as much further ahead.
LEMMA AheadLater ==
    ASSUME NEW n \in 0..Domain - 1, NEW x \in 0..Domain - 1, NEW d \in Int,
           -Half < d, d < Half, -Half < AheadOf(x, n) + d, AheadOf(x, n) + d <= Half
    PROVE  /\ (x + d) % Domain \in 0..Domain - 1
           /\ AheadOf((x + d) % Domain, n) = AheadOf(x, n) + d
<1> DEFINE a == AheadOf(x, n)
           z == (x + d) % Domain
<1>1. a \in Int /\ (a = x - n \/ a = x - n - Domain \/ a = x - n + Domain)
  BY AheadType
<1>2. -Half < a + d /\ a + d <= Half
  OBVIOUS
<1> HIDE DEF a
<1>3. /\ 0 <= x + d /\ x + d < Domain => z = x + d
      /\ Domain <= x + d => z = x + d - Domain
      /\ x + d < 0 => z = x + d + Domain
  <2>1. x + d \in Int /\ -Domain <= x + d /\ x + d < 2 * Domain
    BY HalfFacts
  <2> QED
    BY <2>1, TurnFacts, HalfFacts
<1> HIDE DEF z
<1>4. z \in 0..Domain - 1 /\ (z = x + d \/ z = x + d - Domain \/ z = x + d + Domain)
  BY <1>3, HalfFacts
<1>5. AheadOf(z, n) \in Int /\ -Half < AheadOf(z, n) /\ AheadOf(z, n) <= Half
  BY <1>4, AheadType
<1>6. AheadOf(z, n) = z - n \/ AheadOf(z, n) = z - n - Domain \/ AheadOf(z, n) = z - n + Domain
  BY <1>4, AheadType
<1>7. AheadOf(z, n) = a + d
  <2> DEFINE b == AheadOf(z, n)
  <2>1. b \in Int /\ -Half < b /\ b <= Half
    BY <1>5
  <2>2. b = z - n \/ b = z - n - Domain \/ b = z - n + Domain
    BY <1>6
  <2> HIDE DEF b
  <2>3. b = a + d
    BY <1>1, <1>2, <1>4, <2>1, <2>2, HalfFacts
  <2> QED
    BY <2>3 DEF b
<1> QED
  BY <1>4, <1>7 DEF a, z

\* From now on a delay of d is d ahead.
LEMMA AheadNow ==
    ASSUME NEW n \in 0..Domain - 1, NEW d \in Nat, d < Half
    PROVE  (n + d) % Domain \in 0..Domain - 1 /\ AheadOf((n + d) % Domain, n) = d
<1>1. AheadOf(n, n) = 0
  BY HalfFacts DEF AheadOf
<1>2. -Half < d /\ d < Half /\ -Half < AheadOf(n, n) + d /\ AheadOf(n, n) + d <= Half /\ d \in Int
  BY <1>1, HalfFacts
<1>3. (n + d) % Domain \in 0..Domain - 1 /\ AheadOf((n + d) % Domain, n) = AheadOf(n, n) + d
  BY <1>2, AheadLater
<1> QED
  BY <1>1, <1>3

\* A tick brings every time that is not about to wrap one nearer.
LEMMA AheadTick ==
    ASSUME NEW n \in 0..Domain - 1, NEW x \in 0..Domain - 1, AheadOf(x, n) > 1 - Half
    PROVE  AheadOf(x, (n + 1) % Domain) = AheadOf(x, n) - 1
<1> DEFINE a == AheadOf(x, n)
           m == (n + 1) % Domain
           b == AheadOf(x, m)
<1>1. a \in Int /\ a <= Half /\ (a = x - n \/ a = x - n - Domain \/ a = x - n + Domain) /\ a > 1 - Half
  BY AheadType
<1>2. m \in 0..Domain - 1 /\ (m = n + 1 \/ m = n + 1 - Domain)
  <2>1. CASE n + 1 < Domain
    <3>1. n + 1 \in Int /\ 0 <= n + 1
      OBVIOUS
    <3>2. m = n + 1
      BY <2>1, <3>1, TurnFacts, HalfFacts
    <3> QED
      BY <2>1, <3>1, <3>2, HalfFacts
  <2>2. CASE n + 1 >= Domain
    <3>1. n + 1 = Domain /\ Domain \in Int /\ Domain < 2 * Domain /\ Domain <= Domain
      BY <2>2, HalfFacts
    <3>2. m = Domain - Domain
      BY <3>1, TurnFacts, HalfFacts
    <3> QED
      BY <3>1, <3>2, HalfFacts
  <2> QED
    BY <2>1, <2>2, HalfFacts
<1> HIDE DEF m
<1>3. b \in Int /\ -Half < b /\ b <= Half /\ (b = x - m \/ b = x - m - Domain \/ b = x - m + Domain)
  BY <1>2, AheadType
<1> HIDE DEF a, b
<1>4. b = a - 1
  BY <1>1, <1>2, <1>3, HalfFacts
<1> QED
  BY <1>4 DEF a, b, m

\* What is not before now plus nothing, is not ahead.
LEMMA DueAhead ==
    ASSUME NEW n \in 0..Domain - 1, NEW x \in 0..Domain - 1, AheadOf(x, n) < Half
    PROVE  LessThan(n, x) <=> AheadOf(x, n) > 0
<1> DEFINE a == AheadOf(x, n)
<1>1. AheadOf(n, n) = 0 /\ a \in Int /\ -Half < a /\ a < Half
  BY AheadType, HalfFacts DEF AheadOf
<1> HIDE DEF a
<1>2. AheadOf(n, n) - a < Half /\ a - AheadOf(n, n) < Half
  BY <1>1, HalfFacts
<1>3. LessThan(n, x) <=> AheadOf(n, n) < a
  BY <1>2, LessThanAhead DEF a
<1> QED
  BY <1>1, <1>3 DEF a

------------------------------------------------------------------------------
(* One place for every timer.                                                *)

\* What a timer's owner does of which this section speaks: it does not call SetDelay or
\* SetType, and callbacks initialise timers only for the first time.
OneAtATime ==
    /\ IdleOps \subseteq {"init", "reinit", "cancel", "release", "shutdown"}
    /\ CallbackOps \subseteq {"init", "cancel", "release"}

InList(t) == Count(mTimers, {t})
\* Run or PostTimerEvent may yet put t into the list, or has its event in hand.
AtWork(t) == cur = t /\ pc # "post"
Posting(t) == cur = t /\ pc = "post" /\ curGeneration = mGeneration[t]
CurrentEvents(t) == {e \in Event : e.timer = t /\ e.generation = mGeneration[t]}
Queued(t) == Count(events, CurrentEvents(t))

\* A timer is in the list or in PostTimerEvent's hands.  A slack timer stays in one place
\* even behind that, up to the end of its callback.
OnePlace(t) ==
    /\ InList(t) + One(AtWork(t)) <= 1
    /\ mType[t] = REPEATING_SLACK =>
           InList(t) + One(AtWork(t)) + One(Posting(t)) + Queued(t) + One(handled = t) <= 1

\* Nothing of the timer's present generation is anywhere.
Blank(t) ==
    /\ InList(t) = 0 /\ ~AtWork(t) /\ handled # t
    /\ cur = t => curGeneration # mGeneration[t]
    /\ Queued(t) = 0

PlaceInv(t) ==
    /\ OnePlace(t)
    /\ mArmed[t] <=> InList(t) > 0
    /\ AtWork(t) /\ pc # "copy" => curGeneration = mGeneration[t]
    /\ opTimer = t => Blank(t) /\ mGeneration[t] # 0
    /\ mGeneration[t] = 0 => Blank(t) /\ cur # t /\ Count(events, EventsOf(t)) = 0
    /\ cur = t /\ pc = "rearm" => mType[t] = REPEATING_PRECISE
    /\ handled = t /\ ownerPc = "rearm" => mType[t] = REPEATING_SLACK

\* A new generation is one that nothing has yet.
Generations ==
    /\ curGeneration <= gGenerator
    /\ \A t \in Timers : mGeneration[t] <= gGenerator
    /\ \A i \in 1..Len(events) : events[i].generation <= gGenerator
    /\ opPc # "changed"

PlacesInv == TimerInv /\ Generations /\ \A t \in Timers \ raced : PlaceInv(t)

LEMMA NoSetters ==
    ASSUME OneAtATime, NEW t \in Timers
    PROVE  /\ \A d : ~SetDelay(t, d) /\ \A type : ~SetType(t, type)
           /\ InitTimer(t) /\ ownerPc = "callback" => mGeneration[t] = 0
  BY DEF OneAtATime, SetDelay, SetType, InitTimer, May, OwnerFree

LEMMA GenerationsNext ==
    ASSUME OneAtATime, TimerInv, Generations, Next
    PROVE  Generations'
<1>0. /\ TypeOK /\ gGenerator \in Nat /\ curGeneration \in Nat /\ mGeneration \in [Timers -> Nat]
      /\ events \in Seq(Event)
  <2>1. TypeOK
    BY DEF TimerInv
  <2>2. /\ gGenerator \in 0..MaxGeneration /\ curGeneration \in 0..MaxGeneration
        /\ mGeneration \in [Timers -> 0..MaxGeneration] /\ events \in Seq(Event)
    BY <2>1 DEF TypeOK, Event
  <2>3. gGenerator \in Nat /\ curGeneration \in Nat /\ mGeneration \in [Timers -> Nat]
    BY <2>2, TimerAssumption
  <2> QED
    BY <2>1, <2>2, <2>3
<1>1. CASE UNCHANGED <<curGeneration, mGeneration, gGenerator, events>> /\ opPc' \in {opPc, "none", "add"}
  BY <1>1 DEF Generations
<1>2. CASE CopyGeneration
  <2>1. cur \in Timers
    BY <1>2 DEF TimerInv, Control, TypeOK, CopyGeneration
  <2>2. curGeneration' = mGeneration[cur] /\ UNCHANGED <<mGeneration, gGenerator, events, opPc>>
    BY <1>2 DEF CopyGeneration
  <2> QED
    BY <2>1, <2>2 DEF Generations
<1>3. CASE PostEvent
  <2> DEFINE e == [timer |-> cur, generation |-> curGeneration]
  <2>1. /\ events' = Append(events, e) /\ curGeneration' = 0
        /\ UNCHANGED <<mGeneration, gGenerator, opPc>> /\ e.generation <= gGenerator
    BY <1>3 DEF PostEvent, Generations
  <2> HIDE DEF e
  <2>2. ASSUME NEW i \in 1..Len(events') PROVE events'[i].generation <= gGenerator'
    <3>1. Len(events') = Len(events) + 1 /\ Len(events) \in Nat
      BY <1>0, <2>1
    <3>2. CASE i = Len(events) + 1
      <4>1. events'[i] = e
        BY <1>0, <2>1, <3>2
      <4> QED
        BY <2>1, <4>1
    <3>3. CASE i # Len(events) + 1
      <4>1. i \in 1..Len(events)
        BY <3>1, <3>3
      <4>2. events'[i] = events[i]
        BY <1>0, <2>1, <4>1
      <4> QED
        BY <2>1, <4>1, <4>2 DEF Generations
    <3> QED
      BY <3>2, <3>3
  <2> QED
    BY <1>0, <2>1, <2>2 DEF Generations
<1>4. ASSUME NEW u \in Timers, InitTimer(u) PROVE Generations'
  <2>1. /\ UNCHANGED <<curGeneration, events>> /\ gGenerator' = gGenerator + 1
        /\ mGeneration' = [mGeneration EXCEPT ![u] = gGenerator + 1] /\ opPc' = "delay"
    BY <1>4 DEF InitTimer
  <2>2. \A i \in 1..Len(events) : events[i].generation \in Nat
    <3> SUFFICES ASSUME NEW i \in 1..Len(events) PROVE events[i].generation \in Nat
      OBVIOUS
    <3>1. events[i] \in Event
      BY <1>0
    <3> QED
      BY <3>1, TimerAssumption DEF Event
  <2>3. \A t \in Timers : mGeneration'[t] <= gGenerator'
    BY <1>0, <2>1 DEF Generations
  <2>4. \A i \in 1..Len(events') : events'[i].generation <= gGenerator'
    BY <1>0, <2>1, <2>2 DEF Generations
  <2> QED
    BY <1>0, <2>1, <2>3, <2>4 DEF Generations
<1>5. CASE HandleEvent
  <2>1. /\ events # <<>> /\ events' = Tail(events)
        /\ UNCHANGED <<curGeneration, mGeneration, gGenerator, opPc>>
    BY <1>5 DEF HandleEvent
  <2>2. ASSUME NEW i \in 1..Len(events') PROVE events'[i].generation <= gGenerator'
    <3>1. i + 1 \in 1..Len(events) /\ events'[i] = events[i + 1]
      BY <1>0, <2>1
    <3> QED
      BY <2>1, <3>1 DEF Generations
  <2> QED
    BY <2>1, <2>2 DEF Generations
<1>6. opPc # "changed"
  BY DEF Generations
<1>7. ASSUME NEW a \in Adjustments, RunTakes(a) PROVE Generations'
  BY <1>1, <1>7 DEF RunTakes
<1>8. ASSUME NEW a \in Adjustments, RunWaits(a) PROVE Generations'
  BY <1>1, <1>8 DEF RunWaits
<1>9. CASE RunTimesOut \/ RunExits \/ RepeatPrecise \/ Rearm
  BY <1>1, <1>9 DEF RunTimesOut, RunExits, RepeatPrecise, Rearm
<1>10. ASSUME NEW u \in Timers, Cancel(u) \/ ReleaseTimer(u) PROVE Generations'
  BY <1>1, <1>10 DEF Cancel, ReleaseTimer
<1>11. ASSUME NEW type, NEW d, InitDelay(type, d) PROVE Generations'
  BY <1>1, <1>11 DEF InitDelay
<1>12. CASE InitAdd \/ DropReference \/ TestArmed \/ RemoveReleased
  BY <1>1, <1>12 DEF InitAdd, DropReference, TestArmed, RemoveReleased, EndRelease
<1>13. CASE CallbackReturns \/ RearmSlack \/ Shutdown \/ ShutdownJoined \/ Tick
  BY <1>1, <1>13 DEF CallbackReturns, RearmSlack, Shutdown, ShutdownJoined, Tick
<1>14. CASE ThreadStep
  BY <1>2, <1>3, <1>7, <1>8, <1>9, <1>14 DEF ThreadStep
<1>15. CASE OwnerCalls
  BY <1>4, <1>10, <1>13, <1>15, NoSetters DEF OwnerCalls
<1>16. CASE OwnerStep
  BY <1>5, <1>6, <1>11, <1>12, <1>13, <1>16 DEF OwnerStep, TimerDelayChanged
<1> QED
  BY <1>13, <1>14, <1>15, <1>16 DEF Next

\* What a timer's places are: numbers.
LEMMA PlaceTypes ==
    ASSUME TypeOK, NEW t \in Timers
    PROVE  /\ InList(t) \in Nat /\ Queued(t) \in Nat /\ Count(events, EventsOf(t)) \in Nat
           /\ mGeneration[t] \in Nat /\ curGeneration \in Nat /\ mArmed[t] \in BOOLEAN
           /\ Queued(t) > 0 => Count(events, EventsOf(t)) > 0
<1>1. mTimers \in Seq(Timers) /\ events \in Seq(Event)
  BY DEF TypeOK, Event
<1>2. InList(t) \in Nat /\ Queued(t) \in Nat /\ Count(events, EventsOf(t)) \in Nat
  BY <1>1, CountType DEF InList, Queued
<1>3. mGeneration[t] \in Nat /\ curGeneration \in Nat /\ mArmed[t] \in BOOLEAN
  BY TimerAssumption DEF TypeOK
<1>4. ASSUME Queued(t) > 0 PROVE Count(events, EventsOf(t)) > 0
  <2>1. PICK i \in 1..Len(events) : events[i] \in CurrentEvents(t)
    BY <1>1, <1>4, CountPositive DEF Queued
  <2>2. events[i] \in EventsOf(t)
    BY <2>1 DEF CurrentEvents, EventsOf
  <2> QED
    BY <1>1, <2>2, CountPositive
<1> QED
  BY <1>2, <1>3, <1>4

\* Only AddTimerInternal and RemoveTimerInternal move a timer in and out of the list.
LEMMA ArmedPlace ==
    ASSUME TypeOK, NEW u \in Timers, Armed(u), NEW t \in Timers
    PROVE  /\ InList(t)' = InList(t) + One(t = u)
           /\ mArmed'[t] = (mArmed[t] \/ t = u)
<1>1. Count(mTimers', {t}) = Count(mTimers, {t}) + One(t = u)
  BY ArmedFacts
<1>2. mArmed' = [mArmed EXCEPT ![u] = TRUE] /\ mArmed \in [Timers -> BOOLEAN]
  BY DEF Armed, TypeOK
<1>3. mArmed'[t] = (mArmed[t] \/ t = u)
  BY <1>2
<1> QED
  BY <1>1, <1>3 DEF InList

LEMMA DisarmedPlace ==
    ASSUME TypeOK, NEW u \in Timers, Disarmed(u), NEW t \in Timers
    PROVE  /\ t # u => InList(t)' = InList(t) /\ mArmed'[t] = mArmed[t]
           /\ InList(u) = 0 => InList(u)' = 0 /\ mArmed'[u] = mArmed[u]
           /\ InList(u) > 0 => InList(u)' = InList(u) - 1 /\ mArmed'[u] = FALSE
<1>1. mArmed \in [Timers -> BOOLEAN] /\ mTimers \in Seq(Timers)
  BY DEF TypeOK
<1>2. InList(u) \in Nat /\ (Listed(u) <=> InList(u) > 0) /\ InList(t) \in Nat
  BY ListedCounts DEF InList
<1>3. CASE Listed(u)
  <2>1. mTimers' = RemoveElement(mTimers, u) /\ mArmed' = [mArmed EXCEPT ![u] = FALSE]
    BY <1>3 DEF Disarmed
  <2>2. /\ Count(mTimers', {t}) = Count(mTimers, {t}) - One(t = u)
        /\ Count(mTimers', {u}) = Count(mTimers, {u}) - One(u = u)
    BY <1>1, <1>3, <2>1, RemoveElementFacts DEF Listed
  <2>3. InList(t)' = InList(t) - One(t = u) /\ InList(u)' = InList(u) - 1
    BY <2>2 DEF InList, One
  <2>4. t # u => InList(t)' = InList(t)
    BY <1>2, <2>3 DEF One
  <2>5. (t # u => mArmed'[t] = mArmed[t]) /\ mArmed'[u] = FALSE
    BY <1>1, <2>1, Zenon
  <2>6. InList(u) > 0 /\ InList(u) # 0
    BY <1>2, <1>3
  <2> QED
    BY <2>3, <2>4, <2>5, <2>6
<1>4. CASE ~Listed(u)
  <2>1. UNCHANGED <<mTimers, mArmed>>
    BY <1>4 DEF Disarmed
  <2> QED
    BY <1>2, <1>4, <2>1 DEF InList
<1> QED
  BY <1>3, <1>4

LEMMA QueuedKept ==
    ASSUME NEW t, events' = events, mGeneration'[t] = mGeneration[t]
    PROVE  /\ Queued(t)' = Queued(t) /\ CurrentEvents(t)' = CurrentEvents(t)
           /\ Count(events', EventsOf(t)) = Count(events, EventsOf(t))
  BY DEF Queued, CurrentEvents

\* A step of which t's place knows nothing.
Untouched(t) ==
    /\ InList(t)' = InList(t) /\ mArmed'[t] = mArmed[t]
    /\ mGeneration'[t] = mGeneration[t] /\ mType'[t] = mType[t]
    /\ Queued(t)' = Queued(t) /\ Count(events', EventsOf(t)) = Count(events, EventsOf(t))
    /\ cur' = t <=> cur = t
    /\ cur = t => pc' = pc /\ curGeneration' = curGeneration
    /\ handled' = t <=> handled = t
    /\ handled = t => ownerPc' = ownerPc
    /\ opTimer' = t => opTimer = t

LEMMA PlaceUntouched ==
    ASSUME NEW t \in Timers, PlaceInv(t), Untouched(t)
    PROVE  PlaceInv(t)'
<1>1. (AtWork(t)' <=> AtWork(t)) /\ (Posting(t)' <=> Posting(t))
  BY DEF Untouched, AtWork, Posting
<1>2. Blank(t)' <=> Blank(t)
  BY <1>1 DEF Untouched, Blank
<1>3. OnePlace(t)'
  <2>1. One(AtWork(t))' = One(AtWork(t)) /\ One(Posting(t))' = One(Posting(t)) /\ One(handled = t)' = One(handled = t)
    BY <1>1 DEF One, Untouched
  <2> QED
    BY <2>1 DEF PlaceInv, OnePlace, Untouched
<1>4. (AtWork(t) /\ pc # "copy" => curGeneration = mGeneration[t])'
  BY <1>1 DEF PlaceInv, Untouched, AtWork
<1>5. (mArmed[t] <=> InList(t) > 0)' /\ (opTimer = t => Blank(t) /\ mGeneration[t] # 0)'
  BY <1>2 DEF PlaceInv, Untouched
<1>6. (mGeneration[t] = 0 => Blank(t) /\ cur # t /\ Count(events, EventsOf(t)) = 0)'
  BY <1>2 DEF PlaceInv, Untouched
<1>7. (cur = t /\ pc = "rearm" => mType[t] = REPEATING_PRECISE)' /\ (handled = t /\ ownerPc = "rearm" => mType[t] = REPEATING_SLACK)'
  BY DEF PlaceInv, Untouched
<1> QED
  BY <1>3, <1>4, <1>5, <1>6, <1>7 DEF PlaceInv

\* A timer of which nothing is anywhere has any place of those that are left.
LEMMA BlankPlace ==
    ASSUME TypeOK, NEW t \in Timers, Blank(t)
    PROVE  OnePlace(t)
<1>1. One(AtWork(t)) = 0 /\ One(Posting(t)) = 0 /\ One(handled = t) = 0 /\ InList(t) = 0 /\ Queued(t) = 0
  BY DEF One, Blank, Posting
<1> QED
  BY <1>1 DEF OnePlace

LEMMA PlaceThreadStep ==
    ASSUME PlacesInv, ThreadStep, TypeOK', NEW t \in Timers \ raced
    PROVE  PlaceInv(t)'
<1>0. TypeOK /\ Control /\ PlaceInv(t) /\ t \in Timers /\ t # NoTimer
  BY TimerAssumption DEF PlacesInv, TimerInv
<1>10. /\ InList(t) \in Nat /\ Queued(t) \in Nat /\ Count(events, EventsOf(t)) \in Nat
       /\ mGeneration[t] \in Nat /\ curGeneration \in Nat /\ mArmed[t] \in BOOLEAN
  BY <1>0, PlaceTypes
<1>1. ASSUME NEW a \in Adjustments, RunTakes(a) PROVE PlaceInv(t)'
  <2> DEFINE u == Head(mTimers)
  <2>1. mTimers \in Seq(Timers) /\ mTimers # <<>> /\ mArmed \in [Timers -> BOOLEAN]
    BY <1>0, <1>1 DEF RunTakes, TypeOK
  <2>2. u \in Timers /\ Count(Tail(mTimers), {t}) = Count(mTimers, {t}) - (IF u \in {t} THEN 1 ELSE 0)
    BY <2>1, CountTail
  <2>3. /\ cur = NoTimer /\ cur' = u /\ pc' = "copy" /\ mTimers' = Tail(mTimers)
        /\ mArmed' = [mArmed EXCEPT ![u] = FALSE]
        /\ UNCHANGED <<mGeneration, mType, events, curGeneration, ownerPc, handled, opTimer>>
    BY <1>0, <1>1 DEF RunTakes, Control
  <2> HIDE DEF u
  <2>4. InList(t)' = InList(t) - One(u = t)
    BY <2>2, <2>3 DEF InList, One
  <2>5. /\ Queued(t)' = Queued(t) /\ Count(events', EventsOf(t)) = Count(events, EventsOf(t))
    BY <2>3, QueuedKept
  <2>6. CASE u = t
    <3>1. InList(t)' = InList(t) - 1 /\ ~AtWork(t) /\ AtWork(t)' /\ ~Posting(t) /\ ~Posting(t)'
      BY <1>0, <2>3, <2>4, <2>6 DEF One, AtWork, Posting
    <3>2. InList(t) > 0
      <4>1. InList(t)' \in Nat
        <5>1. Tail(mTimers) \in Seq(Timers)
          BY <2>1, CountTail
        <5> QED
          BY <2>3, <5>1, CountType DEF InList
      <4> QED
        BY <1>10, <3>1, <4>1
    <3>3. InList(t) = 1 /\ OnePlace(t)'
      BY <1>0, <1>10, <2>3, <2>5, <3>1, <3>2 DEF PlaceInv, OnePlace, One
    <3>4. opTimer # t /\ mGeneration[t] # 0
      BY <1>0, <3>2 DEF PlaceInv, Blank
    <3>5. ~mArmed'[t] /\ InList(t)' = 0
      BY <1>10, <2>1, <2>3, <2>6, <3>1, <3>3
    <3> QED
      BY <1>0, <2>3, <2>6, <3>3, <3>4, <3>5 DEF PlaceInv
  <2>7. CASE u # t
    <3>1. InList(t)' = InList(t) /\ mArmed'[t] = mArmed[t]
      <4>1. InList(t)' = InList(t)
        BY <1>10, <2>4, <2>7 DEF One
      <4>2. mArmed'[t] = mArmed[t]
        BY <1>0, <2>1, <2>3, <2>7, Zenon
      <4> QED
        BY <4>1, <4>2
    <3> QED
      BY <1>0, <2>3, <2>5, <2>7, <3>1, PlaceUntouched DEF Untouched
  <2> QED
    BY <2>6, <2>7
<1>2. ASSUME \/ \E a \in Adjustments : RunWaits(a)
             \/ RunTimesOut \/ RunExits
      PROVE  PlaceInv(t)'
  <2>1. /\ cur = NoTimer /\ cur' = cur
        /\ UNCHANGED <<mTimers, mArmed, mGeneration, mType, events, ownerPc, handled, opTimer>>
    BY <1>0, <1>2 DEF RunWaits, RunTimesOut, RunExits, Control
  <2> QED
    BY <1>0, <2>1, PlaceUntouched, QueuedKept DEF Untouched, InList
<1>3. CASE CopyGeneration
  <2>1. /\ pc = "copy" /\ pc' = "repeat" /\ curGeneration' = mGeneration[cur]
        /\ UNCHANGED <<cur, mTimers, mArmed, mGeneration, mType, events, ownerPc, handled, opTimer>>
    BY <1>3 DEF CopyGeneration
  <2>2. InList(t)' = InList(t) /\ Queued(t)' = Queued(t) /\ Count(events', EventsOf(t)) = Count(events, EventsOf(t))
    BY <2>1, QueuedKept DEF InList
  <2>3. CASE cur = t
    <3>1. AtWork(t) /\ AtWork(t)' /\ ~Posting(t) /\ ~Posting(t)'
      BY <2>1, <2>3 DEF AtWork, Posting
    <3>2. OnePlace(t)'
      BY <1>0, <2>1, <2>2, <3>1 DEF PlaceInv, OnePlace, One
    <3>3. opTimer # t /\ mGeneration[t] # 0
      BY <1>0, <3>1 DEF PlaceInv, Blank
    <3> QED
      BY <1>0, <2>1, <2>2, <2>3, <3>2, <3>3 DEF PlaceInv
  <2>4. CASE cur # t
    BY <1>0, <2>1, <2>2, <2>4, PlaceUntouched DEF Untouched
  <2> QED
    BY <2>3, <2>4
<1>4. CASE RepeatPrecise
  <2>1. /\ pc = "repeat" /\ pc' = (IF mType[cur] = REPEATING_PRECISE THEN "rearm" ELSE "post")
        /\ UNCHANGED <<cur, curGeneration, mTimers, mArmed, mGeneration, mType, events, ownerPc, handled, opTimer>>
    BY <1>4 DEF RepeatPrecise
  <2>2. InList(t)' = InList(t) /\ Queued(t)' = Queued(t) /\ Count(events', EventsOf(t)) = Count(events, EventsOf(t))
    BY <2>1, QueuedKept DEF InList
  <2>3. CASE cur = t
    <3>1. AtWork(t) /\ ~Posting(t) /\ (AtWork(t)' => ~Posting(t)')
      BY <2>1, <2>3 DEF AtWork, Posting
    <3>2. OnePlace(t)'
      BY <1>0, <1>10, <2>1, <2>2, <3>1 DEF PlaceInv, OnePlace, One
    <3>3. opTimer # t /\ mGeneration[t] # 0 /\ curGeneration = mGeneration[t]
      BY <1>0, <2>1, <3>1 DEF PlaceInv, Blank
    <3> QED
      BY <1>0, <2>1, <2>2, <2>3, <3>2, <3>3 DEF PlaceInv
  <2>4. CASE cur # t
    BY <1>0, <2>1, <2>2, <2>4, PlaceUntouched DEF Untouched
  <2> QED
    BY <2>3, <2>4
<1>5. CASE Rearm
  <2>1. /\ pc = "rearm" /\ pc' = "post" /\ Armed(cur) /\ cur \in Timers
        /\ UNCHANGED <<cur, curGeneration, mGeneration, mType, events, ownerPc, handled, opTimer>>
    BY <1>0, <1>5 DEF Rearm, Control, TypeOK
  <2>2. InList(t)' = InList(t) + One(t = cur) /\ mArmed'[t] = (mArmed[t] \/ t = cur)
    BY <1>0, <2>1, ArmedPlace
  <2>3. Queued(t)' = Queued(t) /\ Count(events', EventsOf(t)) = Count(events, EventsOf(t))
    BY <2>1, QueuedKept
  <2>4. CASE cur = t
    <3>1. AtWork(t) /\ ~AtWork(t)' /\ InList(t)' = InList(t) + 1
      BY <2>1, <2>2, <2>4 DEF AtWork, One
    <3>2. mType[t] = REPEATING_PRECISE /\ REPEATING_PRECISE # REPEATING_SLACK
      BY <1>0, <2>1, <2>4 DEF PlaceInv, REPEATING_PRECISE, REPEATING_SLACK
    <3>3. OnePlace(t)'
      BY <1>0, <1>10, <2>1, <3>1, <3>2 DEF PlaceInv, OnePlace, One
    <3>4. opTimer # t /\ mGeneration[t] # 0
      BY <1>0, <3>1 DEF PlaceInv, Blank
    <3>5. mArmed'[t] /\ InList(t)' > 0
      <4>1. mArmed'[t]
        BY <2>2, <2>4, Zenon
      <4>2. InList(t)' > 0
        BY <1>10, <3>1
      <4> QED
        BY <4>1, <4>2
    <3> QED
      BY <1>0, <2>1, <2>4, <3>1, <3>3, <3>4, <3>5 DEF PlaceInv
  <2>5. CASE cur # t
    <3>1. InList(t)' = InList(t) /\ mArmed'[t] = mArmed[t]
      BY <1>10, <2>2, <2>5 DEF One
    <3> QED
      BY <1>0, <2>1, <2>3, <2>5, <3>1, PlaceUntouched DEF Untouched
  <2> QED
    BY <2>4, <2>5
<1>6. CASE PostEvent
  <2> DEFINE e == [timer |-> cur, generation |-> curGeneration]
  <2>1. cur \in Timers /\ e \in Event /\ events \in Seq(Event)
    BY <1>0, <1>6 DEF PostEvent, TypeOK, Control, Event
  <2>2. (e \in EventsOf(t) <=> cur = t) /\ (e \in CurrentEvents(t) <=> cur = t /\ curGeneration = mGeneration[t])
    BY <2>1 DEF EventsOf, CurrentEvents
  <2>3. /\ pc = "post" /\ events' = Append(events, e) /\ cur' = NoTimer
        /\ UNCHANGED <<mTimers, mArmed, mGeneration, mType, ownerPc, handled, opTimer>>
    BY <1>6 DEF PostEvent
  <2> HIDE DEF e
  <2>4. /\ Queued(t)' = Queued(t) + One(Posting(t))
        /\ Count(events', EventsOf(t)) = Count(events, EventsOf(t)) + One(cur = t)
    <3>1. CurrentEvents(t)' = CurrentEvents(t)
      BY <2>3 DEF CurrentEvents
    <3>2. Count(Append(events, e), EventsOf(t)) = Count(events, EventsOf(t)) + (IF e \in EventsOf(t) THEN 1 ELSE 0)
      BY <2>1, CountAppend
    <3>3. Count(Append(events, e), CurrentEvents(t))
            = Count(events, CurrentEvents(t)) + (IF e \in CurrentEvents(t) THEN 1 ELSE 0)
      BY <2>1, CountAppend
    <3> QED
      BY <2>2, <2>3, <3>1, <3>2, <3>3 DEF One, Queued, Posting
  <2>5. InList(t)' = InList(t)
    BY <2>3 DEF InList
  <2>6. CASE cur = t
    <3>1. ~AtWork(t) /\ ~AtWork(t)' /\ ~Posting(t)'
      BY <1>0, <2>3, <2>6 DEF AtWork, Posting
    <3>2. OnePlace(t)'
      BY <1>0, <1>10, <2>3, <2>4, <2>5, <3>1 DEF PlaceInv, OnePlace, One
    <3>3. mGeneration[t] # 0
      BY <1>0, <2>6 DEF PlaceInv
    <3>4. opTimer = t => Blank(t)'
      BY <1>0, <1>10, <2>3, <2>4, <2>5, <2>6, <3>1 DEF PlaceInv, Blank, One, Posting
    <3> QED
      BY <1>0, <2>3, <2>5, <3>1, <3>2, <3>3, <3>4 DEF PlaceInv
  <2>7. CASE cur # t
    <3>1. One(Posting(t)) = 0 /\ One(cur = t) = 0
      BY <2>7 DEF One, Posting
    <3>2. Queued(t)' = Queued(t) /\ Count(events', EventsOf(t)) = Count(events, EventsOf(t))
      BY <1>10, <2>4, <3>1
    <3> QED
      BY <1>0, <2>3, <2>5, <2>7, <3>2, PlaceUntouched DEF Untouched
  <2> QED
    BY <2>6, <2>7
<1> QED
  BY <1>1, <1>2, <1>3, <1>4, <1>5, <1>6 DEF ThreadStep

\* A step that at most takes t out of the list or ends its callback.
Lessened(t) ==
    /\ InList(t)' \in Nat /\ InList(t)' <= InList(t) /\ (mArmed'[t] <=> InList(t)' > 0)
    /\ UNCHANGED <<mGeneration, mType, cur, curGeneration, events>>
    /\ cur = t => pc' = pc
    /\ handled' = t => handled = t /\ ownerPc' = ownerPc
    /\ opTimer' = t => opTimer = t

LEMMA PlaceLess ==
    ASSUME TypeOK, NEW t \in Timers, PlaceInv(t), Lessened(t)
    PROVE  PlaceInv(t)'
<1>1. InList(t) \in Nat /\ Queued(t) \in Nat
  BY PlaceTypes
<1>2. (AtWork(t)' <=> AtWork(t)) /\ (Posting(t)' <=> Posting(t))
  BY DEF Lessened, AtWork, Posting
<1>3. Queued(t)' = Queued(t) /\ Count(events', EventsOf(t)) = Count(events, EventsOf(t))
  BY QueuedKept DEF Lessened
<1>4. Blank(t) => Blank(t)'
  BY <1>1, <1>2, <1>3 DEF Lessened, Blank
<1>5. OnePlace(t)'
  <2> DEFINE x == One(AtWork(t))
             w == One(Posting(t))
             y == One(handled = t)
             z == One(handled' = t)
             l == InList(t)'
  <2>1. x \in {0, 1} /\ w \in {0, 1} /\ y \in {0, 1} /\ z \in {0, 1} /\ z <= y /\ l \in Nat /\ l <= InList(t)
    BY DEF One, Lessened
  <2>2. InList(t) + x <= 1 /\ (mType[t] = REPEATING_SLACK => InList(t) + x + w + Queued(t) + y <= 1)
    BY DEF PlaceInv, OnePlace
  <2>3. One(AtWork(t)') = x /\ One(Posting(t)') = w /\ mType'[t] = mType[t]
    BY <1>2 DEF One, Lessened
  <2> HIDE DEF x, y, z, w, l
  <2>4. l + x <= 1 /\ (mType[t] = REPEATING_SLACK => l + x + w + Queued(t) + z <= 1)
    BY <1>1, <2>1, <2>2
  <2> QED
    BY <1>3, <2>3, <2>4 DEF OnePlace, l, z
<1>6. (AtWork(t) /\ pc # "copy" => curGeneration = mGeneration[t])'
  BY <1>2 DEF PlaceInv, Lessened, AtWork
<1>7. (mArmed[t] <=> InList(t) > 0)' /\ (opTimer = t => Blank(t) /\ mGeneration[t] # 0)'
  BY <1>4 DEF PlaceInv, Lessened
<1>8. (mGeneration[t] = 0 => Blank(t) /\ cur # t /\ Count(events, EventsOf(t)) = 0)'
  BY <1>3, <1>4 DEF PlaceInv, Lessened
<1>9. (cur = t /\ pc = "rearm" => mType[t] = REPEATING_PRECISE)' /\ (handled = t /\ ownerPc = "rearm" => mType[t] = REPEATING_SLACK)'
  BY DEF PlaceInv, Lessened
<1> QED
  BY <1>5, <1>6, <1>7, <1>8, <1>9 DEF PlaceInv

LEMMA PlaceDisarmed ==
    ASSUME TypeOK, NEW u \in Timers, Disarmed(u), NEW t \in Timers, PlaceInv(t),
           UNCHANGED <<mGeneration, mType, cur, curGeneration, events, ownerPc, handled, opTimer>>,
           cur = t => pc' = pc
    PROVE  PlaceInv(t)'
<1>1. InList(t) \in Nat /\ (mArmed[t] <=> InList(t) > 0) /\ InList(t) + One(AtWork(t)) <= 1
  BY PlaceTypes DEF PlaceInv, OnePlace
<1>2. InList(t) <= 1
  BY <1>1 DEF One
<1>3. InList(t)' \in Nat /\ InList(t)' <= InList(t) /\ (mArmed'[t] <=> InList(t)' > 0)
  <2>1. CASE t # u
    <3>1. InList(t)' = InList(t) /\ mArmed'[t] = mArmed[t]
      BY <2>1, DisarmedPlace
    <3>2. InList(t)' \in Nat /\ InList(t)' <= InList(t)
      BY <1>1, <3>1
    <3> QED
      BY <1>1, <3>1, <3>2, Zenon
  <2>2. CASE t = u /\ InList(u) = 0
    <3>1. InList(t)' = InList(t) /\ mArmed'[t] = mArmed[t]
      BY <2>2, DisarmedPlace
    <3>2. InList(t)' \in Nat /\ InList(t)' <= InList(t)
      BY <1>1, <3>1
    <3> QED
      BY <1>1, <3>1, <3>2, Zenon
  <2>3. CASE t = u /\ InList(u) > 0
    <3>1. InList(t)' = InList(t) - 1 /\ mArmed'[t] = FALSE
      BY <2>3, DisarmedPlace
    <3>2. InList(t) = 1
      BY <1>1, <1>2, <2>3
    <3>3. InList(t)' = 0
      BY <3>1, <3>2
    <3> QED
      BY <3>1, <3>2, <3>3
  <2> QED
    BY <1>1, <2>1, <2>2, <2>3
<1>4. Lessened(t)
  BY <1>3 DEF Lessened
<1> QED
  BY <1>4, PlaceLess

\* A timer that is in no place may come to the list, and this is its place then.
LEMMA PlaceArmed ==
    ASSUME TypeOK, NEW t \in Timers, Armed(t), InList(t) = 0, Queued(t) = 0, ~AtWork(t),
           cur = t => curGeneration # mGeneration[t],
           mGeneration[t] # 0, handled' # t, opTimer' # t,
           UNCHANGED <<mGeneration, mType, cur, curGeneration, events>>,
           pc' = pc \/ (pc = "wait" /\ pc' = "scan")
    PROVE  PlaceInv(t)'
<1>1. InList(t)' = InList(t) + One(t = t) /\ mArmed'[t] = (mArmed[t] \/ t = t)
  BY ArmedPlace
<1>2. InList(t)' = 1 /\ InList(t)' > 0 /\ mArmed'[t]
  <2>1. InList(t)' = 1 /\ InList(t)' > 0
    BY <1>1 DEF One
  <2>2. mArmed'[t]
    BY <1>1, Zenon
  <2> QED
    BY <2>1, <2>2
<1>3. Queued(t)' = 0
  BY QueuedKept
<1>4. cur' = t => pc' = "post"
  BY DEF AtWork
<1>5. ~AtWork(t)' /\ ~Posting(t)'
  BY <1>4 DEF AtWork, Posting
<1>6. OnePlace(t)'
  <2>1. One(AtWork(t))' = 0 /\ One(Posting(t))' = 0 /\ One(handled = t)' = 0
    BY <1>5 DEF One
  <2> QED
    BY <1>2, <1>3, <2>1 DEF OnePlace
<1> QED
  BY <1>2, <1>4, <1>5, <1>6 DEF PlaceInv

LEMMA PlaceOtherArmed ==
    ASSUME TypeOK, Control, NEW u \in Timers, Armed(u), NEW t \in Timers, t # u, PlaceInv(t),
           UNCHANGED <<mGeneration, mType, cur, curGeneration, events>>,
           handled' = t <=> handled = t, handled = t => ownerPc' = ownerPc,
           opTimer' = t => opTimer = t,
           pc' = pc \/ (pc = "wait" /\ pc' = "scan")
    PROVE  PlaceInv(t)'
<1>1. InList(t)' = InList(t) + One(t = u) /\ mArmed'[t] = (mArmed[t] \/ t = u)
  BY ArmedPlace
<1>2. InList(t) \in Nat /\ mArmed[t] \in BOOLEAN
  BY PlaceTypes
<1>3. InList(t)' = InList(t)
  BY <1>1, <1>2 DEF One
<1>4. mArmed'[t] = mArmed[t]
  BY <1>1, <1>2
<1>5. Queued(t)' = Queued(t) /\ Count(events', EventsOf(t)) = Count(events, EventsOf(t))
  BY QueuedKept
<1>6. cur = t => pc' = pc
  BY TimerAssumption DEF Control
<1>7. Untouched(t)
  BY <1>3, <1>4, <1>5, <1>6 DEF Untouched
<1> QED
  BY <1>7, PlaceUntouched

LEMMA PlaceOwnerCalls ==
    ASSUME OneAtATime, PlacesInv, OwnerCalls, NEW t \in Timers \ raced'
    PROVE  PlaceInv(t)'
<1>0. TypeOK /\ Control /\ Generations /\ t \in Timers /\ t # NoTimer
  BY TimerAssumption DEF PlacesInv, TimerInv
<1>10. /\ InList(t) \in Nat /\ Queued(t) \in Nat /\ Count(events, EventsOf(t)) \in Nat
       /\ mGeneration[t] \in Nat /\ curGeneration \in Nat /\ mArmed[t] \in BOOLEAN
  BY <1>0, PlaceTypes
<1>1. ASSUME NEW u \in Timers, InitTimer(u) PROVE PlaceInv(t)'
  <2>1. /\ ownerPc \in {"idle", "callback"} /\ opPc = "none" /\ opTimer' = u
        /\ mGeneration' = [mGeneration EXCEPT ![u] = gGenerator + 1]
        /\ raced' = IF cur = u /\ pc # "post" THEN raced \cup {u} ELSE raced
        /\ UNCHANGED <<mType, cur, curGeneration, events, ownerPc, handled>>
    BY <1>1 DEF InitTimer, May, OwnerFree
  <2>2. t \notin raced /\ PlaceInv(t)
    BY <1>0, <2>1 DEF PlacesInv
  <2>3. pc' = pc \/ (pc = "wait" /\ pc' = "scan")
    BY <1>1, WakeupPc DEF InitTimer
  <2>4. mGeneration \in [Timers -> 0..MaxGeneration] /\ gGenerator \in Nat
    BY <1>0, TimerAssumption DEF TypeOK
  <2>5. CASE t = u
    <3>1. ~AtWork(t) /\ ~AtWork(t)' /\ handled # t
      <4>1. handled = t => mGeneration[t] = 0
        BY <1>0, <1>1, <2>1, <2>5, NoSetters DEF Control
      <4>2. ~AtWork(t) /\ ~AtWork(t)'
        BY <1>0, <2>1, <2>3, <2>5 DEF AtWork
      <4> QED
        BY <2>2, <4>1, <4>2 DEF PlaceInv, Blank
    <3>2. InList(t)' = 0 /\ ~mArmed'[t]
      <4>1. CASE mArmed[t]
        <5>1. Disarmed(t)
          BY <1>1, <2>5, <4>1 DEF InitTimer
        <5>2. InList(t) > 0 /\ InList(t) + One(AtWork(t)) <= 1
          BY <2>2, <4>1 DEF PlaceInv, OnePlace
        <5>3. InList(t) = 1
          BY <1>10, <3>1, <5>2 DEF One
        <5>4. InList(t)' = InList(t) - 1 /\ mArmed'[t] = FALSE
          BY <1>0, <5>1, <5>2, DisarmedPlace
        <5> QED
          BY <5>3, <5>4
      <4>2. CASE ~mArmed[t]
        <5>1. UNCHANGED <<mTimers, mArmed>>
          BY <1>1, <2>5, <4>2 DEF InitTimer
        <5>2. ~(InList(t) > 0)
          BY <2>2, <4>2 DEF PlaceInv
        <5>3. InList(t) = 0
          BY <1>10, <5>2
        <5> QED
          BY <4>2, <5>1, <5>3 DEF InList
      <4> QED
        BY <4>1, <4>2
    <3>3. mGeneration'[t] = gGenerator + 1 /\ mGeneration'[t] # 0 /\ curGeneration # mGeneration'[t]
      BY <1>0, <1>10, <2>1, <2>4, <2>5 DEF Generations
    <3>4. Queued(t)' = 0
      <4>1. events \in Seq(Event)
        BY <1>0 DEF TypeOK, Event
      <4>2. \A i \in 1..Len(events) : events[i] \notin CurrentEvents(t)'
        <5> SUFFICES ASSUME NEW i \in 1..Len(events), events[i] \in CurrentEvents(t)' PROVE FALSE
          OBVIOUS
        <5>1. events[i].generation = gGenerator + 1
          BY <3>3 DEF CurrentEvents
        <5>2. events[i].generation <= gGenerator
          BY <1>0 DEF Generations
        <5> QED
          BY <2>4, <5>1, <5>2
      <4>3. Count(events, CurrentEvents(t)') \in Nat
        BY <4>1, CountType
      <4>4. ~(Count(events, CurrentEvents(t)') > 0)
        BY <4>1, <4>2, CountPositive
      <4>5. Queued(t)' = Count(events, CurrentEvents(t)')
        BY <2>1 DEF Queued
      <4> QED
        BY <4>3, <4>4, <4>5
    <3>5. Blank(t)' /\ ~Posting(t)'
      BY <2>1, <3>1, <3>2, <3>3, <3>4 DEF Blank, Posting
    <3>6. OnePlace(t)'
      <4>1. /\ One(AtWork(t))' = 0 /\ One(Posting(t))' = 0 /\ One(handled = t)' = 0
            /\ InList(t)' = 0 /\ Queued(t)' = 0
        BY <2>1, <3>1, <3>2, <3>4, <3>5 DEF One
      <4> QED
        BY <4>1 DEF OnePlace
    <3>7. mArmed'[t] <=> InList(t)' > 0
      <4>1. ~(InList(t)' > 0)
        BY <3>2
      <4> QED
        BY <3>2, <4>1, Zenon
    <3>8. cur = t => pc' = "post"
      BY <2>3, <3>1 DEF AtWork
    <3> QED
      BY <2>1, <3>1, <3>3, <3>5, <3>6, <3>7, <3>8 DEF PlaceInv
  <2>6. CASE t # u
    <3>1. InList(t)' = InList(t) /\ mArmed'[t] = mArmed[t]
      <4>1. Disarmed(u) \/ UNCHANGED <<mTimers, mArmed>>
        BY <1>1 DEF InitTimer
      <4> QED
        BY <1>0, <2>6, <4>1, DisarmedPlace DEF InList
    <3>2. mGeneration'[t] = mGeneration[t]
      BY <1>0, <2>1, <2>4, <2>6
    <3>3. Queued(t)' = Queued(t) /\ Count(events', EventsOf(t)) = Count(events, EventsOf(t))
      BY <2>1, <3>2, QueuedKept
    <3>4. cur = t => pc' = pc
      BY <1>0, <2>3 DEF Control
    <3> QED
      BY <1>0, <2>1, <2>2, <2>6, <3>1, <3>2, <3>3, <3>4, PlaceUntouched DEF Untouched
  <2> QED
    BY <2>5, <2>6
<1>2. ASSUME NEW u \in Timers, Cancel(u) PROVE PlaceInv(t)'
  <2>1. /\ Disarmed(u) /\ UNCHANGED <<mGeneration, mType, cur, curGeneration, events, ownerPc, handled, opTimer, raced>>
    BY <1>2 DEF Cancel
  <2>2. PlaceInv(t)
    BY <2>1 DEF PlacesInv
  <2>3. cur = t => pc' = pc
    <3>1. pc' = pc \/ (pc = "wait" /\ pc' = "scan")
      BY <1>2, WakeupPc DEF Cancel
    <3> QED
      BY <1>0, <3>1 DEF Control
  <2> QED
    BY <1>0, <2>1, <2>2, <2>3, PlaceDisarmed
<1>3. ASSUME NEW u \in Timers, ReleaseTimer(u) PROVE PlaceInv(t)'
  <2>1. /\ UNCHANGED <<mTimers, mArmed, mGeneration, mType, pc, cur, curGeneration, events, ownerPc, handled, opTimer, raced>>
    BY <1>3 DEF ReleaseTimer
  <2>2. PlaceInv(t)
    BY <2>1 DEF PlacesInv
  <2> QED
    BY <1>0, <2>1, <2>2, PlaceUntouched, QueuedKept DEF Untouched, InList
<1>4. CASE Shutdown
  <2>1. /\ mTimers' = <<>> /\ mArmed' = [u \in Timers |-> mArmed[u] /\ ~Listed(u)] /\ ownerPc = "idle"
        /\ UNCHANGED <<mGeneration, mType, cur, curGeneration, events, handled, opTimer, raced>>
    BY <1>4 DEF Shutdown
  <2>2. PlaceInv(t) /\ handled # t
    BY <1>0, <2>1 DEF PlacesInv, Control
  <2>3. InList(t)' = 0
    BY <2>1, CountEmpty DEF InList
  <2>4. ~mArmed'[t]
    <3>1. Listed(t) <=> InList(t) > 0
      BY <1>0, ListedCounts DEF InList
    <3>2. mArmed[t] => Listed(t)
      BY <2>2, <3>1 DEF PlaceInv
    <3> QED
      BY <1>0, <2>1, <3>2
  <2>5. cur = t => pc' = pc
    <3>1. pc' = pc \/ (pc = "wait" /\ pc' = "scan")
      BY <1>4, WakeupPc DEF Shutdown
    <3> QED
      BY <1>0, <3>1 DEF Control
  <2>6. Queued(t)' = Queued(t) /\ Count(events', EventsOf(t)) = Count(events, EventsOf(t))
    BY <2>1, QueuedKept
  <2> QED
    BY <1>0, <1>10, <2>1, <2>2, <2>3, <2>4, <2>5, PlaceLess DEF Lessened
<1> QED
  BY <1>1, <1>2, <1>3, <1>4, NoSetters DEF OwnerCalls

LEMMA PlaceOwnerStep ==
    ASSUME OneAtATime, PlacesInv, OwnerStep, NEW t \in Timers \ raced'
    PROVE  PlaceInv(t)'
<1>0. TypeOK /\ Control /\ Generations /\ t \in Timers /\ t # NoTimer
  BY TimerAssumption DEF PlacesInv, TimerInv
<1>00. PlaceInv(t) /\ UNCHANGED <<raced, mGeneration, cur, curGeneration>>
  <2>1. UNCHANGED <<raced, mGeneration, cur, curGeneration>>
    BY DEF OwnerStep, InitDelay, InitAdd, TimerDelayChanged, DropReference, TestArmed, RemoveReleased,
           HandleEvent, CallbackReturns, RearmSlack, ShutdownJoined
  <2> QED
    BY <2>1 DEF PlacesInv
<1>10. /\ InList(t) \in Nat /\ Queued(t) \in Nat /\ Count(events, EventsOf(t)) \in Nat
       /\ mGeneration[t] \in Nat /\ curGeneration \in Nat /\ mArmed[t] \in BOOLEAN
       /\ Queued(t) > 0 => Count(events, EventsOf(t)) > 0
  BY <1>0, PlaceTypes
<1>1. ASSUME NEW type \in Types, NEW d \in Delays, InitDelay(type, d) PROVE PlaceInv(t)'
  <2>1. /\ mType' = [mType EXCEPT ![opTimer] = type] /\ mType \in [Timers -> {ONE_SHOT, REPEATING_SLACK, REPEATING_PRECISE}]
        /\ UNCHANGED <<mTimers, mArmed, pc, events, ownerPc, handled, opTimer>>
    BY <1>0, <1>1 DEF InitDelay, TypeOK
  <2>2. InList(t)' = InList(t) /\ Queued(t)' = Queued(t) /\ Count(events', EventsOf(t)) = Count(events, EventsOf(t))
    BY <1>00, <2>1, QueuedKept DEF InList
  <2>3. CASE opTimer = t
    <3>1. Blank(t) /\ mGeneration[t] # 0
      BY <1>00, <2>3 DEF PlaceInv
    <3>2. Blank(t)' /\ ~AtWork(t)' /\ ~Posting(t)'
      BY <1>00, <2>1, <2>2, <3>1 DEF Blank, AtWork, Posting
    <3>3. OnePlace(t)'
      <4>1. /\ One(AtWork(t))' = 0 /\ One(Posting(t))' = 0 /\ One(handled = t)' = 0
            /\ InList(t)' = 0 /\ Queued(t)' = 0
        BY <3>2 DEF One, Blank
      <4> QED
        BY <4>1 DEF OnePlace
    <3>4. ~(cur = t /\ pc = "rearm") /\ handled # t
      BY <3>1 DEF Blank, AtWork
    <3> QED
      BY <1>00, <2>1, <2>2, <3>1, <3>2, <3>3, <3>4 DEF PlaceInv, AtWork
  <2>4. CASE opTimer # t
    <3>1. mType'[t] = mType[t]
      BY <1>0, <2>1, <2>4, Zenon
    <3> QED
      BY <1>0, <1>00, <2>1, <2>2, <3>1, PlaceUntouched DEF Untouched
  <2> QED
    BY <2>3, <2>4
<1>2. CASE InitAdd
  <2>1. /\ Armed(opTimer) /\ opTimer \in Timers /\ opTimer' = NoTimer
        /\ UNCHANGED <<mType, events, ownerPc, handled>>
    BY <1>0, <1>2 DEF InitAdd, Control, TypeOK
  <2>2. pc' = pc \/ (pc = "wait" /\ pc' = "scan")
    BY <1>2, WakeupPc DEF InitAdd
  <2>3. CASE opTimer = t
    <3>1. Blank(t) /\ mGeneration[t] # 0
      BY <1>00, <2>3 DEF PlaceInv
    <3>2. handled' # t
      BY <2>1, <3>1 DEF Blank
    <3> QED
      BY <1>0, <1>00, <2>1, <2>2, <2>3, <3>1, <3>2, PlaceArmed DEF Blank
  <2>4. CASE opTimer # t
    BY <1>0, <1>00, <2>1, <2>2, <2>4, PlaceOtherArmed
  <2> QED
    BY <2>3, <2>4
<1>3. CASE DropReference \/ TestArmed \/ ShutdownJoined
  <2>1. UNCHANGED <<mTimers, mArmed, mType, pc, events, handled, opTimer>> /\ (handled = t => ownerPc' = ownerPc)
    BY <1>0, <1>3 DEF DropReference, TestArmed, EndRelease, ShutdownJoined, Control
  <2>2. InList(t)' = InList(t) /\ Queued(t)' = Queued(t) /\ Count(events', EventsOf(t)) = Count(events, EventsOf(t))
    BY <1>00, <2>1, QueuedKept DEF InList
  <2> QED
    BY <1>0, <1>00, <2>1, <2>2, PlaceUntouched DEF Untouched
<1>4. CASE RemoveReleased
  <2>1. /\ Disarmed(relTimer) /\ relTimer \in Timers
        /\ UNCHANGED <<mType, events, ownerPc, handled, opTimer>>
    BY <1>0, <1>4 DEF RemoveReleased, Control, TypeOK
  <2>2. cur = t => pc' = pc
    <3>1. pc' = pc \/ (pc = "wait" /\ pc' = "scan")
      BY <1>4, WakeupPc DEF RemoveReleased
    <3> QED
      BY <1>0, <3>1 DEF Control
  <2> QED
    BY <1>0, <1>00, <2>1, <2>2, PlaceDisarmed
<1>5. CASE HandleEvent
  <2> DEFINE e == Head(events)
  <2>1. events \in Seq(Event) /\ events # <<>>
    BY <1>0, <1>5 DEF HandleEvent, TypeOK, Event
  <2>2. e \in Event /\ e.timer \in Timers
    <3>1. Head(events) \in Event
      BY <2>1, CountTail
    <3> QED
      BY <3>1 DEF Event
  <2>3. /\ Count(Tail(events), EventsOf(t)) = Count(events, EventsOf(t)) - (IF e \in EventsOf(t) THEN 1 ELSE 0)
        /\ Count(Tail(events), CurrentEvents(t)) = Count(events, CurrentEvents(t)) - (IF e \in CurrentEvents(t) THEN 1 ELSE 0)
    BY <2>1, CountTail
  <2>4. /\ ownerPc = "idle" /\ opPc = "none" /\ events' = Tail(events)
        /\ UNCHANGED <<mTimers, mArmed, mType, pc, opTimer>>
        /\ handled = NoTimer /\ opTimer = NoTimer
        /\ \/ handled' = e.timer /\ ownerPc' = "callback" /\ e.generation = mGeneration[e.timer]
           \/ handled' = NoTimer /\ ownerPc' = "idle"
    BY <1>0, <1>5 DEF HandleEvent, OwnerFree, Control, Fires
  <2>5. (e \in EventsOf(t) <=> e.timer = t) /\ (e \in CurrentEvents(t) <=> e.timer = t /\ e.generation = mGeneration[t])
    BY <2>2 DEF EventsOf, CurrentEvents
  <2> HIDE DEF e
  <2>6. InList(t)' = InList(t) /\ CurrentEvents(t)' = CurrentEvents(t) /\ (AtWork(t)' <=> AtWork(t)) /\ (Posting(t)' <=> Posting(t))
    BY <1>00, <2>4 DEF InList, CurrentEvents, AtWork, Posting
  <2>7. Queued(t)' = Queued(t) - One(e.timer = t /\ e.generation = mGeneration[t])
    BY <2>3, <2>4, <2>5, <2>6 DEF Queued, One
  <2>8. Queued(t)' \in Nat /\ Count(events', EventsOf(t)) \in Nat
    <3>1. Tail(events) \in Seq(Event)
      BY <2>1, CountTail
    <3> QED
      BY <2>4, <3>1, CountType DEF Queued
  <2>9. One(handled' = t) <= One(e.timer = t /\ e.generation = mGeneration[t]) /\ One(handled = t) = 0
    BY <1>0, <2>4 DEF One
  <2>10. OnePlace(t)'
    <3> DEFINE x == One(e.timer = t /\ e.generation = mGeneration[t])
               y == One(handled' = t)
               z == One(AtWork(t))
               w == One(Posting(t))
               q == Queued(t)'
    <3>1. x \in {0, 1} /\ y \in {0, 1} /\ z \in {0, 1} /\ w \in {0, 1} /\ y <= x
      BY <2>9 DEF One
    <3>2. q = Queued(t) - x
      BY <2>7
    <3>3. InList(t) + z <= 1 /\ (mType[t] = REPEATING_SLACK => InList(t) + z + w + Queued(t) + 0 <= 1)
      BY <1>00, <2>9 DEF PlaceInv, OnePlace
    <3>4. One(AtWork(t)') = z /\ One(Posting(t)') = w
      BY <2>6 DEF One
    <3> HIDE DEF x, y, z, w, q
    <3>5. InList(t) + z <= 1 /\ (mType[t] = REPEATING_SLACK => InList(t) + z + w + q + y <= 1)
      BY <1>10, <3>1, <3>2, <3>3
    <3> QED
      BY <2>4, <2>6, <3>4, <3>5 DEF OnePlace, q, y
  <2>11. ASSUME mGeneration[t] = 0
         PROVE  Blank(t)' /\ cur' # t /\ Count(events', EventsOf(t)) = 0 /\ handled' # t
    <3>1. Blank(t) /\ cur # t /\ Count(events, EventsOf(t)) = 0
      BY <1>00, <2>11 DEF PlaceInv
    <3>2. e.timer # t
      BY <2>3, <2>4, <2>5, <2>8, <3>1
    <3>3. Count(events', EventsOf(t)) = 0 /\ Queued(t)' = 0
      <4>1. Count(events', EventsOf(t)) = Count(events, EventsOf(t)) - 0
        BY <2>3, <2>4, <2>5, <3>2
      <4>2. One(e.timer = t /\ e.generation = mGeneration[t]) = 0 /\ Queued(t) = 0
        BY <3>1, <3>2 DEF One, Blank
      <4> QED
        BY <2>7, <3>1, <4>1, <4>2
    <3>4. handled' # t
      BY <1>0, <2>4, <3>2
    <3> QED
      BY <1>00, <2>6, <3>1, <3>3, <3>4 DEF Blank
  <2>12. (AtWork(t) /\ pc # "copy" => curGeneration = mGeneration[t])'
    BY <1>00, <2>4, <2>6 DEF PlaceInv
  <2> QED
    BY <1>0, <1>00, <2>4, <2>6, <2>10, <2>11, <2>12 DEF PlaceInv
<1>6. CASE CallbackReturns
  <2>1. /\ handled \in Timers /\ ownerPc = "callback" /\ opPc = "none"
        /\ UNCHANGED <<mTimers, mArmed, mType, pc, events, opTimer>>
        /\ \/ mType[handled] = REPEATING_SLACK /\ ownerPc' = "rearm" /\ handled' = handled
           \/ handled' = NoTimer
    BY <1>0, <1>6 DEF CallbackReturns, OwnerFree, StartsAgain, Control, TypeOK
  <2>2. InList(t)' = InList(t) /\ Queued(t)' = Queued(t) /\ Count(events', EventsOf(t)) = Count(events, EventsOf(t))
    BY <1>00, <2>1, QueuedKept DEF InList
  <2>3. CASE handled' = handled /\ handled = t
    <3>1. (AtWork(t)' <=> AtWork(t)) /\ (Posting(t)' <=> Posting(t)) /\ opTimer # t /\ mGeneration[t] # 0
      BY <1>0, <1>00, <2>1, <2>3 DEF AtWork, Posting, Control, PlaceInv, Blank
    <3>2. OnePlace(t)'
      BY <1>00, <2>1, <2>2, <2>3, <3>1 DEF PlaceInv, OnePlace, One
    <3> QED
      BY <1>0, <1>00, <2>1, <2>2, <2>3, <3>1, <3>2, TimerAssumption DEF PlaceInv
  <2>4. CASE handled # t
    <3>1. handled' # t
      BY <1>0, <2>1, <2>4
    <3> QED
      BY <1>0, <1>00, <2>1, <2>2, <2>4, <3>1, PlaceUntouched DEF Untouched
  <2>5. CASE handled' # handled
    <3>1. handled' # t /\ mArmed'[t] = mArmed[t] /\ (cur = t => pc' = pc)
      BY <1>0, <2>1, <2>5
    <3> QED
      BY <1>0, <1>00, <1>10, <2>1, <2>2, <3>1, PlaceLess DEF Lessened, PlaceInv
  <2> QED
    BY <2>3, <2>4, <2>5
<1>7. CASE RearmSlack
  <2>1. /\ handled \in Timers /\ ownerPc = "rearm" /\ Armed(handled) /\ handled' = NoTimer /\ opTimer # t
        /\ UNCHANGED <<mType, events, opTimer>>
    BY <1>0, <1>7 DEF RearmSlack, Control, TypeOK
  <2>2. pc' = pc \/ (pc = "wait" /\ pc' = "scan")
    BY <1>7, WakeupPc DEF RearmSlack
  <2>3. CASE handled = t
    <3>1. mType[t] = REPEATING_SLACK /\ mGeneration[t] # 0
      BY <1>00, <2>1, <2>3 DEF PlaceInv, Blank
    <3>2. One(handled = t) = 1
      BY <2>3 DEF One
    <3>3. One(AtWork(t)) \in Nat /\ One(Posting(t)) \in Nat
      BY DEF One
    <3>4. InList(t) = 0 /\ Queued(t) = 0 /\ One(AtWork(t)) = 0 /\ One(Posting(t)) = 0
      BY <1>00, <1>10, <3>1, <3>2, <3>3 DEF PlaceInv, OnePlace
    <3>5. InList(t) = 0 /\ Queued(t) = 0 /\ ~AtWork(t) /\ ~Posting(t)
      BY <3>4 DEF One
    <3>6. cur = t => curGeneration # mGeneration[t]
      BY <3>5 DEF AtWork, Posting
    <3> QED
      BY <1>0, <1>00, <2>1, <2>2, <2>3, <3>1, <3>5, <3>6, PlaceArmed, TimerAssumption
  <2>4. CASE handled # t
    BY <1>0, <1>00, <2>1, <2>2, <2>4, PlaceOtherArmed
  <2> QED
    BY <2>3, <2>4
<1> QED
  BY <1>0, <1>1, <1>2, <1>3, <1>4, <1>5, <1>6, <1>7 DEF OwnerStep, TimerDelayChanged, Generations

LEMMA PlacesInit == Init => PlacesInv
<1> SUFFICES ASSUME Init PROVE PlacesInv
  OBVIOUS
<1>1. TimerInv
  BY TimerInit
<1>2. Generations
  BY DEF Init, Generations
<1>3. ASSUME NEW t \in Timers PROVE PlaceInv(t)
  <2>1. /\ mTimers = <<>> /\ events = <<>> /\ cur = NoTimer /\ handled = NoTimer /\ opTimer = NoTimer
        /\ ~mArmed[t] /\ t # NoTimer
    BY TimerAssumption DEF Init
  <2>2. InList(t) = 0 /\ Queued(t) = 0 /\ Count(events, EventsOf(t)) = 0
    BY <2>1, CountEmpty DEF InList, Queued
  <2>3. Blank(t)
    BY <2>1, <2>2 DEF Blank, AtWork
  <2>4. OnePlace(t) /\ ~(InList(t) > 0)
    BY <1>1, <2>2, <2>3, BlankPlace DEF TimerInv
  <2> QED
    BY <2>1, <2>2, <2>3, <2>4 DEF PlaceInv, AtWork
<1> QED
  BY <1>1, <1>2, <1>3 DEF PlacesInv

LEMMA RacedGrows == ASSUME [Next]_vars PROVE raced \subseteq raced'
<1>1. ASSUME ThreadStep PROVE raced' = raced
  BY <1>1 DEF ThreadStep, RunTakes, RunWaits, RunTimesOut, RunExits, CopyGeneration, RepeatPrecise, Rearm, PostEvent
<1>2. ASSUME OwnerCalls PROVE raced \subseteq raced'
  BY <1>2 DEF OwnerCalls, InitTimer, Cancel, ReleaseTimer, SetDelay, SetType, Shutdown
<1>3. ASSUME OwnerStep PROVE raced' = raced
  BY <1>3 DEF OwnerStep, InitDelay, InitAdd, TimerDelayChanged, DropReference, TestArmed, RemoveReleased,
              HandleEvent, CallbackReturns, RearmSlack, ShutdownJoined
<1>4. ASSUME Tick \/ UNCHANGED vars PROVE raced' = raced
  BY <1>4 DEF Tick, vars
<1> QED
  BY <1>1, <1>2, <1>3, <1>4 DEF Next

LEMMA PlacesNext == ASSUME OneAtATime PROVE PlacesInv /\ [Next]_vars => PlacesInv'
<1> SUFFICES ASSUME PlacesInv, [Next]_vars PROVE PlacesInv'
  OBVIOUS
<1>1. TimerInv' /\ TimerInv /\ TypeOK'
  BY TimerNext DEF PlacesInv, TimerInv
<1>2. CASE Next
  <2>1. Generations'
    BY <1>1, <1>2, GenerationsNext DEF PlacesInv
  <2>2. ASSUME NEW t \in Timers \ raced' PROVE PlaceInv(t)'
    <3>1. t \in Timers \ raced
      BY RacedGrows
    <3>2. CASE ThreadStep
      BY <1>1, <3>1, <3>2, PlaceThreadStep
    <3>3. CASE OwnerCalls
      BY <3>3, PlaceOwnerCalls
    <3>4. CASE OwnerStep
      BY <3>4, PlaceOwnerStep
    <3>5. CASE Tick
      <4>1. PlaceInv(t) /\ UNCHANGED <<implVars, threadVars, ownerVars>>
        BY <3>1, <3>5 DEF PlacesInv, Tick
      <4> QED
        BY <3>1, <4>1, PlaceUntouched, QueuedKept DEF Untouched, InList
    <3> QED
      BY <1>2, <3>2, <3>3, <3>4, <3>5 DEF Next
  <2> QED
    BY <1>1, <2>1, <2>2 DEF PlacesInv
<1>3. CASE UNCHANGED vars
  <2>1. Generations'
    BY <1>3 DEF PlacesInv, Generations, vars
  <2>2. ASSUME NEW t \in Timers \ raced' PROVE PlaceInv(t)'
    <3>1. t \in Timers \ raced
      BY RacedGrows
    <3>2. PlaceInv(t) /\ UNCHANGED <<implVars, threadVars, ownerVars>>
      BY <1>3, <3>1 DEF PlacesInv, vars
    <3> QED
      BY <3>1, <3>2, PlaceUntouched, QueuedKept DEF Untouched, InList
  <2> QED
    BY <1>1, <2>1, <2>2 DEF PlacesInv
<1> QED
  BY <1>2, <1>3

LEMMA PlacesInvariant == ASSUME OneAtATime PROVE Spec => []PlacesInv
<1>1. PlacesInv /\ [Next]_vars => PlacesInv'
  BY PlacesNext
<1> QED
  BY <1>1, PlacesInit, PTL DEF Spec

LEMMA PlacesListed == PlacesInv => ListedAsArmed
<1> SUFFICES ASSUME PlacesInv, NEW t \in Timers \ raced
             PROVE  /\ mArmed[t] <=> Listed(t)
                    /\ \A i, j \in 1..Len(mTimers) : mTimers[i] = t /\ mTimers[j] = t => i = j
  BY DEF ListedAsArmed
<1>1. TypeOK /\ PlaceInv(t) /\ mTimers \in Seq(Timers)
  BY DEF PlacesInv, TimerInv, TypeOK
<1>2. InList(t) \in Nat /\ (Listed(t) <=> InList(t) > 0)
  BY <1>1, ListedCounts DEF InList
<1>3. InList(t) <= 1
  <2>1. InList(t) + One(AtWork(t)) <= 1
    BY <1>1 DEF PlaceInv, OnePlace
  <2> QED
    BY <1>2, <2>1 DEF One
<1>4. ASSUME NEW i \in 1..Len(mTimers), NEW j \in 1..Len(mTimers), mTimers[i] = t, mTimers[j] = t
      PROVE  i = j
  <2>1. i # j => InList(t) > 1
    BY <1>1, <1>4, CountTwice DEF InList
  <2> QED
    BY <1>2, <1>3, <2>1
<1> QED
  BY <1>1, <1>2, <1>4 DEF PlaceInv

\* However often timers are initialised, one that was never initialised while PostTimerEvent
\* was at work on it is armed exactly while it is in the list, and it is there once, whatever
\* types and delays there are.
THEOREM ListedWhileArmed == ASSUME OneAtATime PROVE Spec => []ListedAsArmed
  BY PlacesListed, PlacesInvariant, PTL

------------------------------------------------------------------------------
(* The timer thread's sleep.                                                 *)

\* What is not behind the first place leaves the head alone.
LEMMA HeadKept ==
    ASSUME TypeOK, NEW u \in Timers, Armed(u), Position(mTimers, u) # 1
    PROVE  mTimers # <<>> /\ Head(mTimers') = Head(mTimers)
<1> DEFINE n == Position(mTimers, u)
<1>1. mTimers \in Seq(Timers) /\ Len(mTimers) \in Nat
  BY LenProperties DEF TypeOK
<1>2. n \in 1..Len(mTimers) + 1 /\ n # 1 /\ mTimers' = Inserted(mTimers, n, u)
  BY <1>1, PositionFacts DEF Armed
<1> HIDE DEF n
<1>3. Len(mTimers) > 0 /\ 1 \in 1..n - 1
  BY <1>1, <1>2
<1>4. mTimers' \in Seq(Timers) /\ Len(mTimers') = Len(mTimers) + 1 /\ mTimers'[1] = mTimers[1]
  BY <1>1, <1>2, <1>3, CountInserted
<1>5. mTimers # <<>> /\ mTimers' # <<>>
  BY <1>1, <1>3, <1>4
<1>6. Head(mTimers) = mTimers[1] /\ Head(mTimers') = mTimers'[1]
  BY <1>1, <1>4, <1>5, CountTail
<1> QED
  BY <1>4, <1>5, <1>6

\* The head is a timer that is listed.
LEMMA HeadListed ==
    ASSUME TypeOK, mTimers # <<>>
    PROVE  Head(mTimers) \in Timers /\ InList(Head(mTimers)) > 0
<1>1. mTimers \in Seq(Timers) /\ Head(mTimers) = mTimers[1] /\ Head(mTimers) \in Timers
  BY CountTail DEF TypeOK
<1>2. Len(mTimers) \in Nat /\ Len(mTimers) # 0
  BY <1>1
<1>3. 1 \in 1..Len(mTimers)
  BY <1>2
<1> QED
  BY <1>1, <1>3, CountPositive DEF InList

LEMMA SleepKept ==
    ASSUME NoOversleep, pc = "wait", opPc # "changed", wakeAt' = wakeAt,
           mTimers' # <<>> => /\ mTimers # <<>> /\ Head(mTimers') = Head(mTimers)
                              /\ mTimeout'[Head(mTimers)] = mTimeout[Head(mTimers)]
    PROVE  NoOversleep'
  BY DEF NoOversleep

\* Who sets the timeout of a timer has it in hand, and the head of the list is in nobody's.
LEMMA HeadsTimeoutKept ==
    ASSUME PlacesInv, raced = {}, mTimers # <<>>
    PROVE  /\ opTimer # Head(mTimers)
           /\ handled = Head(mTimers) => mType[handled] # REPEATING_SLACK
<1> DEFINE h == Head(mTimers)
<1>1. h \in Timers /\ InList(h) > 0 /\ PlaceInv(h) /\ TypeOK
  BY HeadListed DEF PlacesInv, TimerInv
<1>2. InList(h) \in Nat /\ Queued(h) \in Nat
  BY <1>1, PlaceTypes
<1> HIDE DEF h
<1>3. opTimer # h
  BY <1>1, <1>2 DEF PlaceInv, Blank
<1>4. ASSUME handled = h, mType[h] = REPEATING_SLACK PROVE FALSE
  <2>1. One(handled = h) = 1 /\ One(AtWork(h)) \in Nat /\ One(Posting(h)) \in Nat
    BY <1>4 DEF One
  <2>2. InList(h) + One(AtWork(h)) + One(Posting(h)) + Queued(h) + One(handled = h) <= 1
    BY <1>1, <1>4 DEF PlaceInv, OnePlace
  <2> QED
    BY <1>1, <1>2, <2>1, <2>2
<1> QED
  BY <1>3, <1>4 DEF h

LEMMA SleepNext ==
    ASSUME OneAtATime, PlacesInv, raced = {}, NoOversleep, [Next]_vars
    PROVE  NoOversleep'
<1> SUFFICES ASSUME pc' = "wait" PROVE NoOversleep'
  BY DEF NoOversleep
<1>0. TypeOK /\ Control /\ opPc # "changed"
  BY DEF PlacesInv, TimerInv, Generations
<1>1. ASSUME NEW a \in Adjustments, RunWaits(a) PROVE NoOversleep'
  <2> DEFINE w == (mTimeout[Head(mTimers)] + a) % Domain
  <2>1. UNCHANGED <<mTimers, mTimeout>> /\ (mTimers # <<>> => wakeAt' = w)
    BY <1>1 DEF RunWaits
  <2> SUFFICES ASSUME mTimers # <<>> PROVE wakeAt' # Forever /\ ~LessThan(w, w)
    BY <2>1 DEF NoOversleep
  <2>2. Head(mTimers) \in Timers
    BY <1>0, HeadListed
  <2>3. mTimeout[Head(mTimers)] + a \in Int
    BY <1>0, <2>2, TimerAssumption DEF TypeOK
  <2>4. w \in 0..Domain - 1
    BY <2>3, ModRange, HalfFacts
  <2> HIDE DEF w
  <2>5. w - w = 0 /\ 0 % Domain = 0 /\ wakeAt' # -1
    BY <2>1, <2>4, TurnFacts, HalfFacts
  <2> QED
    BY <2>5, HalfFacts DEF LessThan, Forever, Half
<1>2. CASE UNCHANGED <<pc, wakeAt, mTimers, mTimeout>>
  BY <1>0, <1>2, SleepKept
<1>3. ASSUME NEW u \in Timers, Armed(u), Wakeup(Position(mTimers, u) = 1), mTimeout' = mTimeout
      PROVE  NoOversleep'
  <2>1. pc = "wait" /\ wakeAt' = wakeAt /\ Position(mTimers, u) # 1
    BY <1>3 DEF Wakeup
  <2> QED
    BY <1>0, <1>3, <2>1, HeadKept, SleepKept
<1>4. ASSUME NEW u \in Timers, Disarmed(u), Wakeup(Listed(u)), mTimeout' = mTimeout
      PROVE  NoOversleep'
  <2>1. pc = "wait" /\ wakeAt' = wakeAt /\ ~Listed(u)
    BY <1>4 DEF Wakeup
  <2>2. mTimers' = mTimers
    BY <1>4, <2>1 DEF Disarmed
  <2> QED
    BY <1>0, <1>4, <2>1, <2>2, SleepKept
<1>5. ASSUME ThreadStep PROVE NoOversleep'
  BY <1>1, <1>5 DEF ThreadStep, RunTakes, RunTimesOut, RunExits, CopyGeneration, RepeatPrecise, Rearm, PostEvent
<1>6. ASSUME NEW u \in Timers, InitTimer(u) PROVE NoOversleep'
  <2>1. \/ Disarmed(u) /\ Wakeup(Listed(u)) /\ mTimeout' = mTimeout
        \/ UNCHANGED <<pc, wakeAt, mTimers, mTimeout>>
    BY <1>6 DEF InitTimer
  <2> QED
    BY <1>2, <1>4, <2>1
<1>7. ASSUME NEW u \in Timers, Cancel(u) \/ ReleaseTimer(u) PROVE NoOversleep'
  BY <1>2, <1>4, <1>7 DEF Cancel, ReleaseTimer
<1>8. ASSUME Shutdown PROVE NoOversleep'
  BY <1>8 DEF Shutdown, Wakeup
<1>9. ASSUME OwnerCalls PROVE NoOversleep'
  BY <1>6, <1>7, <1>8, <1>9, NoSetters DEF OwnerCalls
<1>10. ASSUME NEW type \in Types, NEW d \in Delays, InitDelay(type, d) PROVE NoOversleep'
  <2>1. mTimeout' = [mTimeout EXCEPT ![opTimer] = Delayed(opTimer, type, d)] /\ UNCHANGED <<pc, wakeAt, mTimers>>
    BY <1>10 DEF InitDelay
  <2>2. mTimers # <<>> => mTimeout'[Head(mTimers)] = mTimeout[Head(mTimers)]
    <3>1. mTimers # <<>> => Head(mTimers) \in Timers /\ Head(mTimers) # opTimer
      BY <1>0, HeadListed, HeadsTimeoutKept
    <3>2. mTimeout \in [Timers -> 0..Domain - 1]
      BY <1>0 DEF TypeOK
    <3> QED
      BY <2>1, <3>1, <3>2, Zenon
  <2> QED
    BY <1>0, <2>1, <2>2, SleepKept
<1>11. ASSUME CallbackReturns PROVE NoOversleep'
  <2>1. /\ \/ /\ mType[handled] = REPEATING_SLACK
              /\ mTimeout' = [mTimeout EXCEPT ![handled] = Delayed(handled, mType[handled], mDelay[handled])]
           \/ mTimeout' = mTimeout
        /\ UNCHANGED <<pc, wakeAt, mTimers>>
    BY <1>11 DEF CallbackReturns, StartsAgain
  <2>2. mTimers # <<>> => mTimeout'[Head(mTimers)] = mTimeout[Head(mTimers)]
    <3>1. mTimers # <<>> => /\ Head(mTimers) \in Timers
                            /\ handled = Head(mTimers) => mType[handled] # REPEATING_SLACK
      BY <1>0, HeadListed, HeadsTimeoutKept
    <3>2. mTimeout \in [Timers -> 0..Domain - 1]
      BY <1>0 DEF TypeOK
    <3> QED
      BY <2>1, <3>1, <3>2, Zenon
  <2> QED
    BY <1>0, <2>1, <2>2, SleepKept
<1>12. ASSUME InitAdd PROVE NoOversleep'
  <2>1. opTimer \in Timers /\ Armed(opTimer) /\ Wakeup(Position(mTimers, opTimer) = 1) /\ mTimeout' = mTimeout
    BY <1>0, <1>12 DEF InitAdd, Control, TypeOK
  <2> QED
    BY <1>3, <2>1
<1>13. ASSUME RearmSlack PROVE NoOversleep'
  <2>1. handled \in Timers /\ Armed(handled) /\ Wakeup(Position(mTimers, handled) = 1) /\ mTimeout' = mTimeout
    BY <1>0, <1>13 DEF RearmSlack, Control, TypeOK
  <2> QED
    BY <1>3, <2>1
<1>14. ASSUME RemoveReleased PROVE NoOversleep'
  <2>1. relTimer \in Timers /\ Disarmed(relTimer) /\ Wakeup(Listed(relTimer)) /\ mTimeout' = mTimeout
    BY <1>0, <1>14 DEF RemoveReleased, Control, TypeOK
  <2> QED
    BY <1>4, <2>1
<1>15. ASSUME DropReference \/ TestArmed \/ HandleEvent \/ ShutdownJoined \/ Tick \/ UNCHANGED vars
       PROVE  NoOversleep'
  BY <1>2, <1>15 DEF DropReference, TestArmed, HandleEvent, ShutdownJoined, Tick, vars
<1> QED
  BY <1>0, <1>5, <1>9, <1>10, <1>11, <1>12, <1>13, <1>14, <1>15 DEF Next, OwnerStep, TimerDelayChanged

\* No timer was ever initialised while PostTimerEvent was at work on it: as each is
\* initialised once.
InitOnce == OneAtATime /\ "reinit" \notin IdleOps

LEMMA NobodyRaces ==
    ASSUME InitOnce, PlacesInv, raced = {}, [Next]_vars
    PROVE  raced' = {}
<1>1. ASSUME NEW u \in Timers, InitTimer(u) PROVE raced' = raced
  <2>1. mGeneration[u] = 0
    BY <1>1 DEF InitOnce, OneAtATime, InitTimer, May, OwnerFree
  <2>2. ~AtWork(u)
    BY <2>1 DEF PlacesInv, PlaceInv, Blank
  <2> QED
    BY <1>1, <2>2 DEF InitTimer, AtWork
<1>2. ASSUME OwnerCalls PROVE raced' = raced
  BY <1>1, <1>2 DEF OwnerCalls, Cancel, ReleaseTimer, SetDelay, SetType, Shutdown
<1>3. ASSUME ThreadStep PROVE raced' = raced
  BY <1>3 DEF ThreadStep, RunTakes, RunWaits, RunTimesOut, RunExits, CopyGeneration, RepeatPrecise, Rearm, PostEvent
<1>4. ASSUME OwnerStep PROVE raced' = raced
  BY <1>4 DEF OwnerStep, InitDelay, InitAdd, TimerDelayChanged, DropReference, TestArmed, RemoveReleased,
              HandleEvent, CallbackReturns, RearmSlack, ShutdownJoined
<1>5. ASSUME Tick \/ UNCHANGED vars PROVE raced' = raced
  BY <1>5 DEF Tick, vars
<1> QED
  BY <1>2, <1>3, <1>4, <1>5 DEF Next

\* The timer thread does not sleep beyond the time of the first timer, as long as no timer was
\* initialised while PostTimerEvent was at work on it; and it never does if each timer is
\* initialised once.
THEOREM SleepEndsInTime ==
    ASSUME OneAtATime
    PROVE  /\ Spec => [](raced = {} => NoOversleep)
           /\ InitOnce => (Spec => []NoOversleep)
<1> DEFINE S == PlacesInv /\ (raced = {} => NoOversleep)
           R == PlacesInv /\ raced = {}
<1>1. Init => S /\ R
  <2>1. Init => NoOversleep /\ raced = {}
    BY DEF Init, NoOversleep
  <2> QED
    BY <2>1, PlacesInit
<1>2. S /\ [Next]_vars => S'
  <2> SUFFICES ASSUME S, [Next]_vars PROVE S'
    OBVIOUS
  <2>1. raced' = {} => raced = {}
    BY RacedGrows
  <2>2. raced = {} => NoOversleep'
    BY SleepNext
  <2>3. PlacesInv'
    BY PlacesNext
  <2> QED
    BY <2>1, <2>2, <2>3
<1>3. InitOnce => (R /\ [Next]_vars => R')
  BY NobodyRaces, PlacesNext
<1>4. S => (raced = {} => NoOversleep)
  OBVIOUS
<1>5. R => raced = {}
  OBVIOUS
<1>6. Spec => []S
  <2> HIDE DEF S
  <2> QED
    BY <1>1, <1>2, PTL DEF Spec
<1>7. InitOnce => (Spec => []R)
  <2> SUFFICES ASSUME InitOnce PROVE Spec => []R
    OBVIOUS
  <2>1. R /\ [Next]_vars => R'
    BY <1>3
  <2> HIDE DEF R
  <2> QED
    BY <1>1, <2>1, PTL DEF Spec
<1> HIDE DEF S, R
<1> QED
  BY <1>4, <1>5, <1>6, <1>7, PTL

------------------------------------------------------------------------------
(* Callbacks that come too early.                                            *)

\* While t may not call back for more than A ticks, its timeout is as far ahead and nothing
\* of its generation is on the way to the owner.
EarlyInv(t, A) ==
    /\ tooEarly[t] > A => Ahead(mTimeout[t]) = tooEarly[t] /\ tooEarly[t] < Half
                          /\ \E d \in Delays : tooEarly[t] <= d
    /\ mDelay[t] # 0 => mDelay[t] \in Delays
    /\ AtWork(t) => tooEarly[t] <= A
    /\ cur = t /\ curGeneration = mGeneration[t] => tooEarly[t] <= A
    /\ Queued(t) > 0 => tooEarly[t] <= A

\* mTimeoutAdjustment is never less than -A, and what Run takes a timer's time for is less
\* than half a turn of the clock away.
Adjusted(A) == \A a \in Adjustments : -A <= a /\ \A d \in Delays : d + a < Half

EarlyAll(A) == \A t \in Timers \ raced : EarlyInv(t, A)

\* A timer's timeout, its delay and what may not happen yet, and where its events are.
EarlyUntouched(t) ==
    /\ mTimeout'[t] = mTimeout[t] /\ tooEarly'[t] = tooEarly[t] /\ now' = now /\ mDelay'[t] = mDelay[t]
    /\ AtWork(t)' => AtWork(t)
    /\ (cur = t /\ curGeneration = mGeneration[t])' => AtWork(t) \/ (cur = t /\ curGeneration = mGeneration[t])
    /\ Queued(t)' > 0 => Queued(t) > 0 \/ (cur = t /\ curGeneration = mGeneration[t])

LEMMA EarlyKept ==
    ASSUME NEW A \in Nat, NEW t \in Timers, EarlyInv(t, A), EarlyUntouched(t)
    PROVE  EarlyInv(t, A)'
<1>1. Ahead(mTimeout[t])' = Ahead(mTimeout[t])
  BY DEF EarlyUntouched, Ahead
<1> QED
  BY <1>1 DEF EarlyInv, EarlyUntouched

\* Where nothing of the timer's generation is on the way, its time may be set anew.
LEMMA EarlySet ==
    ASSUME NEW A \in Nat, NEW t \in Timers, ~AtWork(t)', ~(cur = t /\ curGeneration = mGeneration[t])', ~(Queued(t)' > 0),
           tooEarly'[t] > A => /\ AheadOf(mTimeout'[t], now') = tooEarly'[t] /\ tooEarly'[t] < Half
                               /\ \E d \in Delays : tooEarly'[t] <= d,
           mDelay'[t] # 0 => mDelay'[t] \in Delays
    PROVE  EarlyInv(t, A)'
  BY DEF EarlyInv, Ahead

LEMMA EarlyThreadStep ==
    ASSUME NEW A \in Nat, Adjusted(A), PlacesInv, EarlyAll(A), ThreadStep, NEW t \in Timers \ raced
    PROVE  EarlyInv(t, A)'
<1>0. TypeOK /\ Control /\ PlaceInv(t) /\ EarlyInv(t, A) /\ t \in Timers /\ t # NoTimer
  BY TimerAssumption DEF PlacesInv, TimerInv, EarlyAll
<1>00. tooEarly[t] \in Nat /\ mTimeout[t] \in 0..Domain - 1 /\ now \in 0..Domain - 1 /\ Queued(t) \in Nat
  BY <1>0, PlaceTypes DEF TypeOK
<1>1. ASSUME NEW a \in Adjustments, RunTakes(a) PROVE EarlyInv(t, A)'
  <2>1. /\ cur = NoTimer /\ cur' = Head(mTimers) /\ Due(Head(mTimers), a)
        /\ UNCHANGED <<now, mGeneration, mDelay, mTimeout, curGeneration, events, tooEarly>>
    BY <1>0, <1>1 DEF RunTakes, Control
  <2>2. Queued(t)' = Queued(t)
    BY <2>1, QueuedKept
  <2>3. CASE cur' = t
    <3>1. tooEarly[t] <= A
      <4> SUFFICES ASSUME tooEarly[t] > A PROVE FALSE
        BY <1>00
      <4> DEFINE x == mTimeout[t]
                 y == (x + a) % Domain
                 k == tooEarly[t]
      <4>0. k > A
        OBVIOUS
      <4>1. PICK d \in Delays : k <= d
        BY <1>0, <4>0 DEF EarlyInv
      <4>2. AheadOf(x, now) = k
        BY <1>0, <4>0 DEF EarlyInv, Ahead
      <4>3. a \in Int /\ -A <= a /\ d \in Nat /\ d + a < Half
        BY TimerAssumption DEF Adjusted
      <4>4. ~LessThan(now, y)
        BY <2>1, <2>3 DEF Due
      <4>5. k \in Nat /\ k > A /\ x \in 0..Domain - 1
        BY <1>00, <4>0
      <4> HIDE DEF x, y, k
      <4>6. A < k /\ k < Half /\ k + a > 0 /\ k + a < Half
        <5>1. k < Half
          BY <1>0, <4>5 DEF EarlyInv, k
        <5> QED
          BY <4>1, <4>3, <4>5, <5>1, HalfFacts
      <4>7. -Half < a /\ a < Half /\ -Half < AheadOf(x, now) + a /\ AheadOf(x, now) + a <= Half
        BY <4>2, <4>3, <4>5, <4>6, HalfFacts
      <4>8. y \in 0..Domain - 1 /\ AheadOf(y, now) = AheadOf(x, now) + a
        BY <1>00, <4>3, <4>5, <4>7, AheadLater DEF y
      <4>9. AheadOf(y, now) < Half /\ AheadOf(y, now) > 0
        BY <4>2, <4>6, <4>8
      <4> HIDE DEF y
      <4> QED
        BY <1>00, <4>4, <4>8, <4>9, DueAhead
    <3>2. ~(tooEarly'[t] > A)
      BY <1>00, <2>1, <3>1
    <3>3. tooEarly'[t] <= A /\ (mDelay'[t] # 0 => mDelay'[t] \in Delays)
      BY <1>0, <2>1, <3>1 DEF EarlyInv
    <3> QED
      BY <3>2, <3>3 DEF EarlyInv
  <2>4. CASE cur' # t
    BY <1>0, <2>1, <2>2, <2>4, EarlyKept DEF EarlyUntouched, AtWork
  <2> QED
    BY <2>3, <2>4
<1>2. ASSUME \/ \E a \in Adjustments : RunWaits(a)
             \/ RunTimesOut \/ RunExits
      PROVE  EarlyInv(t, A)'
  <2>1. cur = NoTimer /\ UNCHANGED <<cur, now, mGeneration, mDelay, mTimeout, curGeneration, events, tooEarly>>
    BY <1>0, <1>2 DEF RunWaits, RunTimesOut, RunExits, Control
  <2> QED
    BY <1>0, <2>1, EarlyKept, QueuedKept DEF EarlyUntouched, AtWork
<1>3. CASE CopyGeneration
  <2>1. pc = "copy" /\ UNCHANGED <<cur, now, mGeneration, mDelay, mTimeout, events, tooEarly>>
    BY <1>3 DEF CopyGeneration
  <2> QED
    BY <1>0, <2>1, EarlyKept, QueuedKept DEF EarlyUntouched, AtWork
<1>4. CASE RepeatPrecise
  <2>1. /\ pc = "repeat" /\ UNCHANGED <<cur, curGeneration, now, mGeneration, mDelay, events, tooEarly>>
        /\ \/ mTimeout' = [mTimeout EXCEPT ![cur] = Delayed(cur, mType[cur], mDelay[cur])]
           \/ mTimeout' = mTimeout
    BY <1>4 DEF RepeatPrecise
  <2>2. Queued(t)' = Queued(t)
    BY <2>1, QueuedKept
  <2>3. CASE cur = t
    <3>1. tooEarly[t] <= A
      BY <1>0, <2>1, <2>3 DEF EarlyInv, AtWork
    <3>2. ~(tooEarly'[t] > A)
      BY <1>00, <2>1, <3>1
    <3>3. tooEarly'[t] <= A /\ (mDelay'[t] # 0 => mDelay'[t] \in Delays)
      BY <1>0, <2>1, <3>1 DEF EarlyInv
    <3> QED
      BY <3>2, <3>3 DEF EarlyInv
  <2>4. CASE cur # t
    <3>1. mTimeout'[t] = mTimeout[t]
      <4>1. mTimeout \in [Timers -> 0..Domain - 1]
        BY <1>0 DEF TypeOK
      <4> QED
        BY <1>0, <2>1, <2>4, <4>1, Zenon
    <3> QED
      BY <1>0, <2>1, <2>2, <2>4, <3>1, EarlyKept DEF EarlyUntouched, AtWork
  <2> QED
    BY <2>3, <2>4
<1>5. CASE Rearm
  <2>1. UNCHANGED <<cur, curGeneration, now, mGeneration, mDelay, mTimeout, events, tooEarly>> /\ pc' = "post"
    BY <1>5 DEF Rearm
  <2> QED
    BY <1>0, <2>1, EarlyKept, QueuedKept DEF EarlyUntouched, AtWork
<1>6. CASE PostEvent
  <2> DEFINE e == [timer |-> cur, generation |-> curGeneration]
  <2>1. e \in Event /\ events \in Seq(Event)
    BY <1>0, <1>6 DEF PostEvent, TypeOK, Control, Event
  <2>2. e \in CurrentEvents(t) => cur = t /\ curGeneration = mGeneration[t]
    BY DEF CurrentEvents
  <2>3. /\ events' = Append(events, e) /\ cur' = NoTimer
        /\ UNCHANGED <<now, mGeneration, mDelay, mTimeout, tooEarly>>
    BY <1>6 DEF PostEvent
  <2> HIDE DEF e
  <2>4. Queued(t)' = Queued(t) + (IF e \in CurrentEvents(t) THEN 1 ELSE 0)
    <3>1. CurrentEvents(t)' = CurrentEvents(t)
      BY <2>3 DEF CurrentEvents
    <3>2. Count(Append(events, e), CurrentEvents(t))
            = Count(events, CurrentEvents(t)) + (IF e \in CurrentEvents(t) THEN 1 ELSE 0)
      BY <2>1, CountAppend
    <3> QED
      BY <2>3, <3>1, <3>2 DEF Queued
  <2>5. Queued(t)' > 0 => Queued(t) > 0 \/ (cur = t /\ curGeneration = mGeneration[t])
    BY <1>00, <2>2, <2>4
  <2> QED
    BY <1>0, <2>3, <2>5, EarlyKept DEF EarlyUntouched, AtWork
<1> QED
  BY <1>1, <1>2, <1>3, <1>4, <1>5, <1>6 DEF ThreadStep

LEMMA EarlyOwnerStep ==
    ASSUME OneAtATime, NEW A \in Nat, PlacesInv, PlacesInv', EarlyAll(A), [Next]_vars, OwnerCalls \/ OwnerStep, NEW t \in Timers \ raced'
    PROVE  EarlyInv(t, A)'
<1>0. TypeOK /\ Control /\ t \in Timers /\ t # NoTimer /\ opPc # "changed"
  BY TimerAssumption DEF PlacesInv, TimerInv, Generations
<1>00. t \in Timers \ raced /\ PlaceInv(t) /\ EarlyInv(t, A) /\ PlaceInv(t)'
  BY RacedGrows DEF PlacesInv, EarlyAll
<1>10. /\ tooEarly[t] \in Nat /\ mTimeout[t] \in 0..Domain - 1 /\ now \in 0..Domain - 1 /\ Queued(t) \in Nat
       /\ mTimeout \in [Timers -> 0..Domain - 1] /\ mDelay \in [Timers -> Nat] /\ tooEarly \in [Timers -> Nat]
  BY <1>0, PlaceTypes DEF TypeOK
<1>11. \A d \in Delays : d \in Nat /\ d < Half
  BY TimerAssumption DEF Half
<1>1. ASSUME UNCHANGED <<now, cur, curGeneration, mGeneration, mDelay, mTimeout, tooEarly, events>>,
             pc' = pc \/ (pc = "wait" /\ pc' = "scan")
      PROVE  EarlyInv(t, A)'
  <2>1. Queued(t)' = Queued(t)
    BY <1>1, QueuedKept
  <2>2. AtWork(t)' => AtWork(t)
    BY <1>1 DEF AtWork
  <2> QED
    BY <1>0, <1>00, <1>1, <2>1, <2>2, EarlyKept DEF EarlyUntouched
<1>2. ASSUME NEW u \in Timers, InitTimer(u) PROVE EarlyInv(t, A)'
  <2>1. /\ opTimer' = u /\ mGeneration' = [mGeneration EXCEPT ![u] = gGenerator + 1]
        /\ mGeneration \in [Timers -> 0..MaxGeneration]
        /\ UNCHANGED <<now, cur, curGeneration, mDelay, mTimeout, tooEarly, events>>
    BY <1>0, <1>2 DEF InitTimer, TypeOK
  <2>2. pc' = pc \/ (pc = "wait" /\ pc' = "scan")
    BY <1>2, WakeupPc DEF InitTimer
  <2>3. CASE t = u
    <3>1. Blank(t)'
      BY <1>00, <2>1, <2>3 DEF PlaceInv
    <3>2. ~AtWork(t)' /\ ~(cur = t /\ curGeneration = mGeneration[t])' /\ Queued(t)' = 0
      BY <3>1 DEF Blank
    <3>3. Ahead(mTimeout[t])' = Ahead(mTimeout[t])
      BY <2>1 DEF Ahead
    <3> QED
      BY <1>00, <2>1, <3>2, <3>3 DEF EarlyInv
  <2>4. CASE t # u
    <3>1. mGeneration'[t] = mGeneration[t]
      BY <1>0, <2>1, <2>4, Zenon
    <3>2. Queued(t)' = Queued(t)
      BY <2>1, <3>1, QueuedKept
    <3>3. AtWork(t)' => AtWork(t)
      BY <2>1, <2>2 DEF AtWork
    <3> QED
      BY <1>0, <1>00, <2>1, <3>1, <3>2, <3>3, EarlyKept DEF EarlyUntouched
  <2> QED
    BY <2>3, <2>4
<1>3. ASSUME NEW type \in Types, NEW d \in Delays, InitDelay(type, d) PROVE EarlyInv(t, A)'
  <2>1. /\ mDelay' = [mDelay EXCEPT ![opTimer] = d]
        /\ mTimeout' = [mTimeout EXCEPT ![opTimer] = Delayed(opTimer, type, d)]
        /\ tooEarly' = [tooEarly EXCEPT ![opTimer] = IF KeepsPhase(opTimer, type) THEN 0 ELSE d]
        /\ UNCHANGED <<now, pc, cur, curGeneration, mGeneration, events, opTimer>>
    BY <1>3 DEF InitDelay
  <2>2. Queued(t)' = Queued(t) /\ (AtWork(t)' <=> AtWork(t))
    BY <2>1, QueuedKept DEF AtWork
  <2>3. CASE opTimer = t
    <3>1. Blank(t)
      BY <1>00, <2>3 DEF PlaceInv
    <3>2. ~AtWork(t)' /\ ~(cur = t /\ curGeneration = mGeneration[t])' /\ ~(Queued(t)' > 0)
      BY <2>1, <2>2, <3>1 DEF Blank
    <3>3. /\ mDelay'[t] = d /\ tooEarly'[t] = (IF KeepsPhase(t, type) THEN 0 ELSE d)
          /\ mTimeout'[t] = Delayed(t, type, d)
      BY <1>0, <1>10, <2>1, <2>3
    <3>4. ASSUME tooEarly'[t] > A
          PROVE  AheadOf(mTimeout'[t], now') = tooEarly'[t] /\ tooEarly'[t] < Half /\ \E e \in Delays : tooEarly'[t] <= e
      <4>1. ~KeepsPhase(t, type) /\ tooEarly'[t] = d
        BY <3>3, <3>4
      <4>2. mTimeout'[t] = (now + d) % Domain
        BY <3>3, <4>1 DEF Delayed
      <4>3. AheadOf(mTimeout'[t], now) = d
        BY <1>10, <1>11, <4>2, AheadNow
      <4>4. d <= d /\ d < Half
        BY <1>11
      <4> QED
        BY <2>1, <4>1, <4>3, <4>4
    <3> QED
      BY <1>0, <3>2, <3>3, <3>4, EarlySet
  <2>4. CASE opTimer # t
    <3>1. mDelay'[t] = mDelay[t] /\ mTimeout'[t] = mTimeout[t] /\ tooEarly'[t] = tooEarly[t]
      BY <1>0, <1>10, <2>1, <2>4, Zenon
    <3> QED
      BY <1>0, <1>00, <2>1, <2>2, <3>1, EarlyKept DEF EarlyUntouched
  <2> QED
    BY <2>3, <2>4
<1>4. CASE HandleEvent
  <2>1. events \in Seq(Event) /\ events # <<>>
    BY <1>0, <1>4 DEF HandleEvent, TypeOK, Event
  <2>2. Count(Tail(events), CurrentEvents(t)) = Count(events, CurrentEvents(t)) - (IF Head(events) \in CurrentEvents(t) THEN 1 ELSE 0)
    BY <2>1, CountTail
  <2>3. /\ events' = Tail(events)
        /\ UNCHANGED <<now, pc, cur, curGeneration, mGeneration, mDelay, mTimeout, tooEarly>>
    BY <1>4 DEF HandleEvent
  <2>4. CurrentEvents(t)' = CurrentEvents(t)
    BY <2>3 DEF CurrentEvents
  <2>5. Queued(t)' > 0 => Queued(t) > 0
    <3>1. Queued(t)' = Queued(t) - (IF Head(events) \in CurrentEvents(t) THEN 1 ELSE 0)
      BY <2>2, <2>3, <2>4 DEF Queued
    <3> QED
      BY <1>10, <3>1
  <2> QED
    BY <1>0, <1>00, <2>3, <2>5, EarlyKept DEF EarlyUntouched, AtWork
<1>5. CASE CallbackReturns
  <2>1. UNCHANGED <<now, pc, cur, curGeneration, mGeneration, mDelay, events>>
    BY <1>5 DEF CallbackReturns
  <2>2. Queued(t)' = Queued(t) /\ (AtWork(t)' <=> AtWork(t))
    BY <2>1, QueuedKept DEF AtWork
  <2>3. CASE handled = t /\ mType[t] = REPEATING_SLACK
    <3>1. /\ mTimeout'[t] = Delayed(t, mType[t], mDelay[t]) /\ tooEarly'[t] = mDelay[t]
      BY <1>0, <1>10, <1>5, <2>3 DEF CallbackReturns, StartsAgain
    <3>2. ~AtWork(t) /\ ~Posting(t) /\ Queued(t) = 0
      <4>1. One(handled = t) = 1 /\ One(AtWork(t)) \in Nat /\ One(Posting(t)) \in Nat /\ InList(t) \in Nat
        BY <1>0, <2>3, PlaceTypes DEF One
      <4>2. InList(t) + One(AtWork(t)) + One(Posting(t)) + Queued(t) + One(handled = t) <= 1
        BY <1>00, <2>3 DEF PlaceInv, OnePlace
      <4> DEFINE l == InList(t)
                 x == One(AtWork(t))
                 y == One(Posting(t))
                 q == Queued(t)
      <4>3. l \in Nat /\ x \in Nat /\ y \in Nat /\ q \in Nat /\ l + x + y + q + 1 <= 1
        BY <1>10, <4>1, <4>2
      <4> HIDE DEF l, x, y, q
      <4>4. x = 0 /\ y = 0 /\ q = 0
        BY ONLY <4>3
      <4> QED
        BY <4>4 DEF One, x, y, q
    <3>3. ~AtWork(t)' /\ ~(cur = t /\ curGeneration = mGeneration[t])' /\ ~(Queued(t)' > 0)
      BY <2>1, <2>2, <3>2 DEF AtWork, Posting
    <3>4. ASSUME tooEarly'[t] > A
          PROVE  AheadOf(mTimeout'[t], now') = tooEarly'[t] /\ tooEarly'[t] < Half /\ \E e \in Delays : tooEarly'[t] <= e
      <4>1. mDelay[t] \in Delays
        BY <1>00, <3>1, <3>4 DEF EarlyInv
      <4>2. ~KeepsPhase(t, mType[t])
        BY <2>3 DEF KeepsPhase, REPEATING_SLACK, REPEATING_PRECISE
      <4>3. mTimeout'[t] = (now + mDelay[t]) % Domain
        BY <3>1, <4>2 DEF Delayed
      <4>4. AheadOf(mTimeout'[t], now) = mDelay[t]
        BY <1>10, <1>11, <4>1, <4>3, AheadNow
      <4>5. mDelay[t] <= mDelay[t] /\ mDelay[t] < Half
        BY <1>11, <4>1
      <4> QED
        BY <2>1, <3>1, <4>1, <4>4, <4>5
    <3>5. mDelay'[t] # 0 => mDelay'[t] \in Delays
      BY <1>00, <2>1 DEF EarlyInv
    <3> QED
      BY <1>0, <3>3, <3>4, <3>5, EarlySet
  <2>4. CASE ~(handled = t /\ mType[t] = REPEATING_SLACK)
    <3>1. mTimeout'[t] = mTimeout[t] /\ tooEarly'[t] = tooEarly[t]
      <4>1. \/ UNCHANGED <<mTimeout, tooEarly>>
            \/ /\ mType[handled] = REPEATING_SLACK
               /\ mTimeout' = [mTimeout EXCEPT ![handled] = Delayed(handled, mType[handled], mDelay[handled])]
               /\ tooEarly' = [tooEarly EXCEPT ![handled] = mDelay[handled]]
        BY <1>5 DEF CallbackReturns, StartsAgain
      <4> QED
        BY <1>0, <1>10, <2>4, <4>1, Zenon
    <3> QED
      BY <1>0, <1>00, <2>1, <2>2, <3>1, EarlyKept DEF EarlyUntouched
  <2> QED
    BY <2>3, <2>4
<1>6. ASSUME NEW u \in Timers, Cancel(u) \/ ReleaseTimer(u) PROVE EarlyInv(t, A)'
  <2>1. pc' = pc \/ (pc = "wait" /\ pc' = "scan")
    BY <1>6, WakeupPc DEF Cancel, ReleaseTimer
  <2> QED
    BY <1>1, <1>6, <2>1 DEF Cancel, ReleaseTimer
<1>7. ASSUME Shutdown \/ InitAdd \/ RemoveReleased \/ RearmSlack PROVE EarlyInv(t, A)'
  <2>1. pc' = pc \/ (pc = "wait" /\ pc' = "scan")
    BY <1>7, WakeupPc DEF Shutdown, InitAdd, RemoveReleased, RearmSlack
  <2> QED
    BY <1>1, <1>7, <2>1 DEF Shutdown, InitAdd, RemoveReleased, RearmSlack
<1>8. ASSUME DropReference \/ TestArmed \/ ShutdownJoined PROVE EarlyInv(t, A)'
  BY <1>1, <1>8 DEF DropReference, TestArmed, ShutdownJoined
<1>9. ASSUME OwnerCalls PROVE EarlyInv(t, A)'
  BY <1>2, <1>6, <1>7, <1>9, NoSetters DEF OwnerCalls
<1>12. ASSUME OwnerStep PROVE EarlyInv(t, A)'
  BY <1>0, <1>3, <1>4, <1>5, <1>7, <1>8, <1>12 DEF OwnerStep, TimerDelayChanged
<1> QED
  BY <1>9, <1>12

LEMMA EarlyTick ==
    ASSUME NEW A \in Nat, PlacesInv, EarlyAll(A), Tick, NEW t \in Timers \ raced
    PROVE  EarlyInv(t, A)'
<1>0. TypeOK /\ EarlyInv(t, A) /\ t \in Timers
  BY DEF PlacesInv, TimerInv, EarlyAll
<1>1. /\ tooEarly[t] \in Nat /\ mTimeout[t] \in 0..Domain - 1 /\ now \in 0..Domain - 1
      /\ tooEarly'[t] = (IF tooEarly[t] > 0 THEN tooEarly[t] - 1 ELSE 0) /\ now' = (now + 1) % Domain
      /\ UNCHANGED <<implVars, threadVars, ownerVars>>
  BY <1>0 DEF TypeOK, Tick
<1>2. (AtWork(t)' <=> AtWork(t)) /\ Queued(t)' = Queued(t) /\ tooEarly'[t] <= tooEarly[t] /\ tooEarly'[t] \in Nat
  BY <1>1, QueuedKept DEF AtWork
<1>3. ASSUME tooEarly'[t] > A
      PROVE  Ahead(mTimeout[t])' = tooEarly'[t] /\ tooEarly'[t] < Half /\ \E d \in Delays : tooEarly'[t] <= d
  <2> DEFINE k == tooEarly[t]
             x == mTimeout[t]
  <2>0. tooEarly'[t] \in Nat /\ tooEarly'[t] > A /\ tooEarly'[t] = (IF k > 0 THEN k - 1 ELSE 0)
    BY <1>1, <1>2, <1>3
  <2>1. k \in Nat /\ k > A /\ k > 1 /\ tooEarly'[t] = k - 1
    BY <1>1, <2>0
  <2>2. AheadOf(x, now) = k /\ k < Half
    BY <1>0, <2>1 DEF EarlyInv, Ahead
  <2>3. PICK d \in Delays : k <= d
    BY <1>0, <2>1 DEF EarlyInv
  <2>4. d \in Nat
    BY TimerAssumption
  <2>5. AheadOf(x, now') = AheadOf(x, now) - 1
    <3>1. AheadOf(x, now) > 1 - Half
      BY <2>1, <2>2, HalfFacts
    <3> QED
      BY <1>1, <3>1, AheadTick
  <2>6. Ahead(mTimeout[t])' = AheadOf(x, now')
    BY <1>1 DEF Ahead
  <2> HIDE DEF k, x
  <2>7. k - 1 < Half /\ k - 1 <= d
    BY <2>1, <2>2, <2>3, <2>4, HalfFacts
  <2> QED
    BY <2>1, <2>2, <2>5, <2>6, <2>7
<1> QED
  BY <1>0, <1>1, <1>2, <1>3 DEF EarlyInv

LEMMA EarlyNext ==
    ASSUME OneAtATime, NEW A \in Nat, Adjusted(A), PlacesInv, EarlyAll(A), [Next]_vars
    PROVE  EarlyAll(A)'
<1> SUFFICES ASSUME NEW t \in Timers \ raced' PROVE EarlyInv(t, A)'
  BY DEF EarlyAll
<1>1. t \in Timers \ raced /\ PlacesInv'
  BY RacedGrows, PlacesNext
<1>2. CASE ThreadStep
  BY <1>1, <1>2, EarlyThreadStep
<1>3. CASE OwnerCalls \/ OwnerStep
  BY <1>1, <1>3, EarlyOwnerStep
<1>4. CASE Tick
  BY <1>1, <1>4, EarlyTick
<1>5. CASE UNCHANGED vars
  <2>1. EarlyInv(t, A)
    BY <1>1 DEF EarlyAll
  <2> QED
    BY <1>1, <1>5, <2>1, EarlyKept, QueuedKept DEF EarlyUntouched, AtWork, vars
<1> QED
  BY <1>2, <1>3, <1>4, <1>5 DEF Next

LEMMA FiringFromQueue ==
    ASSUME PlacesInv, [Next]_vars, NEW t \in Timers, ~Firing(t), Firing(t)'
    PROVE  Queued(t) > 0
<1>0. TypeOK /\ Control /\ t # NoTimer
  BY TimerAssumption DEF PlacesInv, TimerInv
<1>1. CASE HandleEvent
  <2>1. events \in Seq(Event) /\ events # <<>> /\ handled' = Head(events).timer /\ Fires(Head(events)) /\ handled' = t
    BY <1>0, <1>1 DEF HandleEvent, TypeOK, Event, Firing
  <2>2. Head(events) \in Event /\ Head(events) = events[1] /\ 1 \in 1..Len(events)
    BY <2>1, CountTail
  <2>3. events[1] \in CurrentEvents(t)
    BY <2>1, <2>2 DEF CurrentEvents, Fires
  <2> QED
    BY <2>1, <2>2, <2>3, CountPositive DEF Queued
<1>2. CASE ThreadStep \/ OwnerCalls \/ Tick \/ UNCHANGED vars
  BY <1>2 DEF Firing, ThreadStep, RunTakes, RunWaits, RunTimesOut, RunExits, CopyGeneration, RepeatPrecise, Rearm,
     PostEvent, OwnerCalls, InitTimer, Cancel, ReleaseTimer, SetDelay, SetType, Shutdown, Tick, vars
<1>3. CASE OwnerStep /\ ~HandleEvent
  BY <1>0, <1>3 DEF Firing, OwnerStep, InitDelay, InitAdd, TimerDelayChanged, DropReference, TestArmed, RemoveReleased,
     CallbackReturns, RearmSlack, ShutdownJoined
<1> QED
  BY <1>1, <1>2, <1>3 DEF Next

EarlyState(A) == PlacesInv /\ EarlyAll(A)

LEMMA EarlyBound ==
    ASSUME OneAtATime, NEW A \in Nat, Adjusted(A)
    PROVE  /\ Init => EarlyState(A)
           /\ EarlyState(A) /\ [Next]_vars =>
                  EarlyState(A)' /\ \A t \in Timers \ raced : ~Firing(t) /\ Firing(t)' => tooEarly[t] <= A
<1>1. Init => EarlyState(A)
  <2> SUFFICES ASSUME Init, NEW t \in Timers PROVE EarlyInv(t, A)
    BY PlacesInit DEF EarlyState, EarlyAll
  <2>1. tooEarly[t] = 0 /\ mDelay[t] = 0
    BY DEF Init
  <2> QED
    BY <2>1 DEF EarlyInv
<1> SUFFICES ASSUME EarlyState(A), [Next]_vars
             PROVE  EarlyState(A)' /\ \A t \in Timers \ raced : ~Firing(t) /\ Firing(t)' => tooEarly[t] <= A
  BY <1>1
<1>2. EarlyState(A)'
  BY EarlyNext, PlacesNext DEF EarlyState
<1>3. ASSUME NEW t \in Timers \ raced, ~Firing(t), Firing(t)' PROVE tooEarly[t] <= A
  <2>1. Queued(t) > 0 /\ EarlyInv(t, A)
    BY <1>3, FiringFromQueue DEF EarlyState, EarlyAll
  <2> QED
    BY <2>1 DEF EarlyInv
<1> QED
  BY <1>2, <1>3

\* However much earlier than their time the timer thread serves timers to make up for its own
\* delay, a callback comes no earlier than by so much, but for a timer that was once initialised
\* while PostTimerEvent was at work on it.
THEOREM EarlyByTheAdjustment ==
    ASSUME OneAtATime, NEW A \in Nat, Adjusted(A)
    PROVE  Spec => [][\A t \in Timers \ raced : ~Firing(t) /\ Firing(t)' => tooEarly[t] <= A]_vars
<1> DEFINE E == EarlyState(A)
           Late == \A t \in Timers \ raced : ~Firing(t) /\ Firing(t)' => tooEarly[t] <= A
<1>1. (Init => E) /\ (E /\ [Next]_vars => E' /\ [Late]_vars)
  BY EarlyBound
<1>2. Spec => [][Late]_vars
  <2> HIDE DEF E, Late
  <2> QED
    BY <1>1, PTL DEF Spec
<1> QED
  BY <1>2

\* If timers are not served before their time, a callback comes early only of a timer that was
\* once initialised while PostTimerEvent was at work on it: whatever the types and the delays,
\* and however often timers are initialised, no event of an earlier Init calls back.
THEOREM EarlyNeedsARace == ASSUME OneAtATime, Adjusted(0) PROVE Spec => EarlyOnlyByRace
<1> DEFINE E == EarlyState(0)
           Never == \A t \in Timers \ raced : ~Firing(t) /\ Firing(t)' => tooEarly[t] = 0
<1>1. (Init => E) /\ (E /\ [Next]_vars => E')
  BY EarlyBound
<1>2. E /\ [Next]_vars => [Never]_vars
  <2> SUFFICES ASSUME E, [Next]_vars, NEW t \in Timers \ raced, ~Firing(t), Firing(t)' PROVE tooEarly[t] = 0
    OBVIOUS
  <2>1. tooEarly[t] <= 0
    BY EarlyBound
  <2>2. tooEarly[t] \in Nat
    BY DEF EarlyState, PlacesInv, TimerInv, TypeOK
  <2> QED
    BY <2>1, <2>2
<1>3. Spec => [][Never]_vars
  <2> HIDE DEF E, Never
  <2> QED
    BY <1>1, <1>2, PTL DEF Spec
<1> QED
  BY <1>3 DEF EarlyOnlyByRace

------------------------------------------------------------------------------
(* The order of the list.                                                    *)

\* The elements of s have values of f that do not decrease.
Ordered(s, f) == \A i, j \in 1..Len(s) : i < j => f[s[i]] <= f[s[j]]

LEMMA OrderedShift ==
    ASSUME NEW S, NEW f \in [S -> Int], NEW g \in [S -> Int], NEW s \in Seq(S), NEW c \in Int,
           Ordered(s, f), \A i \in 1..Len(s) : g[s[i]] = f[s[i]] + c
    PROVE  Ordered(s, g)
<1> SUFFICES ASSUME NEW i \in 1..Len(s), NEW j \in 1..Len(s), i < j PROVE g[s[i]] <= g[s[j]]
  BY DEF Ordered
<1>1. f[s[i]] <= f[s[j]] /\ s[i] \in S /\ s[j] \in S
  BY DEF Ordered
<1>2. f[s[i]] \in Int /\ f[s[j]] \in Int /\ g[s[i]] = f[s[i]] + c /\ g[s[j]] = f[s[j]] + c
  BY <1>1
<1> QED
  BY <1>1, <1>2

LEMMA OrderedRemoved ==
    ASSUME NEW S, NEW f \in [S -> Int], NEW s \in Seq(S), NEW n \in 1..Len(s), Ordered(s, f)
    PROVE  Ordered(Removed(s, n), f)
<1> DEFINE r == Removed(s, n)
           up(k) == IF k < n THEN k ELSE k + 1
<1>1. Len(r) = Len(s) - 1 /\ Len(s) \in Nat
  BY CountRemoved, LenProperties
<1>2. ASSUME NEW k \in 1..Len(r) PROVE r[k] = s[up(k)] /\ up(k) \in 1..Len(s)
  <2>1. CASE k < n
    <3>1. k \in 1..n - 1 /\ k \in 1..Len(s)
      BY <1>1, <2>1
    <3> QED
      BY <2>1, <3>1, RemovedElements
  <2>2. CASE ~(k < n)
    <3>1. k \in n..Len(s) - 1 /\ k + 1 \in 1..Len(s)
      BY <1>1, <2>2
    <3> QED
      BY <2>2, <3>1, RemovedElements
  <2> QED
    BY <2>1, <2>2
<1> SUFFICES ASSUME NEW i \in 1..Len(r), NEW j \in 1..Len(r), i < j PROVE f[r[i]] <= f[r[j]]
  BY DEF Ordered
<1>3. up(i) < up(j)
  BY <1>1
<1> HIDE DEF up, r
<1> QED
  BY <1>2, <1>3 DEF Ordered

LEMMA OrderedTail ==
    ASSUME NEW S, NEW f \in [S -> Int], NEW s \in Seq(S), s # <<>>, Ordered(s, f)
    PROVE  Ordered(Tail(s), f)
<1>1. Len(Tail(s)) = Len(s) - 1 /\ Len(s) \in Nat /\ \A k \in 1..Len(s) - 1 : Tail(s)[k] = s[k + 1]
  BY HeadTailProperties, LenProperties
<1> SUFFICES ASSUME NEW i \in 1..Len(s) - 1, NEW j \in 1..Len(s) - 1, i < j PROVE f[s[i + 1]] <= f[s[j + 1]]
  BY <1>1 DEF Ordered
<1>2. i + 1 \in 1..Len(s) /\ j + 1 \in 1..Len(s) /\ i + 1 < j + 1
  BY <1>1
<1> QED
  BY <1>2 DEF Ordered

LEMMA OrderedInserted ==
    ASSUME NEW S, NEW f \in [S -> Int], NEW s \in Seq(S), NEW n \in 1..Len(s) + 1, NEW x \in S, Ordered(s, f),
           \A k \in 1..n - 1 : f[s[k]] <= f[x],
           n <= Len(s) => f[x] <= f[s[n]]
    PROVE  Ordered(Inserted(s, n, x), f)
<1> DEFINE r == Inserted(s, n, x)
<1>1. /\ Len(r) = Len(s) + 1 /\ Len(s) \in Nat /\ r[n] = x
      /\ \A k \in 1..n - 1 : r[k] = s[k]
      /\ \A k \in n + 1..Len(s) + 1 : r[k] = s[k - 1]
  BY CountInserted, LenProperties
<1>2. \A k \in 1..Len(s) : f[s[k]] \in Int
  <2>1. \A k \in 1..Len(s) : s[k] \in S
    OBVIOUS
  <2> QED
    BY <2>1
<1>3. f[x] \in Int
  OBVIOUS
<1> HIDE DEF r
<1> SUFFICES ASSUME NEW i \in 1..Len(s) + 1, NEW j \in 1..Len(s) + 1, i < j PROVE f[r[i]] <= f[r[j]]
  BY <1>1 DEF Ordered, r
<1>4. CASE j < n
  <2>1. i \in 1..n - 1 /\ j \in 1..n - 1 /\ i \in 1..Len(s) /\ j \in 1..Len(s)
    BY <1>1, <1>4
  <2> QED
    BY <1>1, <2>1 DEF Ordered
<1>5. CASE i < n /\ j = n
  <2>1. i \in 1..n - 1
    BY <1>5
  <2> QED
    BY <1>1, <1>5, <2>1
<1>6. CASE i < n /\ j > n
  <2>1. i \in 1..n - 1 /\ j \in n + 1..Len(s) + 1 /\ i \in 1..Len(s) /\ j - 1 \in 1..Len(s) /\ i < j - 1
    BY <1>1, <1>6
  <2> QED
    BY <1>1, <2>1 DEF Ordered
<1>7. CASE i = n
  <2>1. j \in n + 1..Len(s) + 1 /\ j - 1 \in 1..Len(s) /\ n <= j - 1 /\ n \in 1..Len(s)
    BY <1>1, <1>7
  <2>2. f[x] <= f[s[n]] /\ (n = j - 1 \/ f[s[n]] <= f[s[j - 1]])
    <3>1. n = j - 1 \/ n < j - 1
      BY <2>1
    <3> QED
      BY <2>1, <3>1 DEF Ordered
  <2>3. f[x] <= f[s[j - 1]]
    BY <1>2, <1>3, <2>1, <2>2
  <2> QED
    BY <1>1, <1>7, <2>1, <2>3
<1>8. CASE i > n
  <2>1. /\ i \in n + 1..Len(s) + 1 /\ j \in n + 1..Len(s) + 1 /\ i - 1 \in 1..Len(s) /\ j - 1 \in 1..Len(s)
        /\ i - 1 < j - 1
    BY <1>1, <1>8
  <2> QED
    BY <1>1, <2>1 DEF Ordered
<1> QED
  BY <1>4, <1>5, <1>6, <1>7, <1>8

\* Not yet initialised, or its first delay not yet set.
Pending(t) == mGeneration[t] = 0 \/ (opPc = "delay" /\ opTimer = t)
\* In the list, or about to be put there with the timeout it has.
Timed(t) == mArmed[t] \/ AtWork(t) \/ (opPc = "add" /\ opTimer = t) \/ (ownerPc = "rearm" /\ handled = t)

\* What Run takes a timer's time for is at most A away from it, and no two timeouts that are
\* compared are half a turn of the clock apart.
Window(A) ==
    /\ \A a \in Adjustments : -A <= a /\ a <= A
    /\ \A d \in Delays : d + MaxLag + 4 * A < Half

\* The timeout of a timer that is in the list, or goes there, is near.
TimeInv(t, A) ==
    /\ IF Pending(t) THEN mTimeout[t] = 0 ELSE mDelay[t] \in Delays
    /\ Timed(t) => -(lag + A) <= Ahead(mTimeout[t]) /\ Ahead(mTimeout[t]) <= mDelay[t] + A
    /\ cur = t /\ pc \in {"copy", "repeat"} => Ahead(mTimeout[t]) <= A

TimesInv(A) == \A t \in Timers : TimeInv(t, A)

\* A timer that is in the list, or goes there, has been initialised.
LEMMA TimedNotPending ==
    ASSUME TypeOK, NEW t \in Timers, PlaceInv(t), Timed(t)
    PROVE  ~Pending(t)
<1>1. InList(t) \in Nat /\ mArmed[t] \in BOOLEAN /\ t # NoTimer
  BY PlaceTypes, TimerAssumption
<1>2. mArmed[t] => ~Blank(t)
  BY <1>1 DEF PlaceInv, Blank
<1>3. AtWork(t) \/ handled = t => ~Blank(t)
  BY DEF Blank
<1>4. CASE opPc = "add" /\ opTimer = t
  BY <1>4 DEF PlaceInv, Pending
<1>5. CASE ~Blank(t)
  BY <1>5 DEF PlaceInv, Pending
<1> QED
  BY <1>2, <1>3, <1>4, <1>5 DEF Timed

\* The numbers of such a timer.
LEMMA TimedFacts ==
    ASSUME NEW A \in Nat, Window(A), TypeOK, NEW t \in Timers, PlaceInv(t), TimeInv(t, A), Timed(t)
    PROVE  /\ mDelay[t] \in Delays /\ mDelay[t] \in Nat /\ mDelay[t] + MaxLag + 4 * A < Half
           /\ mTimeout[t] \in 0..Domain - 1 /\ now \in 0..Domain - 1
           /\ Ahead(mTimeout[t]) \in Int
           /\ -(MaxLag + A) <= Ahead(mTimeout[t]) /\ Ahead(mTimeout[t]) <= mDelay[t] + A
           /\ Ahead(mTimeout[t]) + MaxLag + 3 * A < Half
<1>1. ~Pending(t)
  BY TimedNotPending
<1>2. mDelay[t] \in Delays /\ mDelay[t] \in Nat /\ mDelay[t] + MaxLag + 4 * A < Half
  BY <1>1, TimerAssumption DEF TimeInv, Window
<1>3. mTimeout[t] \in 0..Domain - 1 /\ now \in 0..Domain - 1 /\ lag \in 0..MaxLag /\ MaxLag \in Nat
  BY TimerAssumption DEF TypeOK
<1> DEFINE x == Ahead(mTimeout[t])
           d == mDelay[t]
<1>4. x \in Int
  BY <1>3, AheadType DEF Ahead
<1>5. -(lag + A) <= x /\ x <= d + A
  BY DEF TimeInv
<1> HIDE DEF x, d
<1>6. -(MaxLag + A) <= x /\ x + MaxLag + 3 * A < Half
  <2>1. d \in Nat /\ d + MaxLag + 4 * A < Half
    BY <1>2 DEF d
  <2> QED
    BY <1>3, <1>4, <1>5, <2>1, HalfFacts
<1> QED
  BY <1>2, <1>3, <1>4, <1>5, <1>6 DEF x, d

LEMMA TimeKept ==
    ASSUME NEW A \in Nat, NEW t \in Timers, TimeInv(t, A),
           mTimeout'[t] = mTimeout[t], mDelay'[t] = mDelay[t], now' = now, lag' = lag,
           Pending(t)' <=> Pending(t), Timed(t)' => Timed(t),
           (cur = t /\ pc \in {"copy", "repeat"})' => (cur = t /\ pc \in {"copy", "repeat"})
    PROVE  TimeInv(t, A)'
<1>1. Ahead(mTimeout[t])' = Ahead(mTimeout[t])
  BY DEF Ahead
<1> QED
  BY <1>1 DEF TimeInv

LEMMA TimeSet ==
    ASSUME NEW A \in Nat, NEW t \in Timers, ~Pending(t)', mDelay'[t] \in Delays,
           -(lag' + A) <= AheadOf(mTimeout'[t], now'), AheadOf(mTimeout'[t], now') <= mDelay'[t] + A,
           ~(cur = t /\ pc \in {"copy", "repeat"})'
    PROVE  TimeInv(t, A)'
  BY DEF TimeInv, Ahead

\* What Run takes the time of such a timer for, and when the timer is due.
LEMMA DueFacts ==
    ASSUME NEW A \in Nat, Window(A), TypeOK, NEW t \in Timers, PlaceInv(t), TimeInv(t, A), Timed(t),
           NEW a \in Int, -A <= a, a <= A
    PROVE  /\ (mTimeout[t] + a) % Domain \in 0..Domain - 1
           /\ Ahead((mTimeout[t] + a) % Domain) = Ahead(mTimeout[t]) + a
           /\ Due(t, a) <=> Ahead(mTimeout[t]) + a <= 0
<1> DEFINE x == mTimeout[t]
           k == AheadOf(x, now)
           y == (x + a) % Domain
           d == mDelay[t]
<1>1. /\ x \in 0..Domain - 1 /\ now \in 0..Domain - 1 /\ k \in Int /\ d \in Nat /\ d + MaxLag + 4 * A < Half
      /\ -(MaxLag + A) <= k /\ k + MaxLag + 3 * A < Half
  BY TimedFacts DEF Ahead
<1> HIDE DEF x, d
<1>2. MaxLag \in Nat
  BY TimerAssumption
<1>3. -Half < a /\ a < Half /\ -Half < k + a /\ k + a < Half
  <2> HIDE DEF k
  <2> QED
    BY <1>1, <1>2, HalfFacts
<1>4. y \in 0..Domain - 1 /\ AheadOf(y, now) = k + a
  <2>1. -Half < AheadOf(x, now) + a /\ AheadOf(x, now) + a <= Half
    <3> HIDE DEF y
    <3>1. k + a <= Half
      <4> HIDE DEF k
      <4> QED
        BY <1>1, <1>3, HalfFacts
    <3> QED
      BY <1>3, <3>1
  <2> HIDE DEF k
  <2>2. y \in 0..Domain - 1 /\ AheadOf(y, now) = AheadOf(x, now) + a
    BY <1>1, <1>3, <2>1, AheadLater
  <2> QED
    BY <2>2 DEF k
<1> HIDE DEF y
<1>5. LessThan(now, y) <=> k + a > 0
  BY <1>1, <1>3, <1>4, DueAhead
<1> HIDE DEF k
<1>6. ~LessThan(now, y) <=> k + a <= 0
  BY <1>1, <1>5
<1> QED
  BY <1>4, <1>6 DEF Due, Ahead, x, y, k

LEMMA HeadArmed ==
    ASSUME PlacesInv, raced = {}, mTimers # <<>>
    PROVE  Head(mTimers) \in Timers /\ PlaceInv(Head(mTimers)) /\ mArmed[Head(mTimers)]
  BY HeadListed DEF PlacesInv, TimerInv, PlaceInv

LEMMA TimesThreadStep ==
    ASSUME NEW A \in Nat, Window(A), PlacesInv, raced = {}, TimesInv(A), ThreadStep, lag' = lag
    PROVE  TimesInv(A)'
<1> SUFFICES ASSUME NEW t \in Timers PROVE TimeInv(t, A)'
  BY DEF TimesInv
<1>0. TypeOK /\ Control /\ PlaceInv(t) /\ TimeInv(t, A) /\ t # NoTimer /\ mArmed \in [Timers -> BOOLEAN]
  BY TimerAssumption DEF PlacesInv, TimerInv, TimesInv, TypeOK
<1>1. ASSUME NEW a \in Adjustments, RunTakes(a) PROVE TimeInv(t, A)'
  <2>1. /\ cur = NoTimer /\ cur' = Head(mTimers) /\ Due(Head(mTimers), a) /\ pc' = "copy"
        /\ mArmed' = [mArmed EXCEPT ![Head(mTimers)] = FALSE]
        /\ UNCHANGED <<now, mGeneration, mDelay, mTimeout, ownerPc, handled, opPc, opTimer>>
    BY <1>0, <1>1 DEF RunTakes, Control
  <2>2. Head(mTimers) \in Timers /\ mArmed[Head(mTimers)]
    BY <1>1, HeadArmed DEF RunTakes
  <2>3. Pending(t)' <=> Pending(t)
    BY <2>1 DEF Pending
  <2>4. mArmed'[t] => mArmed[t]
    BY <1>0, <2>1, <2>2
  <2>5. Timed(t)' => Timed(t)
    BY <2>1, <2>2, <2>4 DEF Timed, AtWork
  <2>6. CASE cur' = t
    <3>1. Timed(t)
      BY <2>1, <2>2, <2>6 DEF Timed
    <3>2. a \in Int /\ -A <= a /\ a <= A
      BY TimerAssumption DEF Window
    <3>3. Ahead(mTimeout[t]) + a <= 0 /\ Ahead(mTimeout[t]) \in Int
      BY <1>0, <2>1, <2>6, <3>1, <3>2, DueFacts, TimedFacts
    <3>4. Ahead(mTimeout[t]) <= A
      BY <3>2, <3>3
    <3>5. Ahead(mTimeout[t])' = Ahead(mTimeout[t])
      BY <2>1 DEF Ahead
    <3> QED
      BY <1>0, <2>1, <2>3, <2>5, <3>4, <3>5 DEF TimeInv
  <2>7. CASE cur' # t
    BY <1>0, <2>1, <2>3, <2>5, <2>7, TimeKept
  <2> QED
    BY <2>6, <2>7
<1>2. ASSUME \/ \E a \in Adjustments : RunWaits(a)
             \/ RunTimesOut \/ RunExits
      PROVE  TimeInv(t, A)'
  <2>1. /\ cur = NoTimer
        /\ UNCHANGED <<cur, now, mArmed, mGeneration, mDelay, mTimeout, ownerPc, handled, opPc, opTimer>>
    BY <1>0, <1>2 DEF RunWaits, RunTimesOut, RunExits, Control
  <2> QED
    BY <1>0, <2>1, TimeKept DEF Pending, Timed, AtWork
<1>3. CASE CopyGeneration
  <2>1. /\ pc = "copy"
        /\ UNCHANGED <<cur, now, mArmed, mGeneration, mDelay, mTimeout, ownerPc, handled, opPc, opTimer>>
    BY <1>3 DEF CopyGeneration
  <2> QED
    BY <1>0, <2>1, TimeKept DEF Pending, Timed, AtWork
<1>4. CASE RepeatPrecise
  <2>1. /\ pc = "repeat"
        /\ UNCHANGED <<cur, now, mArmed, mGeneration, mDelay, ownerPc, handled, opPc, opTimer>>
        /\ \/ /\ mTimeout' = [mTimeout EXCEPT ![cur] = Delayed(cur, mType[cur], mDelay[cur])]
              /\ pc' = "rearm"
           \/ mTimeout' = mTimeout /\ pc' = "post"
    BY <1>4 DEF RepeatPrecise
  <2>2. (Pending(t)' <=> Pending(t)) /\ (Timed(t)' => Timed(t))
    BY <2>1 DEF Pending, Timed, AtWork
  <2>3. CASE cur = t /\ pc' = "rearm"
    <3>1. Timed(t) /\ ~Pending(t)
      BY <1>0, <2>1, <2>3, TimedNotPending DEF Timed, AtWork
    <3> DEFINE k == AheadOf(mTimeout[t], now)
               d == mDelay[t]
    <3>2. /\ d \in Delays /\ d \in Nat /\ d + MaxLag + 4 * A < Half /\ k \in Int
          /\ -(lag + A) <= k /\ k <= A /\ -(MaxLag + A) <= k
          /\ mTimeout[t] \in 0..Domain - 1 /\ now \in 0..Domain - 1 /\ MaxLag \in Nat
      BY <1>0, <2>1, <2>3, <3>1, TimedFacts, TimerAssumption DEF TimeInv, Ahead
    <3>3. lag \in Nat
      BY <1>0, TimerAssumption DEF TypeOK
    <3>4. mTimeout'[t] = Delayed(t, mType[t], d)
      <4>1. mTimeout \in [Timers -> 0..Domain - 1]
        BY <1>0 DEF TypeOK
      <4> QED
        BY <2>1, <2>3, <4>1
    <3> HIDE DEF k, d
    <3>5. -Half < d /\ d < Half /\ -Half < k + d /\ k + d <= Half
      BY <3>2, HalfFacts
    <3>6. CASE KeepsPhase(t, mType[t])
      <4>1. mTimeout'[t] = (mTimeout[t] + d) % Domain
        BY <3>4, <3>6 DEF Delayed
      <4>2. AheadOf(mTimeout'[t], now) = k + d
        BY <3>2, <3>5, <4>1, AheadLater DEF k
      <4>3. -(lag + A) <= k + d /\ k + d <= d + A
        BY <3>2, <3>3
      <4>4. mDelay'[t] = d /\ now' = now
        BY <2>1 DEF d
      <4> QED
        BY <2>1, <2>2, <3>1, <3>2, <4>2, <4>3, <4>4, TimeSet, <2>3
    <3>7. CASE ~KeepsPhase(t, mType[t])
      <4>1. mTimeout'[t] = (now + d) % Domain
        BY <3>4, <3>7 DEF Delayed
      <4>2. AheadOf(mTimeout'[t], now) = d
        BY <3>2, <3>5, <4>1, AheadNow
      <4>3. -(lag + A) <= d /\ d <= d + A
        BY <3>2, <3>3
      <4>4. mDelay'[t] = d /\ now' = now
        BY <2>1 DEF d
      <4> QED
        BY <2>1, <2>2, <3>1, <3>2, <4>2, <4>3, <4>4, TimeSet, <2>3
    <3> QED
      BY <3>6, <3>7
  <2>4. CASE ~(cur = t /\ pc' = "rearm")
    <3>1. mTimeout'[t] = mTimeout[t]
      <4>1. mTimeout \in [Timers -> 0..Domain - 1]
        BY <1>0 DEF TypeOK
      <4>2. mTimeout' = mTimeout \/ (cur # t /\ mTimeout' = [mTimeout EXCEPT ![cur] = Delayed(cur, mType[cur], mDelay[cur])])
        BY <2>1, <2>4
      <4> QED
        BY <1>0, <4>1, <4>2, Zenon
    <3>2. pc' \notin {"copy", "repeat"}
      BY <2>1
    <3> QED
      BY <1>0, <2>1, <2>2, <3>1, <3>2, TimeKept
  <2> QED
    BY <2>3, <2>4
<1>5. CASE Rearm
  <2>1. /\ pc = "rearm" /\ pc' = "post" /\ mArmed' = [mArmed EXCEPT ![cur] = TRUE]
        /\ UNCHANGED <<cur, now, mGeneration, mDelay, mTimeout, ownerPc, handled, opPc, opTimer>>
    BY <1>5 DEF Rearm, Armed
  <2>2. mArmed'[t] => mArmed[t] \/ AtWork(t)
    BY <1>0, <2>1 DEF AtWork
  <2> QED
    BY <1>0, <2>1, <2>2, TimeKept DEF Pending, Timed, AtWork
<1>6. CASE PostEvent
  <2>1. /\ cur' = NoTimer
        /\ UNCHANGED <<now, mArmed, mGeneration, mDelay, mTimeout, ownerPc, handled, opPc, opTimer>>
    BY <1>6 DEF PostEvent
  <2> QED
    BY <1>0, <2>1, TimeKept DEF Pending, Timed, AtWork
<1> QED
  BY <1>1, <1>2, <1>3, <1>4, <1>5, <1>6 DEF ThreadStep

\* Who sets a timer's time on the owner's thread sets it from now, or has the timer blank.
LEMMA TimesOwnerStep ==
    ASSUME InitOnce, NEW A \in Nat, Window(A), PlacesInv, PlacesInv', raced = {}, raced' = {}, TimesInv(A),
           OwnerCalls \/ OwnerStep, lag' = lag
    PROVE  TimesInv(A)'
<1> SUFFICES ASSUME NEW t \in Timers PROVE TimeInv(t, A)'
  BY DEF TimesInv
<1>0. /\ TypeOK /\ Control /\ PlaceInv(t) /\ PlaceInv(t)' /\ TypeOK' /\ TimeInv(t, A) /\ t # NoTimer
      /\ opPc # "changed" /\ OneAtATime
  BY TimerAssumption DEF PlacesInv, TimerInv, TimesInv, Generations, InitOnce
<1>00. /\ mArmed \in [Timers -> BOOLEAN] /\ mGeneration \in [Timers -> 0..MaxGeneration]
       /\ mTimeout \in [Timers -> 0..Domain - 1] /\ mDelay \in [Timers -> Nat] /\ now \in 0..Domain - 1
       /\ lag \in Nat /\ MaxLag \in Nat
  <2>1. TypeOK /\ MaxLag \in Nat
    BY <1>0, TimerAssumption
  <2>2. lag \in 0..MaxLag
    BY <2>1 DEF TypeOK
  <2>3. /\ mArmed \in [Timers -> BOOLEAN] /\ mGeneration \in [Timers -> 0..MaxGeneration]
        /\ mTimeout \in [Timers -> 0..Domain - 1] /\ mDelay \in [Timers -> Nat] /\ now \in 0..Domain - 1
    BY ONLY <2>1 DEF TypeOK
  <2> QED
    BY <2>1, <2>2, <2>3
<1>02. \A d \in Delays : d \in Nat /\ d < Half
  BY TimerAssumption DEF Half
<1>1. ASSUME UNCHANGED <<now, cur, mGeneration, mDelay, mTimeout>>,
             pc' = pc \/ (pc = "wait" /\ pc' = "scan"),
             mArmed'[t] => Timed(t),
             UNCHANGED <<opPc, opTimer>> \/ (opPc # "delay" /\ opPc' = "none"),
             ownerPc' = "rearm" /\ handled' = t => ownerPc = "rearm" /\ handled = t
      PROVE  TimeInv(t, A)'
  <2>1. Pending(t)' <=> Pending(t)
    BY <1>1 DEF Pending
  <2>2. AtWork(t)' <=> AtWork(t)
    BY <1>1 DEF AtWork
  <2>3. Timed(t)' => Timed(t)
    BY <1>1, <2>2 DEF Timed
  <2> QED
    BY <1>0, <1>1, <2>1, <2>3, TimeKept
<1>2. ASSUME NEW u \in Timers, Disarmed(u) PROVE mArmed'[t] => Timed(t)
  BY <1>00, <1>2 DEF Disarmed, Timed
<1>3. ASSUME NEW u \in Timers, InitTimer(u) PROVE TimeInv(t, A)'
  <2>1. /\ opPc = "none" /\ opPc' = "delay" /\ opTimer' = u /\ mGeneration[u] = 0
        /\ mGeneration' = [mGeneration EXCEPT ![u] = gGenerator + 1]
        /\ UNCHANGED <<now, cur, mDelay, mTimeout, ownerPc, handled>> /\ ownerPc # "rearm"
    BY <1>3 DEF InitTimer, May, OwnerFree, InitOnce, OneAtATime
  <2>2. pc' = pc \/ (pc = "wait" /\ pc' = "scan")
    BY <1>3, WakeupPc DEF InitTimer
  <2>3. CASE t = u
    <3>1. Blank(t)'
      BY <1>0, <2>1, <2>3 DEF PlaceInv
    <3>2. ~mArmed'[t] /\ ~AtWork(t)' /\ handled' # t
      BY <1>0, <3>1 DEF PlaceInv, Blank
    <3>3. ~Timed(t)' /\ Pending(t)' /\ Pending(t)
      BY <2>1, <2>3, <3>2 DEF Timed, Pending
    <3>4. ~(cur = t /\ pc \in {"copy", "repeat"})'
      BY <3>2 DEF AtWork
    <3>5. mTimeout[t] = 0
      BY <1>0, <3>3 DEF TimeInv
    <3> QED
      BY <2>1, <3>3, <3>4, <3>5 DEF TimeInv
  <2>4. CASE t # u
    <3>1. mGeneration'[t] = mGeneration[t]
      BY <1>00, <2>1, <2>4, Zenon
    <3>2. mArmed'[t] => mArmed[t]
      BY <1>00, <1>3 DEF InitTimer, Disarmed
    <3>3. Pending(t)' <=> Pending(t)
      BY <2>1, <2>4, <3>1 DEF Pending
    <3>4. (AtWork(t)' <=> AtWork(t)) /\ (Timed(t)' => Timed(t))
      BY <2>1, <2>2, <2>4, <3>2 DEF AtWork, Timed
    <3> QED
      BY <1>0, <2>1, <2>2, <3>3, <3>4, TimeKept
  <2> QED
    BY <2>3, <2>4
<1>4. ASSUME NEW u \in Timers, Cancel(u) \/ ReleaseTimer(u) PROVE TimeInv(t, A)'
  <2>1. pc' = pc \/ (pc = "wait" /\ pc' = "scan")
    BY <1>4, WakeupPc DEF Cancel, ReleaseTimer
  <2>2. mArmed'[t] => Timed(t)
    BY <1>2, <1>4 DEF Cancel, ReleaseTimer, Timed
  <2> QED
    BY <1>1, <1>4, <2>1, <2>2 DEF Cancel, ReleaseTimer
<1>5. CASE Shutdown
  <2>1. pc' = pc \/ (pc = "wait" /\ pc' = "scan")
    BY <1>5, WakeupPc DEF Shutdown
  <2>2. mArmed'[t] => Timed(t)
    BY <1>5 DEF Shutdown, Timed
  <2> QED
    BY <1>1, <1>5, <2>1, <2>2 DEF Shutdown
<1>6. ASSUME OwnerCalls PROVE TimeInv(t, A)'
  BY <1>0, <1>3, <1>4, <1>5, <1>6, NoSetters DEF OwnerCalls
<1>7. ASSUME NEW type \in Types, NEW d \in Delays, InitDelay(type, d) PROVE TimeInv(t, A)'
  <2>1. /\ mDelay' = [mDelay EXCEPT ![opTimer] = d]
        /\ mTimeout' = [mTimeout EXCEPT ![opTimer] = Delayed(opTimer, type, d)]
        /\ UNCHANGED <<now, pc, cur, mArmed, mGeneration, opTimer, ownerPc, handled>>
        /\ opPc = "delay" /\ opPc' = "add"
    BY <1>7 DEF InitDelay
  <2>2. CASE opTimer = t
    <3>1. Pending(t) /\ ~Pending(t)' /\ ~AtWork(t)
      BY <1>0, <2>1, <2>2 DEF Pending, PlaceInv, Blank
    <3>2. ~(cur = t /\ pc \in {"copy", "repeat"})'
      BY <2>1, <3>1 DEF AtWork
    <3>3. mDelay'[t] = d /\ mTimeout'[t] = (now + d) % Domain
      <4>1. ~KeepsPhase(t, type)
        BY <1>0, <3>1 DEF TimeInv, KeepsPhase
      <4> QED
        BY <1>0, <1>00, <2>1, <2>2, <4>1 DEF Delayed
    <3>4. d \in Nat /\ d < Half
      BY TimerAssumption DEF Half
    <3>5. AheadOf(mTimeout'[t], now') = d
      BY <1>00, <2>1, <3>3, <3>4, AheadNow
    <3>6. -(lag' + A) <= d /\ d <= d + A
      BY <1>00, <3>4
    <3> QED
      BY <3>1, <3>2, <3>3, <3>5, <3>6, TimeSet
  <2>3. CASE opTimer # t
    <3>1. mDelay'[t] = mDelay[t] /\ mTimeout'[t] = mTimeout[t]
      BY <1>00, <2>1, <2>3, Zenon
    <3>2. (Pending(t)' <=> Pending(t)) /\ (Timed(t)' => Timed(t))
      BY <2>1, <2>3 DEF Pending, Timed, AtWork
    <3> QED
      BY <1>0, <2>1, <3>1, <3>2, TimeKept
  <2> QED
    BY <2>2, <2>3
<1>8. CASE InitAdd
  <2>1. opTimer \in Timers /\ mArmed' = [mArmed EXCEPT ![opTimer] = TRUE]
    BY <1>0, <1>8 DEF InitAdd, Armed, Control, TypeOK
  <2>2. mArmed'[t] => Timed(t)
    BY <1>00, <1>8, <2>1 DEF InitAdd, Timed
  <2>3. pc' = pc \/ (pc = "wait" /\ pc' = "scan")
    BY <1>8, WakeupPc DEF InitAdd
  <2> QED
    BY <1>1, <1>8, <2>2, <2>3 DEF InitAdd
<1>9. CASE RearmSlack
  <2>1. handled \in Timers /\ mArmed' = [mArmed EXCEPT ![handled] = TRUE]
    BY <1>0, <1>9 DEF RearmSlack, Armed, Control, TypeOK
  <2>2. mArmed'[t] => Timed(t)
    BY <1>00, <1>9, <2>1 DEF RearmSlack, Timed
  <2>3. pc' = pc \/ (pc = "wait" /\ pc' = "scan")
    BY <1>9, WakeupPc DEF RearmSlack
  <2> QED
    BY <1>1, <1>9, <2>2, <2>3 DEF RearmSlack
<1>10. CASE RemoveReleased
  <2>1. pc' = pc \/ (pc = "wait" /\ pc' = "scan")
    BY <1>10, WakeupPc DEF RemoveReleased
  <2>2. relTimer \in Timers
    BY <1>0, <1>10 DEF RemoveReleased, Control, TypeOK
  <2>3. mArmed'[t] => Timed(t)
    BY <1>2, <1>10, <2>2 DEF RemoveReleased
  <2> QED
    BY <1>1, <1>10, <2>1, <2>3 DEF RemoveReleased
<1>11. ASSUME DropReference \/ TestArmed \/ ShutdownJoined PROVE TimeInv(t, A)'
  BY <1>1, <1>11 DEF DropReference, TestArmed, ShutdownJoined, Timed
<1>12. CASE HandleEvent
  <2>1. /\ ownerPc = "idle" /\ ownerPc' \in {"idle", "callback"}
        /\ UNCHANGED <<now, cur, pc, mArmed, mGeneration, mDelay, mTimeout, opPc, opTimer>>
    BY <1>12 DEF HandleEvent
  <2> QED
    BY <1>1, <2>1 DEF Timed
<1>13. CASE CallbackReturns
  <2>1. UNCHANGED <<now, cur, pc, mArmed, mGeneration, mDelay, opPc, opTimer>> /\ ownerPc = "callback"
    BY <1>13 DEF CallbackReturns
  <2>2. CASE handled = t /\ mType[t] = REPEATING_SLACK
    <3>1. mTimeout'[t] = Delayed(t, mType[t], mDelay[t])
      BY <1>0, <1>00, <1>13, <2>2 DEF CallbackReturns, StartsAgain
    <3>2. ~AtWork(t)
      <4>1. /\ One(handled = t) = 1 /\ One(AtWork(t)) \in Nat /\ One(Posting(t)) \in Nat
            /\ InList(t) \in Nat /\ Queued(t) \in Nat
        <5>1. InList(t) \in Nat /\ Queued(t) \in Nat
          BY <1>0, PlaceTypes
        <5> QED
          BY <2>2, <5>1 DEF One
      <4>2. InList(t) + One(AtWork(t)) + One(Posting(t)) + Queued(t) + One(handled = t) <= 1
        <5>1. PlaceInv(t)
          BY <1>0
        <5> QED
          BY ONLY <2>2, <5>1 DEF PlaceInv, OnePlace
      <4> DEFINE l == InList(t)
                 x == One(AtWork(t))
                 y == One(Posting(t))
                 q == Queued(t)
      <4>3. l \in Nat /\ x \in Nat /\ y \in Nat /\ q \in Nat /\ l + x + y + q + 1 <= 1
        BY <4>1, <4>2
      <4> HIDE DEF l, x, y, q
      <4>4. x = 0
        BY ONLY <4>3
      <4> QED
        BY <4>4 DEF One, x
    <3>3. ~Pending(t)
      BY <1>0, <2>2 DEF PlaceInv, Blank, Pending
    <3>4. ~Pending(t)'
      BY <2>1, <3>3 DEF Pending
    <3>9. ~(cur = t /\ pc \in {"copy", "repeat"})'
      BY <2>1, <3>2 DEF AtWork
    <3>5. mDelay[t] \in Delays /\ mDelay[t] \in Nat /\ mDelay[t] < Half
      <4>1. mDelay[t] \in Delays
        BY <1>0, <3>3 DEF TimeInv
      <4> QED
        BY <1>02, <4>1
    <3>6. mTimeout'[t] = (now + mDelay[t]) % Domain
      BY <2>2, <3>1 DEF Delayed, KeepsPhase, REPEATING_SLACK, REPEATING_PRECISE
    <3>7. AheadOf(mTimeout'[t], now') = mDelay[t]
      BY <1>00, <2>1, <3>5, <3>6, AheadNow
    <3>8. -(lag' + A) <= mDelay[t] /\ mDelay[t] <= mDelay[t] + A
      BY <1>00, <3>5
    <3> QED
      BY <2>1, <3>4, <3>5, <3>7, <3>8, <3>9, TimeSet
  <2>3. CASE ~(handled = t /\ mType[t] = REPEATING_SLACK)
    <3>1. mTimeout'[t] = mTimeout[t]
      <4>1. \/ mTimeout' = mTimeout
            \/ /\ mType[handled] = REPEATING_SLACK
               /\ mTimeout' = [mTimeout EXCEPT ![handled] = Delayed(handled, mType[handled], mDelay[handled])]
        BY <1>13 DEF CallbackReturns, StartsAgain
      <4> QED
        BY <1>0, <1>00, <2>3, <4>1, Zenon
    <3>2. ~(ownerPc' = "rearm" /\ handled' = t)
      BY <1>0, <1>13, <2>3 DEF CallbackReturns, StartsAgain
    <3>3. (Pending(t)' <=> Pending(t)) /\ (Timed(t)' => Timed(t))
      BY <2>1, <3>2 DEF Pending, Timed, AtWork
    <3> QED
      BY <1>0, <2>1, <3>1, <3>3, TimeKept
  <2> QED
    BY <2>2, <2>3
<1>14. ASSUME OwnerStep PROVE TimeInv(t, A)'
  BY <1>0, <1>7, <1>8, <1>9, <1>10, <1>11, <1>12, <1>13, <1>14 DEF OwnerStep, TimerDelayChanged
<1> QED
  BY <1>6, <1>14

\* How far ahead the timeouts are.
Aheads == [t \in Timers |-> Ahead(mTimeout[t])]

LEMMA AheadsType == ASSUME TypeOK PROVE Aheads \in [Timers -> Int]
<1>1. \A t \in Timers : mTimeout[t] \in 0..Domain - 1 /\ now \in 0..Domain - 1
  BY DEF TypeOK
<1>2. \A t \in Timers : Ahead(mTimeout[t]) \in Int
  BY <1>1, AheadType DEF Ahead
<1> QED
  BY <1>2 DEF Aheads

\* What is in the list is armed.
LEMMA ListedArmed ==
    ASSUME PlacesInv, raced = {}, NEW i \in 1..Len(mTimers)
    PROVE  mTimers[i] \in Timers /\ PlaceInv(mTimers[i]) /\ mArmed[mTimers[i]]
<1>1. mTimers \in Seq(Timers)
  BY DEF PlacesInv, TimerInv, TypeOK
<1>2. mTimers[i] \in Timers /\ mTimers[i] \in {mTimers[i]}
  BY <1>1
<1>3. InList(mTimers[i]) > 0
  BY <1>1, <1>2, CountPositive DEF InList
<1> QED
  BY <1>2, <1>3 DEF PlacesInv, PlaceInv

\* Who sets a timeout has the timer out of the list.
LEMMA ArmedTimeoutKept ==
    ASSUME InitOnce, PlacesInv, raced = {}, ThreadStep \/ OwnerCalls \/ OwnerStep, NEW h \in Timers, mArmed[h]
    PROVE  mTimeout'[h] = mTimeout[h] /\ now' = now
<1>0. TypeOK /\ Control /\ PlaceInv(h) /\ OneAtATime /\ opPc # "changed" /\ mTimeout \in [Timers -> 0..Domain - 1]
  BY DEF PlacesInv, TimerInv, Generations, InitOnce, TypeOK
<1>1. InList(h) > 0 /\ InList(h) \in Nat /\ Queued(h) \in Nat
  BY <1>0, PlaceTypes DEF PlaceInv
<1>2. ~AtWork(h)
  <2>1. One(AtWork(h)) \in Nat /\ InList(h) + One(AtWork(h)) <= 1
    BY <1>0 DEF PlaceInv, OnePlace, One
  <2>2. One(AtWork(h)) = 0
    BY <1>1, <2>1
  <2> QED
    BY <2>2 DEF One
<1>3. opTimer # h
  BY <1>0, <1>1 DEF PlaceInv, Blank
<1>4. handled = h => mType[h] # REPEATING_SLACK
  <2> SUFFICES ASSUME handled = h, mType[h] = REPEATING_SLACK PROVE FALSE
    OBVIOUS
  <2>1. One(handled = h) = 1 /\ One(AtWork(h)) \in Nat /\ One(Posting(h)) \in Nat
    BY DEF One
  <2>2. InList(h) + One(AtWork(h)) + One(Posting(h)) + Queued(h) + One(handled = h) <= 1
    BY <1>0 DEF PlaceInv, OnePlace
  <2> QED
    BY <1>1, <2>1, <2>2
<1>5. CASE mTimeout' = mTimeout /\ now' = now
  BY <1>5
<1>6. CASE RepeatPrecise
  <2>1. cur # h /\ now' = now
    BY <1>2, <1>6 DEF RepeatPrecise, AtWork
  <2>2. mTimeout' = mTimeout \/ mTimeout' = [mTimeout EXCEPT ![cur] = Delayed(cur, mType[cur], mDelay[cur])]
    BY <1>6 DEF RepeatPrecise
  <2> QED
    BY <1>0, <2>1, <2>2, Zenon
<1>7. ASSUME NEW type \in Types, NEW d \in Delays, InitDelay(type, d) PROVE mTimeout'[h] = mTimeout[h] /\ now' = now
  <2>1. mTimeout' = [mTimeout EXCEPT ![opTimer] = Delayed(opTimer, type, d)] /\ now' = now
    BY <1>7 DEF InitDelay
  <2> QED
    BY <1>0, <1>3, <2>1, Zenon
<1>8. CASE CallbackReturns
  <2>1. /\ now' = now
        /\ \/ mTimeout' = mTimeout
           \/ /\ mType[handled] = REPEATING_SLACK
              /\ mTimeout' = [mTimeout EXCEPT ![handled] = Delayed(handled, mType[handled], mDelay[handled])]
    BY <1>8 DEF CallbackReturns, StartsAgain
  <2> QED
    BY <1>0, <1>4, <2>1, Zenon
<1>9. ASSUME ThreadStep PROVE mTimeout'[h] = mTimeout[h] /\ now' = now
  BY <1>5, <1>6, <1>9 DEF ThreadStep, RunTakes, RunWaits, RunTimesOut, RunExits, CopyGeneration, Rearm, PostEvent
<1>10. ASSUME OwnerCalls PROVE mTimeout'[h] = mTimeout[h] /\ now' = now
  BY <1>0, <1>5, <1>10, NoSetters DEF OwnerCalls, InitTimer, Cancel, ReleaseTimer, Shutdown
<1>11. ASSUME OwnerStep PROVE mTimeout'[h] = mTimeout[h] /\ now' = now
  BY <1>0, <1>5, <1>7, <1>8, <1>11 DEF OwnerStep, InitAdd, TimerDelayChanged, DropReference, TestArmed, RemoveReleased,
     HandleEvent, RearmSlack, ShutdownJoined
<1> QED
  BY <1>9, <1>10, <1>11

\* A timer goes where its timeout belongs.
LEMMA OrderedArmed ==
    ASSUME NEW A \in Nat, Window(A), PlacesInv, raced = {}, TimesInv(A), Ordered(mTimers, Aheads),
           NEW u \in Timers, Timed(u), Armed(u)
    PROVE  Ordered(mTimers', Aheads)
<1>0. TypeOK /\ mTimers \in Seq(Timers) /\ Aheads \in [Timers -> Int] /\ PlaceInv(u) /\ TimeInv(u, A)
      /\ now \in 0..Domain - 1 /\ MaxLag \in Nat
  BY AheadsType, TimerAssumption DEF PlacesInv, TimerInv, TypeOK, TimesInv
<1> DEFINE n == Position(mTimers, u)
<1>1. /\ n \in 1..Len(mTimers) + 1 /\ mTimers' = Inserted(mTimers, n, u)
      /\ n <= Len(mTimers) => LessThan(mTimeout[u], mTimeout[mTimers[n]])
      /\ \A j \in 1..n - 1 : ~LessThan(mTimeout[u], mTimeout[mTimers[j]])
  BY <1>0, PositionFacts DEF Armed
<1> HIDE DEF n
<1>2. ASSUME NEW i \in 1..Len(mTimers)
      PROVE  LessThan(mTimeout[u], mTimeout[mTimers[i]]) <=> Aheads[u] < Aheads[mTimers[i]]
  <2> DEFINE v == mTimers[i]
             x == AheadOf(mTimeout[u], now)
             y == AheadOf(mTimeout[v], now)
  <2>1. v \in Timers /\ PlaceInv(v) /\ Timed(v) /\ TimeInv(v, A)
    BY ListedArmed DEF Timed, TimesInv
  <2>2. /\ mTimeout[u] \in 0..Domain - 1 /\ x \in Int /\ -(MaxLag + A) <= x /\ x + MaxLag + 3 * A < Half
    BY <1>0, TimedFacts DEF Ahead
  <2> HIDE DEF v
  <2>3. /\ mTimeout[v] \in 0..Domain - 1 /\ y \in Int /\ -(MaxLag + A) <= y /\ y + MaxLag + 3 * A < Half
    BY <1>0, <2>1, TimedFacts DEF Ahead
  <2>4. x - y < Half /\ y - x < Half
    <3> HIDE DEF x, y
    <3> QED
      BY <1>0, <2>2, <2>3, HalfFacts
  <2>5. LessThan(mTimeout[u], mTimeout[v]) <=> x < y
    BY <1>0, <2>2, <2>3, <2>4, LessThanAhead
  <2>6. Aheads[u] = x /\ Aheads[v] = y
    BY <2>1 DEF Aheads, Ahead
  <2> QED
    BY <2>5, <2>6 DEF v
<1>3. \A k \in 1..n - 1 : Aheads[mTimers[k]] <= Aheads[u]
  <2> SUFFICES ASSUME NEW k \in 1..n - 1 PROVE Aheads[mTimers[k]] <= Aheads[u]
    OBVIOUS
  <2>1. k \in 1..Len(mTimers)
    BY <1>0, <1>1
  <2>2. mTimers[k] \in Timers
    BY <1>0, <2>1
  <2>3. ~(Aheads[u] < Aheads[mTimers[k]])
    BY <1>1, <1>2, <2>1
  <2> QED
    BY <1>0, <2>2, <2>3
<1>4. n <= Len(mTimers) => Aheads[u] <= Aheads[mTimers[n]]
  <2> SUFFICES ASSUME n <= Len(mTimers) PROVE Aheads[u] <= Aheads[mTimers[n]]
    OBVIOUS
  <2>1. n \in 1..Len(mTimers)
    BY <1>0, <1>1
  <2>2. mTimers[n] \in Timers
    BY <1>0, <2>1
  <2>3. Aheads[u] < Aheads[mTimers[n]]
    BY <1>1, <1>2, <2>1
  <2> QED
    BY <1>0, <2>2, <2>3
<1> QED
  BY <1>0, <1>1, <1>3, <1>4, OrderedInserted

LEMMA OrderedDisarmed ==
    ASSUME TypeOK, NEW f \in [Timers -> Int], Ordered(mTimers, f), NEW u \in Timers, Disarmed(u)
    PROVE  Ordered(mTimers', f)
<1>1. mTimers \in Seq(Timers)
  BY DEF TypeOK
<1>2. CASE Listed(u)
  <2>1. PICK n \in 1..Len(mTimers) : RemoveElement(mTimers, u) = Removed(mTimers, n)
    BY <1>1, <1>2, RemoveElementPlace DEF Listed
  <2> QED
    BY <1>1, <1>2, <2>1, OrderedRemoved DEF Disarmed
<1>3. CASE ~Listed(u)
  BY <1>3 DEF Disarmed
<1> QED
  BY <1>2, <1>3

LEMMA OrderedNext ==
    ASSUME InitOnce, NEW A \in Nat, Window(A), PlacesInv, PlacesInv', raced = {}, TimesInv(A), Ordered(mTimers, Aheads),
           ThreadStep \/ OwnerCalls \/ OwnerStep
    PROVE  Ordered(mTimers, Aheads)'
<1>0. TypeOK /\ Control /\ OneAtATime /\ opPc # "changed" /\ mTimers \in Seq(Timers)
  BY DEF PlacesInv, TimerInv, Generations, InitOnce, TypeOK
<1>1. Aheads \in [Timers -> Int] /\ Aheads' \in [Timers -> Int]
  <2>1. Aheads \in [Timers -> Int]
    BY <1>0, AheadsType
  <2>2. \A t \in Timers : mTimeout'[t] \in 0..Domain - 1 /\ now' \in 0..Domain - 1
    BY DEF PlacesInv, TimerInv, TypeOK
  <2>3. \A t \in Timers : Ahead(mTimeout[t])' \in Int
    BY <2>2, AheadType DEF Ahead
  <2> QED
    BY <2>1, <2>3 DEF Aheads
<1>2. Ordered(mTimers, Aheads')
  <2>1. ASSUME NEW i \in 1..Len(mTimers) PROVE Aheads'[mTimers[i]] = Aheads[mTimers[i]] + 0
    <3>1. mTimers[i] \in Timers /\ mArmed[mTimers[i]]
      BY ListedArmed
    <3>2. mTimeout'[mTimers[i]] = mTimeout[mTimers[i]] /\ now' = now
      BY <3>1, ArmedTimeoutKept
    <3>3. Aheads'[mTimers[i]] = Aheads[mTimers[i]]
      BY <3>1, <3>2 DEF Aheads, Ahead
    <3> QED
      BY <1>1, <3>1, <3>3
  <2> DEFINE f == Aheads
             g == Aheads'
  <2>2. /\ f \in [Timers -> Int] /\ g \in [Timers -> Int] /\ Ordered(mTimers, f) /\ 0 \in Int
        /\ \A i \in 1..Len(mTimers) : g[mTimers[i]] = f[mTimers[i]] + 0
    BY <1>1, <2>1
  <2> HIDE DEF f, g
  <2>3. Ordered(mTimers, g)
    BY <1>0, <2>2, OrderedShift
  <2> QED
    BY <2>3 DEF g
<1>3. CASE mTimers' = mTimers
  BY <1>2, <1>3
<1>4. CASE mTimers # <<>> /\ mTimers' = Tail(mTimers)
  BY <1>0, <1>1, <1>2, <1>4, OrderedTail
<1>5. CASE mTimers' = <<>>
  BY <1>5 DEF Ordered
<1>6. ASSUME NEW u \in Timers, Disarmed(u) PROVE Ordered(mTimers, Aheads)'
  BY <1>0, <1>1, <1>2, <1>6, OrderedDisarmed
<1>7. ASSUME NEW u \in Timers, Armed(u), Timed(u), mTimeout' = mTimeout, now' = now PROVE Ordered(mTimers, Aheads)'
  <2>1. Aheads' = Aheads
    BY <1>7 DEF Aheads, Ahead
  <2> QED
    BY <1>7, <2>1, OrderedArmed
<1>8. ASSUME NEW a \in Adjustments, RunTakes(a) \/ RunWaits(a) PROVE Ordered(mTimers, Aheads)'
  BY <1>3, <1>4, <1>8 DEF RunTakes, RunWaits
<1>9. CASE Rearm
  <2>1. cur \in Timers /\ Timed(cur)
    BY <1>0, <1>9 DEF Rearm, Control, TypeOK, Timed, AtWork
  <2> QED
    BY <1>7, <1>9, <2>1 DEF Rearm
<1>10. ASSUME ThreadStep PROVE Ordered(mTimers, Aheads)'
  BY <1>3, <1>8, <1>9, <1>10 DEF ThreadStep, RunTimesOut, RunExits, CopyGeneration, RepeatPrecise, PostEvent
<1>11. ASSUME NEW u \in Timers, InitTimer(u) \/ Cancel(u) \/ ReleaseTimer(u) PROVE Ordered(mTimers, Aheads)'
  BY <1>3, <1>6, <1>11 DEF InitTimer, Cancel, ReleaseTimer
<1>12. ASSUME OwnerCalls PROVE Ordered(mTimers, Aheads)'
  BY <1>0, <1>5, <1>11, <1>12, NoSetters DEF OwnerCalls, Shutdown
<1>13. CASE InitAdd
  <2>1. opTimer \in Timers /\ Timed(opTimer)
    BY <1>0, <1>13 DEF InitAdd, Control, TypeOK, Timed
  <2> QED
    BY <1>7, <1>13, <2>1 DEF InitAdd
<1>14. CASE RearmSlack
  <2>1. handled \in Timers /\ Timed(handled)
    BY <1>0, <1>14 DEF RearmSlack, Control, TypeOK, Timed
  <2> QED
    BY <1>7, <1>14, <2>1 DEF RearmSlack
<1>15. CASE RemoveReleased
  <2>1. relTimer \in Timers
    BY <1>0, <1>15 DEF RemoveReleased, Control, TypeOK
  <2> QED
    BY <1>6, <1>15, <2>1 DEF RemoveReleased
<1>16. ASSUME OwnerStep PROVE Ordered(mTimers, Aheads)'
  BY <1>0, <1>3, <1>13, <1>14, <1>15, <1>16 DEF OwnerStep, InitDelay, TimerDelayChanged, DropReference, TestArmed,
     HandleEvent, CallbackReturns, ShutdownJoined
<1> QED
  BY <1>10, <1>12, <1>16

\* The end of the timer thread's sleep is near as well.
WakeInv(A) ==
    pc = "wait" /\ wakeAt # Forever =>
        -lag <= Ahead(wakeAt) /\ \E d \in Delays : Ahead(wakeAt) <= d + 2 * A

LEMMA WakeNext ==
    ASSUME NEW A \in Nat, Window(A), PlacesInv, raced = {}, TimesInv(A), WakeInv(A),
           ThreadStep \/ OwnerCalls \/ OwnerStep, lag' = lag
    PROVE  WakeInv(A)'
<1>1. ASSUME NEW a \in Adjustments, RunWaits(a) PROVE WakeInv(A)'
  <2> SUFFICES ASSUME mTimers # <<>>
               PROVE  -lag <= Ahead(wakeAt') /\ \E d \in Delays : Ahead(wakeAt') <= d + 2 * A
    BY <1>1 DEF WakeInv, RunWaits, Ahead
  <2> DEFINE h == Head(mTimers)
             k == Ahead(mTimeout[h])
             d == mDelay[h]
  <2>1. wakeAt' = (mTimeout[h] + a) % Domain /\ ~Due(h, a)
    BY <1>1 DEF RunWaits
  <2>2. h \in Timers /\ PlaceInv(h) /\ TimeInv(h, A) /\ Timed(h) /\ TypeOK
    BY HeadArmed DEF Timed, TimesInv, PlacesInv, TimerInv
  <2>3. a \in Int /\ -A <= a /\ a <= A
    BY TimerAssumption DEF Window
  <2>4. Ahead(wakeAt') = k + a /\ ~(k + a <= 0) /\ k \in Int /\ d \in Delays /\ d \in Nat /\ k <= d + A
    BY <2>1, <2>2, <2>3, DueFacts, TimedFacts
  <2>5. lag \in Nat
    BY <2>2, TimerAssumption DEF TypeOK
  <2> HIDE DEF k, d
  <2>6. -lag <= k + a /\ k + a <= d + 2 * A
    BY <2>3, <2>4, <2>5
  <2> QED
    BY <2>4, <2>6
<1>2. ASSUME pc' = "wait" => pc = "wait" /\ UNCHANGED <<wakeAt, now>> PROVE WakeInv(A)'
  BY <1>2 DEF WakeInv, Ahead
<1>3. ASSUME ThreadStep PROVE WakeInv(A)'
  BY <1>1, <1>2, <1>3 DEF ThreadStep, RunTakes, RunTimesOut, RunExits, CopyGeneration, RepeatPrecise, Rearm, PostEvent
<1>4. ASSUME OwnerCalls PROVE WakeInv(A)'
  <2>1. pc' = "wait" => pc = "wait" /\ UNCHANGED <<wakeAt, now>>
    BY <1>4 DEF OwnerCalls, InitTimer, Cancel, ReleaseTimer, SetDelay, SetType, Shutdown, Wakeup
  <2> QED
    BY <1>2, <2>1
<1>5. ASSUME OwnerStep PROVE WakeInv(A)'
  <2>1. pc' = "wait" => pc = "wait" /\ UNCHANGED <<wakeAt, now>>
    BY <1>5 DEF OwnerStep, InitDelay, InitAdd, TimerDelayChanged, DropReference, TestArmed, RemoveReleased,
       HandleEvent, CallbackReturns, RearmSlack, ShutdownJoined, Wakeup
  <2> QED
    BY <1>2, <2>1
<1> QED
  BY <1>3, <1>4, <1>5

ListInv(A) ==
    /\ PlacesInv /\ raced = {} /\ NoOversleep
    /\ TimesInv(A) /\ Ordered(mTimers, Aheads) /\ WakeInv(A)
    /\ mShutdown => ownerPc \in {"joining", "closed"}
    /\ pc = "exit" => mShutdown

\* When nobody is behind, no timeout has been reached but for what the timer thread adds to it.
LEMMA NobodyBehind ==
    ASSUME NEW A \in Nat, Window(A), ListInv(A), ~Outstanding, NEW t \in Timers, Timed(t)
    PROVE  Ahead(mTimeout[t]) >= 1 - A
<1>0. /\ TypeOK /\ Control /\ PlacesInv /\ raced = {} /\ mTimers \in Seq(Timers) /\ NoTimer \notin Timers
      /\ \A u \in Timers : PlaceInv(u) /\ TimeInv(u, A)
  BY TimerAssumption DEF ListInv, PlacesInv, TimerInv, TypeOK, TimesInv
<1>1. /\ cur = NoTimer /\ opPc = "none" /\ ownerPc = "idle" /\ pc \in {"scan", "wait"}
      /\ handled = NoTimer
  <2>1. cur = NoTimer /\ opPc = "none" /\ ownerPc = "idle"
    BY DEF Outstanding
  <2>2. handled = NoTimer /\ pc \in {"scan", "wait", "exit"}
    BY <1>0, <2>1 DEF Control, TypeOK
  <2>3. pc # "exit"
    BY <2>1 DEF ListInv
  <2> QED
    BY <2>1, <2>2, <2>3
<1>2. mArmed[t]
  BY <1>0, <1>1 DEF Timed, AtWork
<1>3. PICK i \in 1..Len(mTimers) : mTimers[i] = t
  <2>1. InList(t) > 0
    BY <1>0, <1>2 DEF PlaceInv
  <2>2. PICK i \in 1..Len(mTimers) : mTimers[i] \in {t}
    BY <1>0, <2>1, CountPositive DEF InList
  <2> QED
    BY <2>2
<1>4. 1 \in 1..Len(mTimers) /\ mTimers # <<>> /\ (i = 1 \/ 1 < i)
  BY <1>0, LenProperties
<1> DEFINE h == Head(mTimers)
           k == Ahead(mTimeout[h])
           x == Ahead(mTimeout[t])
           d == mDelay[h]
<1>5. h = mTimers[1] /\ h \in Timers /\ PlaceInv(h) /\ TimeInv(h, A) /\ Timed(h)
  BY <1>0, <1>4, CountTail, HeadArmed DEF Timed
<1>6. /\ d \in Nat /\ d + MaxLag + 4 * A < Half /\ k \in Int /\ -(MaxLag + A) <= k /\ k <= d + A
      /\ mTimeout[h] \in 0..Domain - 1 /\ now \in 0..Domain - 1
  BY <1>0, <1>5, TimedFacts
<1>7. x \in Int /\ k <= x
  <2>1. x \in Int
    BY <1>0, TimedFacts
  <2>2. CASE i = 1
    <3>1. h = t
      BY <1>3, <1>5, <2>2
    <3> QED
      BY <1>6, <3>1
  <2>3. CASE 1 < i
    <3>1. Aheads[mTimers[1]] <= Aheads[mTimers[i]]
      BY <1>4, <2>3 DEF ListInv, Ordered
    <3>2. Aheads[h] = k /\ Aheads[t] = x
      BY <1>5 DEF Aheads
    <3> QED
      BY <1>3, <1>5, <2>1, <3>1, <3>2
  <2> QED
    BY <1>4, <2>1, <2>2, <2>3
<1>8. k >= 1 - A
  <2>1. CASE pc = "scan"
    <3>1. ~Due(h, 0)
      BY <1>4, <2>1 DEF Outstanding
    <3>2. 0 \in Int /\ -A <= 0 /\ 0 <= A
      OBVIOUS
    <3>3. Due(h, 0) <=> k + 0 <= 0
      BY <1>0, <1>5, <3>2, DueFacts
    <3> HIDE DEF k, h
    <3> QED
      BY <1>6, <3>1, <3>3
  <2>2. CASE pc = "wait"
    <3> DEFINE y == AheadOf(wakeAt, now)
    <3>1. /\ wakeAt # Forever
          /\ \E a \in Adjustments : ~LessThan((mTimeout[h] + a) % Domain, wakeAt)
      BY <1>1, <1>4, <2>2 DEF ListInv, NoOversleep
    <3>2. PICK a \in Adjustments : ~LessThan((mTimeout[h] + a) % Domain, wakeAt)
      BY <3>1
    <3>3. a \in Int /\ -A <= a /\ a <= A
      BY TimerAssumption DEF Window
    <3> DEFINE z == (mTimeout[h] + a) % Domain
    <3>4. z \in 0..Domain - 1 /\ AheadOf(z, now) = k + a
      BY <1>0, <1>5, <3>3, DueFacts DEF Ahead
    <3>5. wakeAt \in 0..Domain - 1
      BY <1>0, <3>1 DEF TypeOK
    <3>6. PICK e \in Delays : y <= e + 2 * A
      BY <2>2, <3>1 DEF ListInv, WakeInv, Ahead
    <3>7. e \in Nat /\ e + MaxLag + 4 * A < Half /\ MaxLag \in Nat
      BY TimerAssumption DEF Window
    <3>8. y \in Int
      BY <1>6, <3>5, AheadType
    <3>9. y > 0
      <4>1. LessThan(now, wakeAt)
        BY <2>2, <3>1 DEF Outstanding
      <4>2. y < Half
        <5> HIDE DEF y
        <5> QED
          BY <3>6, <3>7, <3>8, HalfFacts
      <4> QED
        BY <1>6, <3>5, <4>1, <4>2, DueAhead
    <3> HIDE DEF z, h
    <3>10. AheadOf(z, now) - y < Half /\ y - AheadOf(z, now) < Half
      <4> HIDE DEF y, k, d
      <4> QED
        BY <1>6, <3>3, <3>4, <3>6, <3>7, <3>8, <3>9, HalfFacts
    <3>11. LessThan(z, wakeAt) <=> AheadOf(z, now) < y
      BY <1>6, <3>4, <3>5, <3>10, LessThanAhead
    <3>12. ~(k + a < y)
      BY <3>2, <3>4, <3>11 DEF z, h
    <3> HIDE DEF y, k
    <3> QED
      BY <1>6, <3>3, <3>8, <3>9, <3>12
  <2> QED
    BY <1>1, <2>1, <2>2
<1> HIDE DEF k, x
<1>9. x >= 1 - A
  BY <1>6, <1>7, <1>8
<1> QED
  BY <1>9 DEF x

\* A tick brings every timeout nearer, and none of them is left too far behind.
LEMMA TimedTick ==
    ASSUME NEW A \in Nat, Window(A), ListInv(A), Tick, NEW t \in Timers, Timed(t)
    PROVE  /\ Ahead(mTimeout[t])' = Ahead(mTimeout[t]) - 1 /\ Ahead(mTimeout[t]) \in Int
           /\ -(lag' + A) <= Ahead(mTimeout[t]) - 1
<1>0. TypeOK /\ PlaceInv(t) /\ TimeInv(t, A)
  BY DEF ListInv, PlacesInv, TimerInv, TimesInv
<1> DEFINE x == AheadOf(mTimeout[t], now)
           d == mDelay[t]
<1>1. /\ mTimeout[t] \in 0..Domain - 1 /\ now \in 0..Domain - 1 /\ x \in Int
      /\ d \in Nat /\ d + MaxLag + 4 * A < Half /\ -(lag + A) <= x
  BY <1>0, TimedFacts DEF TimeInv, Ahead
<1>2. lag \in Nat /\ MaxLag \in Nat
  BY <1>0, TimerAssumption DEF TypeOK
<1>3. /\ now' = (now + 1) % Domain /\ mTimeout' = mTimeout
      /\ (Outstanding /\ lag < MaxLag /\ lag' = lag + 1) \/ (~Outstanding /\ lag' = 0)
  BY DEF Tick
<1>4. x > 1 - Half /\ -(lag' + A) <= x - 1
  <2>1. CASE Outstanding /\ lag < MaxLag /\ lag' = lag + 1
    <3> HIDE DEF x, d
    <3> QED
      BY <1>1, <1>2, <2>1, HalfFacts
  <2>2. CASE ~Outstanding /\ lag' = 0
    <3>1. x >= 1 - A
      BY <2>2, NobodyBehind DEF Ahead
    <3> HIDE DEF x, d
    <3> QED
      BY <1>1, <1>2, <2>2, <3>1, HalfFacts
  <2> QED
    BY <1>3, <2>1, <2>2
<1>5. AheadOf(mTimeout[t], now') = x - 1
  BY <1>1, <1>3, <1>4, AheadTick
<1> QED
  BY <1>1, <1>3, <1>4, <1>5 DEF Ahead

LEMMA ListTick ==
    ASSUME InitOnce, NEW A \in Nat, Window(A), ListInv(A), Tick
    PROVE  TimesInv(A)' /\ Ordered(mTimers, Aheads)' /\ WakeInv(A)'
<1>0. TypeOK /\ PlacesInv /\ raced = {} /\ mTimers \in Seq(Timers) /\ UNCHANGED <<implVars, threadVars, ownerVars>>
  BY DEF ListInv, PlacesInv, TimerInv, TypeOK, Tick
<1>1. ASSUME NEW t \in Timers PROVE TimeInv(t, A)'
  <2>0. PlaceInv(t) /\ TimeInv(t, A)
    BY DEF ListInv, PlacesInv, TimesInv
  <2>1. (Pending(t)' <=> Pending(t)) /\ (Timed(t)' <=> Timed(t))
    BY <1>0 DEF Pending, Timed, AtWork
  <2>2. CASE Timed(t)
    <3> DEFINE x == Ahead(mTimeout[t])
    <3>1. x' = x - 1 /\ x \in Int /\ -(lag' + A) <= x - 1 /\ x <= mDelay[t] + A /\ mDelay[t] \in Nat
      BY <1>0, <2>0, <2>2, TimedTick, TimedFacts
    <3>2. -(lag' + A) <= x' /\ x' <= mDelay[t] + A /\ (x <= A => x' <= A)
      <4> HIDE DEF x
      <4> QED
        BY <3>1
    <3> QED
      BY <1>0, <2>0, <2>1, <3>2 DEF TimeInv
  <2>3. CASE ~Timed(t)
    <3>1. ~(cur = t /\ pc \in {"copy", "repeat"})
      BY <2>3 DEF Timed, AtWork
    <3> QED
      BY <1>0, <2>0, <2>1, <2>3, <3>1 DEF TimeInv
  <2> QED
    BY <2>2, <2>3
<1>2. Ordered(mTimers, Aheads)'
  <2> DEFINE f == Aheads
             g == Aheads'
  <2>1. f \in [Timers -> Int] /\ Ordered(mTimers, f) /\ -1 \in Int
    BY <1>0, AheadsType DEF ListInv
  <2>2. now' \in 0..Domain - 1
    <3>1. now + 1 \in Int
      BY <1>0 DEF TypeOK
    <3> QED
      BY <3>1, ModRange, HalfFacts DEF Tick
  <2>3. g \in [Timers -> Int]
    <3>1. \A t \in Timers : mTimeout'[t] \in 0..Domain - 1
      BY <1>0 DEF TypeOK
    <3>2. \A t \in Timers : Ahead(mTimeout[t])' \in Int
      BY <2>2, <3>1, AheadType DEF Ahead
    <3> QED
      BY <3>2 DEF Aheads
  <2>4. ASSUME NEW i \in 1..Len(mTimers) PROVE g[mTimers[i]] = f[mTimers[i]] + (-1)
    <3>1. mTimers[i] \in Timers /\ Timed(mTimers[i])
      BY <1>0, ListedArmed DEF Timed
    <3>2. /\ Ahead(mTimeout[mTimers[i]])' = Ahead(mTimeout[mTimers[i]]) - 1
          /\ Ahead(mTimeout[mTimers[i]]) \in Int /\ mTimers' = mTimers
      BY <1>0, <3>1, TimedTick
    <3>3. g[mTimers[i]] = Ahead(mTimeout[mTimers[i]])' /\ f[mTimers[i]] = Ahead(mTimeout[mTimers[i]])
      BY <3>1, <3>2 DEF Aheads, Ahead
    <3> QED
      BY <3>2, <3>3
  <2> HIDE DEF f, g
  <2>5. Ordered(mTimers, g)
    BY <1>0, <2>1, <2>3, <2>4, OrderedShift
  <2> QED
    BY <1>0, <2>5 DEF g
<1>3. WakeInv(A)'
  <2> SUFFICES ASSUME pc = "wait", wakeAt # Forever
               PROVE  -lag' <= Ahead(wakeAt)' /\ \E d \in Delays : Ahead(wakeAt)' <= d + 2 * A
    BY <1>0 DEF WakeInv
  <2> DEFINE y == AheadOf(wakeAt, now)
  <2>1. PICK d \in Delays : y <= d + 2 * A
    BY DEF ListInv, WakeInv, Ahead
  <2>2. /\ -lag <= y /\ d \in Nat /\ d + MaxLag + 4 * A < Half /\ lag \in Nat /\ MaxLag \in Nat
        /\ wakeAt \in 0..Domain - 1 /\ now \in 0..Domain - 1
    <3>1. -lag <= y
      BY DEF ListInv, WakeInv, Ahead
    <3>2. d \in Nat /\ d + MaxLag + 4 * A < Half /\ MaxLag \in Nat
      BY TimerAssumption DEF Window
    <3>3. lag \in 0..MaxLag /\ wakeAt \in 0..Domain - 1 /\ now \in 0..Domain - 1
      BY <1>0 DEF TypeOK
    <3> QED
      BY <3>1, <3>2, <3>3
  <2>3. y \in Int /\ y < Half
    <3>1. y \in Int
      BY <2>2, AheadType
    <3> HIDE DEF y
    <3> QED
      BY <2>1, <2>2, <3>1, HalfFacts
  <2>4. /\ now' = (now + 1) % Domain
        /\ (Outstanding /\ lag < MaxLag /\ lag' = lag + 1) \/ (~Outstanding /\ lag' = 0)
    BY DEF Tick
  <2>5. y > 1 - Half /\ -lag' <= y - 1
    <3>1. CASE Outstanding /\ lag < MaxLag /\ lag' = lag + 1
      <4> HIDE DEF y
      <4> QED
        BY <2>2, <2>3, <3>1, HalfFacts
    <3>2. CASE ~Outstanding /\ lag' = 0
      <4>1. LessThan(now, wakeAt)
        BY <3>2 DEF Outstanding
      <4>2. y > 0
        BY <2>2, <2>3, <4>1, DueAhead
      <4> HIDE DEF y
      <4> QED
        BY <2>3, <3>2, <4>2, HalfFacts
    <3> QED
      BY <2>4, <3>1, <3>2
  <2>6. AheadOf(wakeAt, now') = y - 1
    BY <2>2, <2>4, <2>5, AheadTick
  <2>7. Ahead(wakeAt)' = y - 1
    BY <1>0, <2>6 DEF Ahead
  <2> HIDE DEF y
  <2>8. y - 1 <= d + 2 * A
    BY <2>1, <2>2, <2>3
  <2> QED
    BY <2>5, <2>7, <2>8
<1> QED
  BY <1>1, <1>2, <1>3 DEF TimesInv

LEMMA ListNext ==
    ASSUME InitOnce, NEW A \in Nat, Window(A), ListInv(A), [Next]_vars
    PROVE  ListInv(A)'
<1>0. /\ OneAtATime /\ PlacesInv /\ raced = {} /\ PlacesInv' /\ raced' = {} /\ NoOversleep'
      /\ TimesInv(A) /\ Ordered(mTimers, Aheads) /\ WakeInv(A)
  <2>1. OneAtATime /\ PlacesInv /\ raced = {}
    BY DEF InitOnce, ListInv
  <2>2. PlacesInv' /\ raced' = {} /\ NoOversleep'
    BY <2>1, PlacesNext, NobodyRaces, SleepNext DEF ListInv
  <2> QED
    BY <2>1, <2>2 DEF ListInv
<1>1. CASE (ThreadStep \/ OwnerCalls \/ OwnerStep) /\ UNCHANGED lag
  <2>1. TimesInv(A)'
    BY <1>0, <1>1, TimesThreadStep, TimesOwnerStep
  <2>2. Ordered(mTimers, Aheads)'
    BY <1>0, <1>1, OrderedNext
  <2>3. WakeInv(A)'
    BY <1>0, <1>1, WakeNext
  <2>4. (mShutdown => ownerPc \in {"joining", "closed"})' /\ (pc = "exit" => mShutdown)'
    <3>1. (mShutdown => ownerPc \in {"joining", "closed"}) /\ (pc = "exit" => mShutdown) /\ opPc # "changed"
      BY <1>0 DEF ListInv, PlacesInv, Generations
    <3>2. CASE ThreadStep
      BY <3>1, <3>2 DEF ThreadStep, RunTakes, RunWaits, RunTimesOut, RunExits, CopyGeneration, RepeatPrecise, Rearm,
         PostEvent
    <3>3. CASE OwnerCalls
      BY <3>1, <3>3 DEF OwnerCalls, InitTimer, Cancel, ReleaseTimer, SetDelay, SetType, Shutdown, Wakeup
    <3>4. CASE OwnerStep
      <4>1. ownerPc' = ownerPc \/ ownerPc \notin {"joining", "closed"} \/ ownerPc' = "closed"
        BY <3>4 DEF OwnerStep, InitDelay, InitAdd, TimerDelayChanged, DropReference, TestArmed, RemoveReleased,
           HandleEvent, CallbackReturns, RearmSlack, ShutdownJoined
      <4>2. mShutdown' = mShutdown /\ (pc' = pc \/ pc' = "scan")
        BY <3>4 DEF OwnerStep, InitDelay, InitAdd, TimerDelayChanged, DropReference, TestArmed, RemoveReleased,
           HandleEvent, CallbackReturns, RearmSlack, ShutdownJoined, Wakeup
      <4> QED
        BY <3>1, <4>1, <4>2
    <3> QED
      BY <1>1, <3>2, <3>3, <3>4
  <2> QED
    BY <1>0, <2>1, <2>2, <2>3, <2>4 DEF ListInv
<1>2. CASE Tick
  <2>1. (mShutdown => ownerPc \in {"joining", "closed"})' /\ (pc = "exit" => mShutdown)'
    BY <1>2 DEF ListInv, Tick
  <2> QED
    BY <1>0, <1>2, <2>1, ListTick DEF ListInv
<1>3. CASE UNCHANGED vars
  <2>1. TimesInv(A)'
    <3> SUFFICES ASSUME NEW t \in Timers PROVE TimeInv(t, A)'
      BY DEF TimesInv
    <3>1. TimeInv(t, A)
      BY <1>0 DEF TimesInv
    <3> QED
      BY <1>3, <3>1, TimeKept DEF vars, Pending, Timed, AtWork
  <2>2. Aheads' = Aheads /\ mTimers' = mTimers
    BY <1>3 DEF vars, Aheads, Ahead
  <2>3. Ordered(mTimers, Aheads)'
    BY <1>0, <2>2
  <2>4. WakeInv(A)' /\ (mShutdown => ownerPc \in {"joining", "closed"})' /\ (pc = "exit" => mShutdown)'
    BY <1>0, <1>3 DEF vars, WakeInv, Ahead, ListInv
  <2> QED
    BY <1>0, <2>1, <2>3, <2>4 DEF ListInv
<1> QED
  BY <1>1, <1>2, <1>3 DEF Next

\* If each timer is initialised once, one is armed exactly while it is in the list, it is there
\* once, and the list is in the order of the timeouts across the wrap of the interval time: for
\* any number of timers, if the timer thread serves them at most A ticks before or after their
\* time, and the delays, what the threads are behind and that A leave half a turn of the clock.
THEOREM ListKeepsOrder ==
    ASSUME InitOnce, NEW A \in Nat, Window(A)
    PROVE  Spec => []ListIsRight
<1> DEFINE L == ListInv(A)
<1>1. Init => L
  <2> SUFFICES ASSUME Init PROVE L
    OBVIOUS
  <2>1. PlacesInv /\ raced = {} /\ NoOversleep /\ mShutdown = FALSE /\ pc = "scan" /\ mTimers = <<>>
    BY PlacesInit DEF Init, NoOversleep
  <2>2. ASSUME NEW t \in Timers PROVE TimeInv(t, A)
    <3>1. Pending(t) /\ mTimeout[t] = 0 /\ ~Timed(t) /\ cur # t
      BY TimerAssumption DEF Init, Pending, Timed, AtWork
    <3> QED
      BY <3>1 DEF TimeInv
  <2> QED
    BY <2>1, <2>2 DEF ListInv, TimesInv, Ordered, WakeInv
<1>2. L /\ [Next]_vars => L'
  BY ListNext
<1>3. L => ListIsRight
  <2> SUFFICES ASSUME L PROVE ListIsRight
    OBVIOUS
  <2>1. PlacesInv /\ raced = {} /\ TimesInv(A) /\ TypeOK /\ mTimers \in Seq(Timers)
    BY DEF ListInv, PlacesInv, TimerInv, TypeOK
  <2>2. ListedAsArmed
    BY <2>1, PlacesListed
  <2>3. ArmedIsListed /\ ListedOnce
    BY <2>1, <2>2 DEF ListedAsArmed, ArmedIsListed, ListedOnce
  <2>4. ASSUME NEW i \in 1..Len(mTimers), NEW j \in 1..Len(mTimers), i < j
        PROVE  ~LessThan(mTimeout[mTimers[j]], mTimeout[mTimers[i]])
    <3> DEFINE u == mTimers[i]
               v == mTimers[j]
               x == AheadOf(mTimeout[u], now)
               y == AheadOf(mTimeout[v], now)
    <3>1. /\ u \in Timers /\ PlaceInv(u) /\ Timed(u) /\ TimeInv(u, A)
          /\ v \in Timers /\ PlaceInv(v) /\ Timed(v) /\ TimeInv(v, A)
      BY <2>1, ListedArmed DEF Timed, TimesInv
    <3>2. Aheads[u] <= Aheads[v]
      BY <2>4 DEF ListInv, Ordered
    <3> HIDE DEF u, v
    <3>3. Aheads[u] = x /\ Aheads[v] = y
      BY <3>1 DEF Aheads, Ahead
    <3>4. /\ mTimeout[u] \in 0..Domain - 1 /\ now \in 0..Domain - 1 /\ x \in Int
          /\ -(MaxLag + A) <= x /\ x + MaxLag + 3 * A < Half
      BY <2>1, <3>1, TimedFacts DEF Ahead
    <3>5. /\ mTimeout[v] \in 0..Domain - 1 /\ y \in Int
          /\ -(MaxLag + A) <= y /\ y + MaxLag + 3 * A < Half
      BY <2>1, <3>1, TimedFacts DEF Ahead
    <3>6. y - x < Half /\ x - y < Half /\ ~(y < x)
      <4>1. MaxLag \in Nat
        BY TimerAssumption
      <4>2. x <= y
        BY <3>2, <3>3
      <4> HIDE DEF x, y
      <4> QED
        BY <3>4, <3>5, <4>1, <4>2, HalfFacts
    <3>7. LessThan(mTimeout[v], mTimeout[u]) <=> y < x
      BY <3>4, <3>5, <3>6, LessThanAhead
    <3> QED
      BY <3>6, <3>7 DEF u, v
  <2> QED
    BY <2>3, <2>4 DEF ListIsRight, ListIsOrdered
<1> HIDE DEF L
<1> QED
  BY <1>1, <1>2, <1>3, PTL DEF Spec
==============================================================================
