------------------------------ MODULE PipeProof -----------------------------
(***************************************************************************)
(* Proofs about Pipe for every segment size, every number of segments and  *)
(* both modes of either end.                                               *)
(***************************************************************************)
EXTENDS Pipe, TLAPS, SequenceTheorems

------------------------------------------------------------------------------
(* The inductive invariant.                                                 *)

\* The cursors describe the segments: all null exactly when there is no segment;
\* otherwise the readable bytes end where the writer is, or at the end of the
\* first segment, and a first segment that is read out is still being written.
BufferInv ==
    /\ mWriteSegment = Len(mBuffer) - 1
    /\ Len(mBuffer) <= MaxSegments
    /\ \A i, j \in 1..Len(mBuffer) : mBuffer[i] = mBuffer[j] => i = j
    /\ Len(mBuffer) = 0 => /\ mReadCursor = Null /\ mReadLimit = Null
                           /\ mWriteCursor = Null /\ mWriteLimit = Null
    /\ Len(mBuffer) > 0 => /\ 0 <= mReadCursor /\ mReadCursor <= mReadLimit
                           /\ 0 <= mWriteCursor /\ mWriteCursor <= mWriteLimit
                           /\ mWriteLimit = SegmentSize
                           /\ mReadCursor = mReadLimit => mWriteCursor < mWriteLimit
    /\ Len(mBuffer) = 1 => mReadLimit = mWriteCursor
    /\ Len(mBuffer) > 1 => mReadLimit = SegmentSize /\ mReadCursor < mReadLimit

\* A reading client outside the monitor works on the bytes from mReadCursor on.
ReaderInv ==
    /\ rCount + rDone <= MaxCount
    /\ rPc \in {"get", "wait", "blocked", "copy"} => rCount > 0
    /\ rPc = "idle" => rDone = 0
    /\ rPc \in {"copy", "advance"} =>
        /\ Len(mBuffer) > 0 /\ rSeg = mBuffer[1]
        /\ rPos = mReadCursor + rGot /\ rPos + rLen <= mReadLimit
    /\ rPc = "copy" => rLen > 0 /\ rLen <= rCount
    /\ rPc = "advance" => rGot > 0

\* A writing client outside the monitor works on the room behind mWriteCursor.
WriterInv ==
    /\ wCount + wDone <= MaxCount
    /\ wPc \in {"get", "wait", "blocked", "copy"} => wCount > 0
    /\ wPc = "idle" => wDone = 0
    /\ wPc \in {"copy", "advance"} =>
        /\ Len(mBuffer) > 0 /\ wSeg = mBuffer[Len(mBuffer)]
        /\ wPos = mWriteCursor + wGot /\ wPos + wLen <= mWriteLimit
    /\ wPc = "copy" => wLen > 0 /\ wLen <= wCount
    /\ wPc = "advance" => wGot > 0

\* Who sleeps has said so (mBlocked), and who waits in one way does not in another.
WaitInv ==
    /\ "R" \in waiters => rPc = "blocked"
    /\ "W" \in waiters => wPc = "blocked"
    /\ rPc = "blocked" => inBlocked
    /\ wPc = "blocked" => outBlocked

IInv ==
    /\ TypeOK /\ BufferInv /\ ReaderInv /\ WriterInv /\ WaitInv
    /\ AvailableIsBuffered /\ NoMissedWakeup /\ WritableIsRoom /\ OneCallback

------------------------------------------------------------------------------
(* Facts about numbers and cursors.                                         *)

\* The multiples of SegmentSize that the count of buffered bytes is made of.
LEMMA Times ==
    /\ \A n \in Int : SegmentSize * (n + 1) = SegmentSize * n + SegmentSize
    /\ \A n \in Nat : SegmentSize * n \in Nat
    /\ SegmentSize * 0 = 0
    BY SizeAssumption, SMT

\* What BufferInv says in terms of integers.
CursorFacts ==
    /\ Len(mBuffer) \in Nat /\ mWriteSegment \in Int
    /\ mWriteSegment = Len(mBuffer) - 1
    /\ Len(mBuffer) > 0 =>
         /\ mReadCursor \in 0..SegmentSize /\ mReadLimit \in 0..SegmentSize
         /\ mWriteCursor \in 0..SegmentSize
         /\ mWriteLimit = SegmentSize /\ mReadCursor <= mReadLimit
         /\ mReadCursor = mReadLimit => mWriteCursor < SegmentSize
    /\ Len(mBuffer) = 1 => mReadLimit = mWriteCursor
    /\ Len(mBuffer) > 1 => mReadLimit = SegmentSize /\ mReadCursor < SegmentSize

\* Under the invariant the cursors of nsPipe are where CursorFacts says.
LEMMA CursorsAreOrdered ==
    ASSUME TypeOK, BufferInv PROVE CursorFacts
    BY SizeAssumption DEF TypeOK, BufferType, BufferInv, Cursors, Null, CursorFacts

\* What is buffered is a natural number, at least what GetReadSegment shows.
LEMMA BufferedBounds ==
    ASSUME TypeOK, BufferInv
    PROVE  /\ Buffered \in Nat
           /\ Buffered >= mReadLimit - mReadCursor
           /\ mReadCursor = mReadLimit <=> Buffered = 0
<1> USE SizeAssumption DEF TypeOK, BufferType, BufferInv, Cursors, Null
<1>1. CASE Len(mBuffer) = 0
  BY <1>1 DEF Buffered
<1>2. CASE Len(mBuffer) = 1
  BY <1>2 DEF Buffered
<1>3. CASE Len(mBuffer) > 1
  <2>1. SegmentSize * (mWriteSegment - 1) \in Nat
    BY <1>3, Times
  <2> QED
    BY <1>3, <2>1 DEF Buffered
<1> QED
  BY <1>1, <1>2, <1>3

\* What no step of an action touches, the action cannot disturb.
LEMMA Frame ==
    ASSUME IInv
    PROVE  /\ UNCHANGED heap => HeapType'
           /\ UNCHANGED <<segments, mReadCursor, mReadLimit, mWriteCursor>> => BufferType' /\ BufferInv'
           /\ UNCHANGED <<mStatus, waiters, closedBy, input, output>> => StreamType'
           /\ UNCHANGED <<reader, mBuffer, mReadCursor, mReadLimit>> => ReaderType' /\ ReaderInv'
           /\ UNCHANGED <<writer, mBuffer, mWriteCursor, mWriteLimit>> => WriterType' /\ WriterInv'
           /\ UNCHANGED <<waiters, rPc, wPc, inBlocked, outBlocked>> => WaitInv'
           /\ UNCHANGED <<mAvailable, mWriteSegment, mReadCursor, mWriteCursor>> => AvailableIsBuffered'
           /\ UNCHANGED <<mStatus, waiters, mAvailable, inNotify, mWritable, outNotify, mBuffer,
                          mWriteCursor, mWriteLimit>> => NoMissedWakeup' /\ WritableIsRoom'
           /\ UNCHANGED <<rPc, wPc, inNotify, inEvent, outNotify, outEvent>> => OneCallback'
<1> USE DEF IInv, TypeOK
<1>1. UNCHANGED heap => HeapType'
  BY DEF HeapType
<1>2. UNCHANGED <<segments, mReadCursor, mReadLimit, mWriteCursor>> => BufferType' /\ BufferInv'
  BY DEF segments, BufferType, BufferInv
<1>3. UNCHANGED <<mStatus, waiters, closedBy, input, output>> => StreamType'
  BY DEF input, output, StreamType
<1>4. UNCHANGED <<reader, mBuffer, mReadCursor, mReadLimit>> => ReaderType' /\ ReaderInv'
  BY DEF reader, ReaderType, ReaderInv
<1>5. UNCHANGED <<writer, mBuffer, mWriteCursor, mWriteLimit>> => WriterType' /\ WriterInv'
  BY DEF writer, WriterType, WriterInv
<1>6. UNCHANGED <<waiters, rPc, wPc, inBlocked, outBlocked>> => WaitInv'
  BY DEF WaitInv
<1>7. UNCHANGED <<mAvailable, mWriteSegment, mReadCursor, mWriteCursor>> => AvailableIsBuffered'
  BY DEF AvailableIsBuffered, Buffered
<1>8. UNCHANGED <<mStatus, waiters, mAvailable, inNotify, mWritable, outNotify, mBuffer,
                  mWriteCursor, mWriteLimit>> => NoMissedWakeup' /\ WritableIsRoom'
  BY DEF NoMissedWakeup, WritableIsRoom, BufferFull
<1>9. UNCHANGED <<rPc, wPc, inNotify, inEvent, outNotify, outEvent>> => OneCallback'
  BY DEF OneCallback
<1> QED
  BY <1>1, <1>2, <1>3, <1>4, <1>5, <1>6, <1>7, <1>8, <1>9

------------------------------------------------------------------------------
(* The conjuncts that are hard to see, one action at a time.                *)

\* Reading n bytes keeps the reading client's numbers in range.
LEMMA CopyFromSegmentTyped ==
    ASSUME IInv, \E n \in 1..MaxCount : CopyFromSegment(n) PROVE ReaderType'
<1>1. PICK n \in 1..MaxCount : CopyFromSegment(n)
  OBVIOUS
<1> USE SizeAssumption, <1>1 DEF CopyFromSegment, IInv, TypeOK, ReaderType, BufferType, BufferInv,
        ReaderInv, Cursors, Null
<1>2. rPc' \in Pcs /\ rResult' \in Results /\ rSeg' \in Blocks \cup {Null} /\ rOffset' \in Nat
  BY DEF Pcs
<1>3. rCount' \in 0..MaxCount /\ rDone' \in 0..MaxCount
  OBVIOUS
<1>4. rPos' \in 0..SegmentSize /\ rLen' \in 0..SegmentSize /\ rGot' \in 0..SegmentSize
  OBVIOUS
<1> QED
  BY <1>2, <1>3, <1>4

\* The memory GetReadSegment shows lies in the first segment.
LEMMA GetReadSegmentTyped ==
    ASSUME IInv, GetReadSegment PROVE ReaderType'
<1> USE SizeAssumption DEF GetReadSegment, HoldReadable, IInv, TypeOK, ReaderType, BufferType, BufferInv,
        ReaderInv, Cursors, Null
<1>1. Len(mBuffer) > 0
  OBVIOUS
<1>2. rPc' \in Pcs /\ rResult' \in Results /\ rSeg' \in Blocks \cup {Null} /\ rOffset' \in Nat
  BY <1>1 DEF Pcs
<1>3. rPos' \in 0..SegmentSize /\ rLen' \in 0..SegmentSize /\ rGot' \in 0..SegmentSize
  BY <1>1
<1> QED
  BY <1>2, <1>3

\* A wait that ends leaves a reading client of the right type.
LEMMA InputWaitReturnsTyped ==
    ASSUME IInv, InputWaitReturns PROVE ReaderType'
<1> USE SizeAssumption DEF InputWaitReturns, ReadReturns, ReaderGoesTo, IInv, TypeOK, ReaderType, Null
<1>1. CASE ReadReturns("ERROR")
  BY <1>1 DEF Pcs, Results
<1>2. CASE ReaderGoesTo("get")
  BY <1>2 DEF Pcs
<1> QED
  BY <1>1, <1>2

\* Within a segment, the count of available bytes follows the read cursor.
LEMMA AdvanceWithinSegmentCounts ==
    ASSUME IInv, AdvanceWithinSegment PROVE StreamType' /\ AvailableIsBuffered'
<1>1. mAvailable - rGot \in Nat
  BY BufferedBounds DEF AdvanceWithinSegment, IInv, TypeOK, StreamType, ReaderType, BufferType,
                        Cursors, Null, AvailableIsBuffered, ReaderInv
<1>2. StreamType'
  BY <1>1 DEF AdvanceWithinSegment, IInv, TypeOK, StreamType, output
<1>3. AvailableIsBuffered'
  <2> USE SizeAssumption DEF AdvanceWithinSegment, IInv, TypeOK, StreamType, ReaderType, BufferType,
          Cursors, Null, AvailableIsBuffered, ReaderInv, BufferInv, segments
  <2>1. CASE mWriteSegment = 0
    BY <2>1 DEF Buffered
  <2>2. CASE mWriteSegment > 0
    <3>1. SegmentSize * (mWriteSegment - 1) \in Nat
      BY <2>2, Times
    <3> QED
      BY <2>2, <3>1 DEF Buffered
  <2> QED
    BY <2>1, <2>2
<1> QED
  BY <1>2, <1>3

\* A first segment that is used up: what is behind it, and what was read of it.
UsedUp ==
    /\ Len(mBuffer) \in Nat /\ Len(mBuffer) > 0
    /\ mBuffer' = Tail(mBuffer)
    /\ mWriteSegment' = mWriteSegment - 1
    /\ rGot \in 1..SegmentSize /\ mAvailable \in Nat
    /\ mReadCursor + rGot = mReadLimit
    /\ mAvailable' = mAvailable - rGot
    /\ mWriteSegment = 0 => mWriteCursor = SegmentSize

\* DeleteFirstSegment frees a segment only when it is used up.
LEMMA DeletedIsUsedUp ==
    ASSUME IInv, DeleteFirstSegment PROVE UsedUp
<1>1. CursorFacts
  BY CursorsAreOrdered DEF IInv
<1>2. rGot \in 1..SegmentSize /\ mAvailable \in Nat
  BY SizeAssumption DEF IInv, TypeOK, ReaderType, StreamType, ReaderInv, DeleteFirstSegment
<1>3. Len(mBuffer) > 0
  BY DEF IInv, ReaderInv, DeleteFirstSegment
<1>4. ~(mWriteSegment = 0 /\ mWriteLimit > mWriteCursor)
  BY DEF DeleteFirstSegment
<1>5. mWriteSegment = 0 => mWriteCursor = SegmentSize
  BY <1>1, <1>3, <1>4, SizeAssumption DEF CursorFacts
<1>6. /\ mBuffer' = Tail(mBuffer)
      /\ mWriteSegment' = mWriteSegment - 1
      /\ mReadCursor + rGot = mReadLimit
      /\ mAvailable' = mAvailable - rGot
  BY DEF DeleteFirstSegment
<1>7. Len(mBuffer) \in Nat
  BY <1>1 DEF CursorFacts
<1> QED
  BY <1>2, <1>3, <1>5, <1>6, <1>7 DEF UsedUp

\* Freeing a segment keeps the types of both ends.
LEMMA DeleteFirstSegmentTyped ==
    ASSUME IInv, DeleteFirstSegment PROVE StreamType' /\ ReaderType'
<1>1. mAvailable - rGot \in Nat
  BY BufferedBounds DEF DeleteFirstSegment, IInv, TypeOK, StreamType, ReaderType, BufferType,
                        Cursors, Null, AvailableIsBuffered, ReaderInv
<1>2. waiters' \subseteq waiters
  BY DEF DeleteFirstSegment, MonitorNotify
<1>3. StreamType'
  BY <1>1, <1>2 DEF DeleteFirstSegment, IInv, TypeOK, StreamType, OutputReady
<1>4. ReaderType'
  <2> USE SizeAssumption DEF DeleteFirstSegment, AfterAdvanceRead, ReadReturns, IInv, TypeOK, ReaderType, Null
  <2>1. CASE rCount = 0
    BY <2>1 DEF Pcs, Results, OK
  <2>2. CASE rCount > 0
    BY <2>2 DEF Pcs
  <2> QED
    BY <2>1, <2>2
<1> QED
  BY <1>3, <1>4

\* With the first segment gone, the cursors describe the segments that remain.
LEMMA DeleteFirstSegmentKeepsBuffer ==
    ASSUME IInv, DeleteFirstSegment PROVE BufferType' /\ BufferInv'
<1>1. CursorFacts
  BY CursorsAreOrdered DEF IInv
<1>2. UsedUp
  BY DeletedIsUsedUp
<1>3. mBuffer \in Seq(Blocks) /\ Len(mBuffer) > 0
  BY <1>2 DEF IInv, TypeOK, BufferType, UsedUp
<1>4. /\ mBuffer' \in Seq(Blocks) /\ Len(mBuffer') = Len(mBuffer) - 1
      /\ \A i \in 1..Len(mBuffer') : mBuffer'[i] = mBuffer[i + 1]
  BY <1>2, <1>3 DEF UsedUp
<1>5. \A i, j \in 1..Len(mBuffer') : mBuffer'[i] = mBuffer'[j] => i = j
  <2>1. \A i, j \in 1..Len(mBuffer) : mBuffer[i] = mBuffer[j] => i = j
    BY DEF IInv, BufferInv
  <2>2. Len(mBuffer) \in Nat
    BY <1>2 DEF UsedUp
  <2> QED
    BY <1>4, <2>1, <2>2
<1>6. mWriteSegment' = Len(mBuffer') - 1 /\ Len(mBuffer') <= MaxSegments /\ mWriteSegment' \in Nat \cup {-1}
  <2>1. Len(mBuffer) <= MaxSegments
    BY DEF IInv, BufferInv
  <2> QED
    BY <1>1, <1>2, <1>4, <2>1, SizeAssumption DEF CursorFacts, UsedUp
<1>7. CASE mWriteSegment = 0
  <2>1. /\ mReadCursor' = Null /\ mReadLimit' = Null
        /\ mWriteCursor' = Null /\ mWriteLimit' = Null
    BY <1>7 DEF DeleteFirstSegment
  <2>2. Len(mBuffer') = 0
    BY <1>1, <1>2, <1>4, <1>7 DEF CursorFacts, UsedUp
  <2> QED
    <3>1. BufferType'
      BY <1>4, <1>6, <2>1 DEF BufferType, Cursors
    <3>2. BufferInv'
      BY <1>5, <1>6, <2>1, <2>2 DEF BufferInv
    <3> QED
      BY <3>1, <3>2
<1>8. CASE mWriteSegment > 0
  <2>1. /\ mReadCursor' = 0 /\ UNCHANGED <<mWriteCursor, mWriteLimit>>
        /\ mReadLimit' = (IF mWriteSegment = 1 THEN mWriteCursor ELSE SegmentSize)
    BY <1>8 DEF DeleteFirstSegment
  <2>2. mWriteCursor \in 0..SegmentSize /\ mWriteLimit = SegmentSize /\ mWriteSegment \in Int
    BY <1>1, <1>2 DEF CursorFacts, UsedUp
  <2>3. Len(mBuffer') = mWriteSegment /\ Len(mBuffer') \in Nat
    BY <1>1, <1>2, <1>4, <1>8 DEF CursorFacts, UsedUp
  <2>4. BufferType'
    BY <1>4, <1>6, <2>1, <2>2, SizeAssumption DEF BufferType, Cursors
  <2>5. mReadCursor' = mReadLimit' => mWriteCursor' < mWriteLimit'
    BY <2>1, <2>2, SizeAssumption
  <2>6. /\ 0 <= mReadCursor' /\ mReadCursor' <= mReadLimit'
        /\ Len(mBuffer') = 1 => mReadLimit' = mWriteCursor'
        /\ Len(mBuffer') > 1 => mReadLimit' = SegmentSize /\ mReadCursor' < mReadLimit'
    BY <2>1, <2>2, <2>3, SizeAssumption
  <2>7. 0 <= mWriteCursor' /\ mWriteCursor' <= mWriteLimit' /\ mWriteLimit' = SegmentSize
    BY <2>1, <2>2, SizeAssumption
  <2>8. Len(mBuffer') # 0
    BY <1>8, <2>3
  <2> QED
    BY <1>5, <1>6, <2>4, <2>5, <2>6, <2>7, <2>8 DEF BufferInv
<1> QED
  BY <1>1, <1>2, <1>7, <1>8 DEF CursorFacts, UsedUp

\* The freed segment is not the one a writing client holds: it is full.
LEMMA DeleteFirstSegmentSparesWriter ==
    ASSUME IInv, DeleteFirstSegment PROVE WriterInv'
<1>1. CursorFacts
  BY CursorsAreOrdered DEF IInv
<1>2. UsedUp
  BY DeletedIsUsedUp
<1>3. WriterInv /\ UNCHANGED writer
  BY DEF IInv, DeleteFirstSegment
<1>4. mBuffer \in Seq(Blocks) /\ wPos \in Int /\ wGot \in Nat /\ wLen \in Nat
  BY DEF IInv, TypeOK, BufferType, WriterType
<1>5. CASE mWriteSegment = 0
  <2>1. wPc \notin {"copy", "advance"}
    BY <1>1, <1>2, <1>3, <1>4, <1>5 DEF WriterInv, CursorFacts, UsedUp
  <2> QED
    BY <1>3, <2>1 DEF WriterInv, writer
<1>6. CASE mWriteSegment # 0
  <2>1. Len(mBuffer) > 1
    BY <1>1, <1>2, <1>6 DEF CursorFacts, UsedUp
  <2>2. Len(mBuffer') = Len(mBuffer) - 1 /\ mBuffer'[Len(mBuffer')] = mBuffer[Len(mBuffer)]
    BY <1>2, <1>4, <2>1 DEF UsedUp
  <2>3. UNCHANGED <<mWriteCursor, mWriteLimit>>
    BY <1>6 DEF DeleteFirstSegment
  <2> QED
    BY <1>3, <2>1, <2>2, <2>3 DEF WriterInv, writer
<1> QED
  BY <1>5, <1>6

\* Freeing a segment takes from mAvailable exactly what it takes from the buffer.
LEMMA DeleteFirstSegmentCounts ==
    ASSUME IInv, DeleteFirstSegment PROVE AvailableIsBuffered'
<1>1. CursorFacts
  BY CursorsAreOrdered DEF IInv
<1>2. UsedUp
  BY DeletedIsUsedUp
<1>3. mAvailable = Buffered
  BY DEF IInv, AvailableIsBuffered
<1>4. CASE mWriteSegment = 0
  <2>1. mAvailable = mWriteCursor - mReadCursor
    BY <1>1, <1>2, <1>3, <1>4 DEF Buffered, Null, CursorFacts, UsedUp
  <2>2. mReadCursor' = Null
    BY <1>4 DEF DeleteFirstSegment
  <2>3. Len(mBuffer) = 1
    BY <1>1, <1>2, <1>4 DEF CursorFacts, UsedUp
  <2>4. mAvailable' = 0
    BY <1>1, <1>2, <2>1, <2>3 DEF CursorFacts, UsedUp
  <2> QED
    BY <2>2, <2>4 DEF AvailableIsBuffered, Buffered
<1>5. CASE mWriteSegment > 0
  <2> DEFINE P == SegmentSize * (mWriteSegment - 1)
  <2>1. mReadCursor \in 0..SegmentSize /\ mWriteCursor \in Nat /\ mWriteSegment \in Int
    BY <1>1, <1>2 DEF CursorFacts, UsedUp
  <2>2. mReadCursor # Null /\ mWriteSegment # 0
    BY <2>1, <1>5, SizeAssumption DEF Null
  <2>3. mAvailable = SegmentSize - mReadCursor + P + mWriteCursor
    BY <1>3, <2>2 DEF Buffered
  <2>4. mReadCursor' = 0 /\ mWriteCursor' = mWriteCursor
    BY <1>5 DEF DeleteFirstSegment
  <2>5. mReadCursor + rGot = SegmentSize
    BY <1>1, <1>2, <1>5 DEF CursorFacts, UsedUp
  <2>6. P \in Nat
    BY <1>1, <1>5, Times, SizeAssumption DEF CursorFacts
  <2>7. mAvailable' = mAvailable - rGot /\ rGot \in Nat
    BY <1>2 DEF UsedUp
  <2>8. mAvailable' = P + mWriteCursor
    <3> HIDE DEF P
    <3> QED
      BY <2>1, <2>3, <2>5, <2>6, <2>7, SizeAssumption
  <2>9. CASE mWriteSegment = 1
    <3>1. mWriteSegment' = 0 /\ P = 0
      BY <1>2, <2>9, Times DEF UsedUp
    <3>2. Buffered' = mWriteCursor - 0
      BY <2>4, <3>1 DEF Buffered, Null
    <3> QED
      BY <2>1, <2>8, <3>1, <3>2 DEF AvailableIsBuffered
  <2>10. CASE mWriteSegment > 1
    <3>1. P = SegmentSize * (mWriteSegment - 2) + SegmentSize
      <4>1. mWriteSegment - 2 \in Int /\ (mWriteSegment - 2) + 1 = mWriteSegment - 1
        BY <2>1
      <4> QED
        BY <4>1, Times, SizeAssumption
    <3>2. Buffered' = SegmentSize - 0 + SegmentSize * (mWriteSegment - 2) + mWriteCursor
      <4>1. mWriteSegment' = mWriteSegment - 1
        BY <1>2 DEF UsedUp
      <4>2. mWriteSegment' - 1 = mWriteSegment - 2 /\ mWriteSegment' # 0
        BY <2>1, <2>10, <4>1
      <4> QED
        BY <2>4, <4>2 DEF Buffered, Null
    <3>3. SegmentSize * (mWriteSegment - 2) \in Nat
      BY <1>1, <2>10, Times, SizeAssumption DEF CursorFacts
    <3> QED
      BY <2>1, <2>8, <3>1, <3>2, <3>3, SizeAssumption DEF AvailableIsBuffered
  <2> QED
    BY <1>5, <2>1, <2>9, <2>10
<1> QED
  BY <1>1, <1>2, <1>4, <1>5 DEF CursorFacts, UsedUp

\* Freeing a segment wakes a writer that sleeps, and says that there is room.
LEMMA DeleteFirstSegmentWakes ==
    ASSUME IInv, DeleteFirstSegment PROVE NoMissedWakeup' /\ WritableIsRoom'
<1> USE SizeAssumption DEF IInv
<1>1. "R" \notin waiters /\ ~inNotify
  BY DEF DeleteFirstSegment, WaitInv, OneCallback, TypeOK, StreamType
<1>2. "W" \in waiters => WriterToWake = 1
  BY DEF WriterToWake, WaitInv, OneCallback, TypeOK, StreamType
<1>3. "R" \notin waiters' /\ "W" \notin waiters'
  BY <1>1, <1>2 DEF DeleteFirstSegment, MonitorNotify, WriterToWake, TypeOK, StreamType
<1>4. ~BufferFull' /\ mWritable' = TRUE /\ outNotify' = FALSE /\ inNotify' = FALSE
  BY <1>1 DEF DeleteFirstSegment, OutputReady, BufferFull, BufferInv, TypeOK, BufferType, ReaderInv
<1> QED
  BY <1>3, <1>4 DEF NoMissedWakeup, WritableIsRoom

\* A write on a closed pipe raises an exception that is not the first: nothing happens.
LEMMA GetWriteSegmentFailsQuietly ==
    ASSUME IInv, GetWriteSegmentFails PROVE NoMissedWakeup' /\ OneCallback'
<1>1. UNCHANGED <<mStatus, waiters, mAvailable, inNotify, inEvent, mWritable, outNotify, outEvent>>
  BY DEF GetWriteSegmentFails, OnPipeException
<1>2. wPc = "get" /\ wPc' = "idle" /\ UNCHANGED <<buffer, rPc>>
  BY DEF GetWriteSegmentFails, WriteReturns, reader
<1> QED
  BY <1>1, <1>2 DEF IInv, NoMissedWakeup, OneCallback, BufferFull, buffer, segments

\* The room a writing client is given lies in a segment.
LEMMA HoldRoomTyped ==
    ASSUME WriterType, NEW seg \in Blocks, NEW from \in 0..SegmentSize, NEW to \in 0..SegmentSize,
           from <= to, HoldRoom(seg, from, to)
    PROVE  WriterType'
<1> USE SizeAssumption DEF WriterType, HoldRoom
<1>1. wPc' \in Pcs /\ wResult' \in Results /\ wSeg' \in Blocks \cup {Null} /\ wOffset' \in Nat
  BY DEF Pcs
<1>2. wPos' \in 0..SegmentSize /\ wLen' \in 0..SegmentSize /\ wGot' \in 0..SegmentSize
  OBVIOUS
<1> QED
  BY <1>1, <1>2

\* GetCurrentSegment hands out the room behind the write cursor, or a whole segment.
LEMMA GetCurrentSegmentTyped ==
    ASSUME IInv, GetCurrentSegment PROVE WriterType'
<1> DEFINE seg == mBuffer[mWriteSegment + 1]
<1>1. CursorFacts /\ WriterType
  BY CursorsAreOrdered DEF IInv, TypeOK
<1>2. Len(mBuffer) > 0
  BY DEF GetCurrentSegment, IInv, BufferInv, TypeOK, BufferType, Null
<1>3. seg \in Blocks
  BY <1>1, <1>2 DEF IInv, TypeOK, BufferType, CursorFacts
<1>4. mWriteCursor \in 0..SegmentSize /\ mWriteLimit = SegmentSize
  BY <1>1, <1>2 DEF CursorFacts
<1>5. HoldRoom(seg, 0, SegmentSize) \/ HoldRoom(seg, mWriteCursor, SegmentSize)
  BY <1>4 DEF GetCurrentSegment, HandOut
<1>6. 0 \in 0..SegmentSize /\ SegmentSize \in 0..SegmentSize /\ 0 <= SegmentSize
      /\ mWriteCursor <= SegmentSize
  BY <1>4, SizeAssumption
<1> HIDE DEF seg
<1> QED
  BY <1>1, <1>3, <1>4, <1>5, <1>6, HoldRoomTyped

\* Rolling the cursors back moves no readable byte, and no memory a reader holds.
LEMMA GetCurrentSegmentRollsBack ==
    ASSUME IInv, GetCurrentSegment PROVE ReaderInv' /\ AvailableIsBuffered' /\ WritableIsRoom'
<1> USE SizeAssumption DEF GetCurrentSegment, IInv, TypeOK, BufferType, Cursors, Null, BufferInv
<1>1. /\ Len(mBuffer) > 0 /\ mWriteSegment >= 0 /\ mReadCursor # Null
      /\ UNCHANGED <<mBuffer, mWriteLimit, mWriteSegment, mAvailable, mWritable, mStatus, reader>>
  BY DEF HandOut, input, output
<1>2. CASE mWriteSegment = 0 /\ mReadCursor = mWriteCursor
  <2>1. mReadCursor = mReadLimit
    BY <1>1, <1>2
  <2>2. mReadCursor' = 0 /\ mReadLimit' = 0 /\ mWriteCursor' = 0
    BY <1>1, <1>2 DEF HandOut
  <2>3. rPc \notin {"copy", "advance"}
    BY <2>1 DEF ReaderInv, ReaderType
  <2> QED
    BY <1>1, <1>2, <2>1, <2>2, <2>3
    DEF ReaderInv, AvailableIsBuffered, Buffered, WritableIsRoom, BufferFull, reader
<1>3. CASE ~(mWriteSegment = 0 /\ mReadCursor = mWriteCursor)
  <2>1. mReadCursor' = mReadCursor /\ mReadLimit' = mReadLimit /\ mWriteCursor' = mWriteCursor
    BY <1>1, <1>3 DEF HandOut
  <2> QED
    BY <1>1, <2>1 DEF ReaderInv, AvailableIsBuffered, Buffered, WritableIsRoom, BufferFull, reader
<1> QED
  BY <1>2, <1>3

\* A new segment is not in use, and adds no readable byte.
LEMMA AppendNewSegmentKeepsBytes ==
    ASSUME IInv, AppendNewSegment PROVE BufferInv' /\ ReaderInv' /\ AvailableIsBuffered'
<1>1. PICK b \in Blocks : /\ ~InUse(b) /\ mBuffer' = Append(mBuffer, b)
                          /\ mWriteSegment' = mWriteSegment + 1 /\ HandOut(b, 0, SegmentSize)
  BY DEF AppendNewSegment
<1> USE SizeAssumption DEF IInv, TypeOK, BufferType, Cursors, Null, BufferInv
<1>2. /\ UNCHANGED <<mAvailable, reader>> /\ ~BufferFull
      /\ mWriteCursor = mWriteLimit /\ mWriteLimit' = SegmentSize /\ mWriteCursor' = 0
  BY <1>1 DEF AppendNewSegment, HandOut, input
<1>3. \A i, j \in 1..Len(mBuffer') : mBuffer'[i] = mBuffer'[j] => i = j
  BY <1>1 DEF InUse
<1>4. CASE Len(mBuffer) = 0
  <2>1. mReadCursor' = 0 /\ mReadLimit' = 0 /\ mWriteSegment' = 0
    BY <1>1, <1>2, <1>4 DEF HandOut
  <2>2. rPc \notin {"copy", "advance"}
    BY <1>4 DEF ReaderInv
  <2>3. BufferInv'
    BY <1>1, <1>2, <1>3, <1>4, <2>1 DEF BufferFull
  <2>4. ReaderInv'
    BY <1>2, <2>2 DEF ReaderInv, reader
  <2>5. AvailableIsBuffered'
    BY <1>1, <1>2, <1>4, <2>1 DEF AvailableIsBuffered, Buffered
  <2> QED
    BY <2>3, <2>4, <2>5
<1>5. CASE Len(mBuffer) > 0
  <2>1. /\ mReadCursor' = mReadCursor /\ mReadLimit' = mReadLimit /\ mWriteSegment' > 0
        /\ mReadCursor < mReadLimit /\ mReadCursor >= 0
        /\ mReadLimit = SegmentSize /\ mWriteCursor = SegmentSize
    BY <1>1, <1>2, <1>5 DEF HandOut
  <2>2. mBuffer'[1] = mBuffer[1] /\ Len(mBuffer') = Len(mBuffer) + 1
    BY <1>1, <1>5
  <2>3. BufferInv'
    BY <1>1, <1>2, <1>3, <1>5, <2>1, <2>2 DEF BufferFull
  <2>4. ReaderInv'
    BY <1>2, <1>5, <2>1, <2>2 DEF ReaderInv, reader
  <2>5. AvailableIsBuffered'
    <3>1. CursorFacts
      BY CursorsAreOrdered
    <3>2. mReadCursor \in Nat /\ mReadCursor # Null /\ mWriteSegment \in Nat
      BY <1>5, <3>1 DEF CursorFacts
    <3>3. Buffered' = SegmentSize - mReadCursor + SegmentSize * mWriteSegment + 0
      <4>1. mWriteSegment' - 1 = mWriteSegment /\ mWriteSegment' # 0
        BY <1>1, <3>2
      <4> QED
        BY <1>2, <2>1, <3>2, <4>1 DEF Buffered
    <3>4. CASE mWriteSegment = 0
      <4>1. mAvailable = SegmentSize - mReadCursor
        BY <2>1, <3>2, <3>4 DEF AvailableIsBuffered, Buffered
      <4>2. Buffered' = SegmentSize - mReadCursor + 0 + 0
        BY <3>3, <3>4, Times
      <4> QED
        BY <1>2, <3>2, <4>1, <4>2 DEF AvailableIsBuffered
    <3>5. CASE mWriteSegment > 0
      <4> DEFINE P == SegmentSize * (mWriteSegment - 1)
      <4>1. SegmentSize * mWriteSegment = P + SegmentSize
        <5>1. mWriteSegment - 1 \in Int /\ (mWriteSegment - 1) + 1 = mWriteSegment
          BY <3>2
        <5> QED
          BY <5>1, Times
      <4>2. P \in Nat
        BY <3>2, <3>5, Times
      <4>3. mAvailable = SegmentSize - mReadCursor + P + SegmentSize
        BY <2>1, <3>2, <3>5 DEF AvailableIsBuffered, Buffered
      <4>4. Buffered' = SegmentSize - mReadCursor + (P + SegmentSize) + 0
        BY <3>3, <4>1
      <4>5. mAvailable = Buffered'
        <5> HIDE DEF P, IInv, TypeOK, BufferType, Cursors, BufferInv
        <5> QED
          BY <3>2, <4>2, <4>3, <4>4
      <4> QED
        BY <1>2, <4>5 DEF AvailableIsBuffered
    <3> QED
      BY <3>2, <3>4, <3>5
  <2> QED
    BY <2>3, <2>4, <2>5
<1> QED
  BY <1>4, <1>5

\* Committing bytes wakes a reader that sleeps; the writing client itself does not.
LEMMA AdvanceWriteCursorWakes ==
    ASSUME IInv, AdvanceWriteCursor PROVE waiters' = {} /\ ~outNotify
<1>1. "W" \notin waiters /\ ~outNotify /\ waiters \subseteq {"R"}
  BY DEF AdvanceWriteCursor, WaitInv, OneCallback, StreamType, IInv, TypeOK
<1>2. "R" \in waiters => inBlocked /\ ~inNotify
  BY DEF WaitInv, OneCallback, StreamType, IInv, TypeOK
<1>3. "R" \in waiters => ReaderToWake = 1
  BY <1>2 DEF ReaderToWake
<1>4. ReaderToWake \in {0, 1}
  BY DEF ReaderToWake
<1>5. MonitorNotify(ReaderToWake)
  BY DEF AdvanceWriteCursor
<1>6. CASE waiters = {}
  BY <1>1, <1>4, <1>5, <1>6 DEF MonitorNotify
<1>7. CASE "R" \in waiters
  <2>1. \E t \in waiters : waiters' = waiters \ {t}
    BY <1>3, <1>5, <1>7 DEF MonitorNotify
  <2> QED
    BY <1>1, <2>1
<1> QED
  BY <1>1, <1>6, <1>7

\* Committed bytes are counted and readable.
LEMMA AdvanceWriteCursorCommits ==
    ASSUME IInv, AdvanceWriteCursor
    PROVE  StreamType' /\ BufferInv' /\ AvailableIsBuffered' /\ NoMissedWakeup' /\ WritableIsRoom'
<1>1. /\ UNCHANGED <<mBuffer, mWriteSegment, mWriteLimit, mReadCursor, mStatus>>
      /\ UNCHANGED <<closedBy, inBlocked, outBlocked, outEvent, outNotify>>
      /\ mWriteCursor' = mWriteCursor + wGot /\ mAvailable' = mAvailable + wGot
      /\ inNotify' = FALSE /\ inEvent' = (inEvent \/ inNotify)
      /\ mWritable' = (mWritable /\ ~(mWriteCursor + wGot = mWriteLimit /\ BufferFull))
  BY DEF AdvanceWriteCursor, InputReady, segments
<1>2. waiters' = {} /\ ~outNotify
  BY AdvanceWriteCursorWakes
<1>3. CursorFacts
  BY CursorsAreOrdered DEF IInv
<1>4. wGot \in Nat /\ wGot > 0 /\ Len(mBuffer) > 0 /\ mWriteCursor + wGot <= SegmentSize
  BY <1>3 DEF AdvanceWriteCursor, WriterInv, WriterType, TypeOK, IInv, CursorFacts
<1>5. mWriteSegment = 0 => mReadLimit = mWriteCursor
  BY <1>3, <1>4 DEF CursorFacts
<1>6. mReadLimit' = IF mWriteSegment = 0 THEN mWriteCursor + wGot ELSE mReadLimit
  BY <1>5 DEF AdvanceWriteCursor
<1>7. mWriteSegment \in Nat /\ mWriteCursor \in Nat /\ mReadCursor \in Nat /\ mWriteLimit = SegmentSize
  BY <1>3, <1>4 DEF CursorFacts
<1>8. StreamType'
  <2>1. StreamType
    BY DEF IInv, TypeOK
  <2>2. mAvailable' \in Nat
    BY <1>1, <1>4, <2>1 DEF StreamType
  <2>3. inEvent' \in BOOLEAN /\ mWritable' \in BOOLEAN /\ inNotify' \in BOOLEAN
    BY <1>1
  <2> QED
    BY <1>1, <1>2, <2>1, <2>2, <2>3 DEF StreamType
<1>9. BufferInv'
  <2>1. BufferInv
    BY DEF IInv
  <2>2. Len(mBuffer) \in Nat /\ mReadCursor <= mReadLimit /\ mReadLimit \in Nat
    BY <1>3, <1>4 DEF CursorFacts
  <2>3. mReadCursor <= mReadLimit' /\ (mReadCursor = mReadLimit' => mWriteCursor + wGot < SegmentSize)
    <3>1. CASE mWriteSegment = 0
      BY <1>4, <1>5, <1>6, <1>7, <2>2, <3>1
    <3>2. CASE mWriteSegment # 0
      BY <1>3, <1>6, <1>7, <2>2, <3>2, SizeAssumption DEF CursorFacts
    <3> QED
      BY <3>1, <3>2
  <2>4. /\ Len(mBuffer) = 1 => mReadLimit' = mWriteCursor + wGot
        /\ Len(mBuffer) > 1 => mReadLimit' = mReadLimit
    BY <1>3, <1>6 DEF CursorFacts
  <2> QED
    BY <1>1, <1>4, <1>7, <2>1, <2>2, <2>3, <2>4, SizeAssumption DEF BufferInv
<1>10. NoMissedWakeup'
  BY <1>1, <1>2 DEF NoMissedWakeup
<1>11. WritableIsRoom'
  <2>1. BufferFull' = BufferFull /\ mStatus' = mStatus
    BY <1>1 DEF BufferFull
  <2>2. mWriteCursor # mWriteLimit
    BY <1>4, <1>7, SizeAssumption
  <2>3. mStatus = OK => mWritable = TRUE
    BY <2>2 DEF IInv, TypeOK, StreamType, WritableIsRoom
  <2>4. mStatus = OK => (mWritable' <=> ~(mWriteCursor + wGot = mWriteLimit /\ BufferFull))
    BY <1>1, <2>3
  <2>5. mWriteCursor' = mWriteCursor + wGot /\ mWriteLimit' = mWriteLimit
    BY <1>1
  <2> QED
    BY <2>1, <2>4, <2>5 DEF WritableIsRoom
<1>12. AvailableIsBuffered'
  <2>1. mAvailable \in Nat /\ mAvailable = Buffered /\ mReadCursor # Null
    BY <1>7 DEF IInv, TypeOK, StreamType, AvailableIsBuffered, Null
  <2>2. CASE mWriteSegment = 0
    BY <1>1, <1>4, <1>7, <2>1, <2>2 DEF AvailableIsBuffered, Buffered
  <2>3. CASE mWriteSegment > 0
    <3> DEFINE P == SegmentSize * (mWriteSegment - 1)
    <3>1. P \in Nat
      BY <1>7, <2>3, Times, SizeAssumption
    <3>2. mAvailable = SegmentSize - mReadCursor + P + mWriteCursor
      BY <2>1, <2>3 DEF Buffered
    <3>3. Buffered' = SegmentSize - mReadCursor + P + (mWriteCursor + wGot)
      BY <1>1, <2>1, <2>3 DEF Buffered
    <3>4. mAvailable + wGot = Buffered'
      <4> HIDE DEF P
      <4> QED
        BY <1>4, <1>7, <3>1, <3>2, <3>3, SizeAssumption
    <3> QED
      BY <1>1, <3>4 DEF AvailableIsBuffered
  <2> QED
    BY <1>7, <2>2, <2>3
<1> QED
  BY <1>8, <1>9, <1>10, <1>11, <1>12

\* A pending notify becomes a callback, whatever closes the pipe.
LEMMA ExceptionAnswersOnce ==
    ASSUME IInv, NEW reason \in Reasons, NEW outputOnly \in BOOLEAN,
           OnPipeException(reason, outputOnly), UNCHANGED <<rPc, wPc>>
    PROVE  OneCallback'
<1>1. /\ OneCallback /\ inNotify \in BOOLEAN /\ inEvent \in BOOLEAN
      /\ outNotify \in BOOLEAN /\ outEvent \in BOOLEAN
  BY DEF IInv, TypeOK, StreamType
<1>2. \/ UNCHANGED <<inNotify, inEvent>>
      \/ inNotify' = FALSE /\ inEvent' = (inEvent \/ inNotify)
  BY DEF OnPipeException, InputReady
<1>3. \/ UNCHANGED <<outNotify, outEvent>>
      \/ outNotify' = FALSE /\ outEvent' = (outEvent \/ outNotify)
  BY DEF OnPipeException, OutputReady
<1>4. rPc' = rPc /\ wPc' = wPc
  OBVIOUS
<1>5. ((rPc = "asyncWait") <=> inNotify \/ inEvent)' /\ ~(inNotify /\ inEvent)'
  BY <1>1, <1>2, <1>4 DEF OneCallback
<1>6. ((wPc = "asyncWait") <=> outNotify \/ outEvent)' /\ ~(outNotify /\ outEvent)'
  BY <1>1, <1>3, <1>4 DEF OneCallback
<1> QED
  BY <1>5, <1>6 DEF OneCallback

------------------------------------------------------------------------------
(* The invariant holds.                                                     *)

\* The pipe nsPipe::Init leaves satisfies the invariant.
LEMMA InitInv == Init => IInv
<1> SUFFICES ASSUME Init PROVE IInv
  OBVIOUS
<1> USE SizeAssumption DEF Init
<1>1. TypeOK
  <2>1. HeapType /\ BufferType
    BY DEF HeapType, BufferType, Cursors, Null
  <2>2. StreamType
    BY DEF StreamType
  <2>3. ReaderType /\ WriterType
    BY DEF ReaderType, WriterType, Pcs, Results, Null
  <2> QED
    BY <2>1, <2>2, <2>3 DEF TypeOK
<1>2. BufferInv
  BY DEF BufferInv
<1>3. ReaderInv /\ WriterInv /\ WaitInv
  BY DEF ReaderInv, WriterInv, WaitInv
<1>4. AvailableIsBuffered /\ NoMissedWakeup /\ WritableIsRoom /\ OneCallback
  BY DEF AvailableIsBuffered, Buffered, NoMissedWakeup, WritableIsRoom, OneCallback, BufferFull, Null
<1> QED
  BY <1>1, <1>2, <1>3, <1>4 DEF IInv

\* Every step of either client, of a callback, of a close and of an interrupt
\* keeps the invariant.
LEMMA StepInv == IInv /\ [Next]_vars => IInv'
<1> SUFFICES ASSUME IInv, [Next]_vars PROVE IInv'
  OBVIOUS
<1> USE DEF IInv, segments, buffer, input, output, reader, writer
<1>1. CASE \E n \in 1..MaxCount : ReadSegments(n)
  <2>1. HeapType' /\ BufferType' /\ BufferInv' /\ StreamType' /\ WriterType' /\
        WriterInv' /\ AvailableIsBuffered' /\ NoMissedWakeup' /\ WritableIsRoom'
      BY <1>1, Frame DEF ReadSegments
  <2>2. ReaderType'
    BY <1>1 DEF ReadSegments, TypeOK, ReaderType, Pcs, Results, OK, Null
  <2>3. ReaderInv'
    BY <1>1 DEF ReadSegments, ReaderInv
  <2>4. WaitInv'
    BY <1>1 DEF ReadSegments, WaitInv
  <2>5. OneCallback'
    BY <1>1 DEF ReadSegments, OneCallback
  <2> QED BY <2>1, <2>2, <2>3, <2>4, <2>5 DEF TypeOK, HeapType
<1>2. CASE \E n \in 1..MaxCount : CopyFromSegment(n)
  <2>1. HeapType' /\ BufferType' /\ BufferInv' /\ StreamType' /\ WriterType' /\
        WriterInv' /\ AvailableIsBuffered' /\ NoMissedWakeup' /\ WritableIsRoom'
      BY <1>2, Frame DEF CopyFromSegment
  <2>2. ReaderType'
    BY <1>2, CopyFromSegmentTyped
  <2>3. ReaderInv'
    BY <1>2, SizeAssumption DEF CopyFromSegment, TypeOK, BufferType, ReaderType, BufferInv,
        ReaderInv, Null, Cursors
  <2>4. WaitInv'
    BY <1>2 DEF CopyFromSegment, WaitInv
  <2>5. OneCallback'
    BY <1>2 DEF CopyFromSegment, OneCallback
  <2> QED BY <2>1, <2>2, <2>3, <2>4, <2>5 DEF TypeOK, HeapType
<1>3. CASE GetReadSegment
  <2>1. HeapType' /\ BufferType' /\ BufferInv' /\ StreamType' /\ WriterType' /\
        WriterInv' /\ AvailableIsBuffered' /\ NoMissedWakeup' /\ WritableIsRoom'
      BY <1>3, Frame DEF GetReadSegment, HoldReadable
  <2>2. ReaderType'
    BY <1>3, GetReadSegmentTyped
  <2>3. ReaderInv'
    BY <1>3, SizeAssumption DEF GetReadSegment, HoldReadable, TypeOK, BufferType,
        ReaderType, BufferInv, ReaderInv, Null, Cursors
  <2>4. WaitInv'
    BY <1>3 DEF GetReadSegment, HoldReadable, WaitInv
  <2>5. OneCallback'
    BY <1>3 DEF GetReadSegment, HoldReadable, OneCallback
  <2> QED BY <2>1, <2>2, <2>3, <2>4, <2>5 DEF TypeOK, HeapType
<1>4. CASE GetReadSegmentFails
  <2>1. HeapType' /\ BufferType' /\ BufferInv' /\ StreamType' /\ WriterType' /\
        WriterInv' /\ AvailableIsBuffered' /\ NoMissedWakeup' /\ WritableIsRoom'
      BY <1>4, Frame DEF GetReadSegmentFails, ReadReturns, ReaderGoesTo
  <2>2. ReaderType'
    BY <1>4, SizeAssumption DEF GetReadSegmentFails, ReadReturns, ReaderGoesTo, TypeOK,
        BufferType, StreamType, ReaderType, BufferInv, ReaderInv, Pcs, Results, OK, Null,
        Cursors
  <2>3. ReaderInv'
    BY <1>4, SizeAssumption DEF GetReadSegmentFails, ReadReturns, ReaderGoesTo, TypeOK,
        ReaderType, ReaderInv
  <2>4. WaitInv'
    BY <1>4 DEF GetReadSegmentFails, ReadReturns, ReaderGoesTo, WaitInv
  <2>5. OneCallback'
    BY <1>4 DEF GetReadSegmentFails, ReadReturns, ReaderGoesTo, OneCallback
  <2> QED BY <2>1, <2>2, <2>3, <2>4, <2>5 DEF TypeOK, HeapType
<1>5. CASE InputWaitBlocks
  <2>1. HeapType' /\ BufferType' /\ BufferInv' /\ WriterType' /\ WriterInv' /\
        AvailableIsBuffered'
      BY <1>5, Frame DEF InputWaitBlocks, ReaderGoesTo
  <2>2. StreamType'
    BY <1>5 DEF InputWaitBlocks, ReaderGoesTo, TypeOK, StreamType
  <2>3. ReaderType'
    BY <1>5 DEF InputWaitBlocks, ReaderGoesTo, TypeOK, ReaderType, Pcs, Results, OK, Null
  <2>4. ReaderInv'
    BY <1>5 DEF InputWaitBlocks, ReaderGoesTo, ReaderInv
  <2>5. WaitInv'
    BY <1>5 DEF InputWaitBlocks, ReaderGoesTo, WaitInv
  <2>6. NoMissedWakeup'
    BY <1>5, SizeAssumption DEF InputWaitBlocks, ReaderGoesTo, NoMissedWakeup, BufferFull
  <2>7. WritableIsRoom'
    BY <1>5 DEF InputWaitBlocks, ReaderGoesTo, WritableIsRoom, BufferFull
  <2>8. OneCallback'
    BY <1>5 DEF InputWaitBlocks, ReaderGoesTo, OneCallback
  <2> QED BY <2>1, <2>2, <2>3, <2>4, <2>5, <2>6, <2>7, <2>8 DEF TypeOK, HeapType
<1>6. CASE InputWaitReturns
  <2>1. HeapType' /\ BufferType' /\ BufferInv' /\ WriterType' /\ WriterInv' /\
        AvailableIsBuffered' /\ NoMissedWakeup' /\ WritableIsRoom'
      BY <1>6, Frame DEF InputWaitReturns, ReaderGoesTo, ReadReturns
  <2>2. StreamType'
    BY <1>6 DEF InputWaitReturns, ReaderGoesTo, ReadReturns, TypeOK, StreamType
  <2>3. ReaderType'
    BY <1>6, InputWaitReturnsTyped
  <2>4. ReaderInv'
    BY <1>6, SizeAssumption DEF InputWaitReturns, ReaderGoesTo, ReadReturns, TypeOK,
        ReaderType, ReaderInv
  <2>5. WaitInv'
    BY <1>6 DEF InputWaitReturns, ReaderGoesTo, ReadReturns, WaitInv
  <2>6. OneCallback'
    BY <1>6 DEF InputWaitReturns, ReaderGoesTo, ReadReturns, OneCallback
  <2> QED BY <2>1, <2>2, <2>3, <2>4, <2>5, <2>6 DEF TypeOK, HeapType
<1>7. CASE ReaderRefuses
  <2>1. HeapType' /\ BufferType' /\ BufferInv' /\ StreamType' /\ WriterType' /\
        WriterInv' /\ AvailableIsBuffered' /\ NoMissedWakeup' /\ WritableIsRoom'
      BY <1>7, Frame DEF ReaderRefuses, ReadReturns
  <2>2. ReaderType'
    BY <1>7, SizeAssumption DEF ReaderRefuses, ReadReturns, TypeOK, BufferType, StreamType,
        ReaderType, BufferInv, ReaderInv, Pcs, Results, OK, Null, Cursors
  <2>3. ReaderInv'
    BY <1>7, SizeAssumption DEF ReaderRefuses, ReadReturns, TypeOK, ReaderType, ReaderInv
  <2>4. WaitInv'
    BY <1>7 DEF ReaderRefuses, ReadReturns, WaitInv
  <2>5. OneCallback'
    BY <1>7 DEF ReaderRefuses, ReadReturns, OneCallback
  <2> QED BY <2>1, <2>2, <2>3, <2>4, <2>5 DEF TypeOK, HeapType
<1>8. CASE AdvanceWithinSegment
  <2>1. HeapType' /\ WriterType' /\ WriterInv'
      BY <1>8, Frame DEF AdvanceWithinSegment, AfterAdvanceRead, ReadReturns
  <2>2. BufferType'
    BY <1>8, SizeAssumption DEF AdvanceWithinSegment, AfterAdvanceRead, ReadReturns, TypeOK,
        BufferType, ReaderType, WriterType, BufferInv, ReaderInv, WriterInv, Null, Cursors
  <2>3. BufferInv'
    BY <1>8, SizeAssumption DEF AdvanceWithinSegment, AfterAdvanceRead, ReadReturns, TypeOK,
        BufferType, ReaderType, WriterType, BufferInv, ReaderInv, WriterInv, Null, Cursors,
        BufferFull
  <2>4. StreamType'
    BY <1>8, AdvanceWithinSegmentCounts
  <2>5. ReaderType'
    BY <1>8, SizeAssumption DEF AdvanceWithinSegment, AfterAdvanceRead, ReadReturns, TypeOK,
        BufferType, StreamType, ReaderType, BufferInv, ReaderInv, Pcs, Results, OK, Null,
        Cursors
  <2>6. ReaderInv'
    BY <1>8, SizeAssumption DEF AdvanceWithinSegment, AfterAdvanceRead, ReadReturns, TypeOK,
        ReaderType, ReaderInv
  <2>7. WaitInv'
    BY <1>8 DEF AdvanceWithinSegment, AfterAdvanceRead, ReadReturns, WaitInv
  <2>8. AvailableIsBuffered'
    BY <1>8, AdvanceWithinSegmentCounts
  <2>9. NoMissedWakeup'
    BY <1>8, SizeAssumption DEF AdvanceWithinSegment, AfterAdvanceRead, ReadReturns, TypeOK,
        StreamType, WaitInv, OneCallback, NoMissedWakeup, BufferFull
  <2>10. WritableIsRoom'
    BY <1>8 DEF AdvanceWithinSegment, AfterAdvanceRead, ReadReturns, WritableIsRoom,
        BufferFull
  <2>11. OneCallback'
    BY <1>8 DEF AdvanceWithinSegment, AfterAdvanceRead, ReadReturns, OneCallback
  <2> QED BY <2>1, <2>2, <2>3, <2>4, <2>5, <2>6, <2>7, <2>8, <2>9, <2>10, <2>11 DEF TypeOK, HeapType
<1>9. CASE DeleteFirstSegment
  <2>1. HeapType'
    BY <1>9, SizeAssumption DEF DeleteFirstSegment, AfterAdvanceRead, ReadReturns,
        OutputReady, MonitorNotify, WriterToWake, TypeOK, HeapType, WriterInv, WriterType,
        BufferType, BufferInv, Offsets, Null, Cursors
  <2>2. BufferType'
    BY <1>9, DeleteFirstSegmentKeepsBuffer
  <2>3. BufferInv'
    BY <1>9, DeleteFirstSegmentKeepsBuffer
  <2>4. StreamType'
    BY <1>9, DeleteFirstSegmentTyped
  <2>5. ReaderType'
    BY <1>9, DeleteFirstSegmentTyped
  <2>6. ReaderInv'
    BY <1>9, SizeAssumption DEF DeleteFirstSegment, AfterAdvanceRead, ReadReturns,
        OutputReady, MonitorNotify, WriterToWake, TypeOK, ReaderType, ReaderInv
  <2>7. WriterType'
    BY <1>9 DEF DeleteFirstSegment, AfterAdvanceRead, ReadReturns, OutputReady,
        MonitorNotify, WriterToWake, TypeOK, WriterType, Pcs, Results, OK, Null
  <2>8. WriterInv'
    BY <1>9, DeleteFirstSegmentSparesWriter
  <2>9. WaitInv'
    BY <1>9 DEF DeleteFirstSegment, AfterAdvanceRead, ReadReturns, OutputReady,
        MonitorNotify, WriterToWake, WaitInv
  <2>10. AvailableIsBuffered'
    BY <1>9, DeleteFirstSegmentCounts
  <2>11. NoMissedWakeup'
    BY <1>9, DeleteFirstSegmentWakes
  <2>12. WritableIsRoom'
    BY <1>9, DeleteFirstSegmentWakes
  <2>13. OneCallback'
    BY <1>9 DEF DeleteFirstSegment, AfterAdvanceRead, ReadReturns, OutputReady,
        MonitorNotify, WriterToWake, OneCallback
  <2> QED BY <2>1, <2>2, <2>3, <2>4, <2>5, <2>6, <2>7, <2>8, <2>9, <2>10, <2>11, <2>12, <2>13 DEF TypeOK, HeapType
<1>10. CASE InputAsyncWait
  <2>1. HeapType' /\ BufferType' /\ BufferInv' /\ WriterType' /\ WriterInv' /\
        AvailableIsBuffered'
      BY <1>10, Frame DEF InputAsyncWait, ReaderGoesTo
  <2>2. StreamType'
    BY <1>10 DEF InputAsyncWait, ReaderGoesTo, TypeOK, StreamType
  <2>3. ReaderType'
    BY <1>10 DEF InputAsyncWait, ReaderGoesTo, TypeOK, ReaderType, Pcs, Results, OK, Null
  <2>4. ReaderInv'
    BY <1>10 DEF InputAsyncWait, ReaderGoesTo, ReaderInv
  <2>5. WaitInv'
    BY <1>10 DEF InputAsyncWait, ReaderGoesTo, WaitInv
  <2>6. NoMissedWakeup'
    BY <1>10, SizeAssumption DEF InputAsyncWait, ReaderGoesTo, NoMissedWakeup, BufferFull
  <2>7. WritableIsRoom'
    BY <1>10 DEF InputAsyncWait, ReaderGoesTo, WritableIsRoom, BufferFull
  <2>8. OneCallback'
    BY <1>10 DEF InputAsyncWait, ReaderGoesTo, OneCallback
  <2> QED BY <2>1, <2>2, <2>3, <2>4, <2>5, <2>6, <2>7, <2>8 DEF TypeOK, HeapType
<1>11. CASE OnInputStreamReady
  <2>1. HeapType' /\ BufferType' /\ BufferInv' /\ WriterType' /\ WriterInv' /\
        AvailableIsBuffered' /\ NoMissedWakeup' /\ WritableIsRoom'
      BY <1>11, Frame DEF OnInputStreamReady, ReadReturns
  <2>2. StreamType'
    BY <1>11 DEF OnInputStreamReady, ReadReturns, TypeOK, StreamType
  <2>3. ReaderType'
    BY <1>11, SizeAssumption DEF OnInputStreamReady, ReadReturns, TypeOK, BufferType,
        StreamType, ReaderType, BufferInv, ReaderInv, Pcs, Results, OK, Null, Cursors
  <2>4. ReaderInv'
    BY <1>11, SizeAssumption DEF OnInputStreamReady, ReadReturns, TypeOK, ReaderType,
        ReaderInv
  <2>5. WaitInv'
    BY <1>11, SizeAssumption DEF OnInputStreamReady, ReadReturns, WaitInv, OneCallback
  <2>6. OneCallback'
    BY <1>11 DEF OnInputStreamReady, ReadReturns, OneCallback
  <2> QED BY <2>1, <2>2, <2>3, <2>4, <2>5, <2>6 DEF TypeOK, HeapType
<1>12. CASE \E n \in 1..MaxCount : WriteSegments(n)
  <2>1. HeapType' /\ BufferType' /\ BufferInv' /\ StreamType' /\ ReaderType' /\
        ReaderInv' /\ AvailableIsBuffered' /\ NoMissedWakeup' /\ WritableIsRoom'
      BY <1>12, Frame DEF WriteSegments
  <2>2. WriterType'
    BY <1>12 DEF WriteSegments, TypeOK, WriterType, Pcs, Results, OK, Null
  <2>3. WriterInv'
    BY <1>12 DEF WriteSegments, WriterInv
  <2>4. WaitInv'
    BY <1>12 DEF WriteSegments, WaitInv
  <2>5. OneCallback'
    BY <1>12 DEF WriteSegments, OneCallback
  <2> QED BY <2>1, <2>2, <2>3, <2>4, <2>5 DEF TypeOK, HeapType
<1>13. CASE \E n \in 1..MaxCount : CopyToSegment(n)
  <2>1. BufferType' /\ BufferInv' /\ StreamType' /\ ReaderType' /\ ReaderInv' /\
        AvailableIsBuffered' /\ NoMissedWakeup' /\ WritableIsRoom'
      BY <1>13, Frame DEF CopyToSegment
  <2>2. HeapType'
    BY <1>13, SizeAssumption DEF CopyToSegment, TypeOK, HeapType, WriterInv, WriterType,
        BufferType, BufferInv, Offsets, Null, Cursors
  <2>3. WriterType'
    BY <1>13, SizeAssumption DEF CopyToSegment, TypeOK, BufferType, StreamType, WriterType,
        BufferInv, WriterInv, Pcs, Results, OK, Null, Cursors, Reasons
  <2>4. WriterInv'
    BY <1>13, SizeAssumption DEF CopyToSegment, TypeOK, BufferType, WriterType, BufferInv,
        WriterInv, Null, Cursors
  <2>5. WaitInv'
    BY <1>13 DEF CopyToSegment, WaitInv
  <2>6. OneCallback'
    BY <1>13 DEF CopyToSegment, OneCallback
  <2> QED BY <2>1, <2>2, <2>3, <2>4, <2>5, <2>6 DEF TypeOK, HeapType
<1>14. CASE GetWriteSegmentFails
  <2>1. HeapType' /\ BufferType' /\ BufferInv' /\ ReaderType' /\ ReaderInv' /\
        AvailableIsBuffered'
      BY <1>14, Frame DEF GetWriteSegmentFails, OnPipeException, WriteReturns
  <2>2. StreamType'
    BY <1>14 DEF GetWriteSegmentFails, OnPipeException, WriteReturns, TypeOK, StreamType
  <2>3. WriterType'
    BY <1>14, SizeAssumption DEF GetWriteSegmentFails, OnPipeException, WriteReturns,
        TypeOK, StreamType, WriterType, Pcs, Results, OK, Null, Reasons
  <2>4. WriterInv'
    BY <1>14, SizeAssumption DEF GetWriteSegmentFails, OnPipeException, WriteReturns,
        TypeOK, WriterType, WriterInv
  <2>5. WaitInv'
    BY <1>14 DEF GetWriteSegmentFails, OnPipeException, WriteReturns, WaitInv
  <2>6. NoMissedWakeup'
    BY <1>14, GetWriteSegmentFailsQuietly
  <2>7. WritableIsRoom'
    BY <1>14 DEF GetWriteSegmentFails, OnPipeException, WriteReturns, WritableIsRoom,
        BufferFull
  <2>8. OneCallback'
    BY <1>14, GetWriteSegmentFailsQuietly
  <2> QED BY <2>1, <2>2, <2>3, <2>4, <2>5, <2>6, <2>7, <2>8 DEF TypeOK, HeapType
<1>15. CASE GetWriteSegmentFull
  <2>1. HeapType' /\ BufferType' /\ BufferInv' /\ StreamType' /\ ReaderType' /\
        ReaderInv' /\ AvailableIsBuffered' /\ NoMissedWakeup' /\ WritableIsRoom'
      BY <1>15, Frame DEF GetWriteSegmentFull, WriterGoesTo, WriteReturns
  <2>2. WriterType'
    BY <1>15, SizeAssumption DEF GetWriteSegmentFull, WriterGoesTo, WriteReturns, TypeOK,
        StreamType, WriterType, Pcs, Results, OK, Null, Reasons
  <2>3. WriterInv'
    BY <1>15, SizeAssumption DEF GetWriteSegmentFull, WriterGoesTo, WriteReturns, TypeOK,
        WriterType, WriterInv
  <2>4. WaitInv'
    BY <1>15 DEF GetWriteSegmentFull, WriterGoesTo, WriteReturns, WaitInv
  <2>5. OneCallback'
    BY <1>15 DEF GetWriteSegmentFull, WriterGoesTo, WriteReturns, OneCallback
  <2> QED BY <2>1, <2>2, <2>3, <2>4, <2>5 DEF TypeOK, HeapType
<1>16. CASE GetCurrentSegment
  <2>1. HeapType' /\ StreamType'
      BY <1>16, Frame DEF GetCurrentSegment, HandOut, HoldRoom
  <2>2. BufferType'
    BY <1>16, SizeAssumption DEF GetCurrentSegment, HandOut, HoldRoom, TypeOK, BufferType,
        BufferInv, ReaderInv, WriterInv, Null, Cursors
  <2>3. BufferInv'
    BY <1>16, SizeAssumption DEF GetCurrentSegment, HandOut, HoldRoom, TypeOK, BufferType,
        BufferInv, Cursors, Null
  <2>4. ReaderType'
    BY <1>16 DEF GetCurrentSegment, HandOut, HoldRoom, TypeOK, ReaderType, Pcs, Results, OK,
        Null
  <2>5. ReaderInv'
    BY <1>16, GetCurrentSegmentRollsBack
  <2>6. WriterType'
    BY <1>16, GetCurrentSegmentTyped
  <2>7. WriterInv'
    BY <1>16, SizeAssumption DEF GetCurrentSegment, HandOut, HoldRoom, TypeOK, BufferType,
        WriterType, BufferInv, WriterInv, Null, Cursors
  <2>8. WaitInv'
    BY <1>16 DEF GetCurrentSegment, HandOut, HoldRoom, WaitInv
  <2>9. AvailableIsBuffered'
    BY <1>16, GetCurrentSegmentRollsBack
  <2>10. NoMissedWakeup'
    BY <1>16 DEF GetCurrentSegment, HandOut, HoldRoom, NoMissedWakeup
  <2>11. WritableIsRoom'
    BY <1>16, GetCurrentSegmentRollsBack
  <2>12. OneCallback'
    BY <1>16 DEF GetCurrentSegment, HandOut, HoldRoom, OneCallback
  <2> QED BY <2>1, <2>2, <2>3, <2>4, <2>5, <2>6, <2>7, <2>8, <2>9, <2>10, <2>11, <2>12 DEF TypeOK, HeapType
<1>17. CASE AppendNewSegment
  <2>1. HeapType' /\ StreamType'
      BY <1>17, Frame DEF AppendNewSegment, HandOut, HoldRoom, InUse
  <2>2. BufferType'
    BY <1>17, SizeAssumption DEF AppendNewSegment, HandOut, HoldRoom, InUse, TypeOK,
        BufferType, BufferInv, ReaderInv, WriterInv, Null, Cursors
  <2>3. BufferInv'
    BY <1>17, AppendNewSegmentKeepsBytes
  <2>4. ReaderType'
    BY <1>17 DEF AppendNewSegment, HandOut, HoldRoom, InUse, TypeOK, ReaderType, Pcs,
        Results, OK, Null
  <2>5. ReaderInv'
    BY <1>17, AppendNewSegmentKeepsBytes
  <2>6. WriterType'
    BY <1>17, SizeAssumption DEF AppendNewSegment, HandOut, HoldRoom, InUse, TypeOK,
        StreamType, WriterType, Pcs, Results, OK, Null, Reasons
  <2>7. WriterInv'
    BY <1>17, SizeAssumption DEF AppendNewSegment, HandOut, HoldRoom, InUse, TypeOK,
        WriterType, WriterInv
  <2>8. WaitInv'
    BY <1>17 DEF AppendNewSegment, HandOut, HoldRoom, InUse, WaitInv
  <2>9. AvailableIsBuffered'
    BY <1>17, AppendNewSegmentKeepsBytes
  <2>10. NoMissedWakeup'
    BY <1>17 DEF AppendNewSegment, HandOut, HoldRoom, InUse, NoMissedWakeup
  <2>11. WritableIsRoom'
    BY <1>17, SizeAssumption DEF AppendNewSegment, HandOut, HoldRoom, InUse, TypeOK,
        StreamType, WritableIsRoom, BufferFull, OK, Reasons
  <2>12. OneCallback'
    BY <1>17 DEF AppendNewSegment, HandOut, HoldRoom, InUse, OneCallback
  <2> QED BY <2>1, <2>2, <2>3, <2>4, <2>5, <2>6, <2>7, <2>8, <2>9, <2>10, <2>11, <2>12 DEF TypeOK, HeapType
<1>18. CASE OutputWaitBlocks
  <2>1. HeapType' /\ BufferType' /\ BufferInv' /\ ReaderType' /\ ReaderInv' /\
        AvailableIsBuffered'
      BY <1>18, Frame DEF OutputWaitBlocks, WriterGoesTo
  <2>2. StreamType'
    BY <1>18 DEF OutputWaitBlocks, WriterGoesTo, TypeOK, StreamType
  <2>3. WriterType'
    BY <1>18 DEF OutputWaitBlocks, WriterGoesTo, TypeOK, WriterType, Pcs, Results, OK, Null
  <2>4. WriterInv'
    BY <1>18 DEF OutputWaitBlocks, WriterGoesTo, WriterInv
  <2>5. WaitInv'
    BY <1>18 DEF OutputWaitBlocks, WriterGoesTo, WaitInv
  <2>6. NoMissedWakeup'
    BY <1>18, SizeAssumption DEF OutputWaitBlocks, WriterGoesTo, TypeOK, StreamType,
        WaitInv, OneCallback, NoMissedWakeup, WritableIsRoom, BufferFull, OK, Reasons
  <2>7. WritableIsRoom'
    BY <1>18 DEF OutputWaitBlocks, WriterGoesTo, WritableIsRoom, BufferFull
  <2>8. OneCallback'
    BY <1>18 DEF OutputWaitBlocks, WriterGoesTo, OneCallback
  <2> QED BY <2>1, <2>2, <2>3, <2>4, <2>5, <2>6, <2>7, <2>8 DEF TypeOK, HeapType
<1>19. CASE OutputWaitReturns
  <2>1. HeapType' /\ BufferType' /\ BufferInv' /\ ReaderType' /\ ReaderInv' /\
        AvailableIsBuffered' /\ NoMissedWakeup' /\ WritableIsRoom'
      BY <1>19, Frame DEF OutputWaitReturns, WriterGoesTo, WriteReturns
  <2>2. StreamType'
    BY <1>19 DEF OutputWaitReturns, WriterGoesTo, WriteReturns, TypeOK, StreamType
  <2>3. WriterType'
    BY <1>19, SizeAssumption DEF OutputWaitReturns, WriterGoesTo, WriteReturns, TypeOK,
        StreamType, WriterType, Pcs, Results, OK, Null, Reasons
  <2>4. WriterInv'
    BY <1>19, SizeAssumption DEF OutputWaitReturns, WriterGoesTo, WriteReturns, TypeOK,
        WriterType, WriterInv
  <2>5. WaitInv'
    BY <1>19 DEF OutputWaitReturns, WriterGoesTo, WriteReturns, WaitInv
  <2>6. OneCallback'
    BY <1>19 DEF OutputWaitReturns, WriterGoesTo, WriteReturns, OneCallback
  <2> QED BY <2>1, <2>2, <2>3, <2>4, <2>5, <2>6 DEF TypeOK, HeapType
<1>20. CASE WriterRefuses
  <2>1. HeapType' /\ BufferType' /\ BufferInv' /\ StreamType' /\ ReaderType' /\
        ReaderInv' /\ AvailableIsBuffered' /\ NoMissedWakeup' /\ WritableIsRoom'
      BY <1>20, Frame DEF WriterRefuses, WriteReturns
  <2>2. WriterType'
    BY <1>20, SizeAssumption DEF WriterRefuses, WriteReturns, TypeOK, StreamType,
        WriterType, Pcs, Results, OK, Null, Reasons
  <2>3. WriterInv'
    BY <1>20, SizeAssumption DEF WriterRefuses, WriteReturns, TypeOK, WriterType, WriterInv
  <2>4. WaitInv'
    BY <1>20 DEF WriterRefuses, WriteReturns, WaitInv
  <2>5. OneCallback'
    BY <1>20 DEF WriterRefuses, WriteReturns, OneCallback
  <2> QED BY <2>1, <2>2, <2>3, <2>4, <2>5 DEF TypeOK, HeapType
<1>21. CASE AdvanceWriteCursor
  <2>1. HeapType'
      BY <1>21, Frame DEF AdvanceWriteCursor, AfterAdvanceWrite, WriteReturns, InputReady, MonitorNotify, ReaderToWake
  <2>2. BufferType'
    BY <1>21, SizeAssumption DEF AdvanceWriteCursor, AfterAdvanceWrite, WriteReturns,
        InputReady, MonitorNotify, ReaderToWake, TypeOK, BufferType, ReaderType, WriterType,
        BufferInv, ReaderInv, WriterInv, Null, Cursors
  <2>3. BufferInv'
    BY <1>21, AdvanceWriteCursorCommits
  <2>4. StreamType'
    BY <1>21, AdvanceWriteCursorCommits
  <2>5. ReaderType'
    BY <1>21 DEF AdvanceWriteCursor, AfterAdvanceWrite, WriteReturns, InputReady,
        MonitorNotify, ReaderToWake, TypeOK, ReaderType, Pcs, Results, OK, Null
  <2>6. ReaderInv'
    BY <1>21, SizeAssumption DEF AdvanceWriteCursor, AfterAdvanceWrite, WriteReturns,
        InputReady, MonitorNotify, ReaderToWake, TypeOK, BufferType, ReaderType, WriterType,
        BufferInv, ReaderInv, Null, Cursors, OneCallback
  <2>7. WriterType'
    BY <1>21, SizeAssumption DEF AdvanceWriteCursor, AfterAdvanceWrite, WriteReturns,
        InputReady, MonitorNotify, ReaderToWake, TypeOK, StreamType, WriterType, Pcs,
        Results, OK, Null, Reasons
  <2>8. WriterInv'
    BY <1>21, SizeAssumption DEF AdvanceWriteCursor, AfterAdvanceWrite, WriteReturns,
        InputReady, MonitorNotify, ReaderToWake, TypeOK, WriterType, WriterInv
  <2>9. WaitInv'
    BY <1>21 DEF AdvanceWriteCursor, AfterAdvanceWrite, WriteReturns, InputReady,
        MonitorNotify, ReaderToWake, WaitInv
  <2>10. AvailableIsBuffered'
    BY <1>21, AdvanceWriteCursorCommits
  <2>11. NoMissedWakeup'
    BY <1>21, AdvanceWriteCursorCommits
  <2>12. WritableIsRoom'
    BY <1>21, AdvanceWriteCursorCommits
  <2>13. OneCallback'
    BY <1>21 DEF AdvanceWriteCursor, AfterAdvanceWrite, WriteReturns, InputReady,
        MonitorNotify, ReaderToWake, OneCallback
  <2> QED BY <2>1, <2>2, <2>3, <2>4, <2>5, <2>6, <2>7, <2>8, <2>9, <2>10, <2>11, <2>12, <2>13 DEF TypeOK, HeapType
<1>22. CASE OutputAsyncWait
  <2>1. HeapType' /\ BufferType' /\ BufferInv' /\ ReaderType' /\ ReaderInv' /\
        AvailableIsBuffered'
      BY <1>22, Frame DEF OutputAsyncWait, WriterGoesTo
  <2>2. StreamType'
    BY <1>22 DEF OutputAsyncWait, WriterGoesTo, TypeOK, StreamType
  <2>3. WriterType'
    BY <1>22 DEF OutputAsyncWait, WriterGoesTo, TypeOK, WriterType, Pcs, Results, OK, Null
  <2>4. WriterInv'
    BY <1>22 DEF OutputAsyncWait, WriterGoesTo, WriterInv
  <2>5. WaitInv'
    BY <1>22 DEF OutputAsyncWait, WriterGoesTo, WaitInv
  <2>6. NoMissedWakeup'
    BY <1>22, SizeAssumption DEF OutputAsyncWait, WriterGoesTo, TypeOK, StreamType, WaitInv,
        OneCallback, NoMissedWakeup, WritableIsRoom, BufferFull, OK, Reasons
  <2>7. WritableIsRoom'
    BY <1>22 DEF OutputAsyncWait, WriterGoesTo, WritableIsRoom, BufferFull
  <2>8. OneCallback'
    BY <1>22 DEF OutputAsyncWait, WriterGoesTo, OneCallback
  <2> QED BY <2>1, <2>2, <2>3, <2>4, <2>5, <2>6, <2>7, <2>8 DEF TypeOK, HeapType
<1>23. CASE OnOutputStreamReady
  <2>1. HeapType' /\ BufferType' /\ BufferInv' /\ ReaderType' /\ ReaderInv' /\
        AvailableIsBuffered' /\ NoMissedWakeup' /\ WritableIsRoom'
      BY <1>23, Frame DEF OnOutputStreamReady, WriteReturns
  <2>2. StreamType'
    BY <1>23 DEF OnOutputStreamReady, WriteReturns, TypeOK, StreamType
  <2>3. WriterType'
    BY <1>23, SizeAssumption DEF OnOutputStreamReady, WriteReturns, TypeOK, StreamType,
        WriterType, Pcs, Results, OK, Null, Reasons
  <2>4. WriterInv'
    BY <1>23, SizeAssumption DEF OnOutputStreamReady, WriteReturns, TypeOK, WriterType,
        WriterInv
  <2>5. WaitInv'
    BY <1>23, SizeAssumption DEF OnOutputStreamReady, WriteReturns, WaitInv, OneCallback
  <2>6. OneCallback'
    BY <1>23 DEF OnOutputStreamReady, WriteReturns, OneCallback
  <2> QED BY <2>1, <2>2, <2>3, <2>4, <2>5, <2>6 DEF TypeOK, HeapType
<1>24. CASE \E reason \in Reasons : CloseInput(reason)
  <2>1. HeapType' /\ BufferType' /\ BufferInv' /\ ReaderType' /\ ReaderInv' /\
        WriterType' /\ WriterInv' /\ AvailableIsBuffered'
      BY <1>24, Frame DEF CloseInput, OnPipeException, InputReady, OutputReady, MonitorNotify, ReaderToWake, WriterToWake
  <2>2. StreamType'
    BY <1>24 DEF CloseInput, OnPipeException, InputReady, OutputReady, MonitorNotify,
        ReaderToWake, WriterToWake, TypeOK, StreamType
  <2>3. WaitInv'
    BY <1>24 DEF CloseInput, OnPipeException, InputReady, OutputReady, MonitorNotify,
        ReaderToWake, WriterToWake, WaitInv
  <2>4. NoMissedWakeup'
    BY <1>24, SizeAssumption DEF CloseInput, OnPipeException, InputReady, OutputReady,
        MonitorNotify, ReaderToWake, WriterToWake, TypeOK, StreamType, WaitInv, OneCallback,
        NoMissedWakeup, BufferFull
  <2>5. WritableIsRoom'
    BY <1>24, SizeAssumption DEF CloseInput, OnPipeException, InputReady, OutputReady,
        MonitorNotify, ReaderToWake, WriterToWake, TypeOK, StreamType, WritableIsRoom,
        BufferFull, OK, Reasons
  <2>6. OneCallback'
    BY <1>24, ExceptionAnswersOnce DEF CloseInput
  <2> QED BY <2>1, <2>2, <2>3, <2>4, <2>5, <2>6 DEF TypeOK, HeapType
<1>25. CASE \E reason \in Reasons : CloseOutput(reason)
  <2>1. HeapType' /\ BufferType' /\ BufferInv' /\ ReaderType' /\ ReaderInv' /\
        WriterType' /\ WriterInv' /\ AvailableIsBuffered'
      BY <1>25, Frame DEF CloseOutput, OnPipeException, InputReady, OutputReady, MonitorNotify, ReaderToWake, WriterToWake
  <2>2. StreamType'
    BY <1>25 DEF CloseOutput, OnPipeException, InputReady, OutputReady, MonitorNotify,
        ReaderToWake, WriterToWake, TypeOK, StreamType
  <2>3. WaitInv'
    BY <1>25 DEF CloseOutput, OnPipeException, InputReady, OutputReady, MonitorNotify,
        ReaderToWake, WriterToWake, WaitInv
  <2>4. NoMissedWakeup'
    BY <1>25, SizeAssumption DEF CloseOutput, OnPipeException, InputReady, OutputReady,
        MonitorNotify, ReaderToWake, WriterToWake, TypeOK, StreamType, WaitInv, OneCallback,
        NoMissedWakeup, BufferFull
  <2>5. WritableIsRoom'
    BY <1>25, SizeAssumption DEF CloseOutput, OnPipeException, InputReady, OutputReady,
        MonitorNotify, ReaderToWake, WriterToWake, TypeOK, StreamType, WritableIsRoom,
        BufferFull, OK, Reasons
  <2>6. OneCallback'
    BY <1>25, ExceptionAnswersOnce DEF CloseOutput
  <2> QED BY <2>1, <2>2, <2>3, <2>4, <2>5, <2>6 DEF TypeOK, HeapType
<1>26. CASE \E t \in {"R", "W"} : InterruptWait(t)
  <2>1. HeapType' /\ BufferType' /\ BufferInv' /\ ReaderType' /\ ReaderInv' /\
        WriterType' /\ WriterInv' /\ AvailableIsBuffered' /\ OneCallback'
      BY <1>26, Frame DEF InterruptWait
  <2>2. StreamType'
    BY <1>26 DEF InterruptWait, TypeOK, StreamType
  <2>3. WaitInv'
    BY <1>26 DEF InterruptWait, WaitInv
  <2>4. NoMissedWakeup'
    BY <1>26, SizeAssumption DEF InterruptWait, NoMissedWakeup, BufferFull
  <2>5. WritableIsRoom'
    BY <1>26 DEF InterruptWait, WritableIsRoom, BufferFull
  <2> QED BY <2>1, <2>2, <2>3, <2>4, <2>5 DEF TypeOK, HeapType
<1>27. CASE UNCHANGED vars
  <2>1. HeapType' /\ BufferType' /\ BufferInv' /\ StreamType' /\ ReaderType' /\
        ReaderInv' /\ WriterType' /\ WriterInv' /\ WaitInv' /\ AvailableIsBuffered' /\
        NoMissedWakeup' /\ WritableIsRoom' /\ OneCallback'
      BY <1>27, Frame DEF vars
  <2> QED BY <2>1 DEF TypeOK, HeapType
<1> QED
  BY <1>1, <1>2, <1>3, <1>4, <1>5, <1>6, <1>7, <1>8, <1>9, <1>10, <1>11, <1>12, <1>13, <1>14,
     <1>15, <1>16, <1>17, <1>18, <1>19, <1>20, <1>21, <1>22, <1>23, <1>24, <1>25, <1>26, <1>27 DEF Next, ReaderStep, WriterStep

\* The inductive invariant is an invariant of the pipe.
THEOREM Invariance == Spec => []IInv
  BY InitInv, StepInv, PTL DEF Spec

\* Types: cursors stay inside a segment, counts inside what the client asked for.
THEOREM TypeCorrect == Spec => []TypeOK
<1>1. IInv => TypeOK
  BY DEF IInv
<1> QED
  BY <1>1, Invariance, PTL

\* mAvailable, which a blocked reader sleeps on, is what the cursors say, and mWritable, tested by
\* Wait and AsyncWait of the output stream, is exact.
THEOREM CountsAreRight == Spec => []CountsAgree
<1>1. IInv => CountsAgree
  BY DEF IInv, CountsAgree
<1> QED
  BY <1>1, Invariance, PTL

\* No notify of the monitor is lost between the two streams' waits.
THEOREM NobodySleepsOnData == Spec => []NoMissedWakeup
<1>1. IInv => NoMissedWakeup
  BY DEF IInv
<1> QED
  BY <1>1, Invariance, PTL

\* An AsyncWait of either stream gets one callback.
THEOREM AnsweredOnce == Spec => []OneCallback
<1>1. IInv => OneCallback
  BY DEF IInv
<1> QED
  BY <1>1, Invariance, PTL

\* The pointers that clients use outside the monitor stay good, and apart.
THEOREM HeldPointersAreGood == Spec => []HeldMemoryIsLive
<1>1. IInv => HeldMemoryIsLive
  <2> SUFFICES ASSUME IInv PROVE HeldMemoryIsLive
    OBVIOUS
  <2>1. rPc = "copy" => InUse(rSeg)
    BY DEF IInv, ReaderInv, InUse, TypeOK, BufferType
  <2>2. wPc = "copy" => InUse(wSeg) /\ wPos + wLen <= mWriteLimit
    BY DEF IInv, WriterInv, InUse, TypeOK, BufferType
  <2>3. ASSUME rPc = "copy", wPc = "copy", rSeg = wSeg PROVE rPos + rLen <= wPos
    <3>1. Len(mBuffer) = 1
      BY <2>3 DEF IInv, ReaderInv, WriterInv, BufferInv, TypeOK, BufferType
    <3>2. rPos + rLen <= mReadLimit /\ mReadLimit = mWriteCursor /\ wPos = mWriteCursor + wGot
      BY <2>3, <3>1 DEF IInv, ReaderInv, WriterInv, BufferInv
    <3>3. mReadLimit \in Int /\ rPos \in Int /\ rLen \in Int /\ wGot \in Nat
      BY SizeAssumption DEF IInv, TypeOK, BufferType, ReaderType, WriterType, Cursors, Null
    <3> QED
      BY <3>2, <3>3
  <2> QED
    BY <2>1, <2>2, <2>3 DEF HeldMemoryIsLive
<1> QED
  BY <1>1, Invariance, PTL

------------------------------------------------------------------------------
(* The bytes themselves.                                                    *)

\* The position in the stream of offset o of the i-th segment, by the reading end's
\* account of what it has taken.
At(i, o) == rOffset - rGot - mReadCursor + SegmentSize * (i - 1) + o

\* Offset o of the i-th segment holds a byte that was written, committed or not,
\* and not yet taken out of the pipe.
Holds(i, o) ==
    /\ i \in 1..Len(mBuffer) /\ o \in Offsets
    /\ i = 1 => o >= mReadCursor
    /\ i = Len(mBuffer) => o < mWriteCursor + wGot

\* The two ends' accounts of the stream meet at the write cursor, and memory holds
\* the stream between the cursors.
Stored ==
    /\ Len(mBuffer) = 0 => wOffset = rOffset
    /\ Len(mBuffer) > 0 => wOffset = At(Len(mBuffer), mWriteCursor + wGot)
    /\ \A i, o \in Int : Holds(i, o) => heap[mBuffer[i]][o] = At(i, o)

\* Outside its callback a client holds back nothing.
DataInv ==
    /\ rPc \notin {"copy", "advance"} => rGot = 0
    /\ wPc \notin {"copy", "advance"} => wGot = 0
    /\ Stored

\* The numbers of the two ends are integers.
LEMMA DataNumbers ==
    ASSUME IInv
    PROVE  /\ rOffset \in Nat /\ rGot \in Nat /\ wOffset \in Nat /\ wGot \in Nat
           /\ mReadCursor \in Int /\ mWriteCursor \in Int /\ mReadLimit \in Int
           /\ Len(mBuffer) \in Nat /\ mWriteSegment = Len(mBuffer) - 1
    BY SizeAssumption DEF IInv, TypeOK, BufferType, BufferInv, ReaderType, WriterType, Cursors, Null

\* A multiple of the segment size.
LEMMA Multiple == \A n \in Int : SegmentSize * n \in Int
    BY SizeAssumption, SMT

\* A step that touches neither memory nor the accounts keeps them in agreement.
LEMMA StoredFrame ==
    ASSUME Stored, UNCHANGED <<heap, mBuffer, mReadCursor, mWriteCursor, wOffset, rOffset>>,
           wGot' = wGot, rGot' = rGot
    PROVE  Stored'
    BY DEF Stored, At, Holds

\* Bytes that the client has copied out count as taken once the cursor passes them.
LEMMA StoredTaken ==
    ASSUME IInv, Stored, UNCHANGED <<heap, mBuffer, mReadCursor, mWriteCursor, wOffset, wGot>>,
           NEW n \in Nat, rOffset' = rOffset + n, rGot' = rGot + n, Len(mBuffer) > 0
    PROVE  Stored'
<1>1. rOffset' - rGot' = rOffset - rGot
  BY DataNumbers
<1>2. \A i, o \in Int : At(i, o)' = At(i, o) /\ (Holds(i, o)' <=> Holds(i, o))
  BY <1>1 DEF At, Holds
<1>3. At(Len(mBuffer), mWriteCursor + wGot)' = At(Len(mBuffer), mWriteCursor + wGot)
  BY <1>1 DEF At
<1> QED
  BY <1>2, <1>3, DataNumbers, SMTT(30) DEF Stored

\* AdvanceReadCursor inside a segment: what was taken is behind the cursor.
LEMMA StoredAdvanced ==
    ASSUME IInv, Stored, UNCHANGED <<heap, mBuffer, mWriteCursor, wOffset, wGot, rOffset>>,
           mReadCursor' = mReadCursor + rGot, rGot' = 0, Len(mBuffer) > 0
    PROVE  Stored'
<1>1. rOffset' - rGot' - mReadCursor' = rOffset - rGot - mReadCursor
  BY DataNumbers
<1>2. \A i, o \in Int : At(i, o)' = At(i, o) /\ (Holds(i, o)' => Holds(i, o))
  BY <1>1, DataNumbers DEF At, Holds, Offsets
<1>3. At(Len(mBuffer), mWriteCursor + wGot)' = At(Len(mBuffer), mWriteCursor + wGot)
  BY <1>1 DEF At
<1> QED
  BY <1>2, <1>3, DataNumbers DEF Stored

\* AdvanceWriteCursor commits what the client has copied in.
LEMMA StoredCommitted ==
    ASSUME IInv, Stored, UNCHANGED <<heap, mBuffer, mReadCursor, wOffset, rOffset, rGot>>,
           mWriteCursor' = mWriteCursor + wGot, wGot' = 0
    PROVE  Stored'
<1>1. mWriteCursor' + wGot' = mWriteCursor + wGot
  BY DataNumbers
<1>2. \A i, o \in Int : At(i, o)' = At(i, o) /\ (Holds(i, o)' <=> Holds(i, o))
  BY <1>1 DEF At, Holds
<1>3. At(Len(mBuffer), mWriteCursor + wGot)' = At(Len(mBuffer), mWriteCursor + wGot)
  BY <1>1 DEF At
<1> QED
  BY <1>2, <1>3, DataNumbers DEF Stored

\* The callback of the writing client stores the next bytes of the stream where
\* the stream continues, and overwrites none that the reader has yet to take.
LEMMA StoredCopied ==
    ASSUME IInv, Stored, NEW n \in Nat, CopyToSegment(n)
    PROVE  Stored'
<1> DEFINE L == Len(mBuffer)
           fill == mWriteCursor + wGot
           base == rOffset - rGot - mReadCursor
<1>1. /\ wPc = "copy" /\ UNCHANGED <<mBuffer, mReadCursor, mWriteCursor, rOffset, rGot>>
      /\ wOffset' = wOffset + n /\ wGot' = wGot + n
      /\ heap' = [heap EXCEPT ![wSeg] =
                     [o \in Offsets |-> IF o \in wPos..wPos + n - 1
                                        THEN wOffset + (o - wPos) ELSE heap[wSeg][o]]]
  BY DEF CopyToSegment, segments, reader
<1>2. L \in Nat /\ L > 0 /\ wSeg = mBuffer[L] /\ wPos = fill /\ fill \in Nat /\ base \in Int
  BY <1>1, DataNumbers, CursorsAreOrdered, SMTT(30) DEF IInv, WriterInv, CursorFacts
<1>3. wSeg \in Blocks /\ heap \in [Blocks -> [Offsets -> Nat \cup {Null}]]
      /\ \A i \in 1..L : mBuffer[i] \in Blocks /\ (mBuffer[i] = wSeg => i = L)
  BY <1>2 DEF IInv, TypeOK, HeapType, BufferType, BufferInv
<1>4. \A i, o \in Int : At(i, o)' = At(i, o) /\ At(i, o) = base + SegmentSize * (i - 1) + o
  BY <1>1 DEF At
<1>5. wOffset = base + SegmentSize * (L - 1) + fill
  BY <1>2, <1>4 DEF Stored
<1>6. SegmentSize * (L - 1) \in Int
  BY <1>2, Multiple
<1>7. wOffset' = At(L, mWriteCursor + wGot)'
  <2>1. (mWriteCursor + wGot)' = fill + n
    BY <1>1, DataNumbers
  <2>2. At(L, mWriteCursor + wGot)' = base + SegmentSize * (L - 1) + (fill + n)
    BY <1>1, <2>1 DEF At
  <2> HIDE DEF base, fill, L
  <2> QED
    BY <1>1, <1>2, <1>5, <1>6, <2>2
<1>8. ASSUME NEW i \in Int, NEW o \in Int, Holds(i, o)'
      PROVE  heap'[mBuffer'[i]][o] = At(i, o)'
  <2>1. i \in 1..L /\ o \in Offsets /\ (i = 1 => o >= mReadCursor) /\ (i = L => o < fill + n)
    BY <1>1, <1>8, DataNumbers DEF Holds
  <2>2. CASE i # L
    <3>1. Holds(i, o)
      BY <2>1, <2>2 DEF Holds
    <3>2. mBuffer[i] # wSeg /\ mBuffer[i] \in Blocks
      BY <1>3, <2>1, <2>2
    <3> QED
      BY <1>1, <1>3, <1>4, <3>1, <3>2 DEF Stored
  <2>3. CASE i = L /\ o < fill
    <3>1. Holds(i, o)
      BY <2>1, <2>3 DEF Holds
    <3>2. heap'[mBuffer'[i]][o] = heap[mBuffer[i]][o]
      BY <1>1, <1>2, <1>3, <2>1, <2>3
    <3> QED
      BY <1>4, <3>1, <3>2 DEF Stored
  <2>4. CASE i = L /\ o >= fill
    <3>1. o \in fill..fill + n - 1
      BY <1>2, <2>1, <2>4
    <3>2. heap'[mBuffer'[i]][o] = wOffset + (o - fill)
      BY <1>1, <1>2, <1>3, <2>1, <2>4, <3>1
    <3>3. At(i, o)' = base + SegmentSize * (L - 1) + o
      BY <1>4, <2>4
    <3> HIDE DEF base, fill, L
    <3> QED
      BY <1>2, <1>5, <1>6, <3>2, <3>3
  <2> QED
    BY <1>2, <2>1, <2>2, <2>3, <2>4
<1>9. wOffset' = At(Len(mBuffer), mWriteCursor + wGot)'
  <2>1. At(L, mWriteCursor + wGot)' = At(Len(mBuffer), mWriteCursor + wGot)'
    BY <1>1
  <2> QED
    BY <1>7, <2>1
<1>10. \A i, o \in Int : (Holds(i, o) => heap[mBuffer[i]][o] = At(i, o))'
  BY <1>8
<1>11. Len(mBuffer)' # 0
  BY <1>1, <1>2
<1> HIDE DEF L, fill, base
<1> QED
  BY <1>9, <1>10, <1>11 DEF Stored

\* GetWriteSegment in a segment that is not full: an only segment that has been read
\* out is used from its head again.
LEMMA StoredRolledBack ==
    ASSUME IInv, DataInv, GetCurrentSegment
    PROVE  Stored'
<1>1. /\ wPc = "get" /\ mWriteCursor # mWriteLimit /\ UNCHANGED <<heap, mBuffer, mWriteSegment, rOffset, rGot, rPc, wOffset>>
      /\ wGot' = 0
  BY DEF GetCurrentSegment, HandOut, HoldRoom, reader
<1>2. wGot = 0 /\ Len(mBuffer) > 0 /\ mReadCursor # Null
  BY <1>1 DEF DataInv, IInv, BufferInv, TypeOK, BufferType, Null
<1>3. CASE mWriteSegment = 0 /\ mReadCursor = mWriteCursor
  <2>1. mReadCursor' = 0 /\ mWriteCursor' = 0
    BY <1>1, <1>2, <1>3 DEF GetCurrentSegment, HandOut
  <2>2. Len(mBuffer) = 1 /\ mReadCursor = mReadLimit
    BY <1>3, DataNumbers DEF IInv, BufferInv
  <2>3. rGot = 0
    <3>1. rPc \notin {"copy", "advance"}
      BY <2>2, DataNumbers DEF IInv, ReaderInv, TypeOK, ReaderType
    <3> QED
      BY <3>1 DEF DataInv
  <2>4. wOffset = rOffset
    <3>1. wOffset = rOffset - rGot - mReadCursor + SegmentSize * (1 - 1) + (mWriteCursor + wGot)
      BY <2>2 DEF DataInv, Stored, At
    <3>2. SegmentSize * (1 - 1) = 0
      BY Times
    <3> QED
      BY <1>2, <1>3, <2>3, <3>1, <3>2, DataNumbers
  <2>5. wOffset' = At(Len(mBuffer), mWriteCursor + wGot)'
    <3>1. SegmentSize * (1 - 1) = 0
      BY Times
    <3>2. At(Len(mBuffer), mWriteCursor + wGot)' = rOffset - rGot - 0 + SegmentSize * (1 - 1) + (0 + 0)
      BY <1>1, <2>1, <2>2 DEF At
    <3> QED
      BY <1>1, <2>3, <2>4, <3>1, <3>2, DataNumbers
  <2>6. \A i, o \in Int : ~Holds(i, o)'
    BY <1>1, <2>1, <2>2 DEF Holds, Offsets
  <2> QED
    BY <1>1, <1>2, <2>5, <2>6, DataNumbers DEF Stored
<1>4. CASE ~(mWriteSegment = 0 /\ mReadCursor = mWriteCursor)
  <2>1. UNCHANGED <<mReadCursor, mWriteCursor>>
    BY <1>1, <1>2, <1>4 DEF GetCurrentSegment, HandOut
  <2> QED
    BY <1>1, <1>2, <2>1, StoredFrame DEF DataInv
<1> QED
  BY <1>3, <1>4

\* A new segment continues the stream where the last one ends; an empty pipe starts
\* where the reader is.
LEMMA StoredAppended ==
    ASSUME IInv, DataInv, AppendNewSegment
    PROVE  Stored'
<1> DEFINE L == Len(mBuffer)
<1>1. PICK b \in Blocks : /\ mBuffer' = Append(mBuffer, b) /\ mWriteSegment' = mWriteSegment + 1
                          /\ HandOut(b, 0, SegmentSize)
  BY DEF AppendNewSegment
<1>2. /\ wPc = "get" /\ mWriteCursor = mWriteLimit /\ wGot' = 0
      /\ UNCHANGED <<heap, rOffset, rGot, rPc, wOffset>>
  BY DEF AppendNewSegment, HandOut, HoldRoom, reader
<1>3. wGot = 0 /\ L \in Nat /\ mBuffer \in Seq(Blocks)
  BY <1>2, DataNumbers DEF DataInv, IInv, TypeOK, BufferType
<1>4. Len(mBuffer') = L + 1 /\ \A i \in 1..L : mBuffer'[i] = mBuffer[i]
  BY <1>1, <1>3
<1>5. CASE L = 0
  <2>1. mReadCursor' = 0 /\ mWriteCursor' = 0
    BY <1>1, <1>5, DataNumbers DEF HandOut, IInv, BufferInv
  <2>2. wOffset = rOffset /\ rGot = 0
    BY <1>5 DEF DataInv, Stored, IInv, ReaderInv
  <2>3. wOffset' = At(Len(mBuffer), mWriteCursor + wGot)'
    <3>1. SegmentSize * (1 - 1) = 0
      BY Times
    <3>2. At(Len(mBuffer), mWriteCursor + wGot)' = rOffset - rGot - 0 + SegmentSize * (1 - 1) + (0 + 0)
      BY <1>2, <1>4, <1>5, <2>1 DEF At
    <3> QED
      BY <1>2, <2>2, <3>1, <3>2, DataNumbers
  <2>4. \A i, o \in Int : ~Holds(i, o)'
    BY <1>2, <1>4, <1>5, <2>1 DEF Holds, Offsets
  <2>5. Len(mBuffer)' # 0
    BY <1>4, <1>5
  <2> QED
    BY <2>3, <2>4, <2>5 DEF Stored
<1>6. CASE L > 0
  <2> DEFINE base == rOffset - rGot - mReadCursor
  <2>1. mReadCursor' = mReadCursor /\ mWriteCursor' = 0 /\ mWriteCursor = SegmentSize
    BY <1>1, <1>2, <1>3, <1>6, DataNumbers DEF HandOut, IInv, BufferInv, Null
  <2>2. base \in Int
    BY DataNumbers
  <2>3. wOffset' = At(Len(mBuffer), mWriteCursor + wGot)'
    <3>1. wOffset = base + SegmentSize * (L - 1) + (SegmentSize + 0)
      BY <1>3, <1>6, <2>1 DEF DataInv, Stored, At
    <3>2. At(Len(mBuffer), mWriteCursor + wGot)' = base + SegmentSize * (L + 1 - 1) + (0 + 0)
      BY <1>2, <1>4, <2>1 DEF At
    <3>3. SegmentSize * (L + 1 - 1) = SegmentSize * (L - 1) + SegmentSize
      <4>1. L + 1 - 1 = (L - 1) + 1 /\ L - 1 \in Int
        BY <1>3
      <4> QED
        BY <4>1, Times
    <3>4. SegmentSize * (L - 1) \in Int
      BY <1>3, Multiple
    <3> HIDE DEF base, L
    <3> QED
      BY <1>2, <2>2, <3>1, <3>2, <3>3, <3>4, SizeAssumption
  <2>4. ASSUME NEW i \in Int, NEW o \in Int, Holds(i, o)'
        PROVE  heap'[mBuffer'[i]][o] = At(i, o)'
    <3>1. i \in 1..L /\ o \in Offsets /\ (i = 1 => o >= mReadCursor)
      BY <1>2, <1>3, <1>4, <2>1, <2>4 DEF Holds, Offsets
    <3>2. o < mWriteCursor + wGot
      BY <1>3, <2>1, <3>1, SizeAssumption DEF Offsets
    <3>3. Holds(i, o)
      BY <3>1, <3>2 DEF Holds
    <3>4. At(i, o)' = At(i, o)
      BY <1>2, <2>1 DEF At
    <3> QED
      BY <1>2, <1>4, <3>1, <3>3, <3>4 DEF DataInv, Stored
  <2>5. \A i, o \in Int : (Holds(i, o) => heap[mBuffer[i]][o] = At(i, o))'
    BY <2>4
  <2>6. Len(mBuffer)' # 0
    BY <1>4, <1>6
  <2> HIDE DEF base, L
  <2> QED
    BY <2>3, <2>5, <2>6 DEF Stored
<1> QED
  BY <1>3, <1>5, <1>6

\* The stream goes on in the second segment where the freed one ended.
LEMMA StoredFreed ==
    ASSUME IInv, DataInv, DeleteFirstSegment
    PROVE  Stored'
<1> DEFINE L == Len(mBuffer)
<1>1. UsedUp /\ CursorFacts
  BY DeletedIsUsedUp, CursorsAreOrdered DEF IInv
<1>2. /\ UNCHANGED <<rOffset, wOffset, wGot, wPc, wLen>> /\ rGot' = 0
      /\ heap' = [heap EXCEPT ![mBuffer[1]] = [o \in Offsets |-> Null]]
  BY DEF DeleteFirstSegment, AfterAdvanceRead, ReadReturns, writer
<1>3. L \in Nat /\ L > 0 /\ mBuffer \in Seq(Blocks) /\ mBuffer' = Tail(mBuffer)
  BY <1>1 DEF UsedUp, IInv, TypeOK, BufferType
<1>4. Len(mBuffer') = L - 1 /\ \A i \in 1..L - 1 : mBuffer'[i] = mBuffer[i + 1]
  BY <1>3
<1>5. mReadCursor + rGot = mReadLimit
  BY <1>1 DEF UsedUp
<1>6. CASE L = 1
  <2>1. mWriteCursor = SegmentSize /\ mReadLimit = SegmentSize
    BY <1>1, <1>6 DEF UsedUp, CursorFacts
  <2>2. wGot = 0
    <3>1. wPc \notin {"copy", "advance"}
      BY <1>6, <2>1, SizeAssumption, DataNumbers DEF IInv, WriterInv, BufferInv, TypeOK, WriterType
    <3> QED
      BY <3>1 DEF DataInv
  <2>3. wOffset = rOffset
    <3>1. SegmentSize * (1 - 1) = 0
      BY Times
    <3>2. wOffset = rOffset - rGot - mReadCursor + SegmentSize * (1 - 1) + (mWriteCursor + wGot)
      BY <1>6 DEF DataInv, Stored, At
    <3> QED
      BY <1>5, <2>1, <2>2, <3>1, <3>2, DataNumbers, SizeAssumption
  <2>4. Len(mBuffer)' = 0
    BY <1>4, <1>6
  <2>5. \A i, o \in Int : ~Holds(i, o)'
    BY <2>4 DEF Holds
  <2>6. wOffset' = rOffset'
    BY <1>2, <2>3
  <2> QED
    BY <2>4, <2>5, <2>6 DEF Stored
<1>7. CASE L > 1
  <2>1. /\ mReadCursor' = 0 /\ mWriteCursor' = mWriteCursor /\ mReadLimit = SegmentSize
    <3>1. mWriteSegment > 0 /\ mReadLimit = SegmentSize
      BY <1>1, <1>3, <1>7 DEF CursorFacts
    <3>2. mWriteSegment # 0
      BY <3>1
    <3> QED
      BY <3>1, <3>2 DEF DeleteFirstSegment
  <2> DEFINE base == rOffset - rGot - mReadCursor
  <2>2. base = rOffset - SegmentSize /\ base \in Int /\ (rOffset - rGot - mReadCursor)' = rOffset - 0 - 0
    BY <1>2, <1>5, <2>1, DataNumbers, SizeAssumption
  <2>3. ASSUME NEW i \in Int, NEW o \in Int PROVE At(i, o)' = At(i + 1, o)
    <3>1. At(i, o)' = rOffset - 0 - 0 + SegmentSize * (i - 1) + o
      BY <1>3, <2>2, DataNumbers, SizeAssumption DEF At
    <3>2. At(i + 1, o) = base + SegmentSize * (i + 1 - 1) + o
      BY DEF At
    <3>3. SegmentSize * (i + 1 - 1) = SegmentSize * (i - 1) + SegmentSize
      <4>1. i + 1 - 1 = (i - 1) + 1 /\ i - 1 \in Int
        OBVIOUS
      <4> QED
        BY <4>1, Times
    <3>4. SegmentSize * (i - 1) \in Int
      BY Multiple
    <3> HIDE DEF base
    <3> QED
      BY <2>2, <3>1, <3>2, <3>3, <3>4, DataNumbers, SizeAssumption
  <2>4. wOffset' = At(Len(mBuffer), mWriteCursor + wGot)'
    <3>1. wOffset = base + SegmentSize * (L - 1) + (mWriteCursor + wGot)
      BY <1>7 DEF DataInv, Stored, At
    <3>2. At(Len(mBuffer), mWriteCursor + wGot)'
            = rOffset - 0 - 0 + SegmentSize * (L - 1 - 1) + (mWriteCursor + wGot)
      <4>1. Len(mBuffer)' = L - 1
        BY <1>4
      <4>2. (mWriteCursor + wGot)' = mWriteCursor + wGot
        BY <1>2, <2>1
      <4> QED
        BY <2>2, <4>1, <4>2 DEF At
    <3>3. SegmentSize * (L - 1) = SegmentSize * (L - 1 - 1) + SegmentSize
      <4>1. L - 1 = (L - 1 - 1) + 1 /\ L - 1 - 1 \in Int
        BY <1>3
      <4> QED
        BY <4>1, Times
    <3>4. SegmentSize * (L - 1 - 1) \in Int
      BY <1>3, Multiple
    <3> HIDE DEF base, L
    <3> QED
      BY <1>2, <2>2, <3>1, <3>2, <3>3, <3>4, DataNumbers, SizeAssumption
  <2>5. ASSUME NEW i \in Int, NEW o \in Int, Holds(i, o)'
        PROVE  heap'[mBuffer'[i]][o] = At(i, o)'
    <3>1. i \in 1..L - 1 /\ o \in Offsets /\ (i = L - 1 => o < mWriteCursor + wGot)
      BY <1>2, <1>3, <1>4, <2>1, <2>5 DEF Holds
    <3>2. Holds(i + 1, o)
      BY <1>3, <3>1 DEF Holds
    <3>3. mBuffer'[i] = mBuffer[i + 1] /\ mBuffer[i + 1] # mBuffer[1] /\ mBuffer[i + 1] \in Blocks
      BY <1>3, <1>4, <3>1 DEF IInv, BufferInv
    <3>4. heap'[mBuffer'[i]] = heap[mBuffer[i + 1]]
      BY <1>2, <3>3 DEF IInv, TypeOK, HeapType
    <3>5. heap[mBuffer[i + 1]][o] = At(i + 1, o)
      BY <3>2 DEF DataInv, Stored
    <3> QED
      BY <2>3, <3>4, <3>5
  <2>6. \A i, o \in Int : (Holds(i, o) => heap[mBuffer[i]][o] = At(i, o))'
    BY <2>5
  <2>7. Len(mBuffer)' # 0
    BY <1>3, <1>4, <1>7
  <2> HIDE DEF base, L
  <2> QED
    BY <2>4, <2>6, <2>7 DEF Stored
<1>8. L = 1 \/ L > 1
  <2>1. L \in Nat /\ L > 0
    BY <1>3
  <2> HIDE DEF L
  <2> QED
    BY <2>1
<1> QED
  BY <1>6, <1>7, <1>8

\* Every step keeps the stream in the buffer.
LEMMA StoredStep == IInv /\ DataInv /\ [Next]_vars => Stored'
<1> SUFFICES ASSUME IInv, DataInv, [Next]_vars PROVE Stored'
  OBVIOUS
<1>0. Stored
  BY DEF DataInv
<1>1. ASSUME UNCHANGED <<buffer, rOffset, wOffset, rGot, wGot>> PROVE Stored'
  BY <1>0, <1>1, StoredFrame DEF buffer, segments
<1>2. ASSUME NEW n \in 1..MaxCount, ReadSegments(n) \/ WriteSegments(n) PROVE Stored'
  BY <1>1, <1>2 DEF ReadSegments, WriteSegments, reader, writer
<1>3. ASSUME NEW n \in 1..MaxCount, CopyFromSegment(n) PROVE Stored'
  <2>1. Len(mBuffer) > 0
    BY <1>3 DEF CopyFromSegment, IInv, ReaderInv
  <2> QED
    BY <1>0, <1>3, <2>1, StoredTaken DEF CopyFromSegment, buffer, segments, writer
<1>4. ASSUME NEW n \in 1..MaxCount, CopyToSegment(n) PROVE Stored'
  BY <1>0, <1>4, StoredCopied
<1>5. CASE GetReadSegment
  <2>1. rGot = 0 /\ rGot' = 0
    BY <1>5 DEF GetReadSegment, HoldReadable, DataInv
  <2> QED
    BY <1>1, <1>5, <2>1 DEF GetReadSegment, HoldReadable, writer
<1>6. CASE GetReadSegmentFails \/ InputWaitReturns \/ OnInputStreamReady
  <2>1. rPc \in {"get", "wait", "blocked", "asyncWait"}
    BY <1>6 DEF GetReadSegmentFails, InputWaitReturns, OnInputStreamReady, IInv, OneCallback, TypeOK, StreamType
  <2>2. rGot = 0
    BY <2>1 DEF DataInv
  <2> QED
    BY <1>1, <1>6, <2>2 DEF GetReadSegmentFails, InputWaitReturns, OnInputStreamReady, ReadReturns, ReaderGoesTo,
       writer
<1>7. CASE InputWaitBlocks \/ InputAsyncWait
  BY <1>1, <1>7 DEF InputWaitBlocks, InputAsyncWait, ReaderGoesTo, writer
<1>8. CASE ReaderRefuses
  BY <1>1, <1>8 DEF ReaderRefuses, ReadReturns, writer
<1>9. CASE AdvanceWithinSegment
  <2>1. Len(mBuffer) > 0
    BY <1>9 DEF AdvanceWithinSegment, IInv, ReaderInv
  <2>2. rGot' = 0 /\ rOffset' = rOffset
    BY <1>9 DEF AdvanceWithinSegment, AfterAdvanceRead, ReadReturns
  <2> QED
    BY <1>0, <1>9, <2>1, <2>2, StoredAdvanced DEF AdvanceWithinSegment, segments, writer
<1>10. CASE DeleteFirstSegment
  BY <1>10, StoredFreed
<1>11. CASE GetWriteSegmentFails \/ GetWriteSegmentFull \/ OutputWaitReturns \/ OnOutputStreamReady
  <2>1. wPc \in {"get", "wait", "blocked", "asyncWait"}
    BY <1>11 DEF GetWriteSegmentFails, GetWriteSegmentFull, OutputWaitReturns, OnOutputStreamReady, IInv,
       OneCallback, TypeOK, StreamType
  <2>2. wGot = 0
    BY <2>1 DEF DataInv
  <2> QED
    BY <1>1, <1>11, <2>2 DEF GetWriteSegmentFails, GetWriteSegmentFull, OutputWaitReturns, OnOutputStreamReady,
       WriteReturns, WriterGoesTo, reader
<1>12. CASE OutputWaitBlocks \/ OutputAsyncWait
  BY <1>1, <1>12 DEF OutputWaitBlocks, OutputAsyncWait, WriterGoesTo, reader
<1>13. CASE WriterRefuses
  BY <1>1, <1>13 DEF WriterRefuses, WriteReturns, reader
<1>14. CASE AdvanceWriteCursor
  <2>1. wGot' = 0 /\ wOffset' = wOffset
    BY <1>14 DEF AdvanceWriteCursor, AfterAdvanceWrite, WriteReturns
  <2> QED
    BY <1>0, <1>14, <2>1, StoredCommitted DEF AdvanceWriteCursor, segments, reader
<1>15. CASE GetCurrentSegment
  BY <1>15, StoredRolledBack
<1>16. CASE AppendNewSegment
  BY <1>16, StoredAppended
<1>17. CASE (\E reason \in Reasons : CloseInput(reason) \/ CloseOutput(reason)) \/ UNCHANGED vars
  BY <1>1, <1>17 DEF CloseInput, CloseOutput, vars, reader, writer
<1>18. CASE \E t \in {"R", "W"} : InterruptWait(t)
  BY <1>1, <1>18 DEF InterruptWait, reader, writer
<1> QED
  BY <1>2, <1>3, <1>4, <1>5, <1>6, <1>7, <1>8, <1>9, <1>10, <1>11, <1>12, <1>13, <1>14, <1>15, <1>16, <1>17, <1>18
  DEF Next, ReaderStep, WriterStep

\* A client that has copied something goes on to the advance that accounts for it.
LEMMA GotStep ==
    IInv /\ DataInv /\ [Next]_vars =>
        /\ rPc' \notin {"copy", "advance"} => rGot' = 0
        /\ wPc' \notin {"copy", "advance"} => wGot' = 0
<1> SUFFICES ASSUME IInv, DataInv, [Next]_vars
             PROVE  /\ rPc' \notin {"copy", "advance"} => rGot' = 0
                    /\ wPc' \notin {"copy", "advance"} => wGot' = 0
  OBVIOUS
<1> DEFINE R == rPc' \notin {"copy", "advance"} => rGot' = 0
           W == wPc' \notin {"copy", "advance"} => wGot' = 0
<1>1. UNCHANGED reader => R
  BY DEF reader, DataInv
<1>2. UNCHANGED writer => W
  BY DEF writer, DataInv
<1>3. \A pc : ReaderGoesTo(pc) => (rPc \notin {"copy", "advance"} => R)
  BY DEF ReaderGoesTo, DataInv
<1>4. \A pc : WriterGoesTo(pc) => (wPc \notin {"copy", "advance"} => W)
  BY DEF WriterGoesTo, DataInv
<1>5. (\A res : ReadReturns(res) => R) /\ (\A res : WriteReturns(res) => W)
  BY DEF ReadReturns, WriteReturns
<1>6. ASSUME ReaderStep PROVE R /\ W
  <2>1. UNCHANGED writer
    BY <1>6 DEF ReaderStep, ReadSegments, CopyFromSegment, GetReadSegment, GetReadSegmentFails, InputWaitBlocks,
       InputWaitReturns, ReaderRefuses, AdvanceWithinSegment, DeleteFirstSegment, InputAsyncWait
  <2> SUFFICES R
    BY <1>2, <2>1
  <2>2. CASE \E n \in 1..MaxCount : ReadSegments(n) \/ CopyFromSegment(n)
    BY <2>2 DEF ReadSegments, CopyFromSegment, DataInv
  <2>3. CASE GetReadSegment
    BY <2>3 DEF GetReadSegment, HoldReadable
  <2>4. CASE GetReadSegmentFails \/ InputWaitReturns \/ ReaderRefuses
    BY <1>3, <1>5, <2>4 DEF GetReadSegmentFails, InputWaitReturns, ReaderRefuses
  <2>5. CASE InputWaitBlocks \/ InputAsyncWait
    BY <1>3, <2>5 DEF InputWaitBlocks, InputAsyncWait
  <2>6. CASE AdvanceWithinSegment \/ DeleteFirstSegment
    BY <1>5, <2>6 DEF AdvanceWithinSegment, DeleteFirstSegment, AfterAdvanceRead
  <2> QED
    BY <1>6, <2>2, <2>3, <2>4, <2>5, <2>6 DEF ReaderStep
<1>7. ASSUME WriterStep PROVE R /\ W
  <2>1. UNCHANGED reader
    BY <1>7 DEF WriterStep, WriteSegments, CopyToSegment, GetWriteSegmentFails, GetWriteSegmentFull,
       GetCurrentSegment, AppendNewSegment, OutputWaitBlocks, OutputWaitReturns, WriterRefuses, AdvanceWriteCursor,
       OutputAsyncWait
  <2> SUFFICES W
    BY <1>1, <2>1
  <2>2. CASE \E n \in 1..MaxCount : WriteSegments(n) \/ CopyToSegment(n)
    BY <2>2 DEF WriteSegments, CopyToSegment, DataInv
  <2>3. CASE GetCurrentSegment \/ AppendNewSegment
    BY <2>3 DEF GetCurrentSegment, AppendNewSegment, HandOut, HoldRoom
  <2>4. CASE GetWriteSegmentFails \/ GetWriteSegmentFull \/ OutputWaitReturns \/ WriterRefuses
    BY <1>4, <1>5, <2>4 DEF GetWriteSegmentFails, GetWriteSegmentFull, OutputWaitReturns, WriterRefuses
  <2>5. CASE OutputWaitBlocks \/ OutputAsyncWait
    BY <1>4, <2>5 DEF OutputWaitBlocks, OutputAsyncWait
  <2>6. CASE AdvanceWriteCursor
    BY <1>5, <2>6 DEF AdvanceWriteCursor, AfterAdvanceWrite
  <2> QED
    BY <1>7, <2>2, <2>3, <2>4, <2>5, <2>6 DEF WriterStep
<1>8. ASSUME OnInputStreamReady \/ OnOutputStreamReady PROVE R /\ W
  BY <1>1, <1>2, <1>5, <1>8 DEF OnInputStreamReady, OnOutputStreamReady
<1>9. ASSUME (\E reason \in Reasons : CloseInput(reason) \/ CloseOutput(reason))
             \/ (\E t \in {"R", "W"} : InterruptWait(t)) \/ UNCHANGED vars
      PROVE  R /\ W
  BY <1>1, <1>2, <1>9 DEF CloseInput, CloseOutput, InterruptWait, vars
<1> QED
  BY <1>6, <1>7, <1>8, <1>9 DEF Next

\* The pipe carries the written stream, from Init on.
LEMMA DataInvariance == Spec => [](IInv /\ DataInv)
<1>1. Init => DataInv
  BY DEF Init, DataInv, Stored, Holds
<1>2. IInv /\ DataInv /\ [Next]_vars => (IInv /\ DataInv)'
  BY StepInv, StoredStep, GotStep DEF DataInv
<1> QED
  BY InitInv, <1>1, <1>2, PTL DEF Spec

\* What ReadSegments shows its callback is the stream, byte by byte, whatever the
\* writing client does in the meantime.
THEOREM BytesArriveInOrder == Spec => []BytesInOrder
<1>1. IInv /\ DataInv => BytesInOrder
  <2> SUFFICES ASSUME IInv, DataInv, rPc = "copy", NEW k \in 0..rLen - 1
               PROVE  heap[rSeg][rPos + k] = rOffset + k
    BY DEF BytesInOrder
  <2>1. /\ Len(mBuffer) > 0 /\ rSeg = mBuffer[1] /\ rPos = mReadCursor + rGot /\ rPos + rLen <= mReadLimit
    BY DEF IInv, ReaderInv
  <2>2. /\ mReadCursor \in 0..SegmentSize /\ mReadLimit \in 0..SegmentSize
        /\ Len(mBuffer) = 1 => mReadLimit = mWriteCursor
    BY <2>1, CursorsAreOrdered DEF IInv, CursorFacts
  <2>3. rLen \in Nat
    BY SizeAssumption DEF IInv, TypeOK, ReaderType
  <2>4. /\ rPos + k \in Offsets /\ rPos + k >= mReadCursor
        /\ Len(mBuffer) = 1 => rPos + k < mWriteCursor + wGot
    BY <2>1, <2>2, <2>3, DataNumbers, SizeAssumption, SMTT(30) DEF Offsets
  <2>5. Holds(1, rPos + k)
    BY <2>1, <2>4, DataNumbers DEF Holds
  <2>6. rPos + k \in Int
    BY <2>4 DEF Offsets
  <2>7. heap[rSeg][rPos + k] = rOffset - rGot - mReadCursor + SegmentSize * (1 - 1) + (rPos + k)
    BY <2>1, <2>5, <2>6 DEF DataInv, Stored, At
  <2>8. SegmentSize * (1 - 1) = 0
    BY Times
  <2> QED
    BY <2>1, <2>7, <2>8, DataNumbers
<1> QED
  BY <1>1, DataInvariance, PTL

------------------------------------------------------------------------------
(* End of file, for clients that close their own end only.                  *)

\* A pipe that the writing client closed has no write under way any more; one that
\* said end of file to the reader is empty.
EofInv ==
    /\ mStatus # OK /\ "in" \notin closedBy => wPc \notin {"copy", "advance"}
    /\ rResult = "EOF" => rPc \in {"idle", "asyncWait"} /\ mStatus # OK
    /\ rResult = "EOF" /\ "in" \notin closedBy => mAvailable = 0

\* Every step keeps what end of file means.
LEMMA EofStep ==
    ASSUME ForeignClose = FALSE, IInv, EofInv, [Next]_vars
    PROVE  EofInv'
<1> DEFINE Quiet == mStatus # OK /\ "in" \notin closedBy => wPc \notin {"copy", "advance"}
           Told == rResult = "EOF" => rPc \in {"idle", "asyncWait"} /\ mStatus # OK
           Empty == rResult = "EOF" /\ "in" \notin closedBy => mAvailable = 0
<1>1. Quiet /\ Told /\ Empty /\ (EofInv' <=> Quiet' /\ Told' /\ Empty')
  BY DEF EofInv
<1>2. ASSUME ReaderStep PROVE EofInv'
  <2>1. UNCHANGED <<mStatus, closedBy, wPc>>
    BY <1>2 DEF ReaderStep, ReadSegments, CopyFromSegment, GetReadSegment, GetReadSegmentFails, InputWaitBlocks,
       InputWaitReturns, ReaderRefuses, AdvanceWithinSegment, DeleteFirstSegment, InputAsyncWait, writer
  <2>2. Quiet'
    BY <1>1, <2>1
  <2> SUFFICES Told' /\ Empty'
    BY <1>1, <2>2
  <2>3. ASSUME rResult' # "EOF" PROVE Told' /\ Empty'
    BY <2>3
  <2>4. CASE \E n \in 1..MaxCount : ReadSegments(n)
    BY <2>3, <2>4 DEF ReadSegments
  <2>5. CASE \E n \in 1..MaxCount : CopyFromSegment(n)
    <3>1. rResult' # "EOF"
      BY <1>1, <2>5 DEF CopyFromSegment
    <3> QED
      BY <2>3, <3>1
  <2>6. CASE GetReadSegment
    <3>1. rResult' # "EOF"
      BY <1>1, <2>6 DEF GetReadSegment, HoldReadable
    <3> QED
      BY <2>3, <3>1
  <2>7. CASE GetReadSegmentFails
    <3>1. mAvailable = 0 /\ mAvailable' = mAvailable
      BY <2>7, BufferedBounds DEF GetReadSegmentFails, IInv, AvailableIsBuffered, input
    <3>2. rResult' = "EOF" => rPc' = "idle" /\ mStatus # OK
      BY <1>1, <2>7 DEF GetReadSegmentFails, ReadReturns, ReaderGoesTo, OK
    <3> QED
      BY <2>1, <3>1, <3>2
  <2>8. CASE InputWaitBlocks \/ InputWaitReturns
    <3>1. rResult' # "EOF"
      BY <1>1, <2>8 DEF InputWaitBlocks, InputWaitReturns, ReaderGoesTo, ReadReturns
    <3> QED
      BY <2>3, <3>1
  <2>9. CASE ReaderRefuses
    <3>1. rResult' # "EOF"
      BY <1>1, <2>9 DEF ReaderRefuses, ReadReturns, OK
    <3> QED
      BY <2>3, <3>1
  <2>10. CASE AdvanceWithinSegment \/ DeleteFirstSegment
    <3>1. rResult' # "EOF"
      BY <1>1, <2>10 DEF AdvanceWithinSegment, DeleteFirstSegment, AfterAdvanceRead, ReadReturns, OK
    <3> QED
      BY <2>3, <3>1
  <2>11. CASE InputAsyncWait
    BY <1>1, <2>1, <2>11 DEF InputAsyncWait, ReaderGoesTo
  <2> QED
    BY <1>2, <2>4, <2>5, <2>6, <2>7, <2>8, <2>9, <2>10, <2>11 DEF ReaderStep
<1>3. ASSUME WriterStep PROVE EofInv'
  <2>1. UNCHANGED <<mStatus, closedBy, rPc, rResult>>
    BY <1>3 DEF WriterStep, WriteSegments, CopyToSegment, GetWriteSegmentFails, GetWriteSegmentFull, OnPipeException,
       GetCurrentSegment, AppendNewSegment, OutputWaitBlocks, OutputWaitReturns, WriterRefuses, AdvanceWriteCursor,
       OutputAsyncWait, reader
  <2>2. Told'
    BY <1>1, <2>1
  <2> SUFFICES Quiet' /\ Empty'
    BY <1>1, <2>2
  <2>3. ASSUME UNCHANGED mAvailable, wPc' \in {"copy", "advance"} => wPc \in {"copy", "advance"} \/ mStatus = OK
        PROVE  Quiet' /\ Empty'
    BY <1>1, <2>1, <2>3
  <2>4. CASE \E n \in 1..MaxCount : WriteSegments(n) \/ CopyToSegment(n)
    BY <2>3, <2>4 DEF WriteSegments, CopyToSegment, input
  <2>5. CASE GetWriteSegmentFails \/ GetWriteSegmentFull
    BY <2>3, <2>5 DEF GetWriteSegmentFails, GetWriteSegmentFull, OnPipeException, WriteReturns, WriterGoesTo, input
  <2>6. CASE GetCurrentSegment \/ AppendNewSegment
    BY <2>3, <2>6 DEF GetCurrentSegment, AppendNewSegment, input
  <2>7. CASE OutputWaitBlocks \/ OutputWaitReturns \/ OutputAsyncWait
    BY <2>3, <2>7 DEF OutputWaitBlocks, OutputWaitReturns, OutputAsyncWait, WriteReturns, WriterGoesTo, input
  <2>8. CASE WriterRefuses
    BY <2>3, <2>8 DEF WriterRefuses, input
  <2>9. CASE AdvanceWriteCursor
    <3>1. wPc = "advance" /\ wPc' \in {"idle", "get"}
      BY <2>9 DEF AdvanceWriteCursor, AfterAdvanceWrite, WriteReturns
    <3>2. mStatus = OK \/ "in" \in closedBy
      BY <1>1, <3>1
    <3> QED
      BY <1>1, <2>1, <3>1, <3>2
  <2> QED
    BY <1>3, <2>4, <2>5, <2>6, <2>7, <2>8, <2>9 DEF WriterStep
<1>4. CASE OnInputStreamReady
  <2>1. rResult' # "EOF" /\ UNCHANGED <<mStatus, closedBy, wPc>>
    BY <1>4 DEF OnInputStreamReady, ReadReturns, writer
  <2> QED
    BY <1>1, <2>1
<1>5. CASE OnOutputStreamReady
  <2>1. wPc' = "idle" /\ UNCHANGED <<mStatus, closedBy, mAvailable, rPc, rResult>>
    BY <1>5 DEF OnOutputStreamReady, WriteReturns, input, reader
  <2> QED
    BY <1>1, <2>1
<1>6. ASSUME NEW reason \in Reasons, CloseInput(reason) PROVE EofInv'
  <2>1. "in" \in closedBy' /\ UNCHANGED <<rPc, rResult>> /\ (mStatus # OK => mStatus' # OK)
    BY <1>6 DEF CloseInput, OnPipeException, reader
  <2> QED
    BY <1>1, <2>1
<1>7. ASSUME NEW reason \in Reasons, CloseOutput(reason) PROVE EofInv'
  <2>1. /\ wPc = "idle" /\ UNCHANGED <<mAvailable, wPc, rPc, rResult>>
        /\ (mStatus # OK => mStatus' # OK) /\ closedBy' = closedBy \cup {"out"}
    BY <1>7 DEF CloseOutput, OnPipeException, InputReady, reader, writer
  <2> QED
    BY <1>1, <2>1
<1>8. CASE (\E t \in {"R", "W"} : InterruptWait(t)) \/ UNCHANGED vars
  <2>1. UNCHANGED <<mStatus, closedBy, mAvailable, wPc, rPc, rResult>>
    BY <1>8 DEF InterruptWait, vars, input, reader, writer
  <2> QED
    BY <1>1, <2>1
<1> QED
  BY <1>2, <1>3, <1>4, <1>5, <1>6, <1>7, <1>8 DEF Next

\* A reader that was told end of file finds no byte afterwards, unless it closed its
\* own end while a write was under way (the property excludes it).
THEOREM EofStaysFinal == ASSUME ForeignClose = FALSE PROVE Spec => EofIsFinal
<1>1. Init => EofInv
  BY DEF Init, EofInv
<1>2. IInv /\ EofInv /\ [Next]_vars => (IInv /\ EofInv)'
  BY StepInv, EofStep
<1>3. IInv /\ EofInv /\ [Next]_vars
        => [rResult = "EOF" /\ "in" \notin closedBy => mAvailable' = 0 /\ rPc' # "copy"]_vars
  <2> SUFFICES ASSUME IInv, EofInv, Next, rResult = "EOF", "in" \notin closedBy
               PROVE  mAvailable' = 0 /\ rPc' # "copy"
    OBVIOUS
  <2>1. mAvailable = 0 /\ rPc \in {"idle", "asyncWait"} /\ mStatus # OK /\ wPc # "advance"
    BY DEF EofInv
  <2>2. CASE ReaderStep
    <3>1. UNCHANGED mAvailable /\ rPc' # "copy"
      BY <2>1, <2>2 DEF ReaderStep, ReadSegments, CopyFromSegment, GetReadSegment, GetReadSegmentFails,
         InputWaitBlocks, InputWaitReturns, ReaderRefuses, AdvanceWithinSegment, DeleteFirstSegment, InputAsyncWait,
         ReaderGoesTo, input
    <3> QED
      BY <2>1, <3>1
  <2>3. CASE WriterStep
    <3>1. UNCHANGED <<mAvailable, rPc>>
      BY <2>1, <2>3 DEF WriterStep, WriteSegments, CopyToSegment, GetWriteSegmentFails, GetWriteSegmentFull,
         GetCurrentSegment, AppendNewSegment, OutputWaitBlocks, OutputWaitReturns, WriterRefuses, AdvanceWriteCursor,
         OutputAsyncWait, OnPipeException, input, reader
    <3> QED
      BY <2>1, <3>1
  <2>4. CASE OnInputStreamReady \/ OnOutputStreamReady
    BY <2>1, <2>4 DEF OnInputStreamReady, OnOutputStreamReady, ReadReturns, input, reader
  <2>5. CASE \E reason \in Reasons : CloseInput(reason) \/ CloseOutput(reason)
    BY <2>1, <2>5 DEF CloseInput, CloseOutput, OnPipeException, reader
  <2>6. CASE \E t \in {"R", "W"} : InterruptWait(t)
    BY <2>1, <2>6 DEF InterruptWait, input, reader
  <2> QED
    BY <2>2, <2>3, <2>4, <2>5, <2>6 DEF Next
<1> QED
  BY InitInv, <1>1, <1>2, <1>3, PTL DEF Spec, EofIsFinal

------------------------------------------------------------------------------
(* The pipe is a bounded channel.                                           *)

\* A position in the buffer is a segment and an offset in it.
LEMMA Division ==
    \A a \in Nat : /\ a \div SegmentSize \in Nat /\ a % SegmentSize \in Offsets
                   /\ a = SegmentSize * (a \div SegmentSize) + (a % SegmentSize)
    BY SizeAssumption, SMT DEF Offsets

\* Multiples of the segment size are ordered like their factors.
LEMMA MultiplesAreOrdered ==
    ASSUME NEW m \in Int, NEW n \in Int, m <= n
    PROVE  SegmentSize * m <= SegmentSize * n
<1>1. SegmentSize * (n - m) \in Nat
  BY Times
<1>2. SegmentSize * n = SegmentSize * m + SegmentSize * (n - m)
  BY SizeAssumption, SMT
<1> QED
  BY <1>1, <1>2, Multiple

\* Under the invariant what is available is the distance of the cursors, and the pipe's limit bounds it.
LEMMA AvailableBounds ==
    ASSUME IInv
    PROVE  /\ mAvailable \in Nat
           /\ mAvailable <= SegmentSize * MaxSegments
           /\ Len(mBuffer) = 0 => mAvailable = 0
           /\ Len(mBuffer) > 0 => mAvailable = SegmentSize * (Len(mBuffer) - 1) + mWriteCursor - mReadCursor
<1> DEFINE L == Len(mBuffer)
<1>1. mAvailable \in Nat /\ mAvailable = Buffered
  BY DEF IInv, TypeOK, StreamType, AvailableIsBuffered
<1>2. CursorFacts
  BY CursorsAreOrdered DEF IInv
<1>3. L \in Nat /\ L <= MaxSegments /\ mWriteSegment = L - 1
  BY <1>2 DEF CursorFacts, IInv, BufferInv
<1>4. CASE L = 0
  <2>1. mAvailable = 0
    BY <1>1, <1>4 DEF Buffered, IInv, BufferInv
  <2>2. SegmentSize * MaxSegments \in Nat
    BY Times, SizeAssumption
  <2> QED
    BY <1>4, <2>1, <2>2
<1>5. CASE L > 0
  <2>1. /\ mReadCursor \in 0..SegmentSize /\ mWriteCursor \in 0..SegmentSize /\ mReadCursor # Null
    BY <1>2, <1>5 DEF CursorFacts, Null
  <2>2. mAvailable = SegmentSize * (L - 1) + mWriteCursor - mReadCursor
    <3>1. CASE L = 1
      <4>1. SegmentSize * (1 - 1) = 0
        BY Times
      <4>2. mAvailable = mWriteCursor - mReadCursor
        BY <1>1, <1>3, <2>1, <3>1 DEF Buffered
      <4> QED
        BY <2>1, <3>1, <4>1, <4>2, SizeAssumption
    <3>2. CASE L # 1
      <4>1. mAvailable = SegmentSize - mReadCursor + SegmentSize * (L - 1 - 1) + mWriteCursor
        BY <1>1, <1>3, <2>1, <3>2 DEF Buffered
      <4>2. SegmentSize * (L - 1) = SegmentSize * (L - 1 - 1) + SegmentSize
        <5>1. L - 1 = (L - 1 - 1) + 1 /\ L - 1 - 1 \in Int
          BY <1>3
        <5> QED
          BY <5>1, Times
      <4>3. SegmentSize * (L - 1 - 1) \in Int
        BY <1>3, Multiple
      <4> HIDE DEF L
      <4> QED
        BY <2>1, <4>1, <4>2, <4>3, SizeAssumption
    <3> QED
      BY <3>1, <3>2
  <2>3. SegmentSize * L = SegmentSize * (L - 1) + SegmentSize
    <3>1. L = (L - 1) + 1 /\ L - 1 \in Int
      BY <1>3
    <3> QED
      BY <3>1, Times
  <2>4. SegmentSize * L <= SegmentSize * MaxSegments
    BY <1>3, MultiplesAreOrdered, SizeAssumption
  <2>5. SegmentSize * L \in Int /\ SegmentSize * MaxSegments \in Int /\ SegmentSize * (L - 1) \in Int
    BY <1>3, Multiple, SizeAssumption
  <2>6. mAvailable <= SegmentSize * MaxSegments
    <3> HIDE DEF L
    <3> QED
      BY <2>1, <2>2, <2>3, <2>4, <2>5, SizeAssumption
  <2> QED
    BY <1>1, <1>5, <2>2, <2>6
<1> QED
  BY <1>3, <1>4, <1>5

\* The k-th buffered byte is the k-th after those that were taken, wherever it lies.
LEMMA SegmentAtIs ==
    ASSUME IInv, DataInv, NEW k \in 1..mAvailable
    PROVE  SegmentAt(k) = rOffset - rGot + k - 1
<1> DEFINE L == Len(mBuffer)
           at == mReadCursor + k - 1
           q == at \div SegmentSize
           o == at % SegmentSize
<1>1. /\ mAvailable \in Nat /\ L \in Nat /\ L > 0
      /\ mAvailable = SegmentSize * (L - 1) + mWriteCursor - mReadCursor
  BY AvailableBounds, DataNumbers
<1>2. mReadCursor \in 0..SegmentSize /\ mWriteCursor \in 0..SegmentSize /\ at \in Nat
  <2>1. mReadCursor \in 0..SegmentSize /\ mWriteCursor \in 0..SegmentSize
    BY <1>1, CursorsAreOrdered DEF IInv, CursorFacts
  <2> QED
    BY <1>1, <2>1
<1>3. q \in Nat /\ o \in Offsets /\ at = SegmentSize * q + o
  BY <1>2, Division
<1>4. SegmentSize * q \in Int /\ SegmentSize * (L - 1) \in Int /\ SegmentSize * L \in Int
  BY <1>1, <1>3, Multiple
<1>5. at < SegmentSize * (L - 1) + mWriteCursor
  <2> HIDE DEF L, q, o
  <2> QED
    BY <1>1, <1>2, <1>4
<1>6. q <= L - 1
  <2> SUFFICES ASSUME L <= q PROVE FALSE
    BY <1>1, <1>3
  <2>1. SegmentSize * L <= SegmentSize * q
    BY <1>1, <1>3, MultiplesAreOrdered
  <2>2. SegmentSize * L = SegmentSize * (L - 1) + SegmentSize
    <3>1. L = (L - 1) + 1 /\ L - 1 \in Int
      BY <1>1
    <3> QED
      BY <3>1, Times
  <2> HIDE DEF L, at, q, o
  <2> QED
    BY <1>2, <1>3, <1>4, <1>5, <2>1, <2>2, SizeAssumption DEF Offsets
<1>7. Holds(q + 1, o)
  <2>1. q + 1 \in 1..L
    <3> HIDE DEF L, at, q, o
    <3> QED
      BY <1>1, <1>3, <1>6
  <2>2. q + 1 = 1 => o >= mReadCursor
    <3> SUFFICES ASSUME q = 0 PROVE o >= mReadCursor
      BY <1>3
    <3>1. SegmentSize * q = 0
      BY Times
    <3>2. at >= mReadCursor
      BY <1>2
    <3> HIDE DEF at, q, o
    <3> QED
      BY <1>2, <1>3, <3>1, <3>2 DEF Offsets
  <2>3. q + 1 = L => o < mWriteCursor + wGot
    <3> SUFFICES ASSUME q = L - 1 PROVE o < mWriteCursor + wGot
      BY <1>1, <1>3
    <3>1. wGot \in Nat
      BY DataNumbers
    <3>2. SegmentSize * q = SegmentSize * (L - 1)
      OBVIOUS
    <3> HIDE DEF at, q, o, L
    <3> QED
      BY <1>2, <1>3, <1>4, <1>5, <3>1, <3>2 DEF Offsets
  <2> QED
    BY <1>3, <2>1, <2>2, <2>3 DEF Holds
<1>8. heap[mBuffer[q + 1]][o] = rOffset - rGot - mReadCursor + SegmentSize * (q + 1 - 1) + o
  <2>1. q + 1 \in Int /\ o \in Int
    BY <1>3 DEF Offsets
  <2>2. heap[mBuffer[q + 1]][o] = At(q + 1, o)
    <3> HIDE DEF q, o
    <3> QED
      BY <1>7, <2>1 DEF DataInv, Stored
  <2> HIDE DEF q, o
  <2> QED
    BY <1>3, <2>2, DataNumbers, SizeAssumption DEF At
<1>9. SegmentSize * (q + 1 - 1) = SegmentSize * q
  <2>1. q + 1 - 1 = q
    <3> HIDE DEF q
    <3> QED
      BY <1>3
  <2> QED
    BY <2>1
<1>10. rOffset - rGot - mReadCursor + SegmentSize * q + o = rOffset - rGot - mReadCursor + at
  <2>1. rOffset - rGot - mReadCursor \in Int /\ o \in Int
    BY <1>3, DataNumbers DEF Offsets
  <2> HIDE DEF q, o, at
  <2> QED
    BY <1>3, <1>4, <2>1
<1>11. rOffset - rGot - mReadCursor + at = rOffset - rGot + k - 1
  BY DataNumbers
<1>12. SegmentAt(k) = heap[mBuffer[q + 1]][o]
  BY DEF SegmentAt
<1> QED
  BY <1>8, <1>9, <1>10, <1>11, <1>12

\* What the channel holds: the bytes after those taken, as many as are available.
Contents == [k \in 1..mAvailable |-> rOffset - rGot + k - 1]

\* By the refinement mapping the buffer is the channel's contents.
LEMMA BufferIsContents ==
    ASSUME IInv, DataInv
    PROVE  [k \in 1..mAvailable |-> SegmentAt(k)] = Contents
    BY SegmentAtIs DEF Contents

\* The two ends' accounts differ by what is available.
LEMMA SentIsTaken ==
    ASSUME IInv, DataInv
    PROVE  wOffset - wGot = rOffset - rGot + mAvailable
<1> DEFINE L == Len(mBuffer)
<1>1. CASE L = 0
  <2>1. wPc \notin {"copy", "advance"} /\ rPc \notin {"copy", "advance"} /\ mAvailable = 0
    BY <1>1, AvailableBounds DEF IInv, WriterInv, ReaderInv
  <2> QED
    BY <1>1, <2>1, DataNumbers DEF DataInv, Stored
<1>2. CASE L > 0
  <2>1. mAvailable = SegmentSize * (L - 1) + mWriteCursor - mReadCursor /\ SegmentSize * (L - 1) \in Int
    BY <1>2, AvailableBounds, Multiple, DataNumbers
  <2>2. wOffset = rOffset - rGot - mReadCursor + SegmentSize * (L - 1) + (mWriteCursor + wGot)
    BY <1>2 DEF DataInv, Stored, At
  <2> DEFINE P == SegmentSize * (L - 1)
  <2> HIDE DEF P
  <2>3. mAvailable = P + mWriteCursor - mReadCursor /\ P \in Int
    BY <2>1 DEF P
  <2>4. wOffset = rOffset - rGot - mReadCursor + P + (mWriteCursor + wGot)
    BY <2>2 DEF P
  <2>5. /\ rOffset \in Int /\ rGot \in Int /\ wOffset \in Int /\ wGot \in Int
        /\ mReadCursor \in Int /\ mWriteCursor \in Int
    BY DataNumbers
  <2> QED
    BY ONLY <2>3, <2>4, <2>5
<1> QED
  BY <1>1, <1>2, DataNumbers

\* What a client has copied in fits into the pipe.
LEMMA RoomIsThere ==
    ASSUME IInv, wPc = "advance"
    PROVE  mAvailable + wGot <= SegmentSize * MaxSegments
<1> DEFINE L == Len(mBuffer)
           P == SegmentSize * (L - 1)
<1>1. L \in Nat /\ L > 0 /\ L <= MaxSegments
  BY DataNumbers DEF IInv, WriterInv, BufferInv
<1>2. mWriteCursor + wGot <= SegmentSize /\ mReadCursor >= 0
  BY <1>1, DataNumbers, SizeAssumption DEF IInv, WriterInv, BufferInv, TypeOK, WriterType
<1>3. mAvailable = P + mWriteCursor - mReadCursor
  BY <1>1, AvailableBounds
<1>4. SegmentSize * L = P + SegmentSize
  <2>1. L = (L - 1) + 1 /\ L - 1 \in Int
    BY <1>1
  <2> QED
    BY <2>1, Times
<1>5. SegmentSize * L <= SegmentSize * MaxSegments
  BY <1>1, MultiplesAreOrdered, SizeAssumption
<1>6. P \in Int /\ SegmentSize * MaxSegments \in Int /\ SegmentSize * L \in Int
  BY <1>1, Multiple, SizeAssumption
<1> HIDE DEF P, L
<1> QED
  BY <1>2, <1>3, <1>4, <1>5, <1>6, DataNumbers, SizeAssumption, SMTT(30)

\* A step that moves neither end's account is none of the channel's.
LEMMA ContentsFrame ==
    ASSUME mAvailable' = mAvailable, rOffset' - rGot' = rOffset - rGot
    PROVE  Contents' = Contents
    BY DEF Contents

\* AdvanceReadCursor takes bytes out of the channel.
LEMMA TakesBytes ==
    ASSUME IInv, DataInv, rPc = "advance", mAvailable' = mAvailable - rGot, mAvailable' \in Nat,
           rOffset' = rOffset, rGot' = 0
    PROVE  /\ rGot \in 1..SegmentSize * MaxSegments /\ rGot <= Len(Contents)
           /\ Contents' = SubSeq(Contents, rGot + 1, Len(Contents))
<1>1. rGot \in Nat /\ rGot > 0 /\ mAvailable \in Nat /\ mAvailable <= SegmentSize * MaxSegments
  BY DataNumbers, AvailableBounds DEF IInv, ReaderInv
<1>2. rGot <= mAvailable
  BY <1>1
<1>3. SegmentSize * MaxSegments \in Int
  BY Multiple, SizeAssumption
<1>4. Len(Contents) = mAvailable /\ Contents \in Seq(Int)
  BY <1>1, DataNumbers DEF Contents
<1>5. SubSeq(Contents, rGot + 1, Len(Contents))
        = [k \in 1..mAvailable - rGot |-> Contents[k + (rGot + 1) - 1]]
  BY <1>1, <1>2, <1>4
<1>6. \A k \in 1..mAvailable - rGot : Contents[k + (rGot + 1) - 1] = rOffset' - rGot' + k - 1
  BY <1>1, <1>2, DataNumbers DEF Contents
<1>7. Contents' = [k \in 1..mAvailable - rGot |-> rOffset' - rGot' + k - 1]
  BY DEF Contents
<1>8. rGot \in 1..SegmentSize * MaxSegments
  BY <1>1, <1>2, <1>3
<1> QED
  BY <1>2, <1>4, <1>5, <1>6, <1>7, <1>8

\* AdvanceWriteCursor puts bytes into the channel, for which there is room.
LEMMA PutsBytes ==
    ASSUME IInv, DataInv, wPc = "advance", mAvailable' = mAvailable + wGot,
           wOffset' = wOffset, wGot' = 0, UNCHANGED <<rOffset, rGot>>
    PROVE  /\ wGot \in 1..SegmentSize * MaxSegments
           /\ Len(Contents) + wGot <= SegmentSize * MaxSegments
           /\ Contents' = Contents \o [k \in 1..wGot |-> (wOffset - wGot) + k - 1]
           /\ (wOffset - wGot)' = (wOffset - wGot) + wGot
<1> DEFINE more == [k \in 1..wGot |-> (wOffset - wGot) + k - 1]
<1>1. wGot \in Nat /\ wGot > 0 /\ mAvailable \in Nat
  BY DataNumbers, AvailableBounds DEF IInv, WriterInv
<1>2. mAvailable + wGot <= SegmentSize * MaxSegments
  BY RoomIsThere
<1>3. SegmentSize * MaxSegments \in Int
  BY Multiple, SizeAssumption
<1>4. Len(Contents) = mAvailable /\ Contents \in Seq(Int) /\ more \in Seq(Int) /\ Len(more) = wGot
  BY <1>1, DataNumbers DEF Contents
<1>5. wOffset - wGot = rOffset - rGot + mAvailable
  BY SentIsTaken
<1>6. Contents' = [k \in 1..mAvailable + wGot |-> rOffset - rGot + k - 1]
  BY DEF Contents
<1>7. Contents \o more = [k \in 1..mAvailable + wGot |-> rOffset - rGot + k - 1]
  <2>1. /\ Contents \o more \in Seq(Int) /\ Len(Contents \o more) = mAvailable + wGot
        /\ \A k \in 1..mAvailable + wGot :
             (Contents \o more)[k] = (IF k <= mAvailable THEN Contents[k] ELSE more[k - mAvailable])
    BY <1>1, <1>4
  <2>2. ASSUME NEW k \in 1..mAvailable + wGot
        PROVE  (IF k <= mAvailable THEN Contents[k] ELSE more[k - mAvailable]) = rOffset - rGot + k - 1
    <3>1. CASE k <= mAvailable
      BY <1>1, <2>2, <3>1 DEF Contents
    <3>2. CASE ~(k <= mAvailable)
      <4>1. k - mAvailable \in 1..wGot
        BY <1>1, <2>2, <3>2
      <4>2. more[k - mAvailable] = (wOffset - wGot) + (k - mAvailable) - 1
        BY <4>1
      <4> QED
        BY <1>1, <1>5, <2>2, <3>2, <4>2, DataNumbers
    <3> QED
      BY <3>1, <3>2
  <2>3. \A k \in 1..mAvailable + wGot : (Contents \o more)[k] = rOffset - rGot + k - 1
    BY <2>1, <2>2
  <2> DEFINE all == [k \in 1..mAvailable + wGot |-> rOffset - rGot + k - 1]
  <2>4. all \in Seq(Int) /\ Len(all) = mAvailable + wGot /\ \A k \in 1..mAvailable + wGot : all[k] = rOffset - rGot + k - 1
    BY <1>1, DataNumbers
  <2> QED
    <3> HIDE DEF all, more
    <3>1. Contents \o more = all
      BY <2>1, <2>3, <2>4, SeqEqual
    <3> QED
      BY <3>1 DEF all
<1>8. (wOffset - wGot)' = (wOffset - wGot) + wGot
  BY DataNumbers
<1>9. wGot \in 1..SegmentSize * MaxSegments /\ Len(Contents) + wGot <= SegmentSize * MaxSegments
  BY <1>1, <1>2, <1>3, <1>4
<1> QED
  BY <1>6, <1>7, <1>8, <1>9

\* A close, by either end or by the exception, closes the channel once.
LEMMA CloseCloses ==
    ASSUME IInv, DataInv, UNCHANGED <<mAvailable, rOffset, rGot, wOffset, wGot>>,
           mStatus' = mStatus \/ (mStatus = OK /\ mStatus' # OK)
    PROVE  /\ Contents' = Contents /\ (wOffset - wGot)' = wOffset - wGot
           /\ \/ (mStatus = OK)' = (mStatus = OK)
              \/ (mStatus = OK) /\ ((mStatus = OK)' = FALSE)
    BY ContentsFrame

\* What a step of the pipe is to the channel.
ChannelStep ==
    \/ UNCHANGED <<Contents, wOffset - wGot, mStatus = OK>>
    \/ /\ rGot \in 1..SegmentSize * MaxSegments /\ rGot <= Len(Contents)
       /\ Contents' = SubSeq(Contents, rGot + 1, Len(Contents))
       /\ UNCHANGED <<wOffset - wGot, mStatus = OK>>
    \/ /\ wGot \in 1..SegmentSize * MaxSegments
       /\ Len(Contents) + wGot <= SegmentSize * MaxSegments
       /\ Contents' = Contents \o [k \in 1..wGot |-> (wOffset - wGot) + k - 1]
       /\ (wOffset - wGot)' = (wOffset - wGot) + wGot
       /\ UNCHANGED (mStatus = OK)
    \/ (mStatus = OK) /\ ((mStatus = OK)' = FALSE) /\ UNCHANGED <<Contents, wOffset - wGot>>

\* Advancing a cursor takes from the channel or puts into it, closing closes it, and
\* everything else that either client does is invisible.
LEMMA EveryStepIsTheChannels == IInv /\ DataInv /\ [Next]_vars => ChannelStep
<1> SUFFICES ASSUME IInv, DataInv, [Next]_vars PROVE ChannelStep
  OBVIOUS
<1> DEFINE taken == rOffset - rGot
           sent == wOffset - wGot
<1>1. ASSUME mAvailable' = mAvailable, taken' = taken, sent' = sent, UNCHANGED mStatus PROVE ChannelStep
  BY <1>1, ContentsFrame DEF ChannelStep
<1>2. ASSUME UNCHANGED <<input, rOffset, rGot, writer, mStatus>> PROVE ChannelStep
  BY <1>1, <1>2 DEF input, writer
<1>3. ASSUME UNCHANGED <<input, wOffset, wGot, reader, mStatus>> PROVE ChannelStep
  BY <1>1, <1>3 DEF input, reader
<1>4. ASSUME NEW n \in 1..MaxCount, ReadSegments(n) PROVE ChannelStep
  BY <1>2, <1>4 DEF ReadSegments
<1>5. ASSUME NEW n \in 1..MaxCount, WriteSegments(n) PROVE ChannelStep
  BY <1>3, <1>5 DEF WriteSegments
<1>6. ASSUME NEW n \in 1..MaxCount, CopyFromSegment(n) PROVE ChannelStep
  <2>1. taken' = taken
    BY <1>6, DataNumbers DEF CopyFromSegment
  <2> QED
    BY <1>1, <1>6, <2>1 DEF CopyFromSegment, input, writer
<1>7. ASSUME NEW n \in 1..MaxCount, CopyToSegment(n) PROVE ChannelStep
  <2>1. sent' = sent
    BY <1>7, DataNumbers DEF CopyToSegment
  <2> QED
    BY <1>1, <1>7, <2>1 DEF CopyToSegment, input, reader
<1>8. CASE GetReadSegment
  <2>1. rGot = 0 /\ rGot' = 0
    BY <1>8 DEF GetReadSegment, HoldReadable, DataInv
  <2> QED
    BY <1>2, <1>8, <2>1 DEF GetReadSegment, HoldReadable
<1>9. CASE GetReadSegmentFails \/ InputWaitReturns \/ OnInputStreamReady
  <2>1. rPc \in {"get", "wait", "blocked", "asyncWait"}
    BY <1>9 DEF GetReadSegmentFails, InputWaitReturns, OnInputStreamReady, IInv, OneCallback, TypeOK, StreamType
  <2>2. rGot = 0
    BY <2>1 DEF DataInv
  <2> QED
    BY <1>1, <1>9, <2>2 DEF GetReadSegmentFails, InputWaitReturns, OnInputStreamReady, ReadReturns, ReaderGoesTo,
       input, writer
<1>10. CASE InputWaitBlocks \/ InputAsyncWait
  BY <1>1, <1>10 DEF InputWaitBlocks, InputAsyncWait, ReaderGoesTo, writer
<1>11. CASE ReaderRefuses
  BY <1>2, <1>11 DEF ReaderRefuses, ReadReturns
<1>12. CASE AdvanceWithinSegment \/ DeleteFirstSegment
  <2>1. /\ rPc = "advance" /\ mAvailable' = mAvailable - rGot
        /\ rGot' = 0 /\ rOffset' = rOffset /\ UNCHANGED <<mStatus, writer>>
    BY <1>12 DEF AdvanceWithinSegment, DeleteFirstSegment, AfterAdvanceRead, ReadReturns
  <2>2. mAvailable' \in Nat
    BY StepInv DEF IInv, TypeOK, StreamType
  <2>3. sent' = sent /\ (mStatus = OK)' = (mStatus = OK)
    BY <2>1 DEF writer
  <2> QED
    BY <2>1, <2>2, <2>3, TakesBytes DEF ChannelStep
<1>13. CASE GetWriteSegmentFails \/ GetWriteSegmentFull \/ OutputWaitReturns \/ OnOutputStreamReady
  <2>1. wPc \in {"get", "wait", "blocked", "asyncWait"}
    BY <1>13 DEF GetWriteSegmentFails, GetWriteSegmentFull, OutputWaitReturns, OnOutputStreamReady, IInv,
       OneCallback, TypeOK, StreamType
  <2>2. wGot = 0
    BY <2>1 DEF DataInv
  <2> QED
    BY <1>1, <1>13, <2>2 DEF GetWriteSegmentFails, GetWriteSegmentFull, OutputWaitReturns, OnOutputStreamReady,
       OnPipeException, WriteReturns, WriterGoesTo, input, reader
<1>14. CASE OutputWaitBlocks \/ OutputAsyncWait
  BY <1>3, <1>14 DEF OutputWaitBlocks, OutputAsyncWait, WriterGoesTo
<1>15. CASE WriterRefuses
  BY <1>3, <1>15 DEF WriterRefuses, WriteReturns
<1>16. CASE AdvanceWriteCursor
  <2>1. /\ wPc = "advance" /\ mAvailable' = mAvailable + wGot
        /\ wGot' = 0 /\ wOffset' = wOffset /\ UNCHANGED <<mStatus, reader>>
    BY <1>16 DEF AdvanceWriteCursor, AfterAdvanceWrite, WriteReturns, InputReady
  <2>2. UNCHANGED <<rOffset, rGot>> /\ (mStatus = OK)' = (mStatus = OK)
    BY <2>1 DEF reader
  <2> QED
    BY <2>1, <2>2, PutsBytes DEF ChannelStep
<1>17. CASE GetCurrentSegment \/ AppendNewSegment
  <2>1. wGot = 0 /\ wGot' = 0 /\ wOffset' = wOffset
    BY <1>17 DEF GetCurrentSegment, AppendNewSegment, HandOut, HoldRoom, DataInv
  <2> QED
    BY <1>3, <1>17, <2>1 DEF GetCurrentSegment, AppendNewSegment
<1>18. CASE \E reason \in Reasons : CloseInput(reason) \/ CloseOutput(reason)
  <2>1. /\ UNCHANGED <<mAvailable, rOffset, rGot, wOffset, wGot>>
        /\ mStatus' = mStatus \/ (mStatus = OK /\ mStatus' # OK)
    BY <1>18 DEF CloseInput, CloseOutput, OnPipeException, InputReady, Reasons, OK, reader, writer
  <2> QED
    BY <2>1, CloseCloses DEF ChannelStep
<1>19. CASE (\E t \in {"R", "W"} : InterruptWait(t)) \/ UNCHANGED vars
  BY <1>1, <1>19 DEF InterruptWait, vars, input, reader, writer
<1> QED
  BY <1>4, <1>5, <1>6, <1>7, <1>8, <1>9, <1>10, <1>11, <1>12, <1>13, <1>14, <1>15, <1>16, <1>17, <1>18, <1>19
  DEF Next, ReaderStep, WriterStep

\* The channel that the refinement mapping reads off the buffer is what it should hold.
Mapped == [k \in 1..mAvailable |-> SegmentAt(k)] = Contents

\* Through its committed bytes the pipe is a bounded channel: whatever the segments,
\* the roll-backs and the copying outside the monitor, bytes leave as they entered.
THEOREM PipeIsChannel == Spec => ImplementsChannel
<1>1. Init => Channel!ChanInit
  <2> SUFFICES ASSUME Init PROVE Channel!ChanInit
    OBVIOUS
  <2>1. [k \in 1..mAvailable |-> SegmentAt(k)] = << >>
    <3>1. mAvailable = 0
      BY DEF Init
    <3> QED
      BY <3>1
  <2> QED
    BY <2>1 DEF Init, Channel!ChanInit
<1>2. IInv /\ DataInv => Mapped
  BY BufferIsContents DEF Mapped
<1>3. Mapped /\ Mapped' /\ ChannelStep
        => [Channel!ChanNext]_Channel!chanVars
  <2> SUFFICES ASSUME Mapped, Mapped', ChannelStep
               PROVE  Channel!ChanNext \/ UNCHANGED Channel!chanVars
    OBVIOUS
  <2>1. /\ [k \in 1..mAvailable |-> SegmentAt(k)] = Contents
        /\ [k \in 1..mAvailable |-> SegmentAt(k)]' = Contents'
    BY DEF Mapped
  <2>2. CASE UNCHANGED <<Contents, wOffset - wGot, mStatus = OK>>
    BY <2>1, <2>2 DEF Channel!chanVars
  <2>3. CASE /\ rGot \in 1..SegmentSize * MaxSegments /\ rGot <= Len(Contents)
             /\ Contents' = SubSeq(Contents, rGot + 1, Len(Contents))
             /\ UNCHANGED <<wOffset - wGot, mStatus = OK>>
    <3>1. Channel!Take(rGot)
      BY <2>1, <2>3 DEF Channel!Take
    <3> QED
      BY <2>3, <3>1 DEF Channel!ChanNext
  <2>4. CASE /\ wGot \in 1..SegmentSize * MaxSegments
             /\ Len(Contents) + wGot <= SegmentSize * MaxSegments
             /\ Contents' = Contents \o [k \in 1..wGot |-> (wOffset - wGot) + k - 1]
             /\ (wOffset - wGot)' = (wOffset - wGot) + wGot
             /\ UNCHANGED (mStatus = OK)
    <3>1. Channel!Put(wGot)
      BY <2>1, <2>4 DEF Channel!Put
    <3> QED
      BY <2>4, <3>1 DEF Channel!ChanNext
  <2>5. CASE (mStatus = OK) /\ ((mStatus = OK)' = FALSE) /\ UNCHANGED <<Contents, wOffset - wGot>>
    BY <2>1, <2>5 DEF Channel!ChanNext, Channel!ChanClose
  <2> QED
    BY <2>2, <2>3, <2>4, <2>5 DEF ChannelStep
<1> QED
  BY <1>1, <1>2, <1>3, EveryStepIsTheChannels, DataInvariance, PTL
  DEF Spec, ImplementsChannel, Channel!ChanSpec
=============================================================================
