-------------------------------- MODULE Pipe ---------------------------------
(***************************************************************************)
(* nsPipe (xpcom/io/nsPipe3.cpp): a segmented byte buffer with an input    *)
(* stream and an output stream, used by one reading and one writing client *)
(* thread and closed by either end, or by a third thread.                  *)
(*                                                                         *)
(* Every critical section of the pipe's monitor is one action.  The        *)
(* clients' callbacks copy bytes OUTSIDE the monitor, between              *)
(* Get*Segment and Advance*Cursor, so copying is an action of its own.     *)
(*                                                                         *)
(* A byte is named by its position in the written stream.  A pointer into  *)
(* a segment is its offset there: mReadCursor and mReadLimit point into    *)
(* segment 0 of mBuffer, mWriteCursor and mWriteLimit into segment         *)
(* mWriteSegment, and the code compares a read with a write cursor only    *)
(* when mWriteSegment is 0.                                                *)
(***************************************************************************)
EXTENDS Integers, Sequences

CONSTANTS
    SegmentSize,        \* bytes in a segment
    MaxSegments,        \* the pipe's segmentCount
    Blocks,             \* blocks of memory the allocator hands out as segments
    BlockingIn,         \* does Read block on an empty pipe?
    BlockingOut,        \* does Write block on a full pipe?
    ForeignClose,       \* may an end be closed by a thread that is not its client?
    MayRefuse,          \* may a client's segment callback take no byte?
    AllocMayFail,       \* may the segment allocator fail?
    MayInterrupt,       \* may PR_Interrupt end a wait of the monitor?
    MaxCount,           \* bound: the largest count passed to Read or Write
    MaxBytes            \* bound: bytes the writing client has to write

ASSUME SizeAssumption ==
    /\ SegmentSize \in Nat \ {0}
    /\ MaxSegments \in Nat \ {0}
    /\ MaxCount \in Nat \ {0}
    /\ MaxBytes \in Nat
ASSUME ModeAssumption ==
    {BlockingIn, BlockingOut, ForeignClose, MayRefuse, AllocMayFail, MayInterrupt}
        \subseteq BOOLEAN

Null == -1                          \* a null pointer, and an uninitialised byte
OK == "OK"
Reasons == {"CLOSED", "ERROR"}      \* failure codes an end may be closed with
Offsets == 0..SegmentSize - 1
Cursors == {Null} \cup 0..SegmentSize

VARIABLES
    mBuffer,            \* the segments in use, oldest first
    heap,               \* contents of every block of memory
    mReadCursor, mReadLimit,
    mWriteSegment, mWriteCursor, mWriteLimit,
    mStatus,
    waiters,            \* threads in the wait set of mMonitor
    closedBy,           \* the ends CloseEx was called on
    \* nsPipeInputStream: its fields, and its ready callback on the way to the client
    mAvailable, inBlocked, inNotify, inEvent,
    \* nsPipeOutputStream
    mWritable, outBlocked, outNotify, outEvent,
    \* the reading client's call: where it is, bytes still wanted and bytes read, the
    \* memory it holds (segment, offset, length) and what it took of it, the last
    \* result, and the stream's mLogicalOffset
    rPc, rCount, rDone, rSeg, rPos, rLen, rGot, rResult, rOffset,
    \* the writing client's
    wPc, wCount, wDone, wSeg, wPos, wLen, wGot, wResult, wOffset

segments == <<mBuffer, mWriteSegment, mWriteLimit>>
buffer == <<segments, heap, mReadCursor, mReadLimit, mWriteCursor>>
input == <<mAvailable, inBlocked, inNotify, inEvent>>
output == <<mWritable, outBlocked, outNotify, outEvent>>
reader == <<rPc, rCount, rDone, rSeg, rPos, rLen, rGot, rResult, rOffset>>
writer == <<wPc, wCount, wDone, wSeg, wPos, wLen, wGot, wResult, wOffset>>
vars == <<buffer, mStatus, waiters, closedBy, input, output, reader, writer>>

Init ==
    /\ mBuffer = <<>>
    /\ heap = [b \in Blocks |-> [o \in Offsets |-> Null]]
    /\ mReadCursor = Null /\ mReadLimit = Null
    /\ mWriteSegment = -1 /\ mWriteCursor = Null /\ mWriteLimit = Null
    /\ mStatus = OK
    /\ waiters = {} /\ closedBy = {}
    /\ mAvailable = 0 /\ inBlocked = FALSE /\ inNotify = FALSE /\ inEvent = FALSE
    /\ mWritable = TRUE /\ outBlocked = FALSE /\ outNotify = FALSE /\ outEvent = FALSE
    /\ rPc = "idle" /\ rCount = 0 /\ rDone = 0 /\ rSeg = Null /\ rPos = 0 /\ rLen = 0
    /\ rGot = 0 /\ rResult = "none" /\ rOffset = 0
    /\ wPc = "idle" /\ wCount = 0 /\ wDone = 0 /\ wSeg = Null /\ wPos = 0 /\ wLen = 0
    /\ wGot = 0 /\ wResult = "none" /\ wOffset = 0

------------------------------------------------------------------------------
(* The monitor, and waking the two ends.                                    *)

InUse(b) == \E i \in 1..Len(mBuffer) : mBuffer[i] = b
BufferFull == Len(mBuffer) >= MaxSegments

\* n calls of PR_Notify: each takes one thread out of the wait set, if there is one.
MonitorNotify(n) ==
    \/ n = 0 /\ waiters' = waiters
    \/ n = 1 /\ waiters = {} /\ waiters' = {}
    \/ n = 1 /\ \E t \in waiters : waiters' = waiters \ {t}
    \/ n = 2 /\ waiters' = {}

\* Mutants: a readable pipe that forgets to clear the notify, to count the bytes,
\* or to run the callback.
InputReadyKeepsNotify(avail) ==
    mAvailable' = avail /\ inNotify' = inNotify /\ inEvent' = (inEvent \/ inNotify)
InputReadyUncounted(avail) ==
    mAvailable' = mAvailable /\ inNotify' = FALSE /\ inEvent' = (inEvent \/ inNotify)
\* Mutant: the blocked thread is not notified.
NobodyToWake == 0

\* What OnInputReadable and OnInputException share: a pending notify leaves with
\* the nsPipeEvents; only without one is a blocked reader worth a PR_Notify.
InputReady(avail) ==
    mAvailable' = avail /\ inNotify' = FALSE /\ inEvent' = (inEvent \/ inNotify)
ReaderToWake == IF ~inNotify /\ inBlocked THEN 1 ELSE 0

\* Mutants: mWritable is not updated; the callback is lost.
OutputReadyKeepsFlag(writable) ==
    mWritable' = mWritable /\ outNotify' = FALSE /\ outEvent' = (outEvent \/ outNotify)
OutputReadyDropsEvent(writable) ==
    mWritable' = writable /\ outNotify' = FALSE /\ outEvent' = outEvent

OutputReady(writable) ==
    mWritable' = writable /\ outNotify' = FALSE /\ outEvent' = (outEvent \/ outNotify)
WriterToWake == IF ~outNotify /\ outBlocked THEN 1 ELSE 0

\* nsPipe::OnPipeException.  The first reason stays; an output-only exception
\* reaches the input end only when no byte is left for it.
OnPipeException(reason, outputOnly) ==
    /\ UNCHANGED <<inBlocked, outBlocked>>
    /\ \/ /\ mStatus # OK
          /\ UNCHANGED <<mStatus, waiters, mAvailable, inNotify, inEvent, mWritable, outNotify, outEvent>>
       \/ /\ mStatus = OK /\ (~outputOnly \/ mAvailable = 0)
          /\ mStatus' = reason
          /\ InputReady(mAvailable) /\ OutputReady(FALSE)
          /\ MonitorNotify(ReaderToWake + WriterToWake)
       \/ /\ mStatus = OK /\ outputOnly /\ mAvailable > 0
          /\ mStatus' = reason
          /\ OutputReady(FALSE)
          /\ MonitorNotify(WriterToWake)
          /\ UNCHANGED <<mAvailable, inNotify, inEvent>>

------------------------------------------------------------------------------
(* The reading client: Read / ReadSegments, Wait, AsyncWait.                *)

ReadReturns(res) ==
    /\ rPc' = "idle" /\ rResult' = res
    /\ rCount' = 0 /\ rDone' = 0 /\ rSeg' = Null /\ rPos' = 0 /\ rLen' = 0 /\ rGot' = 0
    /\ UNCHANGED rOffset

ReaderGoesTo(pc) ==
    rPc' = pc /\ UNCHANGED <<rCount, rDone, rSeg, rPos, rLen, rGot, rResult, rOffset>>

\* The client asks for count bytes; a client whose last Read said WOULD_BLOCK
\* waits for its callback first.
ReadSegments(count) ==
    /\ rPc = "idle" /\ rResult # "WOULD_BLOCK"
    /\ rPc' = "get" /\ rCount' = count /\ rResult' = "none"
    /\ UNCHANGED <<rDone, rSeg, rPos, rLen, rGot, rOffset>>
    /\ UNCHANGED <<buffer, mStatus, waiters, closedBy, input, output, writer>>

\* The client is shown len bytes of the first segment, from the read cursor on.
HoldReadable(len) ==
    /\ rPc' = "copy" /\ rSeg' = mBuffer[1] /\ rPos' = mReadCursor /\ rLen' = len /\ rGot' = 0
    /\ UNCHANGED <<rCount, rDone, rResult, rOffset>>

\* GetReadSegment succeeds: the client holds a pointer to the readable bytes of
\* the first segment once the monitor is left.
GetReadSegment ==
    /\ rPc = "get" /\ mReadCursor # mReadLimit
    /\ \/ mReadLimit - mReadCursor > rCount /\ HoldReadable(rCount)
       \/ mReadLimit - mReadCursor <= rCount /\ HoldReadable(mReadLimit - mReadCursor)
    /\ UNCHANGED <<buffer, mStatus, waiters, closedBy, input, output, writer>>

\* GetReadSegment fails: nothing to read now, or nothing will ever be.  The
\* OnPipeException that follows a failure finds mStatus set and does nothing.
GetReadSegmentFails ==
    /\ rPc = "get" /\ mReadCursor = mReadLimit
    /\ \/ rDone > 0 /\ ReadReturns(OK)
       \/ rDone = 0 /\ mStatus = OK /\ BlockingIn /\ ReaderGoesTo("wait")
       \/ rDone = 0 /\ mStatus = OK /\ ~BlockingIn /\ ReadReturns("WOULD_BLOCK")
       \/ rDone = 0 /\ mStatus = "CLOSED" /\ ReadReturns("EOF")
       \/ rDone = 0 /\ mStatus = "ERROR" /\ ReadReturns("ERROR")
    /\ UNCHANGED <<buffer, mStatus, waiters, closedBy, input, output, writer>>

\* nsPipeInputStream::Wait up to mon.Wait(), or once round its while loop.
InputWaitBlocks ==
    /\ rPc \in {"wait", "blocked"} /\ "R" \notin waiters
    /\ mStatus = OK /\ mAvailable = 0
    /\ ReaderGoesTo("blocked")
    /\ inBlocked' = TRUE
    /\ waiters' = waiters \cup {"R"}
    /\ UNCHANGED <<buffer, mStatus, closedBy, mAvailable, inNotify, inEvent, output, writer>>

\* The while loop of Wait ends: the read is tried again, or the pipe has failed.
InputWaitReturns ==
    /\ rPc \in {"wait", "blocked"} /\ "R" \notin waiters
    /\ ~(mStatus = OK /\ mAvailable = 0)
    /\ inBlocked' = FALSE
    /\ \/ mStatus = "ERROR" /\ ReadReturns("ERROR")
       \/ mStatus # "ERROR" /\ ReaderGoesTo("get")
    /\ UNCHANGED <<buffer, mStatus, waiters, closedBy, mAvailable, inNotify, inEvent, output, writer>>

\* The client's segment callback takes n bytes from the memory it was shown.
CopyFromSegment(n) ==
    /\ rPc = "copy" /\ n <= rLen
    /\ rPc' = (IF n = rLen THEN "advance" ELSE "copy")
    /\ rPos' = rPos + n /\ rLen' = rLen - n /\ rCount' = rCount - n
    /\ rDone' = rDone + n /\ rGot' = rGot + n /\ rOffset' = rOffset + n
    /\ UNCHANGED <<rSeg, rResult>>
    /\ UNCHANGED <<buffer, mStatus, waiters, closedBy, input, output, writer>>

\* The callback takes nothing more, which ends the call.
ReaderRefuses ==
    /\ MayRefuse /\ rPc = "copy"
    /\ \/ rGot = 0 /\ ReadReturns(OK)
       \/ /\ rGot > 0 /\ rPc' = "advance" /\ rCount' = 0
          /\ UNCHANGED <<rDone, rSeg, rPos, rLen, rGot, rResult, rOffset>>
    /\ UNCHANGED <<buffer, mStatus, waiters, closedBy, input, output, writer>>

AfterAdvanceRead ==
    \/ rCount = 0 /\ ReadReturns(OK)
    \/ /\ rCount > 0 /\ rPc' = "get" /\ rSeg' = Null /\ rPos' = 0 /\ rLen' = 0 /\ rGot' = 0
       /\ UNCHANGED <<rCount, rDone, rResult, rOffset>>

\* AdvanceReadCursor, the first segment not yet used up: read out but still being
\* written, or not read out.
AdvanceWithinSegment ==
    /\ rPc = "advance"
    /\ mReadCursor + rGot # mReadLimit \/ (mWriteSegment = 0 /\ mWriteLimit > mWriteCursor)
    /\ mReadCursor' = mReadCursor + rGot
    /\ mAvailable' = mAvailable - rGot
    /\ AfterAdvanceRead
    /\ UNCHANGED <<segments, heap, mReadLimit, mWriteCursor, mStatus, waiters, closedBy,
                   inBlocked, inNotify, inEvent, output, writer>>

\* Mutant: the test for a segment still being written is missing.
DeleteSegmentInUse ==
    /\ rPc = "advance" /\ mReadCursor + rGot = mReadLimit
    /\ mAvailable' = mAvailable - rGot
    /\ mWriteSegment' = mWriteSegment - 1
    /\ mBuffer' = Tail(mBuffer)
    /\ mReadCursor' = Null /\ mReadLimit' = Null /\ mWriteCursor' = Null /\ mWriteLimit' = Null
    /\ OutputReady(TRUE)
    /\ MonitorNotify(WriterToWake)
    /\ AfterAdvanceRead
    /\ UNCHANGED <<heap, mStatus, closedBy, inBlocked, inNotify, inEvent, outBlocked, writer>>

\* AdvanceReadCursor, the first segment used up: its memory is freed and the
\* writing end hears that there is room.
DeleteFirstSegment ==
    /\ rPc = "advance"
    /\ mReadCursor + rGot = mReadLimit /\ ~(mWriteSegment = 0 /\ mWriteLimit > mWriteCursor)
    /\ mAvailable' = mAvailable - rGot
    /\ mWriteSegment' = mWriteSegment - 1
    /\ heap' = [heap EXCEPT ![mBuffer[1]] = [o \in Offsets |-> Null]]
    /\ mBuffer' = Tail(mBuffer)
    /\ \/ /\ mWriteSegment = 0
          /\ mReadCursor' = Null /\ mReadLimit' = Null
          /\ mWriteCursor' = Null /\ mWriteLimit' = Null
       \/ /\ mWriteSegment > 0
          /\ mReadCursor' = 0
          /\ mReadLimit' = (IF mWriteSegment = 1 THEN mWriteCursor ELSE SegmentSize)
          /\ UNCHANGED <<mWriteCursor, mWriteLimit>>
    /\ OutputReady(TRUE)
    /\ MonitorNotify(WriterToWake)
    /\ AfterAdvanceRead
    /\ UNCHANGED <<mStatus, closedBy, inBlocked, inNotify, inEvent, outBlocked, writer>>

\* Mutant: the notify is queued without a look at what is available.
InputAsyncWaitBlind ==
    /\ rPc = "idle" /\ rResult # "READY"
    /\ inNotify' = TRUE
    /\ ReaderGoesTo("asyncWait")
    /\ UNCHANGED <<buffer, mStatus, waiters, closedBy, mAvailable, inBlocked, inEvent, output, writer>>

\* nsPipeInputStream::AsyncWait: at once when there is something to know.
InputAsyncWait ==
    /\ rPc = "idle" /\ rResult # "READY"
    /\ \/ (mStatus # OK \/ mAvailable > 0) /\ inNotify' = FALSE /\ inEvent' = TRUE
       \/ mStatus = OK /\ mAvailable = 0 /\ inNotify' = TRUE /\ inEvent' = inEvent
    /\ ReaderGoesTo("asyncWait")
    /\ UNCHANGED <<buffer, mStatus, waiters, closedBy, mAvailable, inBlocked, output, writer>>

\* The destructor of nsPipeEvents (or the event it posted) runs the callback.
OnInputStreamReady ==
    /\ inEvent /\ inEvent' = FALSE
    /\ ReadReturns("READY")
    /\ UNCHANGED <<buffer, mStatus, waiters, closedBy, mAvailable, inBlocked, inNotify, output, writer>>

------------------------------------------------------------------------------
(* The writing client: Write / WriteSegments, Wait, AsyncWait.              *)

WriteReturns(res) ==
    /\ wPc' = "idle" /\ wResult' = res
    /\ wCount' = 0 /\ wDone' = 0 /\ wSeg' = Null /\ wPos' = 0 /\ wLen' = 0 /\ wGot' = 0
    /\ UNCHANGED wOffset

WriterGoesTo(pc) ==
    wPc' = pc /\ UNCHANGED <<wCount, wDone, wSeg, wPos, wLen, wGot, wResult, wOffset>>

WriteSegments(count) ==
    /\ wPc = "idle" /\ wResult # "WOULD_BLOCK"
    /\ wOffset + count <= MaxBytes
    /\ wPc' = "get" /\ wCount' = count /\ wResult' = "none"
    /\ UNCHANGED <<wDone, wSeg, wPos, wLen, wGot, wOffset>>
    /\ UNCHANGED <<buffer, mStatus, waiters, closedBy, input, output, reader>>

\* GetWriteSegment on a closed pipe; the exception it then raises is not the first.
GetWriteSegmentFails ==
    /\ wPc = "get" /\ mStatus # OK
    /\ OnPipeException(mStatus, FALSE)
    /\ WriteReturns(mStatus)
    /\ UNCHANGED <<buffer, closedBy, reader>>

\* GetWriteSegment, current segment full and no new one to be had.
GetWriteSegmentFull ==
    /\ wPc = "get" /\ mStatus = OK
    /\ mWriteCursor = mWriteLimit /\ (BufferFull \/ AllocMayFail)
    /\ \/ BlockingOut /\ WriterGoesTo("wait")
       \/ ~BlockingOut /\ wDone > 0 /\ WriteReturns(OK)
       \/ ~BlockingOut /\ wDone = 0 /\ WriteReturns("WOULD_BLOCK")
    /\ UNCHANGED <<buffer, mStatus, waiters, closedBy, input, output, reader>>

\* The client gets the room of segment seg between two offsets.
HoldRoom(seg, from, to) ==
    /\ wPc' = "copy" /\ wSeg' = seg /\ wPos' = from /\ wGot' = 0
    /\ wLen' = (IF to - from > wCount THEN wCount ELSE to - from)
    /\ UNCHANGED <<wCount, wDone, wResult, wOffset>>

\* Mutant: the cursors roll back in whatever segment the writer is.
HandOutRollsBackAnywhere(seg, cursor, limit) ==
    /\ mWriteLimit' = limit
    /\ LET rCursor == IF mReadCursor = Null THEN cursor ELSE mReadCursor
       IN  \/ /\ rCursor = cursor
              /\ mReadCursor' = 0 /\ mReadLimit' = 0 /\ mWriteCursor' = 0
              /\ HoldRoom(seg, 0, limit)
           \/ /\ rCursor # cursor
              /\ mWriteCursor' = cursor
              /\ HoldRoom(seg, cursor, limit)
              /\ UNCHANGED <<mReadCursor, mReadLimit>>

\* The tail of GetWriteSegment: the read cursor is set if it was null (the buffer
\* was empty), both cursors roll back to the head of an only segment that has been
\* read out, and the client gets the room behind the write cursor.
HandOut(seg, cursor, limit) ==
    /\ mWriteLimit' = limit
    /\ \/ /\ mWriteSegment' = 0 /\ mReadCursor \in {Null, cursor}
          /\ mReadCursor' = 0 /\ mReadLimit' = 0 /\ mWriteCursor' = 0
          /\ HoldRoom(seg, 0, limit)
       \/ /\ ~(mWriteSegment' = 0 /\ mReadCursor \in {Null, cursor})
          /\ mReadCursor' = (IF mReadCursor = Null THEN cursor ELSE mReadCursor)
          /\ mReadLimit' = (IF mReadCursor = Null THEN cursor ELSE mReadLimit)
          /\ mWriteCursor' = cursor
          /\ HoldRoom(seg, cursor, limit)

\* Mutant: the status is not checked.
GetCurrentSegmentUnchecked ==
    /\ wPc = "get" /\ mWriteCursor # mWriteLimit
    /\ mWriteSegment' = mWriteSegment
    /\ HandOut(mBuffer[mWriteSegment + 1], mWriteCursor, mWriteLimit)
    /\ UNCHANGED <<mBuffer, heap, mStatus, waiters, closedBy, input, output, reader>>

GetCurrentSegment ==
    /\ wPc = "get" /\ mStatus = OK /\ mWriteCursor # mWriteLimit
    /\ mWriteSegment' = mWriteSegment
    /\ HandOut(mBuffer[mWriteSegment + 1], mWriteCursor, mWriteLimit)
    /\ UNCHANGED <<mBuffer, heap, mStatus, waiters, closedBy, input, output, reader>>

AppendNewSegment ==
    /\ wPc = "get" /\ mStatus = OK /\ mWriteCursor = mWriteLimit /\ ~BufferFull
    /\ \E b \in Blocks :
        /\ ~InUse(b)
        /\ mBuffer' = Append(mBuffer, b)
        /\ mWriteSegment' = mWriteSegment + 1
        /\ HandOut(b, 0, SegmentSize)
    /\ UNCHANGED <<heap, mStatus, waiters, closedBy, input, output, reader>>

\* nsPipeOutputStream::Wait: an `if`, so whoever is woken tries the write again.
OutputWaitBlocks ==
    /\ wPc = "wait" /\ mStatus = OK /\ ~mWritable
    /\ WriterGoesTo("blocked")
    /\ outBlocked' = TRUE
    /\ waiters' = waiters \cup {"W"}
    /\ UNCHANGED <<buffer, mStatus, closedBy, input, mWritable, outNotify, outEvent, reader>>

OutputWaitReturns ==
    /\ \/ wPc = "wait" /\ ~(mStatus = OK /\ ~mWritable)
       \/ wPc = "blocked" /\ "W" \notin waiters
    /\ outBlocked' = FALSE
    /\ \/ mStatus = "ERROR" /\ WriteReturns("ERROR")
       \/ mStatus # "ERROR" /\ WriterGoesTo("get")
    /\ UNCHANGED <<buffer, mStatus, waiters, closedBy, input, mWritable, outNotify, outEvent, reader>>

\* The client's segment callback stores its next n bytes through the pointer it holds.
CopyToSegment(n) ==
    /\ wPc = "copy" /\ n <= wLen
    /\ heap' = [heap EXCEPT ![wSeg] =
                   [o \in Offsets |-> IF o \in wPos..wPos + n - 1
                                      THEN wOffset + (o - wPos) ELSE heap[wSeg][o]]]
    /\ wPc' = (IF n = wLen THEN "advance" ELSE "copy")
    /\ wPos' = wPos + n /\ wLen' = wLen - n /\ wCount' = wCount - n
    /\ wDone' = wDone + n /\ wGot' = wGot + n /\ wOffset' = wOffset + n
    /\ UNCHANGED <<wSeg, wResult>>
    /\ UNCHANGED <<segments, mReadCursor, mReadLimit, mWriteCursor, mStatus, waiters, closedBy,
                   input, output, reader>>

WriterRefuses ==
    /\ MayRefuse /\ wPc = "copy"
    /\ \/ wGot = 0 /\ WriteReturns(OK)
       \/ /\ wGot > 0 /\ wPc' = "advance" /\ wCount' = 0
          /\ UNCHANGED <<wDone, wSeg, wPos, wLen, wGot, wResult, wOffset>>
    /\ UNCHANGED <<buffer, mStatus, waiters, closedBy, input, output, reader>>

AfterAdvanceWrite ==
    \/ wCount = 0 /\ WriteReturns(OK)
    \/ /\ wCount > 0 /\ wPc' = "get" /\ wSeg' = Null /\ wPos' = 0 /\ wLen' = 0 /\ wGot' = 0
       /\ UNCHANGED <<wCount, wDone, wResult, wOffset>>

\* Mutant: the read limit follows the writer into every segment.
AdvanceWriteCursorAnySegment ==
    /\ wPc = "advance"
    /\ mWriteCursor' = mWriteCursor + wGot
    /\ mReadLimit' = mWriteCursor + wGot
    /\ mWritable' = (mWritable /\ ~(mWriteCursor + wGot = mWriteLimit /\ BufferFull))
    /\ InputReady(mAvailable + wGot)
    /\ MonitorNotify(ReaderToWake)
    /\ AfterAdvanceWrite
    /\ UNCHANGED <<segments, heap, mReadCursor, mStatus, closedBy, inBlocked,
                   outBlocked, outNotify, outEvent, reader>>

\* AdvanceWriteCursor.  It does not look at mStatus: what was copied is committed
\* even when the pipe was closed meanwhile.
AdvanceWriteCursor ==
    /\ wPc = "advance"
    /\ mWriteCursor' = mWriteCursor + wGot
    /\ mReadLimit' = (IF mWriteSegment = 0 /\ mReadLimit = mWriteCursor
                      THEN mWriteCursor + wGot ELSE mReadLimit)
    /\ mWritable' = (mWritable /\ ~(mWriteCursor + wGot = mWriteLimit /\ BufferFull))
    /\ InputReady(mAvailable + wGot)
    /\ MonitorNotify(ReaderToWake)
    /\ AfterAdvanceWrite
    /\ UNCHANGED <<segments, heap, mReadCursor, mStatus, closedBy, inBlocked,
                   outBlocked, outNotify, outEvent, reader>>

OutputAsyncWait ==
    /\ wPc = "idle" /\ wResult # "READY"
    /\ \/ (mStatus # OK \/ mWritable) /\ outNotify' = FALSE /\ outEvent' = TRUE
       \/ mStatus = OK /\ ~mWritable /\ outNotify' = TRUE /\ outEvent' = outEvent
    /\ WriterGoesTo("asyncWait")
    /\ UNCHANGED <<buffer, mStatus, waiters, closedBy, input, mWritable, outBlocked, reader>>

OnOutputStreamReady ==
    /\ outEvent /\ outEvent' = FALSE
    /\ WriteReturns("READY")
    /\ UNCHANGED <<buffer, mStatus, waiters, closedBy, input, mWritable, outBlocked, outNotify, reader>>

------------------------------------------------------------------------------
(* Closing, and the specification.                                          *)

\* CloseEx, Close, and the Release that drops the last reference to an end.
CloseInput(reason) ==
    /\ "in" \notin closedBy
    /\ ForeignClose \/ rPc = "idle"
    /\ closedBy' = closedBy \cup {"in"}
    /\ OnPipeException(reason, FALSE)
    /\ UNCHANGED <<buffer, reader, writer>>

CloseOutput(reason) ==
    /\ "out" \notin closedBy
    /\ ForeignClose \/ wPc = "idle"
    /\ closedBy' = closedBy \cup {"out"}
    /\ OnPipeException(reason, TRUE)
    /\ UNCHANGED <<buffer, reader, writer>>

\* mon.Wait() returns unnotified in a thread that PR_Interrupt hits.
InterruptWait(t) ==
    /\ MayInterrupt /\ t \in waiters
    /\ waiters' = waiters \ {t}
    /\ UNCHANGED <<buffer, mStatus, closedBy, input, output, reader, writer>>

ReaderStep ==
    \/ \E n \in 1..MaxCount : ReadSegments(n) \/ CopyFromSegment(n)
    \/ GetReadSegment \/ GetReadSegmentFails \/ InputWaitBlocks \/ InputWaitReturns
    \/ ReaderRefuses \/ AdvanceWithinSegment \/ DeleteFirstSegment \/ InputAsyncWait

WriterStep ==
    \/ \E n \in 1..MaxCount : WriteSegments(n) \/ CopyToSegment(n)
    \/ GetWriteSegmentFails \/ GetWriteSegmentFull \/ GetCurrentSegment \/ AppendNewSegment
    \/ OutputWaitBlocks \/ OutputWaitReturns \/ WriterRefuses \/ AdvanceWriteCursor
    \/ OutputAsyncWait

Next ==
    \/ ReaderStep \/ WriterStep \/ OnInputStreamReady \/ OnOutputStreamReady
    \/ \E reason \in Reasons : CloseInput(reason) \/ CloseOutput(reason)
    \/ \E t \in {"R", "W"} : InterruptWait(t)

Spec == Init /\ [][Next]_vars

\* Client threads keep running and callbacks are delivered; nobody has to close.
FairSpec ==
    /\ Spec
    /\ WF_vars(ReaderStep) /\ WF_vars(WriterStep)
    /\ WF_vars(OnInputStreamReady) /\ WF_vars(OnOutputStreamReady)

------------------------------------------------------------------------------
(* Properties.                                                              *)

Pcs == {"idle", "get", "wait", "blocked", "copy", "advance", "asyncWait"}
Results == {"none", OK, "WOULD_BLOCK", "EOF", "CLOSED", "ERROR", "READY"}

HeapType == heap \in [Blocks -> [Offsets -> Nat \cup {Null}]]
BufferType ==
    /\ mBuffer \in Seq(Blocks)
    /\ mReadCursor \in Cursors /\ mReadLimit \in Cursors
    /\ mWriteCursor \in Cursors /\ mWriteLimit \in Cursors
    /\ mWriteSegment \in Nat \cup {-1}
StreamType ==
    /\ mStatus \in Reasons \cup {OK}
    /\ waiters \subseteq {"R", "W"} /\ closedBy \subseteq {"in", "out"}
    /\ mAvailable \in Nat
    /\ inBlocked \in BOOLEAN /\ inNotify \in BOOLEAN /\ inEvent \in BOOLEAN
    /\ mWritable \in BOOLEAN
    /\ outBlocked \in BOOLEAN /\ outNotify \in BOOLEAN /\ outEvent \in BOOLEAN
ReaderType ==
    /\ rPc \in Pcs /\ rResult \in Results /\ rSeg \in Blocks \cup {Null} /\ rOffset \in Nat
    /\ rCount \in 0..MaxCount /\ rDone \in 0..MaxCount
    /\ rPos \in 0..SegmentSize /\ rLen \in 0..SegmentSize /\ rGot \in 0..SegmentSize
WriterType ==
    /\ wPc \in Pcs /\ wResult \in Results /\ wSeg \in Blocks \cup {Null} /\ wOffset \in Nat
    /\ wCount \in 0..MaxCount /\ wDone \in 0..MaxCount
    /\ wPos \in 0..SegmentSize /\ wLen \in 0..SegmentSize /\ wGot \in 0..SegmentSize

\* Every variable keeps its type, and the cursors stay inside a segment.
TypeOK ==
    /\ HeapType /\ BufferType /\ StreamType /\ ReaderType /\ WriterType

\* The bytes a reading client sees through the pointer it holds outside the
\* monitor are exactly the next ones of the stream, whatever the writer does
\* meanwhile: none lost, repeated, reordered or overwritten.
BytesInOrder ==
    rPc = "copy" => \A i \in 0..rLen - 1 : heap[rSeg][rPos + i] = rOffset + i

\* A pointer held outside the monitor stays valid: its segment is still in the
\* buffer, and reader and writer never hold the same byte of memory.
HeldMemoryIsLive ==
    /\ rPc = "copy" => InUse(rSeg)
    /\ wPc = "copy" => InUse(wSeg) /\ wPos + wLen <= mWriteLimit
    /\ rPc = "copy" /\ wPc = "copy" /\ rSeg = wSeg => rPos + rLen <= wPos

\* mAvailable, which decides whether an output-only close ends the reader too and
\* whether a reader sleeps, is the number of bytes between the cursors.
Buffered ==
    IF mReadCursor = Null THEN 0
    ELSE IF mWriteSegment = 0 THEN mWriteCursor - mReadCursor
    ELSE SegmentSize - mReadCursor + SegmentSize * (mWriteSegment - 1) + mWriteCursor
AvailableIsBuffered == mAvailable = Buffered

\* Nobody waits for what is already there: a reader asleep in the monitor, or with
\* a pending notify, has an open pipe with no byte in it, and a writer one without room.
NoMissedWakeup ==
    /\ "R" \in waiters \/ inNotify => mStatus = OK /\ mAvailable = 0
    /\ "W" \in waiters \/ outNotify => mStatus = OK /\ BufferFull /\ mWriteCursor = mWriteLimit

\* mWritable says whether an open pipe can take another byte.  Were it TRUE on a
\* full pipe, a blocking writer would spin through Wait.
WritableIsRoom ==
    mStatus = OK => (mWritable <=> ~(BufferFull /\ mWriteCursor = mWriteLimit))

\* What the pipe remembers of its buffer, instead of looking at it, is true of it.
CountsAgree == AvailableIsBuffered /\ WritableIsRoom

\* One AsyncWait is answered by one callback: while a client waits there is either
\* a pending notify or a callback on its way, not both, and otherwise neither.
OneCallback ==
    /\ (rPc = "asyncWait") <=> inNotify \/ inEvent
    /\ ~(inNotify /\ inEvent)
    /\ (wPc = "asyncWait") <=> outNotify \/ outEvent
    /\ ~(outNotify /\ outEvent)

\* End of file is final: once Read said so, and the reader did not close its own
\* end, no byte enters the pipe any more.  (Only the writing client closes.)
EofIsFinal ==
    [][rResult = "EOF" /\ "in" \notin closedBy => mAvailable' = 0 /\ rPc' # "copy"]_vars

\* The buffer is invisible: through its committed bytes the pipe is a bounded channel.
SegmentAt(k) ==     \* segment and offset of the k-th buffered byte, k >= 1
    LET at == mReadCursor + k - 1
    IN  heap[mBuffer[at \div SegmentSize + 1]][at % SegmentSize]
Channel == INSTANCE ByteChannel WITH
    Capacity <- SegmentSize * MaxSegments,
    chan <- [k \in 1..mAvailable |-> SegmentAt(k)],
    sent <- wOffset - wGot,
    open <- mStatus = OK
ImplementsChannel == Channel!ChanSpec

\* What is committed is delivered, unless the reader closes its end.
DataIsDelivered ==
    \A k \in 1..MaxBytes :
        wOffset >= k ~> rOffset >= k \/ "in" \in closedBy

\* Closing releases everybody: on a closed pipe no client sleeps in the monitor, or
\* waits for its callback, for good.
CloseReleases ==
    /\ mStatus # OK /\ rPc \in {"blocked", "asyncWait"} ~> rPc \notin {"blocked", "asyncWait"}
    /\ mStatus # OK /\ wPc \in {"blocked", "asyncWait"} ~> wPc \notin {"blocked", "asyncWait"}

\* A Write gets done while somebody reads: it neither sleeps nor spins for good.
WriteCompletes == wPc \in {"get", "wait", "blocked"} ~> wPc = "idle" \/ wPc = "copy"

\* Neither end waits for ever for the other: bytes arrive and writes complete.
Progress == DataIsDelivered /\ WriteCompletes
==============================================================================
