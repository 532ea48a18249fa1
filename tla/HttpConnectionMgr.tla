------------------------- MODULE HttpConnectionMgr ---------------------------
(***************************************************************************)
(* The HTTP connection manager: nsHttpConnectionMgr, and as much of        *)
(* nsHttpConnection and nsHttpTransaction as decides when a transaction is *)
(* dispatched, dispatched again, or closed.                                *)
(*                                                                         *)
(* Any thread posts messages; the socket thread takes them in order, and   *)
(* between them it calls the connections whose sockets are ready.  Only    *)
(* the socket thread touches the table of connections, so that each        *)
(* handler is one action.  A transaction of which the connection failed    *)
(* may be restarted: it is posted as a new one.                            *)
(*                                                                         *)
(* Left out: pipelines (off unless a preference is set), CONNECT through a *)
(* proxy, and a second Init after Shutdown.                                *)
(***************************************************************************)
EXTENDS Naturals, Sequences, FiniteSets, Sublists

CONSTANTS
    Transactions,           \* 1 .. N: they are added in this order
    KeepAlive,              \* those that ask for keep-alive (their caps)
    Hosts,                  \* nsHttpConnectionInfo's, told apart by their hash keys
    ConnectionInfo,         \* of a transaction
    Connections,
    NoConnection, NoTransaction, NoHost,
    Orphan,                 \* a connection that only a transaction still points to
    mMaxConns, mMaxConnsPerHost, mMaxPersistConnsPerHost,
    MaxRequestAttempts,
    MaxIncidents            \* transactions cancelled, and times that so much time passes
                            \* that the code does something about it

ASSUME HttpAssumption ==
    /\ Transactions \subseteq Nat /\ KeepAlive \subseteq Transactions
    /\ ConnectionInfo \in [Transactions -> Hosts]
    /\ Connections \subseteq Nat /\ IsFiniteSet(Connections) /\ Cardinality(Connections) > mMaxConns
    /\ NoConnection \notin Connections /\ Orphan \notin Connections \union {NoConnection}
    /\ NoTransaction \notin Transactions
    /\ NoHost \notin Hosts
    /\ mMaxConns \in Nat \ {0} /\ mMaxConnsPerHost \in Nat \ {0}
    /\ mMaxPersistConnsPerHost \in Nat \ {0}
    /\ MaxRequestAttempts \in Nat \ {0}
    /\ MaxIncidents \in Nat

VARIABLES
    shutdown,           \* "none" while mSTS is set, then whether Shutdown still waits
    eventQ,             \* messages to the socket thread
    incidents,
    mPendingQ, mActiveConns, mIdleConns,    \* of the nsConnectionEntry's
    mNumActiveConns, mNumIdleConns,
    conn,               \* the nsHttpConnection's
    trans,              \* the nsHttpTransaction's
    crashed

mgrVars == <<mPendingQ, mActiveConns, mIdleConns, mNumActiveConns, mNumIdleConns>>
clientVars == <<shutdown, incidents>>
vars == <<eventQ, mgrVars, conn, trans, clientVars, crashed>>

\* transport: none yet, open, or closed by us.  mKeepAlive is what IsKeepAlive says.  waitsTo: write
\* or read, for which the socket calls when it can; or room in the pipe that takes the response, while
\* nobody waits for the socket.
ConnInfo == [mConnInfo : Hosts \union {NoHost}, mTransaction : Transactions \union {NoTransaction},
             transport : {"none", "open", "closed"}, mKeepAlive : BOOLEAN,
             mIsReused : BOOLEAN, waitsTo : {"write", "read", "pipe"}]
Free == [mConnInfo |-> NoHost, mTransaction |-> NoTransaction, transport |-> "none",
         mKeepAlive |-> TRUE, mIsReused |-> FALSE, waitsTo |-> "write"]

\* status: not added, open, or closed; "failed" is closed with a failure (mStatus), which only a
\* message that is still to dispatch the transaction asks: without one it is forgotten.
\* taken is not in the code: see NotRepeated.  Nobody reads the other
\* fields of a transaction that is closed: they are cleared.
TransInfo == [status : {"unused", "open", "closed", "failed"},
              mConnection : Connections \union {NoConnection, Orphan},
              mSentData : BOOLEAN, mReceivedData : BOOLEAN, mRestartCount : Nat, taken : BOOLEAN]
Blank(st) == [status |-> st, mConnection |-> NoConnection,
              mSentData |-> FALSE, mReceivedData |-> FALSE, mRestartCount |-> 0, taken |-> FALSE]

Message(type, t, h) == [type |-> type, trans |-> t, ci |-> h]
NewTransaction(t) == Message("NEW_TRANSACTION", t, NoHost)
ProcessPendingQ(h) == Message("PROCESS_PENDING_Q", NoTransaction, h)

Init ==
    /\ shutdown = "none"
    /\ eventQ = << >>
    /\ incidents = 0
    /\ mPendingQ = [h \in Hosts |-> << >>]
    /\ mActiveConns = [h \in Hosts |-> {}]
    /\ mIdleConns = [h \in Hosts |-> << >>]
    /\ mNumActiveConns = 0
    /\ mNumIdleConns = 0
    /\ conn = [c \in Connections |-> Free]
    /\ trans = [t \in Transactions |-> Blank("unused")]
    /\ crashed = FALSE

-----------------------------------------------------------------------------
(* Messages.  PostEvent fails once Shutdown has let go of the socket        *)
(* transport service; a client's call then has no effect.                   *)

mSTS == shutdown = "none"

\* Mutant: PostEvent does not ask whether the socket transport service is still there.
PostedAlways(q, messages) == q \o messages

\* The queue q with messages posted to it.
Posted(q, messages) == IF mSTS THEN q \o messages ELSE q

Incident == incidents < MaxIncidents /\ incidents' = incidents + 1

AddTransaction(t) ==
    /\ mSTS
    /\ trans[t].status = "unused"
    /\ \A u \in Transactions : u < t => trans[u].status # "unused"
    /\ trans' = [trans EXCEPT ![t] = Blank("open")]
    /\ eventQ' = Posted(eventQ, <<NewTransaction(t)>>)
    /\ UNCHANGED <<clientVars, mgrVars, conn, crashed>>

\* To cancel a transaction that is closed has no effect.
CancelTransaction(t) ==
    /\ mSTS
    /\ trans[t].status = "open"
    /\ Incident
    /\ eventQ' = Posted(eventQ, <<Message("CANCEL_TRANSACTION", t, NoHost)>>)
    /\ UNCHANGED <<shutdown, mgrVars, conn, trans, crashed>>

\* Shutdown posts its message, after which nothing can be posted, and waits.
Shutdown ==
    /\ mSTS
    /\ shutdown' = "waits"
    /\ eventQ' = Posted(eventQ, <<Message("SHUTDOWN", NoTransaction, NoHost)>>)
    /\ UNCHANGED <<incidents, mgrVars, conn, trans, crashed>>

Serves(type) == eventQ # << >> /\ Head(eventQ).type = type

-----------------------------------------------------------------------------
(* Connections and the limits on them.                                      *)

\* The entries: one with nothing in it is as good as none, and is deleted by the timer's message.
mCT == {h \in Hosts : mPendingQ[h] # << >> \/ mActiveConns[h] # {} \/ mIdleConns[h] # << >>}

Elements(s) == {s[i] : i \in DOMAIN s}
IndexOf(s, x) == CHOOSE i \in DOMAIN s : s[i] = x /\ \A j \in 1..i - 1 : s[j] # x
RemoveElementAt(s, i) == SubSeq(s, 1, i - 1) \o SubSeq(s, i + 1, Len(s))
IdleConns(list) == UNION {Elements(list[h]) : h \in Hosts}

AtActiveConnectionLimit(h, keepAlive) ==
    \/ mNumActiveConns >= mMaxConns
    \/ Cardinality(mActiveConns[h]) >= mMaxConnsPerHost
    \/ keepAlive /\ Cardinality({c \in mActiveConns[h] : conn[c].mKeepAlive}) >= mMaxPersistConnsPerHost

NewConnection == CHOOSE c \in Connections : conn[c] = Free /\ \A d \in Connections : conn[d] = Free => c <= d

\* DispatchTransaction when Activate succeeds: c has t, and a transport that it waits for; the
\* connections dropped are deleted.
Dispatched(h, t, c, reused, dropped) ==
    /\ mActiveConns' = [mActiveConns EXCEPT ![h] = @ \union {c}]
    /\ mNumActiveConns' = mNumActiveConns + 1
    /\ conn' = [d \in Connections |->
                  IF d = c THEN [mConnInfo |-> h, mTransaction |-> t, transport |-> "open",
                                 mKeepAlive |-> t \in KeepAlive, mIsReused |-> reused, waitsTo |-> "write"]
                  ELSE IF d \in dropped THEN Free ELSE conn[d]]
    /\ trans' = [trans EXCEPT ![t].mConnection = c]

\* GetConnection takes the first idle connection that can be reused, and drops those before it:
\* their servers have left, or they were idle for too long.  It has a transport, and to wait for
\* that on the socket thread cannot fail.
DispatchOnIdle(h, t) ==
    \E n \in DOMAIN mIdleConns[h] :
        /\ t \in KeepAlive
        /\ mIdleConns' = [mIdleConns EXCEPT ![h] = SubSeq(@, n + 1, Len(@))]
        /\ mNumIdleConns' = mNumIdleConns - n
        /\ Dispatched(h, t, mIdleConns[h][n], TRUE, Elements(SubSeq(mIdleConns[h], 1, n - 1)))

\* Mutant: no idle connection is purged to make room.
IdleLeftUnpurged(h, t) ==
    {[list |-> [mIdleConns EXCEPT ![h] = IF t \in KeepAlive THEN << >> ELSE @],
      count |-> mNumIdleConns - (IF t \in KeepAlive THEN Len(mIdleConns[h]) ELSE 0)]}

\* The idle lists that GetConnection leaves when it makes a connection: for a transaction that asks
\* for keep-alive it has found no idle connection of the host that can be reused, and dropped
\* them; then one of any entry goes, if there would be too many.
IdleLeft(h, t) ==
    LET left == [mIdleConns EXCEPT ![h] = IF t \in KeepAlive THEN << >> ELSE @]
        count == mNumIdleConns - (IF t \in KeepAlive THEN Len(mIdleConns[h]) ELSE 0)
        purges == {k \in Hosts : left[k] # << >>} IN
    IF count + mNumActiveConns + 1 > mMaxConns /\ purges # {}
    THEN {[list |-> [left EXCEPT ![k] = Tail(@)], count |-> count - 1] : k \in purges}
    ELSE {[list |-> left, count |-> count]}

DispatchOnNew(h, t) ==
    /\ \E idle \in IdleLeft(h, t) :
        /\ mIdleConns' = idle.list
        /\ mNumIdleConns' = idle.count
        /\ Dispatched(h, t, NewConnection, FALSE, IdleConns(mIdleConns) \ IdleConns(idle.list))

\* The transport cannot be made: no provider for its type of socket, or no memory.
DispatchFails(h, t) ==
    /\ \E idle \in IdleLeft(h, t) :
        /\ mIdleConns' = idle.list
        /\ mNumIdleConns' = idle.count
        /\ conn' = [c \in Connections |-> IF c \in IdleConns(mIdleConns) \ IdleConns(idle.list) THEN Free ELSE conn[c]]
    /\ UNCHANGED <<mActiveConns, mNumActiveConns>>

DispatchTransaction(h, t) == DispatchOnIdle(h, t) \/ DispatchOnNew(h, t)

-----------------------------------------------------------------------------
(* nsHttpTransaction::Close.  It asks to be restarted when the connection   *)
(* was reset or closed before the server can have acted on the request.     *)

\* Mutant: whether the connection was used before is not asked.
AsksToRestartUnsure(t, reason, reused) ==
    reason \in {"NET_RESET", "NS_OK"} /\ ~trans[t].mReceivedData

AsksToRestart(t, reason, reused) ==
    /\ reason \in {"NET_RESET", "NS_OK"}
    /\ ~trans[t].mSentData \/ (~trans[t].mReceivedData /\ reused)

\* A transaction, when it is restarted.
Restarted(x, forget) ==
    [x EXCEPT !.mConnection = NoConnection, !.mRestartCount = @ + 1,
              !.mSentData = @ /\ ~forget, !.taken = @ /\ ~forget]

Restarts(t, asks) == asks /\ trans[t].mRestartCount + 1 < MaxRequestAttempts /\ mSTS

\* Mutant: a transaction that is restarted is closed as well.
CloseTransactionAnyway(t, reason, asks, forget, q, messages) ==
    /\ trans' = [trans EXCEPT ![t] = Blank("closed")]
    /\ eventQ' = Posted(q, (IF Restarts(t, asks) THEN <<NewTransaction(t)>> ELSE << >>) \o messages)

\* t asks to be restarted or does not, forget says whether it was told to forget what it sent and
\* received; then the messages are posted to q.
CloseTransaction(t, reason, asks, forget, q, messages) ==
    /\ trans' = [trans EXCEPT ![t] =
           IF Restarts(t, asks)
           THEN Restarted(@, forget)
           ELSE Blank(IF reason # "NS_OK" /\ NewTransaction(t) \in Elements(q) THEN "failed" ELSE "closed")]
    /\ eventQ' = Posted(q, (IF Restarts(t, asks) THEN <<NewTransaction(t)>> ELSE << >>) \o messages)

\* Mutant: the table of entries is not asked, which Shutdown has emptied.
ReclaimConnectionAlways(c, reuse, keepAlive) ==
    LET h == conn[c].mConnInfo IN
    /\ mActiveConns' = [mActiveConns EXCEPT ![h] = @ \ {c}]
    /\ mNumActiveConns' = mNumActiveConns - 1
    /\ mIdleConns' = [mIdleConns EXCEPT ![h] = IF reuse THEN Append(@, c) ELSE @]
    /\ mNumIdleConns' = mNumIdleConns + (IF reuse THEN 1 ELSE 0)
    /\ conn' = [conn EXCEPT ![c] = IF reuse THEN [@ EXCEPT !.mTransaction = NoTransaction, !.mIsReused = TRUE,
                                                           !.mKeepAlive = keepAlive, !.waitsTo = "write"]
                                   ELSE Free]
    /\ UNCHANGED mPendingQ

\* nsHttpConnectionMgr::ReclaimConnection: c goes to the idle list, or is deleted.
ReclaimConnection(c, reuse, keepAlive) ==
    LET h == conn[c].mConnInfo IN
    /\ IF h \in mCT
       THEN /\ mActiveConns' = [mActiveConns EXCEPT ![h] = @ \ {c}]
            /\ mNumActiveConns' = mNumActiveConns - 1
            /\ mIdleConns' = [mIdleConns EXCEPT ![h] = IF reuse THEN Append(@, c) ELSE @]
            /\ mNumIdleConns' = mNumIdleConns + (IF reuse THEN 1 ELSE 0)
       ELSE UNCHANGED <<mActiveConns, mNumActiveConns, mIdleConns, mNumIdleConns>>
    /\ conn' = [conn EXCEPT ![c] = IF reuse /\ h \in mCT
                                   THEN [@ EXCEPT !.mTransaction = NoTransaction, !.mIsReused = TRUE,
                                                  !.mKeepAlive = keepAlive, !.waitsTo = "write"]
                                   ELSE Free]
    /\ UNCHANGED mPendingQ

\* Mutant: nobody is told that a connection has become free.
ConnectionClosesSilently(c, reason, asks, forget, keepAlive, alive, q) ==
    /\ CloseTransaction(conn[c].mTransaction, reason, asks, forget, q, << >>)
    /\ ReclaimConnection(c, keepAlive /\ alive /\ reason = "NS_OK" /\ conn[c].transport = "open", keepAlive)

\* nsHttpConnection::CloseTransaction; alive says whether the socket is alive when it looks.
ConnectionCloses(c, reason, asks, forget, keepAlive, alive, q) ==
    /\ CloseTransaction(conn[c].mTransaction, reason, asks, forget, q, <<ProcessPendingQ(conn[c].mConnInfo)>>)
    /\ ReclaimConnection(c, keepAlive /\ alive /\ reason = "NS_OK" /\ conn[c].transport = "open", keepAlive)

-----------------------------------------------------------------------------
(* The handlers of messages, on the socket thread.                          *)

\* The transaction may have been cancelled while the message was under way: it is dropped.  A
\* transaction that cannot be dispatched is closed.
ServeNewTransaction ==
    LET t == Head(eventQ).trans
        h == ConnectionInfo[t]
        waits == AtActiveConnectionLimit(h, t \in KeepAlive) IN
    /\ Serves("NEW_TRANSACTION")
    /\ \/ /\ trans[t].status = "failed"
          /\ trans' = [trans EXCEPT ![t].status = "closed"]
          /\ eventQ' = Tail(eventQ)
          /\ UNCHANGED <<mgrVars, conn>>
       \/ /\ trans[t].status # "failed" /\ waits
          /\ mPendingQ' = [mPendingQ EXCEPT ![h] = Append(@, t)]
          /\ eventQ' = Tail(eventQ)
          /\ UNCHANGED <<mActiveConns, mIdleConns, mNumActiveConns, mNumIdleConns, conn, trans>>
       \/ /\ trans[t].status # "failed" /\ ~waits
          /\ \/ DispatchTransaction(h, t) /\ eventQ' = Tail(eventQ)
             \/ DispatchFails(h, t) /\ CloseTransaction(t, "ABORT", FALSE, FALSE, Tail(eventQ), << >>)
          /\ UNCHANGED mPendingQ
    /\ UNCHANGED <<clientVars, crashed>>

\* A transaction that was put back (below) has a connection, but that connection has no
\* transaction: its CloseTransaction calls a null pointer.
ServeCancelTransaction ==
    LET t == Head(eventQ).trans
        h == ConnectionInfo[t]
        c == trans[t].mConnection IN
    /\ Serves("CANCEL_TRANSACTION")
    /\ \/ /\ c \in Connections
          /\ ConnectionCloses(c, "ABORT", FALSE, FALSE, FALSE, TRUE, Tail(eventQ))
          /\ UNCHANGED crashed
       \/ /\ c = Orphan
          /\ crashed' = TRUE
          /\ UNCHANGED <<eventQ, mgrVars, conn, trans>>
       \/ /\ c = NoConnection
          /\ IF t \in Elements(mPendingQ[h])
             THEN mPendingQ' = [mPendingQ EXCEPT ![h] = RemoveElementAt(@, IndexOf(@, t))]
             ELSE UNCHANGED mPendingQ
          /\ IF trans[t].status = "open" THEN CloseTransaction(t, "ABORT", FALSE, FALSE, Tail(eventQ), << >>)
             ELSE eventQ' = Tail(eventQ) /\ UNCHANGED trans
          /\ UNCHANGED <<mActiveConns, mIdleConns, mNumActiveConns, mNumIdleConns, conn, crashed>>
    /\ UNCHANGED clientVars

\* The transactions of an entry that get a connection now; ProcessPendingQForEntry dispatches the
\* first of them.  If that fails it puts the transaction back, which still points to a
\* connection that the manager has closed and let go of.
Dispatchable(h) == {i \in DOMAIN mPendingQ[h] : ~AtActiveConnectionLimit(h, mPendingQ[h][i] \in KeepAlive)}

ProcessPendingQForEntry(h) ==
    LET i == CHOOSE n \in Dispatchable(h) : \A m \in Dispatchable(h) : n <= m
        t == mPendingQ[h][i] IN
    \/ /\ DispatchTransaction(h, t)
       /\ mPendingQ' = [mPendingQ EXCEPT ![h] = RemoveElementAt(@, i)]
    \/ /\ DispatchFails(h, t)
       /\ trans' = [trans EXCEPT ![t].mConnection = Orphan]
       /\ UNCHANGED mPendingQ

\* The entry that the message names, or else the first in the table that has one to dispatch.
ServeProcessPendingQ ==
    LET h == Head(eventQ).ci
        ready == {k \in mCT : Dispatchable(k) # {}} IN
    /\ Serves("PROCESS_PENDING_Q")
    /\ eventQ' = Tail(eventQ)
    /\ IF ready = {} THEN UNCHANGED <<mgrVars, conn, trans>>
       ELSE \E k \in ready : (h \in ready => k = h) /\ ProcessPendingQForEntry(k)
    /\ UNCHANGED <<clientVars, crashed>>

\* What is left of a list without the dead.
Kept(s, dead) == Sublist(s, Connections \ dead)

\* Idle connections that cannot be reused go (and then entries with nothing in them).
OnMsgPruneDeadConnections ==
    \E dead \in SUBSET IdleConns(mIdleConns) :
    LET left == [h \in Hosts |-> Kept(mIdleConns[h], dead)] IN
    /\ mIdleConns' = left
    /\ mNumIdleConns' = mNumIdleConns - Cardinality(dead)
    /\ conn' = [c \in Connections |-> IF c \in dead THEN Free ELSE conn[c]]
    /\ UNCHANGED <<mPendingQ, mActiveConns, mNumActiveConns>>

\* The timer's PruneDeadConnections and its message in one: the message says nothing but that it
\* comes, so that wherever it is served, it may have been posted there.
ServePruneDeadConnections ==
    /\ shutdown # "returned"
    /\ Incident
    /\ mNumIdleConns > 0
    /\ OnMsgPruneDeadConnections
    /\ UNCHANGED <<eventQ, shutdown, trans, crashed>>

\* Every connection is closed and every pending transaction is; the transactions of active
\* connections are closed when their sockets report it.  Then Shutdown is woken.
ServeShutdown ==
    LET active == UNION {mActiveConns[h] : h \in mCT}
        idle == UNION {Elements(mIdleConns[h]) : h \in mCT}
        pending == UNION {Elements(mPendingQ[h]) : h \in mCT} IN
    /\ Serves("SHUTDOWN")
    /\ eventQ' = Tail(eventQ)
    /\ mActiveConns' = [h \in Hosts |-> {}]
    /\ mIdleConns' = [h \in Hosts |-> << >>]
    /\ mPendingQ' = [h \in Hosts |-> << >>]
    /\ mNumActiveConns' = mNumActiveConns - Cardinality(active)
    /\ mNumIdleConns' = mNumIdleConns - Cardinality(idle)
    /\ conn' = [c \in Connections |->
                  IF c \in active THEN [conn[c] EXCEPT !.transport = "closed", !.mKeepAlive = FALSE]
                  ELSE IF c \in idle THEN Free ELSE conn[c]]
    /\ trans' = [t \in Transactions |-> IF t \in pending THEN Blank("closed") ELSE trans[t]]
    /\ shutdown' = "returned"
    /\ UNCHANGED <<incidents, crashed>>

-----------------------------------------------------------------------------
(* A connection whose socket is ready, on the socket thread.                *)

Waits(c, to) == conn[c].mTransaction # NoTransaction /\ conn[c].transport = "open" /\ conn[c].waitsTo = to

\* OnOutputStreamReady: some of the request, and in the end all of it, is written.
Writes(c) ==
    LET t == conn[c].mTransaction IN
    /\ Waits(c, "write")
    /\ trans' = [trans EXCEPT ![t].mSentData = TRUE, ![t].taken = @ \/ ~conn[c].mIsReused]
    /\ conn' = [conn EXCEPT ![c].waitsTo = "read"]
    /\ UNCHANGED <<eventQ, mgrVars, clientVars, crashed>>

\* OnSocketReadable begins so when nothing was read for long: the connection no longer counts as
\* persistent, and the pending queue is looked at.
Hangs(c, hung) ==
    /\ hung => conn[c].mKeepAlive /\ Waits(c, "read")
    /\ IF hung THEN Incident ELSE UNCHANGED incidents
    /\ UNCHANGED shutdown
QueueAfter(c, hung) == IF hung THEN Posted(eventQ, <<ProcessPendingQ(conn[c].mConnInfo)>>) ELSE eventQ

\* OnSocketReadable has filled the transaction's pipe, for which the transaction waits then, and nobody
\* for the socket; or it has read what there was, and waits for more.
WaitsAfterReading(full) == IF full THEN "pipe" ELSE "read"

\* OnInputStreamReady: a part of the response.  The first brings the headers, by which the server
\* says whether it keeps the connection alive.
Reads(c, keepAlive, hung, full) ==
    LET t == conn[c].mTransaction IN
    /\ Waits(c, "read")
    /\ Hangs(c, hung)
    /\ trans[t].mReceivedData => keepAlive = (conn[c].mKeepAlive /\ ~hung)
    /\ trans' = [trans EXCEPT ![t].mReceivedData = TRUE, ![t].taken = TRUE]
    /\ conn' = [conn EXCEPT ![c].mKeepAlive = keepAlive, ![c].waitsTo = WaitsAfterReading(full)]
    /\ eventQ' = QueueAfter(c, hung)
    /\ UNCHANGED <<mgrVars, crashed>>

\* nsHttpTransaction::OnOutputStreamReady: there is room in the pipe, or its reader has closed it.  An
\* event is posted to the socket thread, by which OnSocketEvent resumes the connection, unless GetSTS
\* finds no service.  The event is served at once here: until then it is as if the socket were not ready.
OnOutputStreamReady(c) ==
    /\ conn[c].waitsTo = "pipe"
    /\ mSTS
    /\ conn' = [conn EXCEPT ![c].waitsTo = "read"]
    /\ UNCHANGED <<eventQ, mgrVars, trans, clientVars, crashed>>

\* The server answers that it has given up waiting for the request (408): the connection is closed,
\* the transaction forgets what it sent and received, and asks to be restarted.
TimesOut(c, hung) ==
    /\ Waits(c, "read") /\ ~trans[conn[c].mTransaction].mReceivedData
    /\ Hangs(c, hung)
    /\ ConnectionCloses(c, "NET_RESET", TRUE, TRUE, FALSE, TRUE, QueueAfter(c, hung))
    /\ UNCHANGED crashed

\* OnInputStreamReady or OnOutputStreamReady: the response is complete or the server has closed
\* the connection (NS_OK), or it is reset, or fails otherwise, by our own Close as well.  Whatever it is,
\* a connection that does not wait for its socket is not told.
Ends(c, reason, alive, hung) ==
    LET t == conn[c].mTransaction IN
    /\ t # NoTransaction /\ conn[c].waitsTo \in {"write", "read"}
    /\ conn[c].transport = "closed" => reason = "ABORT"
    /\ reason # "NS_OK" => alive
    /\ Hangs(c, hung)
    /\ ConnectionCloses(c, reason, AsksToRestart(t, reason, conn[c].mIsReused), FALSE,
                        conn[c].mKeepAlive /\ ~hung, alive, QueueAfter(c, hung))
    /\ UNCHANGED crashed

-----------------------------------------------------------------------------
Reasons == {"NS_OK", "NET_RESET", "ABORT"}

Serve ==
    ~crashed /\ (ServeNewTransaction \/ ServeCancelTransaction \/ ServeProcessPendingQ \/ ServeShutdown)
Resumes(c) == ~crashed /\ OnOutputStreamReady(c)
EndsSomehow(c) ==
    ~crashed /\ \E reason \in Reasons, alive \in BOOLEAN, hung \in BOOLEAN : Ends(c, reason, alive, hung)

Next ==
    \/ Serve
    \/ \E c \in Connections : EndsSomehow(c) \/ Resumes(c)
    \/ /\ ~crashed
       /\ \/ \E t \in Transactions : AddTransaction(t)
          \/ \E t \in Transactions : CancelTransaction(t)
          \/ ServePruneDeadConnections
          \/ Shutdown
          \/ \E c \in Connections :
                \/ Writes(c)
                \/ \E keepAlive \in BOOLEAN, hung \in BOOLEAN, full \in BOOLEAN : Reads(c, keepAlive, hung, full)
                \/ \E hung \in BOOLEAN : TimesOut(c, hung)

Spec == Init /\ [][Next]_vars

\* The socket thread takes its messages and events; whoever reads a response reads on or closes the
\* pipe; and every response ends, or its connection does, though it may stop again and again for
\* want of room: hence the strong fairness.
FairSpec ==
    /\ Spec /\ WF_vars(Serve)
    /\ \A c \in Connections : WF_vars(Resumes(c)) /\ SF_vars(EndsSomehow(c))

-----------------------------------------------------------------------------
Messages ==
    {NewTransaction(t) : t \in Transactions} \union {Message("CANCEL_TRANSACTION", t, NoHost) : t \in Transactions}
    \union {ProcessPendingQ(h) : h \in Hosts}
    \union {Message("SHUTDOWN", NoTransaction, NoHost)}

TypeOK ==
    /\ shutdown \in {"none", "waits", "returned"}
    /\ eventQ \in Seq(Messages)
    /\ incidents \in Nat
    /\ mPendingQ \in [Hosts -> Seq(Transactions)]
    /\ mActiveConns \in [Hosts -> SUBSET Connections]
    /\ mIdleConns \in [Hosts -> Seq(Connections)]
    /\ mNumActiveConns \in Nat /\ mNumIdleConns \in Nat
    /\ conn \in [Connections -> ConnInfo]
    /\ trans \in [Transactions -> TransInfo]
    /\ crashed \in BOOLEAN

\* The counters are what the lists say, and the limits hold for all ways in which connections are
\* made, reused, purged, pruned and closed: on the active ones of a host, and on active and idle
\* ones together.
LimitsHold ==
    /\ mNumActiveConns = Cardinality(UNION {mActiveConns[h] : h \in Hosts})
    /\ mNumIdleConns = Cardinality(IdleConns(mIdleConns))
    /\ mNumActiveConns + mNumIdleConns <= mMaxConns
    /\ \A h \in Hosts : Cardinality(mActiveConns[h]) <= mMaxConnsPerHost

\* Everything that would dispatch t or has it.
Places(t) ==
    {<<"message", i>> : i \in {j \in DOMAIN eventQ : eventQ[j] = NewTransaction(t)}}
    \union (UNION {{<<"pending", h, i>> : i \in {j \in DOMAIN mPendingQ[h] : mPendingQ[h][j] = t}} : h \in Hosts})
    \union {<<"connection", c>> : c \in {d \in Connections : conn[d].mTransaction = t}}

\* A transaction that is not closed is in one place: in a message, in the pending queue of its
\* host, or on the connection that it knows of.  One that is closed is in none, but for a message
\* that will be dropped: it is not dispatched, however a restart and a cancel overtake each other.
OnePlace ==
    \A t \in Transactions :
        /\ trans[t].status = "open" => Cardinality(Places(t)) = 1
        /\ trans[t].status = "failed" => Places(t) \subseteq {<<"message", i>> : i \in DOMAIN eventQ}
        /\ trans[t].status \in {"unused", "closed"} => Places(t) = {}
        /\ \A c \in Connections : trans[t].mConnection = c <=> conn[c].mTransaction = t

\* A request is not repeated once a server has taken it, which is when a part of it was written to
\* a connection that had not been used before, or when any answer came but "timed out": it is not
\* waiting to be dispatched again.
NotRepeated ==
    \A t \in Transactions : trans[t].taken => \A p \in Places(t) : p[1] = "connection"

\* When Shutdown has returned the manager has nothing, no message is left, and every transaction is
\* closed but those of connections whose sockets have still to report that they were closed.
ShutdownIsComplete ==
    shutdown = "returned" =>
        /\ eventQ = << >> /\ mCT = {}
        /\ mNumActiveConns = 0 /\ mNumIdleConns = 0
        /\ \A c \in Connections : conn[c] = Free \/ (conn[c].transport = "closed" /\ ~conn[c].mKeepAlive)
        /\ \A t \in Transactions : trans[t].status = "open" => trans[t].mConnection \in Connections

\* t waits for room in its pipe, and there is no service by which to say that there is: neither the
\* socket nor the pipe will be heard of any more.
CutOff(t) == ~mSTS /\ \E c \in Connections : conn[c].mTransaction = t /\ conn[c].waitsTo = "pipe"

\* Shutdown returns, and every transaction is closed in the end but those that are cut off: no
\* transaction is left in a pending queue that nobody will look at, or on a connection that is not
\* resumed, although its pipe was full, as long as there is a service to resume it.  Left out are
\* behaviours in which a transaction was put back, because its transport could not be made: nothing is
\* posted for it.
TransactionsEnd ==
    \/ <>(\E t \in Transactions : trans[t].mConnection = Orphan)
    \/ <>[](shutdown # "waits" /\ \A t \in Transactions : trans[t].status = "open" => CutOff(t))
==============================================================================
