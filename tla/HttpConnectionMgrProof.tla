------------------------ MODULE HttpConnectionMgrProof -------------------------
(***************************************************************************)
(* Proofs about HttpConnectionMgr: the limits on connections hold, a       *)
(* transaction is in one place, a request that a server has taken is not   *)
(* repeated, and Shutdown is complete, for any number of transactions,     *)
(* hosts and connections.                                                  *)
(*                                                                         *)
(* The invariant has one part for the connections and the lists they are   *)
(* in, one for where the transactions are, and one for the messages.       *)
(***************************************************************************)
EXTENDS HttpConnectionMgr, SequenceCounts

\* The connections of all hosts.
Active == UNION {mActiveConns[h] : h \in Hosts}
Idle == IdleConns(mIdleConns)

\* Without repetition.
Distinct(s) == \A i, j \in 1..Len(s) : s[i] = s[j] => i = j

\* An active connection has a transaction, an idle one has none, and both know their host.
ActiveOf(h, c) == conn[c].mConnInfo = h /\ conn[c].mTransaction # NoTransaction /\ conn[c].transport = "open"
IdleOf(h, c) == conn[c].mConnInfo = h /\ conn[c].mTransaction = NoTransaction /\ conn[c].transport = "open"
\* What Shutdown leaves of an active connection, until its socket reports that it is closed.
Closing(c) ==
    /\ shutdown = "returned" /\ conn[c].transport = "closed" /\ ~conn[c].mKeepAlive
    /\ conn[c].mTransaction # NoTransaction /\ conn[c].mConnInfo \in Hosts

ListsInv ==
    /\ \A h \in Hosts : \A c \in mActiveConns[h] : ActiveOf(h, c)
    /\ \A h \in Hosts : \A c \in Elements(mIdleConns[h]) : IdleOf(h, c)
    /\ \A h \in Hosts : Distinct(mIdleConns[h])
    /\ \A c \in Connections \ (Active \cup Idle) : conn[c] = Free \/ Closing(c)
ConnInv == ListsInv /\ LimitsHold

\* Where t is: in so many messages, so often in the pending queue of its host, on a connection.
InQueue(q, t) == Count(q, {NewTransaction(t)})
InMessages(t) == InQueue(eventQ, t)
InPending(t) == Count(mPendingQ[ConnectionInfo[t]], {t})
OnConnection(t) == trans[t].mConnection \in Connections

Knows(t) == \A c \in Connections : trans[t].mConnection = c <=> conn[c].mTransaction = t
Placed(t) ==
    /\ trans[t].status = "open" => InMessages(t) + InPending(t) + (IF OnConnection(t) THEN 1 ELSE 0) = 1
    /\ trans[t].status = "failed" => InMessages(t) = 1 /\ InPending(t) = 0 /\ ~OnConnection(t)
    /\ trans[t].status \in {"unused", "closed"} => InMessages(t) = 0 /\ InPending(t) = 0 /\ ~OnConnection(t)
\* A connection waits to read, or for room, when it has written; a server that has taken the request has it on
\* a connection, and has answered it or got it on a new connection.
Wrote(t) == \A c \in Connections : conn[c].mTransaction = t /\ conn[c].waitsTo # "write" => trans[t].mSentData
Taken(t) ==
    trans[t].taken =>
        /\ OnConnection(t) /\ trans[t].mSentData
        /\ trans[t].mReceivedData \/ ~conn[trans[t].mConnection].mIsReused
GoodTrans(t) == Knows(t) /\ Placed(t) /\ Wrote(t) /\ Taken(t)
AtHome == \A h \in Hosts : \A i \in 1..Len(mPendingQ[h]) : ConnectionInfo[mPendingQ[h][i]] = h
TransInv == AtHome /\ \A t \in Transactions : GoodTrans(t)

\* Shutdown's message is the last one, and when it was served there are no messages and nothing in
\* the table.
GoodQueue(q) ==
    /\ \A i \in 1..Len(q) : q[i].type = "SHUTDOWN" => shutdown = "waits" /\ i = Len(q)
    /\ shutdown = "waits" => q # << >> /\ q[Len(q)].type = "SHUTDOWN"
    /\ shutdown = "returned" => q = << >>
Emptied ==
    shutdown = "returned" =>
        \A h \in Hosts : mActiveConns[h] = {} /\ mIdleConns[h] = << >> /\ mPendingQ[h] = << >>
QueueInv == GoodQueue(eventQ) /\ Emptied

HttpInv == TypeOK /\ ConnInv /\ TransInv /\ QueueInv

------------------------------------------------------------------------------
(* Sequences of connections.                                                 *)

LEMMA ElementsType ==
    ASSUME NEW S, NEW s \in Seq(S)
    PROVE  /\ Elements(s) = {s[i] : i \in 1..Len(s)}
           /\ Elements(s) \subseteq S
  BY LenProperties, ElementOfSeq DEF Elements

LEMMA ElementsDistinct ==
    ASSUME NEW S, NEW s \in Seq(S), Distinct(s)
    PROVE  IsFiniteSet(Elements(s)) /\ Cardinality(Elements(s)) = Len(s)
<1> DEFINE D == 1..Len(s)
           E == Elements(s)
           f == [i \in D |-> s[i]]
<1>1. Len(s) \in Nat /\ E = {s[i] : i \in D}
  BY ElementsType, LenProperties
<1>2. IsFiniteSet(D) /\ Cardinality(D) = Len(s)
  BY <1>1, FS_Interval
<1>3. f \in Bijection(D, E)
  <2>1. f \in [D -> E]
    BY <1>1
  <2>2. \A i, j \in D : f[i] = f[j] => i = j
    BY DEF Distinct
  <2>3. \A e \in E : \E i \in D : f[i] = e
    BY <1>1
  <2> HIDE DEF f, D, E
  <2> QED
    BY <2>1, <2>2, <2>3 DEF Bijection, Injection, Surjection, IsInjective
<1> HIDE DEF f, D, E
<1>4. IsFiniteSet(E) /\ Cardinality(E) = Cardinality(D)
  BY <1>2, <1>3, FS_Bijection DEF ExistsBijection
<1> QED
  BY <1>2, <1>4 DEF E

\* The n-th element is taken, and those before it.
PartsAt(S, s, n) ==
    LET a == SubSeq(s, n + 1, Len(s))
        b == SubSeq(s, 1, n - 1)
    IN  /\ a \in Seq(S) /\ Len(a) = Len(s) - n /\ Distinct(a)
        /\ Elements(a) = Elements(s) \ (Elements(b) \cup {s[n]})
        /\ Elements(b) \subseteq Elements(s) /\ s[n] \in Elements(s) /\ s[n] \notin Elements(b)

LEMMA ElementsFrom == ASSUME NEW S, NEW s \in Seq(S), Distinct(s), NEW n \in 1..Len(s) PROVE PartsAt(S, s, n)
<1> DEFINE a == SubSeq(s, n + 1, Len(s))
           b == SubSeq(s, 1, n - 1)
<1>1. Len(s) \in Nat /\ n \in Nat /\ \A i \in 1..Len(s) : s[i] \in S
  BY LenProperties
<1>2. /\ a \in Seq(S) /\ Len(a) = Len(s) - n /\ \A i \in 1..Len(s) - n : a[i] = s[n + i]
  BY <1>1, SubSeqProperties
<1>3. /\ b \in Seq(S) /\ Len(b) = n - 1 /\ \A i \in 1..n - 1 : b[i] = s[i]
  BY <1>1, SubSeqProperties
<1> HIDE DEF a, b
<1>4. Distinct(a)
  <2> SUFFICES ASSUME NEW i \in 1..Len(a), NEW j \in 1..Len(a), a[i] = a[j] PROVE i = j
    BY DEF Distinct
  <2>1. n + i \in 1..Len(s) /\ n + j \in 1..Len(s) /\ s[n + i] = s[n + j] /\ i \in Int /\ j \in Int
    BY <1>1, <1>2
  <2>2. n + i = n + j
    BY <2>1 DEF Distinct
  <2> QED
    BY <1>1, <2>1, <2>2
<1>5. /\ Elements(s) = {s[i] : i \in 1..Len(s)} /\ Elements(a) = {a[i] : i \in 1..Len(a)}
      /\ Elements(b) = {b[i] : i \in 1..Len(b)}
  BY <1>2, <1>3, ElementsType
<1>6. Elements(b) \subseteq Elements(s) /\ s[n] \in Elements(s) /\ s[n] \notin Elements(b)
  BY <1>1, <1>3, <1>5 DEF Distinct
<1>7. ASSUME NEW x \in Elements(a) PROVE x \in Elements(s) \ (Elements(b) \cup {s[n]})
  <2>1. PICK i \in 1..Len(s) - n : x = s[n + i]
    BY <1>2, <1>5
  <2>2. n + i \in 1..Len(s) /\ n + i # n /\ \A j \in 1..n - 1 : n + i # j
    BY <1>1, <2>1
  <2> QED
    BY <1>1, <1>3, <1>5, <2>1, <2>2 DEF Distinct
<1>8. ASSUME NEW x \in Elements(s) \ (Elements(b) \cup {s[n]}) PROVE x \in Elements(a)
  <2>1. PICK j \in 1..Len(s) : x = s[j]
    BY <1>5
  <2>2. j # n /\ ~(j \in 1..n - 1)
    BY <1>3, <1>5, <2>1
  <2>3. j - n \in 1..Len(s) - n /\ n + (j - n) = j
    BY <1>1, <2>2
  <2>4. x = a[j - n]
    BY <1>2, <2>1, <2>3
  <2> QED
    BY <1>2, <1>5, <2>3, <2>4
<1>9. Elements(a) = Elements(s) \ (Elements(b) \cup {s[n]})
  BY <1>7, <1>8
<1> QED
  BY ONLY <1>2, <1>4, <1>6, <1>9, Zenon DEF a, b, PartsAt

LEMMA ElementsTail ==
    ASSUME NEW S, NEW s \in Seq(S), Distinct(s), s # << >>
    PROVE  /\ Tail(s) \in Seq(S) /\ Len(Tail(s)) = Len(s) - 1 /\ Distinct(Tail(s))
           /\ Elements(Tail(s)) \subseteq Elements(s)
<1>1. 1 \in 1..Len(s) /\ Len(s) \in Nat
  BY LenProperties, EmptySeq
<1>2. Tail(s) = SubSeq(s, 1 + 1, Len(s))
  BY TailIsSubSeq
<1> DEFINE a == SubSeq(s, 1 + 1, Len(s))
<1>3. /\ a \in Seq(S) /\ Len(a) = Len(s) - 1 /\ Distinct(a)
      /\ Elements(a) = Elements(s) \ (Elements(SubSeq(s, 1, 1 - 1)) \cup {s[1]})
  <2>1. PICK n : n = 1
    OBVIOUS
  <2>2. n \in 1..Len(s)
    BY <1>1, <2>1
  <2>3. /\ SubSeq(s, n + 1, Len(s)) \in Seq(S) /\ Len(SubSeq(s, n + 1, Len(s))) = Len(s) - n
        /\ Distinct(SubSeq(s, n + 1, Len(s)))
        /\ Elements(SubSeq(s, n + 1, Len(s))) = Elements(s) \ (Elements(SubSeq(s, 1, n - 1)) \cup {s[n]})
    <3>1. PartsAt(S, s, n)
      BY <2>2, ElementsFrom, Zenon
    <3> QED
      BY ONLY <3>1, Zenon DEF PartsAt
  <2> QED
    BY <2>1, <2>3, Zenon
<1> HIDE DEF a
<1>4. Elements(a) \subseteq Elements(s)
  BY <1>3
<1> QED
  BY <1>2, <1>3, <1>4 DEF a

LEMMA ElementsAppend ==
    ASSUME NEW S, NEW s \in Seq(S), Distinct(s), NEW c \in S, c \notin Elements(s)
    PROVE  /\ Append(s, c) \in Seq(S) /\ Len(Append(s, c)) = Len(s) + 1
           /\ Distinct(Append(s, c)) /\ Elements(Append(s, c)) = Elements(s) \cup {c}
<1> DEFINE a == Append(s, c)
<1>1. Len(s) \in Nat
  BY LenProperties
<1>2. /\ a \in Seq(S) /\ Len(a) = Len(s) + 1
      /\ \A i \in 1..Len(s) : a[i] = s[i]
      /\ a[Len(s) + 1] = c
  BY AppendProperties
<1> HIDE DEF a
<1>3. Elements(s) = {s[i] : i \in 1..Len(s)} /\ Elements(a) = {a[i] : i \in 1..Len(a)}
  BY <1>2, ElementsType
<1>4. Elements(a) = Elements(s) \cup {c}
  <2>1. ASSUME NEW x \in Elements(a) PROVE x \in Elements(s) \cup {c}
    BY <1>1, <1>2, <1>3
  <2>2. ASSUME NEW x \in Elements(s) PROVE x \in Elements(a)
    BY <1>1, <1>2, <1>3
  <2>3. c \in Elements(a)
    BY <1>1, <1>2, <1>3
  <2> QED
    BY <2>1, <2>2, <2>3
<1>5. Distinct(a)
  <2> SUFFICES ASSUME NEW i \in 1..Len(a), NEW j \in 1..Len(a), a[i] = a[j] PROVE i = j
    BY DEF Distinct
  <2>1. (i \in 1..Len(s) \/ i = Len(s) + 1) /\ (j \in 1..Len(s) \/ j = Len(s) + 1)
    BY <1>1, <1>2
  <2>2. \A k \in 1..Len(s) : a[k] # c
    BY <1>2, <1>3
  <2> QED
    BY <1>2, <2>1, <2>2 DEF Distinct
<1> QED
  BY <1>2, <1>4, <1>5 DEF a

LEMMA KeptFacts ==
    ASSUME NEW s \in Seq(Connections), Distinct(s), NEW dead
    PROVE  /\ Kept(s, dead) \in Seq(Connections) /\ Distinct(Kept(s, dead))
           /\ Elements(Kept(s, dead)) = Elements(s) \ dead
<1> DEFINE r == Sublist(s, Connections \ dead)
<1>1. /\ r \in Seq(Connections)
      /\ {r[j] : j \in 1..Len(r)} = {s[i] : i \in 1..Len(s)} \cap (Connections \ dead)
      /\ (\A i, j \in 1..Len(s) : s[i] = s[j] => i = j) => \A i, j \in 1..Len(r) : r[i] = r[j] => i = j
  BY SublistFacts
<1>2. Elements(s) = {s[i] : i \in 1..Len(s)} /\ Elements(s) \subseteq Connections
  BY ElementsType
<1> HIDE DEF r
<1>3. Distinct(r)
  BY <1>1 DEF Distinct
<1>4. Elements(r) = {r[j] : j \in 1..Len(r)}
  BY <1>1, ElementsType
<1>5. Kept(s, dead) = r
  BY DEF Kept, r
<1> QED
  BY <1>1, <1>2, <1>3, <1>4, <1>5

------------------------------------------------------------------------------
(* Idle lists: no connection is in two of them, or in one of them twice.     *)

GoodLists(l) ==
    /\ l \in [Hosts -> Seq(Connections)]
    /\ \A h \in Hosts : Distinct(l[h])
    /\ \A h, k \in Hosts : h # k => Elements(l[h]) \cap Elements(l[k]) = {}

LEMMA FiniteConnections ==
    ASSUME NEW A, A \subseteq Connections
    PROVE  IsFiniteSet(A) /\ Cardinality(A) \in Nat
<1>1. IsFiniteSet(Connections)
  BY HttpAssumption
<1>2. IsFiniteSet(A)
  BY <1>1, FS_Subset
<1> QED
  BY <1>2, FS_CardinalityType

LEMMA ListElements ==
    ASSUME NEW l, GoodLists(l), NEW h \in Hosts
    PROVE  /\ l[h] \in Seq(Connections) /\ Distinct(l[h])
           /\ Elements(l[h]) \subseteq IdleConns(l) /\ Elements(l[h]) \subseteq Connections
           /\ IdleConns(l) \subseteq Connections
           /\ Cardinality(Elements(l[h])) = Len(l[h]) /\ Len(l[h]) \in Nat
<1>1. \A k \in Hosts : l[k] \in Seq(Connections) /\ Distinct(l[k])
  BY DEF GoodLists
<1>2. \A k \in Hosts : Elements(l[k]) \subseteq Connections
  BY <1>1, ElementsType
<1>3. IdleConns(l) \subseteq Connections /\ Elements(l[h]) \subseteq IdleConns(l)
  BY <1>2 DEF IdleConns
<1>4. Cardinality(Elements(l[h])) = Len(l[h]) /\ Len(l[h]) \in Nat
  BY <1>1, ElementsDistinct, LenProperties
<1> QED
  BY <1>1, <1>2, <1>3, <1>4

\* The list of one host becomes s.
LEMMA ReplaceList ==
    ASSUME NEW l, GoodLists(l), NEW h \in Hosts, NEW s \in Seq(Connections), Distinct(s),
           \A k \in Hosts \ {h} : Elements(s) \cap Elements(l[k]) = {}
    PROVE  /\ GoodLists([l EXCEPT ![h] = s])
           /\ IdleConns([l EXCEPT ![h] = s]) = (IdleConns(l) \ Elements(l[h])) \cup Elements(s)
           /\ Cardinality(IdleConns([l EXCEPT ![h] = s])) = Cardinality(IdleConns(l)) - Len(l[h]) + Len(s)
<1> DEFINE m == [l EXCEPT ![h] = s]
           R == UNION {Elements(l[k]) : k \in Hosts \ {h}}
           E == Elements(l[h])
           F == Elements(s)
<1>1. l \in [Hosts -> Seq(Connections)]
  BY DEF GoodLists
<1>2. /\ m \in [Hosts -> Seq(Connections)] /\ m[h] = s
      /\ \A k \in Hosts \ {h} : m[k] = l[k]
  BY <1>1
<1> HIDE DEF m
<1>3. GoodLists(m)
  <2>1. \A k \in Hosts : Distinct(m[k])
    BY <1>2 DEF GoodLists
  <2>2. ASSUME NEW j \in Hosts, NEW k \in Hosts, j # k PROVE Elements(m[j]) \cap Elements(m[k]) = {}
    <3>1. \A i, n \in Hosts : i # n => Elements(l[i]) \cap Elements(l[n]) = {}
      BY DEF GoodLists
    <3>2. CASE j = h
      BY <1>2, <2>2, <3>2
    <3>3. CASE k = h
      BY <1>2, <2>2, <3>3
    <3>4. CASE j # h /\ k # h
      BY <1>2, <2>2, <3>1, <3>4
    <3> QED
      BY <3>2, <3>3, <3>4
  <2> QED
    BY <1>2, <2>1, <2>2 DEF GoodLists
<1>4. E \cap R = {} /\ F \cap R = {}
  BY DEF GoodLists
<1>5. IdleConns(l) = R \cup E
  BY DEF IdleConns
<1>6. IdleConns(m) = R \cup F
  BY <1>2 DEF IdleConns
<1>7. IdleConns(l) \subseteq Connections /\ Cardinality(E) = Len(l[h]) /\ Len(l[h]) \in Nat
  BY ListElements
<1>8. F \subseteq Connections /\ Cardinality(F) = Len(s) /\ Len(s) \in Nat
  BY ElementsType, ElementsDistinct, LenProperties
<1> HIDE DEF R, E, F
<1>9. R \subseteq Connections /\ E \subseteq Connections
  BY <1>5, <1>7
<1>10. /\ IsFiniteSet(R) /\ Cardinality(R) \in Nat
       /\ IsFiniteSet(E) /\ IsFiniteSet(F)
  BY <1>8, <1>9, FiniteConnections
<1>15. Cardinality(IdleConns(m)) = Cardinality(IdleConns(l)) - Len(l[h]) + Len(s)
  <2>1. Cardinality(R \cup E) = Cardinality(R) + Cardinality(E)
    BY <1>4, <1>10, DisjointUnion
  <2>2. Cardinality(R \cup F) = Cardinality(R) + Cardinality(F)
    BY <1>4, <1>10, DisjointUnion
  <2>3. Cardinality(IdleConns(m)) = Cardinality(R) + Len(s)
    BY <1>6, <1>8, <2>2
  <2>4. Cardinality(IdleConns(l)) = Cardinality(R) + Len(l[h])
    BY <1>5, <1>7, <2>1
  <2> QED
    BY <1>7, <1>8, <1>10, <2>3, <2>4
<1>16. IdleConns(m) = (IdleConns(l) \ E) \cup F
  BY <1>4, <1>5, <1>6
<1> QED
  BY <1>3, <1>15, <1>16 DEF m, E, F

LEMMA EmptyList == << >> \in Seq(Connections) /\ Distinct(<< >>) /\ Elements(<< >>) = {} /\ Len(<< >>) = 0
  BY EmptySeq DEF Distinct, Elements

LEMMA ShorterList ==
    ASSUME NEW l, GoodLists(l), NEW h \in Hosts, NEW s \in Seq(Connections), Distinct(s),
           Elements(s) \subseteq Elements(l[h])
    PROVE  /\ GoodLists([l EXCEPT ![h] = s])
           /\ IdleConns([l EXCEPT ![h] = s]) = (IdleConns(l) \ Elements(l[h])) \cup Elements(s)
           /\ Cardinality(IdleConns([l EXCEPT ![h] = s])) = Cardinality(IdleConns(l)) - Len(l[h]) + Len(s)
           /\ \A k \in Hosts : Elements([l EXCEPT ![h] = s][k]) \subseteq Elements(l[k])
<1>1. \A k \in Hosts \ {h} : Elements(s) \cap Elements(l[k]) = {}
  BY DEF GoodLists
<1>2. \A k \in Hosts : Elements([l EXCEPT ![h] = s][k]) \subseteq Elements(l[k])
  BY DEF GoodLists
<1> QED
  BY <1>1, <1>2, ReplaceList, ZenonT(40)

\* GetConnection leaves lists that hold no more than they did, and room for one more.
LEMMA IdleLeftFacts ==
    ASSUME GoodLists(mIdleConns), mNumIdleConns = Cardinality(Idle), mNumActiveConns \in Nat,
           mNumActiveConns < mMaxConns, mNumActiveConns + mNumIdleConns <= mMaxConns,
           NEW h \in Hosts, NEW t, NEW idle \in IdleLeft(h, t)
    PROVE  /\ GoodLists(idle.list) /\ idle.count = Cardinality(IdleConns(idle.list))
           /\ \A k \in Hosts : Elements(idle.list[k]) \subseteq Elements(mIdleConns[k])
           /\ idle.count + mNumActiveConns + 1 <= mMaxConns
<1> DEFINE n == IF t \in KeepAlive THEN Len(mIdleConns[h]) ELSE 0
           left == [mIdleConns EXCEPT ![h] = IF t \in KeepAlive THEN << >> ELSE mIdleConns[h]]
           count == mNumIdleConns - n
           purges == {k \in Hosts : left[k] # << >>}
<1>1. /\ IF count + mNumActiveConns + 1 > mMaxConns /\ purges # {}
         THEN \E k \in purges : idle = [list |-> [left EXCEPT ![k] = Tail(left[k])], count |-> count - 1]
         ELSE idle = [list |-> left, count |-> count]
  BY DEF IdleLeft
<1>2. /\ mIdleConns \in [Hosts -> Seq(Connections)] /\ mMaxConns \in Nat
      /\ Len(mIdleConns[h]) \in Nat /\ mNumIdleConns \in Nat
  <2>1. Idle \subseteq Connections /\ Len(mIdleConns[h]) \in Nat
    BY ListElements DEF Idle
  <2>2. Cardinality(Idle) \in Nat
    BY <2>1, FiniteConnections
  <2> QED
    BY <2>1, <2>2, HttpAssumption DEF GoodLists
<1>3. /\ GoodLists(left) /\ count = Cardinality(IdleConns(left))
      /\ \A k \in Hosts : Elements(left[k]) \subseteq Elements(mIdleConns[k])
  <2>1. CASE t \in KeepAlive
    <3>1. left = [mIdleConns EXCEPT ![h] = << >>]
      BY <2>1
    <3>2. count = Cardinality(IdleConns(mIdleConns)) - Len(mIdleConns[h])
      BY <2>1 DEF Idle
    <3> HIDE DEF left, count
    <3>3. Cardinality(IdleConns(mIdleConns)) \in Nat
      BY <1>2 DEF Idle
    <3>4. /\ GoodLists([mIdleConns EXCEPT ![h] = << >>])
          /\ Cardinality(IdleConns([mIdleConns EXCEPT ![h] = << >>]))
               = Cardinality(IdleConns(mIdleConns)) - Len(mIdleConns[h]) + Len(<< >>)
          /\ \A k \in Hosts : Elements([mIdleConns EXCEPT ![h] = << >>][k]) \subseteq Elements(mIdleConns[k])
      <4> DEFINE e == << >>
                 m == [mIdleConns EXCEPT ![h] = e]
      <4>1. e \in Seq(Connections) /\ Distinct(e) /\ Elements(e) \subseteq Elements(mIdleConns[h])
        BY EmptyList
      <4> HIDE DEF e
      <4>2. /\ GoodLists(m)
            /\ Cardinality(IdleConns(m)) = Cardinality(IdleConns(mIdleConns)) - Len(mIdleConns[h]) + Len(e)
            /\ \A k \in Hosts : Elements(m[k]) \subseteq Elements(mIdleConns[k])
        BY <4>1, ShorterList
      <4> HIDE DEF m
      <4> QED
        BY <4>2 DEF e, m
    <3> QED
      BY <1>2, <3>1, <3>2, <3>3, <3>4, EmptyList
  <2>2. CASE t \notin KeepAlive
    <3>1. left = mIdleConns /\ count = mNumIdleConns
      BY <1>2, <2>2
    <3> QED
      BY <3>1 DEF Idle
  <2> QED
    BY <2>1, <2>2
<1>4. count \in Nat
  <2>1. IdleConns(left) \subseteq Connections
    BY <1>3, ListElements
  <2> HIDE DEF left, count
  <2> QED
    BY <1>3, <2>1, FiniteConnections
<1>5. count <= mNumIdleConns
  BY <1>2
<1>6. CASE count + mNumActiveConns + 1 > mMaxConns /\ purges # {}
  <2>1. PICK k \in purges : idle = [list |-> [left EXCEPT ![k] = Tail(left[k])], count |-> count - 1]
    BY <1>1, <1>6
  <2>2. k \in Hosts /\ left[k] # << >>
    BY <2>1
  <2> HIDE DEF left, count, purges
  <2>3. idle.list = [left EXCEPT ![k] = Tail(left[k])] /\ idle.count = count - 1
    BY <2>1
  <2>4. left[k] \in Seq(Connections) /\ Distinct(left[k]) /\ Len(left[k]) \in Nat
    BY <1>3, <2>2, ListElements
  <2>5. /\ Tail(left[k]) \in Seq(Connections) /\ Len(Tail(left[k])) = Len(left[k]) - 1
        /\ Distinct(Tail(left[k])) /\ Elements(Tail(left[k])) \subseteq Elements(left[k])
    BY <2>2, <2>4, ElementsTail
  <2>6. /\ GoodLists(idle.list)
        /\ Cardinality(IdleConns(idle.list))
             = Cardinality(IdleConns(left)) - Len(left[k]) + Len(Tail(left[k]))
        /\ \A j \in Hosts : Elements(idle.list[j]) \subseteq Elements(left[j])
    <3> DEFINE u == Tail(left[k])
               m == [left EXCEPT ![k] = u]
    <3>1. GoodLists(left) /\ u \in Seq(Connections) /\ Distinct(u) /\ Elements(u) \subseteq Elements(left[k])
      BY <1>3, <2>5
    <3>2. idle.list = m
      BY <2>3
    <3> HIDE DEF u
    <3>3. /\ GoodLists(m)
          /\ Cardinality(IdleConns(m)) = Cardinality(IdleConns(left)) - Len(left[k]) + Len(u)
          /\ \A j \in Hosts : Elements(m[j]) \subseteq Elements(left[j])
      BY <2>2, <3>1, ShorterList
    <3> HIDE DEF m
    <3> QED
      BY <3>2, <3>3 DEF u
  <2>7. idle.count = Cardinality(IdleConns(idle.list))
    BY <1>3, <1>4, <2>3, <2>4, <2>5, <2>6
  <2>8. idle.count + mNumActiveConns + 1 <= mMaxConns
    BY <1>2, <1>4, <1>5, <2>3
  <2> QED
    BY <1>3, <2>6, <2>7, <2>8
<1>7. CASE ~(count + mNumActiveConns + 1 > mMaxConns /\ purges # {})
  <2>1. idle.list = left /\ idle.count = count
    BY <1>1, <1>7
  <2>2. purges = {} => count = 0
    <3>1. ASSUME purges = {} PROVE count = 0
      <4>1. \A k \in Hosts : left[k] = << >>
        BY <3>1
      <4> HIDE DEF left, count
      <4>2. IdleConns(left) = {}
        BY <4>1, EmptyList DEF IdleConns
      <4> QED
        BY <1>3, <4>2, FS_EmptySet
    <3> QED
      BY <3>1
  <2> HIDE DEF left, count, purges
  <2>3. idle.count + mNumActiveConns + 1 <= mMaxConns
    BY <1>2, <1>4, <1>7, <2>1, <2>2
  <2> QED
    BY <1>3, <2>1, <2>3
<1> QED
  BY <1>6, <1>7

------------------------------------------------------------------------------
(* The connections.                                                          *)

ListTypes ==
    /\ mActiveConns \in [Hosts -> SUBSET Connections]
    /\ mIdleConns \in [Hosts -> Seq(Connections)]
    /\ mNumActiveConns \in Nat /\ mNumIdleConns \in Nat
    /\ conn \in [Connections -> ConnInfo]
ConnState == ListTypes /\ ConnInv

LEMMA ConnSets ==
    ASSUME ConnState
    PROVE  /\ GoodLists(mIdleConns)
           /\ Active \subseteq Connections /\ Idle \subseteq Connections /\ Active \cap Idle = {}
           /\ IsFiniteSet(Active) /\ IsFiniteSet(Idle)
           /\ mNumActiveConns = Cardinality(Active) /\ mNumIdleConns = Cardinality(Idle)
<1>1. GoodLists(mIdleConns)
  <2>1. ASSUME NEW h \in Hosts, NEW k \in Hosts, h # k
        PROVE  Elements(mIdleConns[h]) \cap Elements(mIdleConns[k]) = {}
    BY <2>1 DEF ConnState, ConnInv, ListsInv, IdleOf
  <2> QED
    BY <2>1 DEF ConnState, ConnInv, ListsInv, ListTypes, GoodLists
<1>2. Active \subseteq Connections
  BY DEF ConnState, ListTypes, Active
<1>3. Idle \subseteq Connections
  <2>1. \A h \in Hosts : Elements(mIdleConns[h]) \subseteq Connections
    BY <1>1, ListElements
  <2> QED
    BY <2>1 DEF Idle, IdleConns
<1>4. Active \cap Idle = {}
  <2>1. \A c \in Active : conn[c].mTransaction # NoTransaction
    BY DEF ConnState, ConnInv, ListsInv, Active, ActiveOf
  <2>2. \A c \in Idle : conn[c].mTransaction = NoTransaction
    BY DEF ConnState, ConnInv, ListsInv, Idle, IdleConns, IdleOf
  <2> QED
    BY <2>1, <2>2
<1>5. mNumActiveConns = Cardinality(Active) /\ mNumIdleConns = Cardinality(Idle)
  BY DEF ConnState, ConnInv, LimitsHold, Active, Idle
<1> QED
  BY <1>1, <1>2, <1>3, <1>4, <1>5, FiniteConnections

\* What a step means to the transactions: it gives t a connection, or takes one from it, and
\* leaves the connections of others alone.
SameFor(d) ==
    /\ conn'[d].mTransaction = conn[d].mTransaction
    /\ conn[d].mTransaction # NoTransaction =>
           conn'[d].mIsReused = conn[d].mIsReused /\ conn'[d].waitsTo = conn[d].waitsTo
Assigned(c, t) ==
    /\ c \in Connections /\ conn[c].mTransaction = NoTransaction
    /\ conn'[c].mTransaction = t /\ conn'[c].waitsTo = "write"
    /\ \A d \in Connections \ {c} : SameFor(d)
SameForAll == \A d \in Connections : SameFor(d)
Freed(c) == conn'[c].mTransaction = NoTransaction /\ \A d \in Connections \ {c} : SameFor(d)

LEMMA DispatchedConn ==
    ASSUME ConnState, shutdown # "returned", shutdown' = shutdown,
           NEW h \in Hosts, NEW t \in Transactions, NEW c \in Connections, NEW reused \in BOOLEAN,
           NEW dropped, dropped \subseteq Idle, c \notin Active, c \notin dropped,
           conn[c].mTransaction = NoTransaction,
           GoodLists(mIdleConns'), Idle' = Idle \ (dropped \cup {c}),
           \A k \in Hosts : Elements(mIdleConns'[k]) \subseteq Elements(mIdleConns[k]),
           mNumIdleConns' = Cardinality(Idle'),
           mNumIdleConns' + mNumActiveConns + 1 <= mMaxConns,
           Cardinality(mActiveConns[h]) < mMaxConnsPerHost,
           Dispatched(h, t, c, reused, dropped)
    PROVE  ConnState' /\ Assigned(c, t)
<1> DEFINE new == [mConnInfo |-> h, mTransaction |-> t, transport |-> "open",
                   mKeepAlive |-> t \in KeepAlive, mIsReused |-> reused, waitsTo |-> "write"]
<1>0. /\ ListTypes /\ ListsInv /\ GoodLists(mIdleConns) /\ Active \subseteq Connections
      /\ Active \cap Idle = {} /\ IsFiniteSet(Active) /\ mNumActiveConns = Cardinality(Active)
      /\ Idle \subseteq Connections
  BY ConnSets DEF ConnState, ConnInv
<1>1. /\ mActiveConns' = [mActiveConns EXCEPT ![h] = mActiveConns[h] \cup {c}]
      /\ mNumActiveConns' = mNumActiveConns + 1
      /\ conn' = [d \in Connections |-> IF d = c THEN new ELSE IF d \in dropped THEN Free ELSE conn[d]]
  BY DEF Dispatched
<1>2. new \in ConnInfo /\ Free \in ConnInfo
  BY DEF ConnInfo, Free
<1>3. /\ new.mConnInfo = h /\ new.mTransaction = t /\ new.transport = "open" /\ new.waitsTo = "write"
      /\ Free.mTransaction = NoTransaction /\ t # NoTransaction
  BY HttpAssumption DEF Free
<1> HIDE DEF new
<1>4. /\ conn' \in [Connections -> ConnInfo] /\ conn'[c] = new
      /\ \A d \in Connections \ {c} : conn'[d] = IF d \in dropped THEN Free ELSE conn[d]
  BY <1>0, <1>1, <1>2 DEF ListTypes
<1>5. /\ mActiveConns' \in [Hosts -> SUBSET Connections]
      /\ mActiveConns'[h] = mActiveConns[h] \cup {c}
      /\ \A k \in Hosts \ {h} : mActiveConns'[k] = mActiveConns[k]
  BY <1>0, <1>1 DEF ListTypes
<1>6. Active' = Active \cup {c}
  BY <1>5 DEF Active
<1>7. ASSUME NEW d \in Active PROVE conn'[d] = conn[d]
  BY <1>0, <1>4
<1>8. ASSUME NEW d \in Idle' PROVE conn'[d] = conn[d]
  BY <1>0, <1>4
<1>9. ListsInv'
  <2>1. ASSUME NEW k \in Hosts, NEW d \in mActiveConns'[k] PROVE ActiveOf(k, d)'
    <3>1. CASE d = c /\ k = h
      BY <1>3, <1>4, <3>1 DEF ActiveOf
    <3>2. CASE d \in mActiveConns[k]
      <4>1. d \in Active /\ ActiveOf(k, d)
        BY <1>0, <3>2 DEF Active, ListsInv
      <4> QED
        BY <1>7, <4>1 DEF ActiveOf
    <3> QED
      BY <1>5, <2>1, <3>1, <3>2
  <2>2. ASSUME NEW k \in Hosts, NEW d \in Elements(mIdleConns'[k]) PROVE IdleOf(k, d)'
    <3>1. d \in Idle'
      BY <2>2 DEF Idle, IdleConns
    <3>2. IdleOf(k, d)
      BY <1>0, <2>2 DEF ListsInv
    <3> QED
      BY <1>8, <3>1, <3>2 DEF IdleOf
  <2>3. \A k \in Hosts : Distinct(mIdleConns'[k])
    BY DEF GoodLists
  <2>4. ASSUME NEW d \in Connections \ (Active' \cup Idle') PROVE conn'[d] = Free \/ Closing(d)'
    <3>1. d # c
      BY <1>6, <2>4
    <3>2. CASE d \in dropped
      BY <1>4, <3>1, <3>2
    <3>3. CASE d \notin dropped
      <4>1. d \notin Active \cup Idle /\ conn'[d] = conn[d]
        BY <1>4, <1>6, <2>4, <3>1, <3>3
      <4>2. conn[d] = Free \/ Closing(d)
        BY <1>0, <4>1 DEF ListsInv
      <4> QED
        BY <4>1, <4>2 DEF Closing
    <3> QED
      BY <3>2, <3>3
  <2> QED
    BY <2>1, <2>2, <2>3, <2>4 DEF ListsInv
<1>10. Cardinality(Active') = mNumActiveConns + 1
  BY <1>0, <1>6, FS_AddElement
<1>11. mNumIdleConns' \in Nat
  <2>1. Idle' \subseteq Connections
    BY <1>0
  <2> QED
    BY <2>1, FiniteConnections
<1>12. ListTypes'
  BY <1>0, <1>1, <1>4, <1>5, <1>11 DEF ListTypes, GoodLists
<1>13. LimitsHold'
  <2>1. mNumActiveConns' = Cardinality(Active') /\ mNumIdleConns' = Cardinality(Idle')
    BY <1>1, <1>10
  <2>2. mNumActiveConns' + mNumIdleConns' <= mMaxConns
    BY <1>0, <1>1, <1>11, HttpAssumption DEF ListTypes
  <2>3. ASSUME NEW k \in Hosts PROVE Cardinality(mActiveConns'[k]) <= mMaxConnsPerHost
    <3>1. CASE k = h
      <4>1. IsFiniteSet(mActiveConns[h]) /\ Cardinality(mActiveConns[h]) \in Nat
        BY <1>0, FiniteConnections DEF ListTypes
      <4>2. Cardinality(mActiveConns[h] \cup {c})
              = IF c \in mActiveConns[h] THEN Cardinality(mActiveConns[h]) ELSE Cardinality(mActiveConns[h]) + 1
        BY <4>1, FS_AddElement
      <4>3. mActiveConns'[k] = mActiveConns[h] \cup {c} /\ mMaxConnsPerHost \in Nat
        BY <1>5, <3>1, HttpAssumption
      <4> DEFINE n == Cardinality(mActiveConns[h])
                 m == Cardinality(mActiveConns[h] \cup {c})
      <4>4. n \in Nat /\ n < mMaxConnsPerHost /\ (m = n \/ m = n + 1)
        BY <4>1, <4>2
      <4> HIDE DEF n, m
      <4>5. m <= mMaxConnsPerHost
        BY <4>3, <4>4
      <4> QED
        BY <4>3, <4>5 DEF m
    <3>2. CASE k # h
      BY <1>5, <3>2 DEF ConnState, ConnInv, LimitsHold
    <3> QED
      BY <3>1, <3>2
  <2> QED
    BY <2>1, <2>2, <2>3 DEF LimitsHold, Active, Idle
<1>14. Assigned(c, t)
  <2>1. ASSUME NEW d \in Connections \ {c} PROVE SameFor(d)
    <3>1. CASE d \in dropped
      <4>1. conn[d].mTransaction = NoTransaction
        BY <1>0, <3>1 DEF ListsInv, Idle, IdleConns, IdleOf
      <4> QED
        BY <1>3, <1>4, <3>1, <4>1 DEF SameFor
    <3>2. CASE d \notin dropped
      BY <1>4, <3>2 DEF SameFor
    <3> QED
      BY <3>1, <3>2
  <2> QED
    BY <1>3, <1>4, <2>1 DEF Assigned
<1> QED
  BY <1>9, <1>12, <1>13, <1>14 DEF ConnState, ConnInv

\* There is a connection object to make a new connection of.
LEMMA NewConnectionExists ==
    ASSUME ConnState, shutdown # "returned"
    PROVE  NewConnection \in Connections /\ conn[NewConnection] = Free
<1> DEFINE free == {c \in Connections : conn[c] = Free}
<1>1. /\ IsFiniteSet(Active) /\ IsFiniteSet(Idle) /\ Active \cap Idle = {}
      /\ Active \cup Idle \subseteq Connections
      /\ mNumActiveConns = Cardinality(Active) /\ mNumIdleConns = Cardinality(Idle)
  BY ConnSets
<1>2. Cardinality(Active \cup Idle) <= mMaxConns
  <2>1. Cardinality(Active \cup Idle) = Cardinality(Active) + Cardinality(Idle)
    BY <1>1, DisjointUnion
  <2>2. mNumActiveConns + mNumIdleConns <= mMaxConns
    BY DEF ConnState, ConnInv, LimitsHold
  <2> QED
    BY <1>1, <2>1, <2>2
<1>3. Active \cup Idle # Connections
  <2>1. Cardinality(Connections) > mMaxConns /\ mMaxConns \in Nat
    BY HttpAssumption
  <2>2. Cardinality(Connections) \in Nat
    BY FiniteConnections
  <2> QED
    BY <1>2, <2>1, <2>2
<1>4. PICK d \in Connections : d \notin Active \cup Idle
  BY <1>1, <1>3
<1>5. conn[d] = Free
  BY <1>4 DEF ConnState, ConnInv, ListsInv, Closing
<1>6. free \subseteq Nat /\ free # {}
  BY <1>4, <1>5, HttpAssumption
<1> HIDE DEF free
<1>7. PICK c \in free : \A e \in free : c <= e
  BY <1>6, FirstExists
<1> USE DEF free
<1>8. c \in Connections /\ conn[c] = Free /\ \A e \in Connections : conn[e] = Free => c <= e
  BY <1>7
<1> QED
  BY <1>8 DEF NewConnection

LEMMA BelowLimits ==
    ASSUME ConnState, NEW h \in Hosts, NEW t, ~AtActiveConnectionLimit(h, t \in KeepAlive)
    PROVE  /\ mNumActiveConns < mMaxConns /\ Cardinality(mActiveConns[h]) < mMaxConnsPerHost
<1>1. mNumActiveConns \in Nat /\ mMaxConns \in Nat /\ mMaxConnsPerHost \in Nat
  BY HttpAssumption DEF ConnState, ListTypes
<1>2. Cardinality(mActiveConns[h]) \in Nat
  <2>1. mActiveConns[h] \subseteq Connections
    BY DEF ConnState, ListTypes
  <2> QED
    BY <2>1, FiniteConnections
<1> QED
  BY <1>1, <1>2 DEF AtActiveConnectionLimit

LEMMA DispatchOnIdleConn ==
    ASSUME ConnState, shutdown # "returned", shutdown' = shutdown,
           NEW h \in Hosts, NEW t \in Transactions, ~AtActiveConnectionLimit(h, t \in KeepAlive),
           DispatchOnIdle(h, t)
    PROVE  ConnState' /\ \E c \in Connections : Assigned(c, t) /\ trans' = [trans EXCEPT ![t].mConnection = c]
<1> DEFINE s == mIdleConns[h]
<1>1. PICK n \in DOMAIN s :
          /\ mIdleConns' = [mIdleConns EXCEPT ![h] = SubSeq(s, n + 1, Len(s))]
          /\ mNumIdleConns' = mNumIdleConns - n
          /\ Dispatched(h, t, s[n], TRUE, Elements(SubSeq(s, 1, n - 1)))
  BY DEF DispatchOnIdle
<1>2. /\ GoodLists(mIdleConns) /\ Idle \subseteq Connections /\ Active \cap Idle = {}
      /\ IsFiniteSet(Idle) /\ mNumIdleConns = Cardinality(Idle)
  BY ConnSets
<1>3. /\ s \in Seq(Connections) /\ Distinct(s) /\ Elements(s) \subseteq Idle
      /\ Cardinality(Elements(s)) = Len(s) /\ Len(s) \in Nat
  BY <1>2, ListElements DEF Idle
<1>4. n \in 1..Len(s)
  BY <1>3, LenProperties
<1> DEFINE a == SubSeq(s, n + 1, Len(s))
           b == SubSeq(s, 1, n - 1)
           c == s[n]
<1>5. /\ a \in Seq(Connections) /\ Len(a) = Len(s) - n /\ Distinct(a)
      /\ Elements(a) = Elements(s) \ (Elements(b) \cup {c})
      /\ Elements(b) \subseteq Elements(s) /\ c \in Elements(s) /\ c \notin Elements(b)
  <2>1. s \in Seq(Connections) /\ Distinct(s)
    BY <1>3
  <2>2. PartsAt(Connections, s, n)
    BY ONLY <1>4, <2>1, ElementsFrom, Zenon
  <2> QED
    BY ONLY <2>2, Zenon DEF PartsAt
<1>6. /\ mIdleConns' = [mIdleConns EXCEPT ![h] = a] /\ mNumIdleConns' = mNumIdleConns - n
      /\ Dispatched(h, t, c, TRUE, Elements(b))
  BY <1>1
<1> HIDE DEF s, a, b, c
<1>7. /\ GoodLists(mIdleConns')
      /\ IdleConns(mIdleConns') = (IdleConns(mIdleConns) \ Elements(s)) \cup Elements(a)
      /\ Cardinality(IdleConns(mIdleConns')) = Cardinality(IdleConns(mIdleConns)) - Len(s) + Len(a)
      /\ \A k \in Hosts : Elements(mIdleConns'[k]) \subseteq Elements(mIdleConns[k])
  <2>1. Elements(a) \subseteq Elements(mIdleConns[h])
    BY <1>5 DEF s
  <2> DEFINE m == [mIdleConns EXCEPT ![h] = a]
  <2>2. /\ GoodLists(m)
        /\ IdleConns(m) = (IdleConns(mIdleConns) \ Elements(mIdleConns[h])) \cup Elements(a)
        /\ Cardinality(IdleConns(m)) = Cardinality(IdleConns(mIdleConns)) - Len(mIdleConns[h]) + Len(a)
        /\ \A k \in Hosts : Elements(m[k]) \subseteq Elements(mIdleConns[k])
    BY <1>2, <1>5, <2>1, ShorterList
  <2>3. mIdleConns' = m
    BY <1>6
  <2> HIDE DEF m
  <2> QED
    BY <2>2, <2>3 DEF s
<1>8. Idle' = Idle \ (Elements(b) \cup {c})
  BY <1>3, <1>5, <1>7 DEF Idle
<1>9. mNumIdleConns' = Cardinality(Idle')
  <2>1. Cardinality(Idle) \in Nat
    BY <1>2, FiniteConnections
  <2>2. Cardinality(Idle') = Cardinality(Idle) - Len(s) + Len(a)
    BY <1>7 DEF Idle
  <2> QED
    BY <1>2, <1>3, <1>4, <1>5, <1>6, <2>1, <2>2
<1>10. mNumIdleConns' + mNumActiveConns + 1 <= mMaxConns
  <2>1. mNumActiveConns + mNumIdleConns <= mMaxConns
    BY DEF ConnState, ConnInv, LimitsHold
  <2>2. mNumActiveConns \in Nat /\ mNumIdleConns \in Nat /\ mMaxConns \in Nat
    BY HttpAssumption DEF ConnState, ListTypes
  <2> QED
    BY <1>4, <1>6, <2>1, <2>2
<1>11. /\ c \in Connections /\ c \in Idle /\ c \notin Active
       /\ Elements(b) \subseteq Idle
  BY <1>2, <1>3, <1>5
<1>12. conn[c].mTransaction = NoTransaction
  BY <1>11 DEF ConnState, ConnInv, ListsInv, Idle, IdleConns, IdleOf
<1>13. Cardinality(mActiveConns[h]) < mMaxConnsPerHost
  BY BelowLimits
<1>14. ConnState' /\ Assigned(c, t)
  BY <1>5, <1>6, <1>7, <1>8, <1>9, <1>10, <1>11, <1>12, <1>13, DispatchedConn
<1>15. trans' = [trans EXCEPT ![t].mConnection = c]
  BY <1>6 DEF Dispatched
<1> QED
  BY <1>11, <1>14, <1>15

LEMMA DispatchOnNewConn ==
    ASSUME ConnState, shutdown # "returned", shutdown' = shutdown,
           NEW h \in Hosts, NEW t \in Transactions, ~AtActiveConnectionLimit(h, t \in KeepAlive),
           DispatchOnNew(h, t)
    PROVE  ConnState' /\ \E c \in Connections : Assigned(c, t) /\ trans' = [trans EXCEPT ![t].mConnection = c]
<1>1. PICK idle \in IdleLeft(h, t) :
          /\ mIdleConns' = idle.list /\ mNumIdleConns' = idle.count
          /\ Dispatched(h, t, NewConnection, FALSE, IdleConns(mIdleConns) \ IdleConns(idle.list))
  BY DEF DispatchOnNew
<1> DEFINE c == NewConnection
           dropped == Idle \ Idle'
<1>2. c \in Connections /\ conn[c] = Free
  BY NewConnectionExists
<1>3. /\ GoodLists(mIdleConns) /\ mNumIdleConns = Cardinality(Idle)
      /\ mNumActiveConns \in Nat /\ mNumActiveConns < mMaxConns
      /\ mNumActiveConns + mNumIdleConns <= mMaxConns
      /\ Cardinality(mActiveConns[h]) < mMaxConnsPerHost
  <2>1. GoodLists(mIdleConns) /\ mNumIdleConns = Cardinality(Idle)
    BY ConnSets
  <2>2. mNumActiveConns < mMaxConns /\ Cardinality(mActiveConns[h]) < mMaxConnsPerHost
    BY BelowLimits
  <2>3. mNumActiveConns \in Nat /\ mNumActiveConns + mNumIdleConns <= mMaxConns
    BY DEF ConnState, ListTypes, ConnInv, LimitsHold
  <2> QED
    BY <2>1, <2>2, <2>3
<1>4. /\ GoodLists(idle.list) /\ idle.count = Cardinality(IdleConns(idle.list))
      /\ \A k \in Hosts : Elements(idle.list[k]) \subseteq Elements(mIdleConns[k])
      /\ idle.count + mNumActiveConns + 1 <= mMaxConns
  BY <1>3, IdleLeftFacts
<1>5. /\ GoodLists(mIdleConns') /\ mNumIdleConns' = Cardinality(Idle')
      /\ \A k \in Hosts : Elements(mIdleConns'[k]) \subseteq Elements(mIdleConns[k])
      /\ mNumIdleConns' + mNumActiveConns + 1 <= mMaxConns
      /\ Dispatched(h, t, c, FALSE, dropped)
  BY <1>1, <1>4 DEF Idle
<1>6. c \notin Active /\ c \notin Idle /\ conn[c].mTransaction = NoTransaction
  <2>1. conn[c].transport = "none" /\ conn[c].mTransaction = NoTransaction
    BY <1>2 DEF Free
  <2>2. \A d \in Active : conn[d].transport = "open"
    BY DEF ConnState, ConnInv, ListsInv, Active, ActiveOf
  <2>3. \A d \in Idle : conn[d].transport = "open"
    BY DEF ConnState, ConnInv, ListsInv, Idle, IdleConns, IdleOf
  <2> QED
    BY <2>1, <2>2, <2>3
<1>7. Idle' \subseteq Idle
  BY <1>5 DEF Idle, IdleConns
<1> HIDE DEF c
<1>8. dropped \subseteq Idle /\ c \notin dropped /\ Idle' = Idle \ (dropped \cup {c})
  BY <1>6, <1>7
<1> HIDE DEF dropped
<1>9. ConnState' /\ Assigned(c, t)
  BY <1>2, <1>3, <1>5, <1>6, <1>8, DispatchedConn DEF c
<1>10. trans' = [trans EXCEPT ![t].mConnection = c]
  BY <1>5 DEF Dispatched
<1> QED
  BY <1>2, <1>9, <1>10 DEF c

LEMMA DispatchConn ==
    ASSUME ConnState, shutdown # "returned", shutdown' = shutdown,
           NEW h \in Hosts, NEW t \in Transactions, ~AtActiveConnectionLimit(h, t \in KeepAlive),
           DispatchTransaction(h, t)
    PROVE  ConnState' /\ \E c \in Connections : Assigned(c, t) /\ trans' = [trans EXCEPT ![t].mConnection = c]
  BY DispatchOnIdleConn, DispatchOnNewConn DEF DispatchTransaction

\* Idle connections are dropped and nothing else happens to connections.
LEMMA DroppedConns ==
    ASSUME ConnState, shutdown' = shutdown,
           NEW dropped, dropped \subseteq Idle, Idle' = Idle \ dropped,
           GoodLists(mIdleConns'),
           \A k \in Hosts : Elements(mIdleConns'[k]) \subseteq Elements(mIdleConns[k]),
           mNumIdleConns' = Cardinality(Idle'),
           mActiveConns' = mActiveConns, mNumActiveConns' = mNumActiveConns,
           conn' = [c \in Connections |-> IF c \in dropped THEN Free ELSE conn[c]]
    PROVE  ConnState' /\ SameForAll
<1>0. /\ ListTypes /\ ListsInv /\ LimitsHold /\ Active \subseteq Connections
      /\ Active \cap Idle = {} /\ mNumIdleConns = Cardinality(Idle)
      /\ Idle \subseteq Connections /\ IsFiniteSet(Idle)
  BY ConnSets DEF ConnState, ConnInv
<1>1. Free \in ConnInfo /\ Free.mTransaction = NoTransaction
  BY DEF ConnInfo, Free
<1>2. /\ conn' \in [Connections -> ConnInfo]
      /\ \A d \in Connections : conn'[d] = IF d \in dropped THEN Free ELSE conn[d]
  BY <1>0, <1>1 DEF ListTypes
<1>3. Active' = Active
  BY DEF Active
<1>4. ASSUME NEW d \in Active PROVE conn'[d] = conn[d]
  BY <1>0, <1>2, <1>4
<1>5. ASSUME NEW d \in Idle' PROVE conn'[d] = conn[d]
  BY <1>0, <1>2, <1>5
<1>6. ListsInv'
  <2>1. ASSUME NEW k \in Hosts, NEW d \in mActiveConns'[k] PROVE ActiveOf(k, d)'
    <3>1. d \in Active /\ ActiveOf(k, d)
      BY <1>0, <2>1 DEF Active, ListsInv
    <3> QED
      BY <1>4, <3>1 DEF ActiveOf
  <2>2. ASSUME NEW k \in Hosts, NEW d \in Elements(mIdleConns'[k]) PROVE IdleOf(k, d)'
    <3>1. d \in Idle'
      BY <2>2 DEF Idle, IdleConns
    <3>2. IdleOf(k, d)
      BY <1>0, <2>2 DEF ListsInv
    <3> QED
      BY <1>5, <3>1, <3>2 DEF IdleOf
  <2>3. \A k \in Hosts : Distinct(mIdleConns'[k])
    BY DEF GoodLists
  <2>4. ASSUME NEW d \in Connections \ (Active' \cup Idle') PROVE conn'[d] = Free \/ Closing(d)'
    <3>1. CASE d \in dropped
      BY <1>2, <3>1
    <3>2. CASE d \notin dropped
      <4>1. d \notin Active \cup Idle /\ conn'[d] = conn[d]
        BY <1>2, <1>3, <2>4, <3>2
      <4>2. conn[d] = Free \/ Closing(d)
        BY <1>0, <4>1 DEF ListsInv
      <4> QED
        BY <4>1, <4>2 DEF Closing
    <3> QED
      BY <3>1, <3>2
  <2> QED
    BY <2>1, <2>2, <2>3, <2>4 DEF ListsInv
<1>7. mNumIdleConns' \in Nat /\ mNumIdleConns' <= mNumIdleConns
  <2>1. Idle' \in SUBSET Idle
    OBVIOUS
  <2>2. IsFiniteSet(Idle') /\ Cardinality(Idle') <= Cardinality(Idle)
    BY <1>0, <2>1, FS_Subset
  <2> QED
    BY <1>0, <2>2, FS_CardinalityType
<1>8. ListTypes'
  BY <1>0, <1>2, <1>7 DEF ListTypes, GoodLists
<1>9. LimitsHold'
  <2>1. mNumActiveConns' + mNumIdleConns' <= mMaxConns
    BY <1>0, <1>7, HttpAssumption DEF ListTypes, LimitsHold
  <2>2. mNumActiveConns' = Cardinality(UNION {mActiveConns'[h] : h \in Hosts})
    BY <1>0 DEF LimitsHold
  <2>3. mNumIdleConns' = Cardinality(IdleConns(mIdleConns'))
    BY DEF Idle
  <2>4. \A h \in Hosts : Cardinality(mActiveConns'[h]) <= mMaxConnsPerHost
    BY <1>0 DEF LimitsHold
  <2> QED
    BY <2>1, <2>2, <2>3, <2>4 DEF LimitsHold
<1>10. SameForAll
  <2> SUFFICES ASSUME NEW d \in Connections PROVE SameFor(d)
    BY DEF SameForAll
  <2>1. CASE d \in dropped
    <3>1. conn[d].mTransaction = NoTransaction
      BY <1>0, <2>1 DEF ListsInv, Idle, IdleConns, IdleOf
    <3> QED
      BY <1>1, <1>2, <2>1, <3>1 DEF SameFor
  <2>2. CASE d \notin dropped
    BY <1>2, <2>2 DEF SameFor
  <2> QED
    BY <2>1, <2>2
<1> QED
  BY <1>6, <1>8, <1>9, <1>10 DEF ConnState, ConnInv

LEMMA DispatchFailsConn ==
    ASSUME ConnState, shutdown' = shutdown,
           NEW h \in Hosts, NEW t \in Transactions, ~AtActiveConnectionLimit(h, t \in KeepAlive),
           DispatchFails(h, t)
    PROVE  ConnState' /\ SameForAll
<1> DEFINE dropped == Idle \ Idle'
<1>1. PICK idle \in IdleLeft(h, t) :
          /\ mIdleConns' = idle.list /\ mNumIdleConns' = idle.count
          /\ conn' = [c \in Connections |->
                        IF c \in IdleConns(mIdleConns) \ IdleConns(idle.list) THEN Free ELSE conn[c]]
  BY DEF DispatchFails
<1>2. mActiveConns' = mActiveConns /\ mNumActiveConns' = mNumActiveConns
  BY DEF DispatchFails
<1>3. /\ GoodLists(mIdleConns) /\ mNumIdleConns = Cardinality(Idle)
      /\ mNumActiveConns \in Nat /\ mNumActiveConns < mMaxConns
      /\ mNumActiveConns + mNumIdleConns <= mMaxConns
  <2>1. GoodLists(mIdleConns) /\ mNumIdleConns = Cardinality(Idle)
    BY ConnSets
  <2>2. mNumActiveConns < mMaxConns
    BY BelowLimits
  <2>3. mNumActiveConns \in Nat /\ mNumActiveConns + mNumIdleConns <= mMaxConns
    BY DEF ConnState, ListTypes, ConnInv, LimitsHold
  <2> QED
    BY <2>1, <2>2, <2>3
<1>4. /\ GoodLists(idle.list) /\ idle.count = Cardinality(IdleConns(idle.list))
      /\ \A k \in Hosts : Elements(idle.list[k]) \subseteq Elements(mIdleConns[k])
  BY <1>3, IdleLeftFacts
<1>5. /\ GoodLists(mIdleConns') /\ mNumIdleConns' = Cardinality(Idle')
      /\ \A k \in Hosts : Elements(mIdleConns'[k]) \subseteq Elements(mIdleConns[k])
      /\ conn' = [c \in Connections |-> IF c \in dropped THEN Free ELSE conn[c]]
  BY <1>1, <1>4 DEF Idle
<1>6. Idle' \subseteq Idle
  BY <1>5 DEF Idle, IdleConns
<1>7. dropped \subseteq Idle /\ Idle' = Idle \ dropped
  BY <1>6
<1> HIDE DEF dropped
<1> QED
  BY <1>2, <1>5, <1>7, DroppedConns

LEMMA PruneConn ==
    ASSUME ConnState, shutdown' = shutdown, OnMsgPruneDeadConnections
    PROVE  ConnState' /\ SameForAll
<1>1. PICK dead \in SUBSET IdleConns(mIdleConns) :
          /\ mIdleConns' = [h \in Hosts |-> Kept(mIdleConns[h], dead)]
          /\ mNumIdleConns' = mNumIdleConns - Cardinality(dead)
          /\ conn' = [c \in Connections |-> IF c \in dead THEN Free ELSE conn[c]]
  BY DEF OnMsgPruneDeadConnections
<1>2. mActiveConns' = mActiveConns /\ mNumActiveConns' = mNumActiveConns
  BY DEF OnMsgPruneDeadConnections
<1>3. GoodLists(mIdleConns) /\ IsFiniteSet(Idle) /\ mNumIdleConns = Cardinality(Idle)
  BY ConnSets
<1>4. ASSUME NEW h \in Hosts
      PROVE  /\ mIdleConns'[h] = Kept(mIdleConns[h], dead)
             /\ mIdleConns'[h] \in Seq(Connections) /\ Distinct(mIdleConns'[h])
             /\ Elements(mIdleConns'[h]) = Elements(mIdleConns[h]) \ dead
  <2>1. mIdleConns[h] \in Seq(Connections) /\ Distinct(mIdleConns[h])
    BY <1>3 DEF GoodLists
  <2>2. mIdleConns'[h] = Kept(mIdleConns[h], dead)
    BY <1>1
  <2> QED
    BY <2>1, <2>2, KeptFacts
<1>5. GoodLists(mIdleConns')
  <2>1. mIdleConns' \in [Hosts -> Seq(Connections)]
    <3>1. mIdleConns' = [h \in Hosts |-> mIdleConns'[h]]
      BY <1>1
    <3> QED
      BY <1>4, <3>1
  <2>2. \A h, k \in Hosts : h # k => Elements(mIdleConns'[h]) \cap Elements(mIdleConns'[k]) = {}
    BY <1>3, <1>4 DEF GoodLists
  <2> QED
    BY <1>4, <2>1, <2>2 DEF GoodLists
<1>6. Idle' = Idle \ dead
  BY <1>4 DEF Idle, IdleConns
<1>7. dead \subseteq Idle /\ dead \cap Idle = dead /\ Idle \cap dead = dead
  BY <1>1 DEF Idle
<1>8. mNumIdleConns' = Cardinality(Idle')
  <2>1. Cardinality(Idle \ dead) = Cardinality(Idle) - Cardinality(Idle \cap dead)
    BY <1>3, FS_Difference
  <2> QED
    BY <1>1, <1>3, <1>6, <1>7, <2>1
<1>9. \A k \in Hosts : Elements(mIdleConns'[k]) \subseteq Elements(mIdleConns[k])
  BY <1>4
<1> QED
  BY <1>1, <1>2, <1>5, <1>6, <1>7, <1>8, <1>9, DroppedConns

\* c has lost its transaction, and is in its host's idle list if it is used again.
Reclaimed(c, keepAlive) ==
    [conn[c] EXCEPT !.mTransaction = NoTransaction, !.mIsReused = TRUE,
                    !.mKeepAlive = keepAlive, !.waitsTo = "write"]

LEMMA ReclaimActive ==
    ASSUME ConnState, shutdown' = shutdown, NEW h \in Hosts, NEW c \in mActiveConns[h],
           NEW new \in ConnInfo, new.mTransaction = NoTransaction,
           conn' = [conn EXCEPT ![c] = new],
           mActiveConns' = [mActiveConns EXCEPT ![h] = mActiveConns[h] \ {c}],
           mNumActiveConns' = mNumActiveConns - 1,
           GoodLists(mIdleConns'), Idle \subseteq Idle',
           mNumIdleConns' = Cardinality(Idle'), mNumIdleConns' <= mNumIdleConns + 1,
           \A k \in Hosts : \A d \in Elements(mIdleConns'[k]) :
               \/ d \in Elements(mIdleConns[k])
               \/ d = c /\ k = h /\ new.mConnInfo = h /\ new.transport = "open",
           new = Free \/ c \in Idle'
    PROVE  ConnState' /\ Freed(c)
<1>0. /\ ListTypes /\ ListsInv /\ LimitsHold /\ Active \subseteq Connections
      /\ Active \cap Idle = {} /\ mNumActiveConns = Cardinality(Active)
      /\ IsFiniteSet(Active)
  BY ConnSets DEF ConnState, ConnInv
<1>1. /\ c \in Active /\ c \in Connections /\ c \notin Idle
      /\ conn[c].mConnInfo = h
  BY <1>0 DEF Active, ListsInv, ActiveOf
<1>2. /\ conn' \in [Connections -> ConnInfo] /\ conn'[c] = new
      /\ \A d \in Connections \ {c} : conn'[d] = conn[d]
  BY <1>0, <1>1 DEF ListTypes
<1>3. /\ mActiveConns' \in [Hosts -> SUBSET Connections]
      /\ mActiveConns'[h] = mActiveConns[h] \ {c}
      /\ \A k \in Hosts \ {h} : mActiveConns'[k] = mActiveConns[k]
  BY <1>0 DEF ListTypes
<1>4. ASSUME NEW k \in Hosts PROVE c \notin mActiveConns'[k] /\ mActiveConns'[k] \subseteq mActiveConns[k]
  <2>1. CASE k = h
    BY <1>3, <2>1
  <2>2. CASE k # h
    BY <1>0, <1>1, <1>3, <2>2 DEF ListsInv, ActiveOf
  <2> QED
    BY <2>1, <2>2
<1>5. Active' = Active \ {c}
  <2>1. \A k \in Hosts : \A d \in mActiveConns[k] : d # c => d \in mActiveConns'[k]
    BY <1>3
  <2> QED
    BY <1>4, <2>1 DEF Active
<1>6. mNumActiveConns' = Cardinality(Active') /\ mNumActiveConns' \in Nat
  <2>1. IsFiniteSet(Active \ {c}) /\ Cardinality(Active \ {c}) = Cardinality(Active) - 1
    BY <1>0, <1>1, FS_RemoveElement
  <2>2. Cardinality(Active \ {c}) \in Nat
    BY <2>1, FS_CardinalityType
  <2> QED
    BY <1>0, <1>5, <2>1, <2>2
<1>7. mNumIdleConns' \in Nat
  <2>1. Idle' \subseteq Connections
    <3>1. \A k \in Hosts : Elements(mIdleConns'[k]) \subseteq Connections
      BY ElementsType DEF GoodLists
    <3> QED
      BY <3>1 DEF Idle, IdleConns
  <2> QED
    BY <2>1, FiniteConnections
<1>8. ListTypes'
  BY <1>2, <1>3, <1>6, <1>7 DEF ListTypes, GoodLists
<1>9. ListsInv'
  <2>1. ASSUME NEW k \in Hosts, NEW d \in mActiveConns'[k] PROVE ActiveOf(k, d)'
    <3>1. d # c /\ d \in Connections /\ ActiveOf(k, d)
      BY <1>0, <1>4, <2>1 DEF ListsInv, ListTypes
    <3> QED
      BY <1>2, <3>1 DEF ActiveOf
  <2>2. ASSUME NEW k \in Hosts, NEW d \in Elements(mIdleConns'[k]) PROVE IdleOf(k, d)'
    <3>1. CASE d \in Elements(mIdleConns[k])
      <4>1. d \in Idle /\ d \in Connections /\ IdleOf(k, d)
        BY <1>0, <3>1, ConnSets DEF ListsInv, Idle, IdleConns
      <4>2. conn'[d] = conn[d]
        BY <1>1, <1>2, <4>1
      <4> QED
        BY <4>1, <4>2 DEF IdleOf
    <3>2. CASE d = c /\ k = h /\ new.mConnInfo = h /\ new.transport = "open"
      BY <1>2, <3>2 DEF IdleOf
    <3> QED
      BY <2>2, <3>1, <3>2
  <2>3. \A k \in Hosts : Distinct(mIdleConns'[k])
    BY DEF GoodLists
  <2>4. ASSUME NEW d \in Connections \ (Active' \cup Idle') PROVE conn'[d] = Free \/ Closing(d)'
    <3>1. CASE d = c
      BY <1>2, <2>4, <3>1
    <3>2. CASE d # c
      <4>1. d \notin Active \cup Idle /\ conn'[d] = conn[d]
        BY <1>2, <1>5, <2>4, <3>2
      <4>2. conn[d] = Free \/ Closing(d)
        BY <1>0, <4>1 DEF ListsInv
      <4> QED
        BY <4>1, <4>2 DEF Closing
    <3> QED
      BY <3>1, <3>2
  <2> QED
    BY <2>1, <2>2, <2>3, <2>4 DEF ListsInv
<1>10. LimitsHold'
  <2>1. mNumActiveConns' + mNumIdleConns' <= mMaxConns
    BY <1>0, <1>7, HttpAssumption DEF ListTypes, LimitsHold
  <2>2. mNumActiveConns' = Cardinality(UNION {mActiveConns'[k] : k \in Hosts})
    BY <1>6 DEF Active
  <2>3. mNumIdleConns' = Cardinality(IdleConns(mIdleConns'))
    BY DEF Idle
  <2>4. ASSUME NEW k \in Hosts PROVE Cardinality(mActiveConns'[k]) <= mMaxConnsPerHost
    <3>1. mActiveConns[k] \subseteq Connections /\ mActiveConns'[k] \in SUBSET mActiveConns[k]
      BY <1>0, <1>4 DEF ListTypes
    <3>2. IsFiniteSet(mActiveConns[k]) /\ Cardinality(mActiveConns[k]) \in Nat
      BY <3>1, FiniteConnections
    <3>3. /\ IsFiniteSet(mActiveConns'[k])
          /\ Cardinality(mActiveConns'[k]) <= Cardinality(mActiveConns[k])
      BY <3>1, <3>2, FS_Subset
    <3>4. Cardinality(mActiveConns'[k]) \in Nat
      BY <3>3, FS_CardinalityType
    <3>5. Cardinality(mActiveConns[k]) <= mMaxConnsPerHost
      BY <1>0 DEF LimitsHold
    <3> QED
      BY <3>2, <3>3, <3>4, <3>5, HttpAssumption
  <2> QED
    BY <2>1, <2>2, <2>3, <2>4 DEF LimitsHold
<1>11. Freed(c)
  BY <1>2 DEF Freed, SameFor
<1> QED
  BY <1>8, <1>9, <1>10, <1>11 DEF ConnState, ConnInv

LEMMA ReclaimConn ==
    ASSUME ConnState, shutdown' = shutdown,
           shutdown = "returned" =>
               \A h \in Hosts : mActiveConns[h] = {} /\ mIdleConns[h] = << >> /\ mPendingQ[h] = << >>,
           NEW c \in Connections, conn[c].mTransaction # NoTransaction,
           NEW reuse, reuse => conn[c].transport = "open",
           NEW keepAlive \in BOOLEAN, ReclaimConnection(c, reuse, keepAlive)
    PROVE  ConnState' /\ Freed(c)
<1> DEFINE h == conn[c].mConnInfo
           s == mIdleConns[h]
           new == Reclaimed(c, keepAlive)
<1>0. /\ ListTypes /\ ListsInv /\ GoodLists(mIdleConns) /\ Active \cap Idle = {}
      /\ mNumIdleConns = Cardinality(Idle) /\ Idle \subseteq Connections
  BY ConnSets DEF ConnState, ConnInv
<1>1. /\ Free \in ConnInfo /\ Free.mTransaction = NoTransaction
  BY DEF ConnInfo, Free
<1>2. /\ new \in ConnInfo /\ new.mTransaction = NoTransaction
      /\ new.mConnInfo = h /\ new.transport = conn[c].transport
  <2>1. conn[c] \in ConnInfo
    BY <1>0 DEF ListTypes
  <2> QED
    BY <2>1 DEF Reclaimed, ConnInfo
<1>3. conn' = [conn EXCEPT ![c] = IF reuse /\ h \in mCT THEN new ELSE Free]
  BY DEF ReclaimConnection, Reclaimed
<1>4. CASE c \in Active
  <2>1. h \in Hosts /\ c \in mActiveConns[h]
    BY <1>0, <1>4 DEF Active, ListsInv, ActiveOf
  <2>2. h \in mCT
    BY <2>1 DEF mCT
  <2>3. /\ mActiveConns' = [mActiveConns EXCEPT ![h] = mActiveConns[h] \ {c}]
        /\ mNumActiveConns' = mNumActiveConns - 1
        /\ mIdleConns' = [mIdleConns EXCEPT ![h] = IF reuse THEN Append(s, c) ELSE s]
        /\ mNumIdleConns' = mNumIdleConns + (IF reuse THEN 1 ELSE 0)
    BY <2>2 DEF ReclaimConnection
  <2>4. /\ s \in Seq(Connections) /\ Distinct(s) /\ Elements(s) \subseteq Idle
        /\ Len(s) \in Nat
    BY <1>0, <2>1, ListElements DEF Idle
  <2>5. c \notin Idle /\ mNumIdleConns \in Nat
    BY <1>0, <1>4 DEF ListTypes
  <2> HIDE DEF h, new, s
  <2>6. CASE reuse
    <3> DEFINE a == Append(s, c)
               m == [mIdleConns EXCEPT ![h] = a]
    <3>1. /\ a \in Seq(Connections) /\ Len(a) = Len(s) + 1
          /\ Distinct(a) /\ Elements(a) = Elements(s) \cup {c}
      BY <2>4, <2>5, ElementsAppend
    <3>2. mIdleConns' = m /\ mNumIdleConns' = mNumIdleConns + 1 /\ conn' = [conn EXCEPT ![c] = new]
      BY <1>3, <2>2, <2>3, <2>6
    <3> HIDE DEF a
    <3>3. \A k \in Hosts \ {h} : Elements(a) \cap Elements(mIdleConns[k]) = {}
      <4> SUFFICES ASSUME NEW k \in Hosts, k # h PROVE Elements(a) \cap Elements(mIdleConns[k]) = {}
        OBVIOUS
      <4>1. Elements(s) \cap Elements(mIdleConns[k]) = {}
        BY <1>0, <2>1 DEF GoodLists, s
      <4>2. c \notin Elements(mIdleConns[k])
        BY <2>5 DEF Idle, IdleConns
      <4> QED
        BY <3>1, <4>1, <4>2
    <3>4. /\ GoodLists(m)
          /\ IdleConns(m) = (IdleConns(mIdleConns) \ Elements(mIdleConns[h])) \cup Elements(a)
          /\ Cardinality(IdleConns(m)) = Cardinality(IdleConns(mIdleConns)) - Len(mIdleConns[h]) + Len(a)
      BY <1>0, <2>1, <3>1, <3>3, ReplaceList
    <3>5. /\ m[h] = a /\ \A k \in Hosts : k # h => m[k] = mIdleConns[k]
      BY <1>0, <2>1 DEF GoodLists
    <3> HIDE DEF m
    <3>6. Idle' = Idle \cup {c}
      BY <2>4, <3>1, <3>2, <3>4 DEF Idle, s
    <3>7. mNumIdleConns' = Cardinality(Idle')
      <4>1. Cardinality(Idle') = Cardinality(Idle) - Len(s) + Len(a)
        BY <3>2, <3>4 DEF Idle, s
      <4> QED
        BY <1>0, <2>4, <2>5, <3>1, <3>2, <4>1
    <3>8. ASSUME NEW k \in Hosts, NEW d \in Elements(mIdleConns'[k])
          PROVE  \/ d \in Elements(mIdleConns[k])
                 \/ d = c /\ k = h /\ new.mConnInfo = h /\ new.transport = "open"
      <4>1. CASE k = h
        BY <1>2, <2>6, <3>1, <3>2, <3>5, <3>8, <4>1 DEF s
      <4>2. CASE k # h
        BY <3>2, <3>5, <3>8, <4>2
      <4> QED
        BY <4>1, <4>2
    <3>9. GoodLists(mIdleConns') /\ Idle \subseteq Idle' /\ c \in Idle'
      BY <3>2, <3>4, <3>6
    <3>10. mNumIdleConns' <= mNumIdleConns + 1
      BY <2>5, <3>2
    <3> QED
      BY <1>2, <2>1, <2>3, <3>2, <3>7, <3>8, <3>9, <3>10, ReclaimActive, Zenon
  <2>7. CASE ~reuse
    <3>1. mIdleConns' = mIdleConns /\ mNumIdleConns' = mNumIdleConns /\ conn' = [conn EXCEPT ![c] = Free]
      BY <1>0, <1>3, <2>3, <2>5, <2>7 DEF s, GoodLists
    <3>2. GoodLists(mIdleConns') /\ Idle' = Idle
      BY <1>0, <3>1 DEF Idle
    <3>3. mNumIdleConns' = Cardinality(Idle') /\ mNumIdleConns' <= mNumIdleConns + 1
      BY <1>0, <2>5, <3>1, <3>2
    <3>4. \A k \in Hosts : \A d \in Elements(mIdleConns'[k]) : d \in Elements(mIdleConns[k])
      BY <3>1
    <3> QED
      BY <1>1, <2>1, <2>3, <3>1, <3>2, <3>3, <3>4, ReclaimActive
  <2> QED
    BY <2>6, <2>7
<1>5. CASE c \notin Active
  <2>1. c \notin Idle
    BY <1>0 DEF ListsInv, Idle, IdleConns, IdleOf
  <2>2. Closing(c)
    BY <1>0, <1>1, <1>5, <2>1 DEF ListsInv
  <2>3. h \notin mCT
    BY <2>2 DEF Closing, mCT
  <2>4. /\ mActiveConns' = mActiveConns /\ mNumActiveConns' = mNumActiveConns
        /\ mIdleConns' = mIdleConns /\ mNumIdleConns' = mNumIdleConns
    BY <2>3 DEF ReclaimConnection
  <2> HIDE DEF h, new
  <2>5. /\ conn' \in [Connections -> ConnInfo] /\ conn'[c] = Free
        /\ \A d \in Connections \ {c} : conn'[d] = conn[d]
    BY <1>0, <1>1, <1>3, <2>3 DEF ListTypes
  <2>6. Active' = Active /\ Idle' = Idle
    BY <2>4 DEF Active, Idle
  <2>7. ListTypes'
    BY <1>0, <2>4, <2>5 DEF ListTypes
  <2>8. LimitsHold'
    BY <2>4 DEF ConnState, ConnInv, LimitsHold
  <2>9. ListsInv'
    <3>1. ASSUME NEW k \in Hosts, NEW d \in mActiveConns'[k] PROVE ActiveOf(k, d)'
      <4>1. d \in Active /\ d \in Connections /\ d # c /\ ActiveOf(k, d)
        BY <1>0, <1>5, <2>4, <3>1 DEF Active, ListsInv, ListTypes
      <4> QED
        BY <2>5, <4>1 DEF ActiveOf
    <3>2. ASSUME NEW k \in Hosts, NEW d \in Elements(mIdleConns'[k]) PROVE IdleOf(k, d)'
      <4>1. d \in Idle /\ d \in Connections /\ d # c /\ IdleOf(k, d)
        BY <1>0, <2>1, <2>4, <3>2 DEF Idle, IdleConns, ListsInv
      <4> QED
        BY <2>5, <4>1 DEF IdleOf
    <3>3. \A k \in Hosts : Distinct(mIdleConns'[k])
      BY <1>0, <2>4 DEF ListsInv
    <3>4. ASSUME NEW d \in Connections \ (Active' \cup Idle') PROVE conn'[d] = Free \/ Closing(d)'
      <4>1. CASE d = c
        BY <2>5, <4>1
      <4>2. CASE d # c
        <5>1. conn'[d] = conn[d] /\ (conn[d] = Free \/ Closing(d))
          BY <1>0, <2>5, <2>6, <3>4, <4>2 DEF ListsInv
        <5> QED
          BY <5>1 DEF Closing
      <4> QED
        BY <4>1, <4>2
    <3> QED
      BY <3>1, <3>2, <3>3, <3>4 DEF ListsInv
  <2>10. Freed(c)
    BY <1>1, <2>5 DEF Freed, SameFor
  <2> QED
    BY <2>7, <2>8, <2>9, <2>10 DEF ConnState, ConnInv
<1> QED
  BY <1>4, <1>5

LEMMA ShutdownConn ==
    ASSUME ConnState, ServeShutdown
    PROVE  /\ ConnState' /\ SameForAll
           /\ \A h \in Hosts : mActiveConns'[h] = {} /\ mIdleConns'[h] = << >> /\ mPendingQ'[h] = << >>
<1> DEFINE active == UNION {mActiveConns[h] : h \in mCT}
           idle == UNION {Elements(mIdleConns[h]) : h \in mCT}
           gone(c) == [conn[c] EXCEPT !.transport = "closed", !.mKeepAlive = FALSE]
<1>0. /\ ListTypes /\ ListsInv /\ Active \subseteq Connections
      /\ Active \cap Idle = {} /\ mNumActiveConns = Cardinality(Active)
      /\ mNumIdleConns = Cardinality(Idle) /\ Idle \subseteq Connections
  BY ConnSets DEF ConnState, ConnInv
<1>1. active = Active
  BY DEF Active, mCT
<1>2. idle = Idle
  BY EmptyList DEF Idle, IdleConns, mCT
<1>3. /\ mActiveConns' = [h \in Hosts |-> {}]
      /\ mIdleConns' = [h \in Hosts |-> << >>]
      /\ mPendingQ' = [h \in Hosts |-> << >>]
      /\ mNumActiveConns' = mNumActiveConns - Cardinality(active)
      /\ mNumIdleConns' = mNumIdleConns - Cardinality(idle)
      /\ conn' = [c \in Connections |-> IF c \in active THEN gone(c) ELSE IF c \in idle THEN Free ELSE conn[c]]
      /\ shutdown' = "returned"
  BY DEF ServeShutdown
<1> HIDE DEF active, idle
<1>4. mNumActiveConns' = 0 /\ mNumIdleConns' = 0
  <2>1. mNumActiveConns \in Nat /\ mNumIdleConns \in Nat
    BY <1>0 DEF ListTypes
  <2>2. Cardinality(active) = mNumActiveConns /\ Cardinality(idle) = mNumIdleConns
    BY <1>0, <1>1, <1>2
  <2>3. /\ mNumActiveConns' = mNumActiveConns - Cardinality(active)
        /\ mNumIdleConns' = mNumIdleConns - Cardinality(idle)
    BY <1>3
  <2> QED
    BY <2>1, <2>2, <2>3
<1>5. ASSUME NEW c \in Connections
      PROVE  /\ gone(c) \in ConnInfo /\ gone(c).mConnInfo = conn[c].mConnInfo
             /\ gone(c).mTransaction = conn[c].mTransaction
             /\ gone(c).transport = "closed" /\ gone(c).mKeepAlive = FALSE
             /\ gone(c).mIsReused = conn[c].mIsReused /\ gone(c).waitsTo = conn[c].waitsTo
  <2>1. conn[c] \in ConnInfo
    BY <1>0 DEF ListTypes
  <2> QED
    BY <2>1 DEF ConnInfo
<1>6. Free \in ConnInfo /\ Free.mTransaction = NoTransaction
  BY DEF ConnInfo, Free
<1> HIDE DEF gone
<1>7. \A c \in Connections : conn'[c] = IF c \in Active THEN gone(c) ELSE IF c \in Idle THEN Free ELSE conn[c]
  BY <1>1, <1>2, <1>3
<1>8. conn' \in [Connections -> ConnInfo]
  <2>1. conn' = [c \in Connections |-> conn'[c]]
    BY <1>3
  <2>2. \A c \in Connections : conn'[c] \in ConnInfo
    BY <1>0, <1>5, <1>6, <1>7 DEF ListTypes
  <2> QED
    BY <2>1, <2>2
<1>9. Active' = {} /\ Idle' = {}
  BY <1>3, EmptyList DEF Active, Idle, IdleConns
<1>10. ListTypes'
  BY <1>3, <1>4, <1>8, EmptyList DEF ListTypes
<1>11. LimitsHold'
  <2>1. UNION {mActiveConns'[h] : h \in Hosts} = {} /\ IdleConns(mIdleConns') = {}
    BY <1>9 DEF Active, Idle
  <2>2. Cardinality({}) = 0
    BY FS_EmptySet
  <2>3. \A h \in Hosts : Cardinality(mActiveConns'[h]) <= mMaxConnsPerHost
    BY <1>3, <2>2, HttpAssumption
  <2>4. mNumActiveConns' + mNumIdleConns' <= mMaxConns
    BY <1>4, HttpAssumption
  <2> QED
    BY <1>4, <2>1, <2>2, <2>3, <2>4 DEF LimitsHold
<1>12. ListsInv'
  <2>1. ASSUME NEW h \in Hosts PROVE mActiveConns'[h] = {} /\ Elements(mIdleConns'[h]) = {} /\ Distinct(mIdleConns'[h])
    BY <1>3, EmptyList
  <2>2. ASSUME NEW d \in Connections PROVE conn'[d] = Free \/ Closing(d)'
    <3>1. CASE d \in Active
      <4>1. conn[d].mTransaction # NoTransaction /\ conn[d].mConnInfo \in Hosts
        BY <1>0, <3>1 DEF Active, ListsInv, ActiveOf
      <4> QED
        BY <1>3, <1>5, <1>7, <3>1, <4>1 DEF Closing
    <3>2. CASE d \in Idle
      BY <1>0, <1>7, <3>2
    <3>3. CASE d \notin Active \cup Idle
      <4>1. conn'[d] = conn[d] /\ (conn[d] = Free \/ Closing(d))
        BY <1>0, <1>7, <3>3 DEF ListsInv
      <4> QED
        BY <1>3, <4>1 DEF Closing
    <3> QED
      BY <3>1, <3>2, <3>3
  <2> QED
    BY <2>1, <2>2 DEF ListsInv
<1>13. SameForAll
  <2> SUFFICES ASSUME NEW d \in Connections PROVE SameFor(d)
    BY DEF SameForAll
  <2>1. CASE d \in Active
    BY <1>5, <1>7, <2>1 DEF SameFor
  <2>2. CASE d \in Idle
    <3>1. conn[d].mTransaction = NoTransaction
      BY <1>0, <2>2 DEF ListsInv, Idle, IdleConns, IdleOf
    <3> QED
      BY <1>0, <1>6, <1>7, <2>2, <3>1 DEF SameFor
  <2>3. CASE d \notin Active \cup Idle
    BY <1>7, <2>3 DEF SameFor
  <2> QED
    BY <2>1, <2>2, <2>3
<1> QED
  BY <1>3, <1>10, <1>11, <1>12, <1>13 DEF ConnState, ConnInv

\* A connection that has a transaction and is open writes or reads.
LEMMA TouchedConn ==
    ASSUME ConnState, shutdown' = shutdown, UNCHANGED <<mActiveConns, mIdleConns, mNumActiveConns, mNumIdleConns>>,
           NEW c \in Connections, conn[c].mTransaction # NoTransaction, conn[c].transport = "open",
           NEW new \in ConnInfo, new.mConnInfo = conn[c].mConnInfo,
           new.mTransaction = conn[c].mTransaction, new.transport = "open",
           conn' = [conn EXCEPT ![c] = new]
    PROVE  ConnState'
<1>0. ListTypes /\ ListsInv /\ LimitsHold
  BY DEF ConnState, ConnInv
<1>1. /\ conn' \in [Connections -> ConnInfo] /\ conn'[c] = new
      /\ \A d \in Connections \ {c} : conn'[d] = conn[d]
  BY <1>0 DEF ListTypes
<1>2. Active' = Active /\ Idle' = Idle
  BY DEF Active, Idle
<1>3. c \notin Idle
  BY <1>0 DEF ListsInv, Idle, IdleConns, IdleOf
<1>4. c \in Active
  BY <1>0, <1>3 DEF ListsInv, Closing, Free
<1>5. ListTypes' /\ LimitsHold'
  BY <1>0, <1>1 DEF ListTypes, LimitsHold
<1>6. ListsInv'
  <2>1. ASSUME NEW k \in Hosts, NEW d \in mActiveConns'[k] PROVE ActiveOf(k, d)'
    <3>1. d \in Connections /\ ActiveOf(k, d)
      BY <1>0, <2>1 DEF ListsInv, ListTypes
    <3> QED
      BY <1>1, <3>1 DEF ActiveOf
  <2>2. ASSUME NEW k \in Hosts, NEW d \in Elements(mIdleConns'[k]) PROVE IdleOf(k, d)'
    <3>1. d \in Idle /\ IdleOf(k, d) /\ d \in Connections
      BY <1>0, <2>2, ConnSets DEF Idle, IdleConns, ListsInv
    <3> QED
      BY <1>1, <1>3, <3>1 DEF IdleOf
  <2>3. \A k \in Hosts : Distinct(mIdleConns'[k])
    BY <1>0 DEF ListsInv
  <2>4. ASSUME NEW d \in Connections \ (Active' \cup Idle') PROVE conn'[d] = Free \/ Closing(d)'
    <3>1. conn'[d] = conn[d] /\ (conn[d] = Free \/ Closing(d))
      BY <1>0, <1>1, <1>2, <1>4, <2>4 DEF ListsInv
    <3> QED
      BY <3>1 DEF Closing
  <2> QED
    BY <2>1, <2>2, <2>3, <2>4 DEF ListsInv
<1> QED
  BY <1>5, <1>6 DEF ConnState, ConnInv

\* What a connection waits for, if it is one that is in use, plays no part in the lists.
LEMMA ResumedConn ==
    ASSUME ConnState, shutdown' = shutdown, UNCHANGED <<mActiveConns, mIdleConns, mNumActiveConns, mNumIdleConns>>,
           NEW c \in Connections, conn[c] # Free,
           NEW new \in ConnInfo, new.mConnInfo = conn[c].mConnInfo, new.mTransaction = conn[c].mTransaction,
           new.transport = conn[c].transport, new.mKeepAlive = conn[c].mKeepAlive,
           conn' = [conn EXCEPT ![c] = new]
    PROVE  ConnState'
<1>0. ListTypes /\ ListsInv /\ LimitsHold
  BY DEF ConnState, ConnInv
<1>1. /\ conn' \in [Connections -> ConnInfo] /\ conn'[c] = new
      /\ \A d \in Connections \ {c} : conn'[d] = conn[d]
  BY <1>0 DEF ListTypes
<1>2. Active' = Active /\ Idle' = Idle
  BY DEF Active, Idle
<1>3. ListTypes' /\ LimitsHold'
  BY <1>0, <1>1 DEF ListTypes, LimitsHold
<1>4. \A d \in Connections : /\ conn'[d].mConnInfo = conn[d].mConnInfo /\ conn'[d].mTransaction = conn[d].mTransaction
                            /\ conn'[d].transport = conn[d].transport /\ conn'[d].mKeepAlive = conn[d].mKeepAlive
  BY <1>1
<1>5. ListsInv'
  <2>1. ASSUME NEW k \in Hosts, NEW d \in mActiveConns'[k] PROVE ActiveOf(k, d)'
    <3>1. d \in Connections /\ ActiveOf(k, d)
      BY <1>0, <2>1 DEF ListsInv, ListTypes
    <3> QED
      BY <1>4, <3>1 DEF ActiveOf
  <2>2. ASSUME NEW k \in Hosts, NEW d \in Elements(mIdleConns'[k]) PROVE IdleOf(k, d)'
    <3>1. IdleOf(k, d) /\ d \in Connections
      BY <1>0, <2>2, ConnSets DEF Idle, IdleConns, ListsInv
    <3> QED
      BY <1>4, <3>1 DEF IdleOf
  <2>3. \A k \in Hosts : Distinct(mIdleConns'[k])
    BY <1>0 DEF ListsInv
  <2>4. ASSUME NEW d \in Connections \ (Active' \cup Idle') PROVE conn'[d] = Free \/ Closing(d)'
    <3>1. conn[d] = Free \/ Closing(d)
      BY <1>0, <1>2, <2>4 DEF ListsInv
    <3>2. CASE Closing(d)
      BY <1>4, <3>2 DEF Closing
    <3>3. CASE conn[d] = Free
      BY <1>1, <3>3
    <3> QED
      BY <3>1, <3>2, <3>3
  <2> QED
    BY <2>1, <2>2, <2>3, <2>4 DEF ListsInv
<1> QED
  BY <1>3, <1>5 DEF ConnState, ConnInv

LEMMA SameConn ==
    ASSUME ConnState, shutdown = "returned" => shutdown' = "returned",
           UNCHANGED <<mActiveConns, mIdleConns, mNumActiveConns, mNumIdleConns, conn>>
    PROVE  ConnState' /\ SameForAll
<1>1. ListTypes' /\ LimitsHold' /\ Active' = Active /\ Idle' = Idle
  BY DEF ConnState, ConnInv, ListTypes, LimitsHold, Active, Idle
<1>2. ListsInv'
  BY <1>1 DEF ConnState, ConnInv, ListsInv, ActiveOf, IdleOf, Closing
<1>3. SameForAll
  BY DEF SameForAll, SameFor
<1> QED
  BY <1>1, <1>2, <1>3 DEF ConnState, ConnInv

------------------------------------------------------------------------------
(* The messages.                                                             *)

LEMMA MessageTypes ==
    /\ \A t \in Transactions : NewTransaction(t) \in Messages /\ Message("CANCEL_TRANSACTION", t, NoHost) \in Messages
    /\ \A h \in Hosts : ProcessPendingQ(h) \in Messages
    /\ Message("SHUTDOWN", NoTransaction, NoHost) \in Messages
  BY DEF Messages

LEMMA MessageFields ==
    /\ \A t : NewTransaction(t).type = "NEW_TRANSACTION" /\ NewTransaction(t).trans = t
    /\ \A t : Message("CANCEL_TRANSACTION", t, NoHost).type = "CANCEL_TRANSACTION"
    /\ \A h : ProcessPendingQ(h).type = "PROCESS_PENDING_Q" /\ ProcessPendingQ(h).ci = h
    /\ Message("SHUTDOWN", NoTransaction, NoHost).type = "SHUTDOWN"
  BY DEF NewTransaction, ProcessPendingQ, Message

LEMMA MessageKinds ==
    ASSUME NEW m \in Messages
    PROVE  /\ m.type = "NEW_TRANSACTION" => m.trans \in Transactions /\ m = NewTransaction(m.trans)
           /\ m.type = "CANCEL_TRANSACTION" => m.trans \in Transactions
           /\ m.type = "PROCESS_PENDING_Q" => m.ci \in Hosts
           /\ m.type \in {"NEW_TRANSACTION", "CANCEL_TRANSACTION", "PROCESS_PENDING_Q", "SHUTDOWN"}
<1>1. CASE \E t \in Transactions : m = NewTransaction(t)
  BY <1>1 DEF NewTransaction, Message
<1>2. CASE \E t \in Transactions : m = Message("CANCEL_TRANSACTION", t, NoHost)
  BY <1>2 DEF Message
<1>3. CASE \E h \in Hosts : m = ProcessPendingQ(h)
  BY <1>3 DEF ProcessPendingQ, Message
<1>4. CASE m = Message("SHUTDOWN", NoTransaction, NoHost)
  BY <1>4 DEF Message
<1> QED
  BY <1>1, <1>2, <1>3, <1>4 DEF Messages

TransTypes ==
    /\ eventQ \in Seq(Messages)
    /\ mPendingQ \in [Hosts -> Seq(Transactions)]
    /\ trans \in [Transactions -> TransInfo]

\* The message that is served is gone.
LEMMA Served ==
    ASSUME TransTypes, NEW type, Serves(type)
    PROVE  /\ Head(eventQ) \in Messages /\ Head(eventQ).type = type /\ Tail(eventQ) \in Seq(Messages)
           /\ Len(Tail(eventQ)) = Len(eventQ) - 1
           /\ \A u : InQueue(Tail(eventQ), u) = InMessages(u) - (IF Head(eventQ) = NewTransaction(u) THEN 1 ELSE 0)
<1>1. eventQ \in Seq(Messages) /\ eventQ # << >> /\ Head(eventQ).type = type
  BY DEF TransTypes, Serves
<1>2. /\ Head(eventQ) \in Messages /\ Tail(eventQ) \in Seq(Messages)
      /\ Len(Tail(eventQ)) = Len(eventQ) - 1
  BY <1>1, HeadTailProperties
<1>3. ASSUME NEW u
      PROVE  Count(Tail(eventQ), {NewTransaction(u)})
               = Count(eventQ, {NewTransaction(u)}) - (IF Head(eventQ) = NewTransaction(u) THEN 1 ELSE 0)
  <2>1. Count(Tail(eventQ), {NewTransaction(u)})
          = Count(eventQ, {NewTransaction(u)}) - (IF Head(eventQ) \in {NewTransaction(u)} THEN 1 ELSE 0)
    BY <1>1, CountTail
  <2> QED
    BY <2>1
<1> QED
  BY <1>1, <1>2, <1>3 DEF InMessages, InQueue

LEMMA QueueNat ==
    ASSUME NEW q \in Seq(Messages), NEW t
    PROVE  /\ InQueue(q, t) \in Nat
           /\ InQueue(q, t) > 0 <=> NewTransaction(t) \in Elements(q)
<1>1. InQueue(q, t) \in Nat
  BY CountType DEF InQueue
<1>2. Count(q, {NewTransaction(t)}) > 0 <=> \E i \in 1..Len(q) : q[i] \in {NewTransaction(t)}
  BY CountPositive
<1>3. Elements(q) = {q[i] : i \in 1..Len(q)}
  BY ElementsType
<1> QED
  BY <1>1, <1>2, <1>3 DEF InQueue

LEMMA PendingNat ==
    ASSUME TransTypes, NEW t \in Transactions
    PROVE  InPending(t) \in Nat /\ InMessages(t) \in Nat /\ ConnectionInfo[t] \in Hosts
<1>1. ConnectionInfo[t] \in Hosts
  BY HttpAssumption
<1>2. mPendingQ[ConnectionInfo[t]] \in Seq(Transactions) /\ eventQ \in Seq(Messages)
  BY <1>1 DEF TransTypes
<1> QED
  BY <1>1, <1>2, CountType DEF InPending, InMessages, InQueue

\* Messages that dispatch nothing are posted, after one for t, if it restarts.
Other(messages) == messages = << >> \/ \E h \in Hosts : messages = <<ProcessPendingQ(h)>>

LEMMA PostedOther ==
    ASSUME NEW q \in Seq(Messages), NEW messages, Other(messages)
    PROVE  /\ Posted(q, messages) \in Seq(Messages)
           /\ \A u : InQueue(Posted(q, messages), u) = InQueue(q, u)
<1>1. messages \in Seq(Messages)
  <2>1. << >> \in Seq(Messages)
    OBVIOUS
  <2>2. ASSUME NEW m \in Messages PROVE <<m>> \in Seq(Messages)
    OBVIOUS
  <2> QED
    BY <2>1, <2>2, MessageTypes DEF Other
<1>2. ASSUME NEW u PROVE InQueue(q \o messages, u) = InQueue(q, u)
  <2>1. Count(q \o messages, {NewTransaction(u)}) = Count(q, {NewTransaction(u)}) + Count(messages, {NewTransaction(u)})
    BY <1>1, CountConcat
  <2>2. Count(messages, {NewTransaction(u)}) = 0
    <3>1. CASE messages = << >>
      BY <3>1, CountEmpty
    <3>2. CASE \E h \in Hosts : messages = <<ProcessPendingQ(h)>>
      <4>1. PICK h \in Hosts : messages = <<ProcessPendingQ(h)>>
        BY <3>2
      <4>2. ProcessPendingQ(h) \notin {NewTransaction(u)}
        BY MessageFields
      <4>3. Count(<<ProcessPendingQ(h)>>, {NewTransaction(u)})
              = IF ProcessPendingQ(h) \in {NewTransaction(u)} THEN 1 ELSE 0
        BY CountSingle
      <4> QED
        BY <4>1, <4>2, <4>3
    <3> QED
      BY <3>1, <3>2 DEF Other
  <2>3. Count(q, {NewTransaction(u)}) \in Nat
    BY CountType
  <2> QED
    BY <2>1, <2>2, <2>3 DEF InQueue
<1>3. q \o messages \in Seq(Messages)
  BY <1>1, ConcatProperties
<1> QED
  BY <1>2, <1>3 DEF Posted

LEMMA QueueAppend ==
    ASSUME NEW q \in Seq(Messages), NEW m \in Messages
    PROVE  /\ q \o <<m>> \in Seq(Messages)
           /\ \A u : InQueue(q \o <<m>>, u) = InQueue(q, u) + (IF m = NewTransaction(u) THEN 1 ELSE 0)
<1>1. <<m>> \in Seq(Messages)
  OBVIOUS
<1>2. q \o <<m>> \in Seq(Messages)
  BY <1>1, ConcatProperties
<1>3. ASSUME NEW u PROVE InQueue(q \o <<m>>, u) = InQueue(q, u) + (IF m = NewTransaction(u) THEN 1 ELSE 0)
  <2>1. Count(q \o <<m>>, {NewTransaction(u)}) = Count(q, {NewTransaction(u)}) + Count(<<m>>, {NewTransaction(u)})
    <3> DEFINE v == <<m>>
    <3>1. v \in Seq(Messages)
      BY <1>1
    <3> HIDE DEF v
    <3>2. Count(q \o v, {NewTransaction(u)}) = Count(q, {NewTransaction(u)}) + Count(v, {NewTransaction(u)})
      BY <3>1, CountConcat
    <3> QED
      BY <3>2 DEF v
  <2>2. Count(<<m>>, {NewTransaction(u)}) = IF m \in {NewTransaction(u)} THEN 1 ELSE 0
    BY CountSingle
  <2> QED
    BY <2>1, <2>2 DEF InQueue
<1> QED
  BY <1>2, <1>3

------------------------------------------------------------------------------
(* Where the transactions are.                                               *)

LEMMA BlankFacts ==
    \A st \in {"unused", "open", "closed", "failed"} :
        /\ Blank(st) \in TransInfo /\ Blank(st).status = st
        /\ Blank(st).mConnection = NoConnection /\ Blank(st).taken = FALSE
        /\ NoConnection \notin Connections /\ Orphan \notin Connections
<1>1. NoConnection \notin Connections /\ Orphan \notin Connections
  BY HttpAssumption
<1> QED
  BY <1>1 DEF Blank, TransInfo

\* What t is after it was closed or restarted, when q was the queue.
AfterClose(t, reason, asks, forget, q) ==
    IF Restarts(t, asks)
    THEN Restarted(trans[t], forget)
    ELSE Blank(IF reason # "NS_OK" /\ InQueue(q, t) > 0 THEN "failed" ELSE "closed")

LEMMA ClosedTrans ==
    ASSUME NEW t \in Transactions, NEW reason, NEW asks, NEW forget \in BOOLEAN,
           NEW q \in Seq(Messages), NEW messages,
           CloseTransaction(t, reason, asks, forget, q, messages)
    PROVE  trans' = [trans EXCEPT ![t] = AfterClose(t, reason, asks, forget, q)]
<1> DEFINE a == Restarted(trans[t], forget)
           b == Blank(IF reason # "NS_OK" /\ NewTransaction(t) \in Elements(q) THEN "failed" ELSE "closed")
<1>1. NewTransaction(t) \in Elements(q) <=> InQueue(q, t) > 0
  BY QueueNat
<1>2. trans' = [trans EXCEPT ![t] = IF Restarts(t, asks) THEN a ELSE b]
  BY DEF CloseTransaction
<1>3. b = Blank(IF reason # "NS_OK" /\ InQueue(q, t) > 0 THEN "failed" ELSE "closed")
  BY <1>1
<1>4. AfterClose(t, reason, asks, forget, q) = IF Restarts(t, asks) THEN a ELSE b
  BY <1>3 DEF AfterClose
<1> HIDE DEF a, b
<1> QED
  BY <1>2, <1>4

LEMMA ClosedQueue ==
    ASSUME NEW t \in Transactions, NEW reason, NEW asks, NEW forget,
           NEW q \in Seq(Messages), NEW messages, Other(messages),
           CloseTransaction(t, reason, asks, forget, q, messages)
    PROVE  /\ eventQ' \in Seq(Messages)
           /\ \A u \in Transactions :
                  InQueue(eventQ', u) = InQueue(q, u) + (IF u = t /\ Restarts(t, asks) THEN 1 ELSE 0)
<1>1. messages \in Seq(Messages)
  <2>1. << >> \in Seq(Messages)
    OBVIOUS
  <2>2. ASSUME NEW m \in Messages PROVE <<m>> \in Seq(Messages)
    OBVIOUS
  <2> QED
    BY <2>1, <2>2, MessageTypes DEF Other
<1>2. CASE Restarts(t, asks)
  <2> DEFINE r == q \o <<NewTransaction(t)>>
  <2>1. NewTransaction(t) \in Messages /\ \A u : NewTransaction(t) = NewTransaction(u) <=> t = u
    BY MessageTypes, MessageFields
  <2>2. /\ r \in Seq(Messages)
        /\ \A u : InQueue(r, u) = InQueue(q, u) + (IF NewTransaction(t) = NewTransaction(u) THEN 1 ELSE 0)
    BY <2>1, QueueAppend
  <2>3. eventQ' = Posted(q, <<NewTransaction(t)>> \o messages)
    BY <1>2 DEF CloseTransaction
  <2>4. eventQ' = q \o (<<NewTransaction(t)>> \o messages)
    BY <1>2, <2>3 DEF Posted, Restarts
  <2>5. q \o (<<NewTransaction(t)>> \o messages) = r \o messages
    <3>1. <<NewTransaction(t)>> \in Seq(Messages)
      BY <2>1
    <3> QED
      BY <1>1, <3>1, ConcatAssociative
  <2> HIDE DEF r
  <2>6. eventQ' = Posted(r, messages)
    BY <1>2, <2>4, <2>5 DEF Posted, Restarts
  <2>7. eventQ' \in Seq(Messages) /\ \A u : InQueue(eventQ', u) = InQueue(r, u)
    BY <2>2, <2>6, PostedOther
  <2>8. ASSUME NEW u \in Transactions PROVE InQueue(eventQ', u) = InQueue(q, u) + (IF u = t THEN 1 ELSE 0)
    BY <2>1, <2>2, <2>7
  <2> QED
    BY <1>2, <2>7, <2>8
<1>3. CASE ~Restarts(t, asks)
  <2>1. eventQ' = Posted(q, << >> \o messages)
    BY <1>3 DEF CloseTransaction
  <2>2. << >> \o messages = messages
    BY <1>1, ConcatEmptySeq
  <2>3. eventQ' = Posted(q, messages)
    BY <2>1, <2>2
  <2>4. eventQ' \in Seq(Messages) /\ \A u : InQueue(eventQ', u) = InQueue(q, u)
    BY <2>3, PostedOther
  <2>5. \A u : InQueue(q, u) \in Nat
    BY QueueNat
  <2> QED
    BY <1>3, <2>4, <2>5
<1> QED
  BY <1>2, <1>3

\* Nothing happens to u.
LEMMA Undisturbed ==
    ASSUME NEW u \in Transactions, GoodTrans(u),
           trans'[u] = trans[u], InMessages(u)' = InMessages(u), InPending(u)' = InPending(u),
           \A c \in Connections : conn'[c].mTransaction = u <=> conn[c].mTransaction = u,
           \A c \in Connections : conn[c].mTransaction = u =>
               conn'[c].mIsReused = conn[c].mIsReused /\ conn'[c].waitsTo = conn[c].waitsTo
    PROVE  GoodTrans(u)'
<1>1. Knows(u)'
  BY DEF GoodTrans, Knows
<1>2. Placed(u)'
  BY DEF GoodTrans, Placed, OnConnection
<1>3. Wrote(u)'
  BY DEF GoodTrans, Wrote
<1>4. Taken(u)'
  BY DEF GoodTrans, Taken, Knows, OnConnection
<1> QED
  BY <1>1, <1>2, <1>3, <1>4 DEF GoodTrans

\* The same, as SameForAll, Assigned and Freed say what happens to connections.
LEMMA UndisturbedBySame ==
    ASSUME NEW u \in Transactions, GoodTrans(u), SameForAll,
           trans'[u] = trans[u], InMessages(u)' = InMessages(u), InPending(u)' = InPending(u)
    PROVE  GoodTrans(u)'
<1>1. \A c \in Connections : conn'[c].mTransaction = u <=> conn[c].mTransaction = u
  BY DEF SameForAll, SameFor
<1>2. \A c \in Connections : conn[c].mTransaction = u =>
               conn'[c].mIsReused = conn[c].mIsReused /\ conn'[c].waitsTo = conn[c].waitsTo
  BY HttpAssumption DEF SameForAll, SameFor
<1> QED
  BY <1>1, <1>2, Undisturbed

LEMMA UndisturbedByAssigned ==
    ASSUME NEW u \in Transactions, GoodTrans(u), NEW c, NEW t, Assigned(c, t), t # u,
           trans'[u] = trans[u], InMessages(u)' = InMessages(u), InPending(u)' = InPending(u)
    PROVE  GoodTrans(u)'
<1>1. u # NoTransaction
  BY HttpAssumption
<1>2. conn[c].mTransaction # u /\ conn'[c].mTransaction # u
  BY <1>1 DEF Assigned
<1>3. \A d \in Connections : conn'[d].mTransaction = u <=> conn[d].mTransaction = u
  BY <1>2 DEF Assigned, SameFor
<1>4. \A d \in Connections : conn[d].mTransaction = u =>
               conn'[d].mIsReused = conn[d].mIsReused /\ conn'[d].waitsTo = conn[d].waitsTo
  BY <1>1, <1>2 DEF Assigned, SameFor
<1> QED
  BY <1>3, <1>4, Undisturbed

LEMMA UndisturbedByFreed ==
    ASSUME NEW u \in Transactions, GoodTrans(u), NEW c \in Connections, Freed(c), conn[c].mTransaction # u,
           trans'[u] = trans[u], InMessages(u)' = InMessages(u), InPending(u)' = InPending(u)
    PROVE  GoodTrans(u)'
<1>1. u # NoTransaction
  BY HttpAssumption
<1>2. conn'[c].mTransaction # u
  BY <1>1 DEF Freed
<1>3. \A d \in Connections : conn'[d].mTransaction = u <=> conn[d].mTransaction = u
  BY <1>2 DEF Freed, SameFor
<1>4. \A d \in Connections : conn[d].mTransaction = u =>
               conn'[d].mIsReused = conn[d].mIsReused /\ conn'[d].waitsTo = conn[d].waitsTo
  BY <1>1, <1>2 DEF Freed, SameFor
<1> QED
  BY <1>3, <1>4, Undisturbed

LEMMA RestartedFacts ==
    ASSUME NEW x \in TransInfo, NEW forget \in BOOLEAN
    PROVE  LET y == Restarted(x, forget) IN
           /\ y \in TransInfo /\ y.status = x.status /\ y.mConnection = NoConnection
           /\ y.taken => x.taken /\ ~forget
<1>1. x.mSentData \in BOOLEAN /\ x.taken \in BOOLEAN /\ x.mRestartCount + 1 \in Nat
  BY DEF TransInfo
<1> DEFINE s == x.mSentData /\ ~forget
           k == x.taken /\ ~forget
<1>2. s \in BOOLEAN /\ k \in BOOLEAN
  BY <1>1
<1>3. Restarted(x, forget) = [x EXCEPT !.mConnection = NoConnection, !.mRestartCount = x.mRestartCount + 1,
                                       !.mSentData = s, !.taken = k]
  BY DEF Restarted, TransInfo
<1> HIDE DEF s, k
<1>4. /\ Restarted(x, forget) \in TransInfo /\ Restarted(x, forget).status = x.status
      /\ Restarted(x, forget).mConnection = NoConnection /\ Restarted(x, forget).taken = k
  BY <1>1, <1>2, <1>3 DEF TransInfo
<1>5. k => x.taken /\ ~forget
  BY DEF k
<1> QED
  BY <1>4, <1>5

\* The transaction of c is closed or restarted, and c lets go of it.
LEMMA CloseOnConnection ==
    ASSUME TransTypes, TransInv, NEW t \in Transactions, NEW c \in Connections, conn[c].mTransaction = t,
           NEW reason, NEW asks, NEW forget \in BOOLEAN, NEW q \in Seq(Messages), NEW messages, Other(messages),
           \A u \in Transactions : InQueue(q, u) = InMessages(u),
           Restarts(t, asks) => forget \/ ~trans[t].taken,
           CloseTransaction(t, reason, asks, forget, q, messages),
           Freed(c), mPendingQ' = mPendingQ
    PROVE  TransTypes' /\ TransInv'
<1> DEFINE r == Restarts(t, asks)
           new == AfterClose(t, reason, asks, forget, q)
<1>1. /\ eventQ' \in Seq(Messages) /\ trans' = [trans EXCEPT ![t] = new]
      /\ \A u \in Transactions \ {t} : InQueue(eventQ', u) = InQueue(q, u)
      /\ r => InQueue(eventQ', t) = InQueue(q, t) + 1
      /\ ~r => InQueue(eventQ', t) = InQueue(q, t)
  <2>1. /\ eventQ' \in Seq(Messages)
        /\ \A u \in Transactions :
               InQueue(eventQ', u) = InQueue(q, u) + (IF u = t /\ Restarts(t, asks) THEN 1 ELSE 0)
    BY ClosedQueue
  <2>2. trans' = [trans EXCEPT ![t] = new]
    BY ClosedTrans
  <2>3. \A u : InQueue(q, u) \in Nat
    BY QueueNat
  <2> HIDE DEF new
  <2> QED
    BY <2>1, <2>2, <2>3
<1>2. /\ trans[t].mConnection = c /\ OnConnection(t) /\ GoodTrans(t) /\ trans[t] \in TransInfo
      /\ \A d \in Connections : conn[d].mTransaction = t => d = c
  BY DEF TransInv, GoodTrans, Knows, OnConnection, TransTypes
<1>3. InMessages(t) \in Nat /\ InPending(t) \in Nat
  BY PendingNat
<1>4. trans[t].status = "open" /\ InMessages(t) = 0 /\ InPending(t) = 0
  <2>1. trans[t].status \in {"unused", "open", "closed", "failed"}
    BY <1>2 DEF TransInfo
  <2> QED
    BY <1>2, <1>3, <2>1 DEF GoodTrans, Placed
<1>5. /\ new \in TransInfo /\ new.mConnection = NoConnection /\ ~new.taken
      /\ new.status = IF r THEN "open" ELSE "closed"
  <2>1. CASE r
    <3>1. new = Restarted(trans[t], forget)
      BY <2>1 DEF AfterClose
    <3>2. forget \/ ~trans[t].taken
      BY <2>1
    <3> HIDE DEF r, new
    <3> QED
      BY <1>2, <1>4, <2>1, <3>1, <3>2, RestartedFacts
  <2>2. CASE ~r
    <3>1. ~(InQueue(q, t) > 0)
      BY <1>4
    <3>2. new = Blank("closed")
      BY <2>2, <3>1 DEF AfterClose
    <3> HIDE DEF r, new
    <3> QED
      BY <2>2, <3>2, BlankFacts
  <2> QED
    BY <2>1, <2>2
<1> HIDE DEF r, new
<1>6. /\ trans' \in [Transactions -> TransInfo] /\ trans'[t] = new
      /\ \A u \in Transactions \ {t} : trans'[u] = trans[u]
  BY <1>1, <1>5 DEF TransTypes
<1>7. \A u \in Transactions : InPending(u)' = InPending(u)
  BY DEF InPending
<1>8. TransTypes' /\ AtHome'
  BY <1>1, <1>6 DEF TransTypes, TransInv, AtHome
<1>9. GoodTrans(t)'
  <2>1. NoConnection \notin Connections /\ t # NoTransaction
    BY HttpAssumption
  <2>2. \A d \in Connections : conn'[d].mTransaction # t
    <3>1. conn'[c].mTransaction # t
      BY <2>1 DEF Freed
    <3>2. ASSUME NEW d \in Connections \ {c} PROVE conn'[d].mTransaction # t
      BY <1>2 DEF Freed, SameFor
    <3> QED
      BY <3>1, <3>2
  <2>3. trans'[t].mConnection \notin Connections
    BY <1>5, <1>6, <2>1
  <2>4. Knows(t)'
    BY <2>2, <2>3 DEF Knows
  <2>5. InMessages(t)' = IF r THEN 1 ELSE 0
    BY <1>1, <1>4 DEF InMessages
  <2>6. InPending(t)' = 0
    BY <1>4, <1>7
  <2>7. Placed(t)'
    BY <1>5, <1>6, <2>3, <2>5, <2>6 DEF Placed, OnConnection
  <2>8. Wrote(t)' /\ Taken(t)'
    BY <1>5, <1>6, <2>2 DEF Wrote, Taken
  <2> QED
    BY <2>4, <2>7, <2>8 DEF GoodTrans
<1>10. ASSUME NEW u \in Transactions, u # t PROVE GoodTrans(u)'
  <2>1. trans'[u] = trans[u] /\ InMessages(u)' = InMessages(u) /\ InPending(u)' = InPending(u)
    BY <1>1, <1>6, <1>7, <1>10 DEF InMessages
  <2>2. GoodTrans(u) /\ conn[c].mTransaction # u
    BY <1>10 DEF TransInv
  <2> QED
    BY <2>1, <2>2, UndisturbedByFreed
<1> QED
  BY <1>8, <1>9, <1>10 DEF TransInv

\* A transaction is closed that has no connection.
LEMMA CloseUnconnected ==
    ASSUME TransTypes, TransInv, NEW t \in Transactions, ~OnConnection(t),
           NEW q \in Seq(Messages), InQueue(q, t) \in {0, 1},
           \A u \in Transactions \ {t} : InQueue(q, u) = InMessages(u),
           CloseTransaction(t, "ABORT", FALSE, FALSE, q, << >>), SameForAll,
           mPendingQ' \in [Hosts -> Seq(Transactions)], AtHome', InPending(t)' = 0,
           \A u \in Transactions \ {t} : InPending(u)' = InPending(u)
    PROVE  TransTypes' /\ TransInv'
<1> DEFINE st == IF InQueue(q, t) > 0 THEN "failed" ELSE "closed"
<1>1. trans' = [trans EXCEPT ![t] = AfterClose(t, "ABORT", FALSE, FALSE, q)]
  <2>1. FALSE \in BOOLEAN
    OBVIOUS
  <2> QED
    BY <2>1, ClosedTrans, Zenon
<1>2. /\ eventQ' \in Seq(Messages) /\ ~Restarts(t, FALSE)
      /\ \A u \in Transactions : InQueue(eventQ', u) = InQueue(q, u)
  <2>1. Other(<< >>)
    BY DEF Other
  <2>2. /\ eventQ' \in Seq(Messages)
        /\ \A u \in Transactions :
               InQueue(eventQ', u) = InQueue(q, u) + (IF u = t /\ Restarts(t, FALSE) THEN 1 ELSE 0)
    BY <2>1, ClosedQueue
  <2>3. \A u : InQueue(q, u) \in Nat
    BY QueueNat
  <2>4. ~Restarts(t, FALSE)
    BY DEF Restarts
  <2>5. ASSUME NEW u \in Transactions PROVE InQueue(eventQ', u) = InQueue(q, u)
    <3>1. (IF u = t /\ Restarts(t, FALSE) THEN 1 ELSE 0) = 0
      BY <2>4
    <3>2. InQueue(eventQ', u) = InQueue(q, u) + (IF u = t /\ Restarts(t, FALSE) THEN 1 ELSE 0)
      BY <2>2
    <3>3. InQueue(q, u) + 0 = InQueue(q, u)
      BY <2>3
    <3> QED
      BY <3>1, <3>2, <3>3, Zenon
  <2> QED
    BY <2>2, <2>4, <2>5
<1>3. AfterClose(t, "ABORT", FALSE, FALSE, q) = Blank(st)
  BY <1>2 DEF AfterClose
<1>4. trans' = [trans EXCEPT ![t] = Blank(st)] /\ InQueue(eventQ', t) = InQueue(q, t)
  BY <1>1, <1>2, <1>3
<1>5. /\ Blank(st) \in TransInfo /\ Blank(st).status = st
      /\ Blank(st).mConnection = NoConnection /\ Blank(st).taken = FALSE
      /\ NoConnection \notin Connections
  BY BlankFacts
<1>6. /\ trans' \in [Transactions -> TransInfo] /\ trans'[t] = Blank(st)
      /\ \A u \in Transactions \ {t} : trans'[u] = trans[u]
  <2> HIDE DEF st
  <2> QED
    BY <1>4, <1>5 DEF TransTypes
<1>7. TransTypes'
  BY <1>2, <1>6 DEF TransTypes
<1>8. GoodTrans(t)'
  <2>1. \A d \in Connections : conn'[d].mTransaction # t
    <3>1. \A d \in Connections : conn[d].mTransaction # t
      BY DEF TransInv, GoodTrans, Knows, OnConnection
    <3> QED
      BY <3>1 DEF SameForAll, SameFor
  <2>2. trans'[t].mConnection \notin Connections
    BY <1>5, <1>6
  <2>3. Knows(t)'
    BY <2>1, <2>2 DEF Knows
  <2>4. InMessages(t)' = InQueue(q, t)
    BY <1>4 DEF InMessages
  <2>5. trans'[t].status = IF InMessages(t)' = 1 THEN "failed" ELSE "closed"
    BY <1>5, <1>6, <2>4
  <2>6. InMessages(t)' = 0 \/ InMessages(t)' = 1
    BY <2>4
  <2> HIDE DEF st
  <2>7. Placed(t)'
    BY <2>2, <2>5, <2>6 DEF Placed, OnConnection
  <2>8. Wrote(t)' /\ Taken(t)'
    BY <1>5, <1>6, <2>1 DEF Wrote, Taken
  <2> QED
    BY <2>3, <2>7, <2>8 DEF GoodTrans
<1>9. ASSUME NEW u \in Transactions, u # t PROVE GoodTrans(u)'
  <2>1. trans'[u] = trans[u] /\ InMessages(u)' = InMessages(u) /\ InPending(u)' = InPending(u)
    BY <1>2, <1>6, <1>9 DEF InMessages
  <2>2. GoodTrans(u)
    BY DEF TransInv
  <2> QED
    BY <2>1, <2>2, UndisturbedBySame
<1> QED
  BY <1>7, <1>8, <1>9 DEF TransInv

\* A transaction that waits is given a connection.
LEMMA GetsConnection ==
    ASSUME TransTypes, TransInv, NEW t \in Transactions, ~OnConnection(t), trans[t].status = "open",
           NEW c \in Connections, Assigned(c, t), trans' = [trans EXCEPT ![t].mConnection = c],
           eventQ' \in Seq(Messages), mPendingQ' \in [Hosts -> Seq(Transactions)], AtHome',
           InMessages(t)' = 0, InPending(t)' = 0,
           \A u \in Transactions \ {t} : InMessages(u)' = InMessages(u) /\ InPending(u)' = InPending(u)
    PROVE  TransTypes' /\ TransInv'
<1>1. trans[t] \in TransInfo
  BY DEF TransTypes
<1> DEFINE new == [trans[t] EXCEPT !.mConnection = c]
<1>2. new \in TransInfo /\ new.mConnection = c /\ new.status = trans[t].status /\ new.taken = trans[t].taken
  BY <1>1 DEF TransInfo
<1>3. trans' = [trans EXCEPT ![t] = new]
  BY DEF TransTypes
<1> HIDE DEF new
<1>4. /\ trans' \in [Transactions -> TransInfo] /\ trans'[t] = new
      /\ \A u \in Transactions \ {t} : trans'[u] = trans[u]
  BY <1>2, <1>3 DEF TransTypes
<1>5. TransTypes'
  BY <1>4 DEF TransTypes
<1>6. GoodTrans(t)'
  <2>1. GoodTrans(t) /\ \A d \in Connections : conn[d].mTransaction # t
    BY DEF TransInv, GoodTrans, Knows, OnConnection
  <2>2. conn'[c].mTransaction = t /\ conn'[c].waitsTo = "write"
    BY DEF Assigned
  <2>3. \A d \in Connections \ {c} : conn'[d].mTransaction # t
    BY <2>1 DEF Assigned, SameFor
  <2>4. Knows(t)'
    BY <1>2, <1>4, <2>2, <2>3 DEF Knows
  <2>5. Placed(t)'
    BY <1>2, <1>4 DEF Placed, OnConnection
  <2>6. Wrote(t)'
    BY <2>2, <2>3 DEF Wrote
  <2>7. Taken(t)'
    BY <1>2, <1>4, <2>1 DEF GoodTrans, Taken
  <2> QED
    BY <2>4, <2>5, <2>6, <2>7 DEF GoodTrans
<1>7. ASSUME NEW u \in Transactions, u # t PROVE GoodTrans(u)'
  <2>1. trans'[u] = trans[u] /\ InMessages(u)' = InMessages(u) /\ InPending(u)' = InPending(u)
    BY <1>4, <1>7
  <2>2. GoodTrans(u)
    BY DEF TransInv
  <2> QED
    BY <1>7, <2>1, <2>2, UndisturbedByAssigned
<1> QED
  BY <1>5, <1>6, <1>7 DEF TransInv

------------------------------------------------------------------------------
(* The steps, each with what it does to connections and to transactions.     *)

HttpState == ConnState /\ TransTypes /\ TransInv

LEMMA NothingMoves ==
    ASSUME TransTypes, TransInv, SameForAll, trans' = trans, mPendingQ' = mPendingQ,
           eventQ' \in Seq(Messages), \A u \in Transactions : InMessages(u)' = InMessages(u)
    PROVE  TransTypes' /\ TransInv'
<1>1. TransTypes' /\ AtHome'
  BY DEF TransTypes, TransInv, AtHome
<1>2. ASSUME NEW u \in Transactions PROVE GoodTrans(u)'
  <2>1. trans'[u] = trans[u] /\ InMessages(u)' = InMessages(u) /\ InPending(u)' = InPending(u) /\ GoodTrans(u)
    BY DEF InPending, TransInv
  <2> QED
    BY <2>1, UndisturbedBySame
<1> QED
  BY <1>1, <1>2 DEF TransInv

LEMMA AddTransactionStep ==
    ASSUME HttpState, NEW t \in Transactions, AddTransaction(t)
    PROVE  HttpState'
<1>1. /\ trans[t].status = "unused" /\ trans' = [trans EXCEPT ![t] = Blank("open")]
      /\ eventQ' = eventQ \o <<NewTransaction(t)>> /\ mPendingQ' = mPendingQ
      /\ UNCHANGED <<mActiveConns, mIdleConns, mNumActiveConns, mNumIdleConns, conn>>
      /\ shutdown' = shutdown
  BY DEF AddTransaction, Posted, mgrVars, clientVars
<1>2. ConnState' /\ SameForAll
  BY <1>1, SameConn DEF HttpState
<1>3. NewTransaction(t) \in Messages /\ \A u : NewTransaction(t) = NewTransaction(u) <=> t = u
  BY MessageTypes, MessageFields
<1>4. eventQ \in Seq(Messages)
  BY DEF HttpState, TransTypes
<1>5. /\ eventQ' \in Seq(Messages)
      /\ \A u : InMessages(u)' = InMessages(u) + (IF t = u THEN 1 ELSE 0)
  <2> DEFINE q == eventQ \o <<NewTransaction(t)>>
  <2>1. /\ q \in Seq(Messages)
        /\ \A u : InQueue(q, u) = InQueue(eventQ, u) + (IF NewTransaction(t) = NewTransaction(u) THEN 1 ELSE 0)
    BY <1>3, <1>4, QueueAppend
  <2>2. eventQ' = q
    BY <1>1
  <2> HIDE DEF q
  <2> QED
    BY <1>3, <2>1, <2>2 DEF InMessages
<1>6. /\ Blank("open") \in TransInfo /\ Blank("open").status = "open" /\ Blank("open").taken = FALSE
      /\ Blank("open").mConnection = NoConnection /\ NoConnection \notin Connections
  BY BlankFacts
<1>7. /\ trans' \in [Transactions -> TransInfo] /\ trans'[t] = Blank("open")
      /\ \A u \in Transactions \ {t} : trans'[u] = trans[u]
  BY <1>1, <1>6 DEF HttpState, TransTypes
<1>8. TransTypes' /\ AtHome'
  BY <1>1, <1>5, <1>7 DEF HttpState, TransTypes, TransInv, AtHome
<1>9. \A u \in Transactions : InPending(u)' = InPending(u)
  BY <1>1 DEF InPending
<1>10. GoodTrans(t)'
  <2>1. GoodTrans(t) /\ InMessages(t) \in Nat
    BY PendingNat DEF HttpState, TransInv
  <2>2. InMessages(t) = 0 /\ InPending(t) = 0 /\ ~OnConnection(t)
    BY <1>1, <2>1 DEF GoodTrans, Placed
  <2>3. InMessages(t)' = 1 /\ InPending(t)' = 0
    BY <1>5, <1>9, <2>2
  <2>4. \A c \in Connections : conn'[c].mTransaction # t
    BY <1>1, <2>1, <2>2 DEF GoodTrans, Knows, OnConnection
  <2>5. Knows(t)'
    BY <1>6, <1>7, <2>4 DEF Knows
  <2>6. Placed(t)'
    BY <1>6, <1>7, <2>3 DEF Placed, OnConnection
  <2>7. Wrote(t)' /\ Taken(t)'
    BY <1>6, <1>7, <2>4 DEF Wrote, Taken
  <2> QED
    BY <2>5, <2>6, <2>7 DEF GoodTrans
<1>11. ASSUME NEW u \in Transactions, u # t PROVE GoodTrans(u)'
  <2>1. InMessages(u) \in Nat /\ GoodTrans(u)
    BY PendingNat DEF HttpState, TransInv
  <2>2. InMessages(u)' = InMessages(u)
    BY <1>5, <1>11, <2>1
  <2>3. trans'[u] = trans[u] /\ InPending(u)' = InPending(u)
    BY <1>7, <1>9, <1>11
  <2> QED
    BY <1>2, <2>1, <2>2, <2>3, UndisturbedBySame
<1> QED
  BY <1>2, <1>8, <1>10, <1>11 DEF HttpState, TransInv

\* Any other message is posted.
LEMMA PostsStep ==
    ASSUME HttpState, NEW m \in Messages, m.type # "NEW_TRANSACTION", eventQ' = eventQ \o <<m>>,
           UNCHANGED <<mgrVars, conn, trans>>, shutdown = "none"
    PROVE  HttpState'
<1>1. UNCHANGED <<mPendingQ, mActiveConns, mIdleConns, mNumActiveConns, mNumIdleConns, conn, trans>>
  BY DEF mgrVars
<1>2. ConnState' /\ SameForAll
  BY <1>1, SameConn DEF HttpState
<1>3. eventQ \in Seq(Messages)
  BY DEF HttpState, TransTypes
<1>4. /\ eventQ' \in Seq(Messages)
      /\ \A u \in Transactions : InMessages(u)' = InMessages(u)
  <2> DEFINE q == eventQ \o <<m>>
  <2>1. /\ q \in Seq(Messages)
        /\ \A u : InQueue(q, u) = InQueue(eventQ, u) + (IF m = NewTransaction(u) THEN 1 ELSE 0)
    BY <1>3, QueueAppend
  <2>2. eventQ' = q
    OBVIOUS
  <2>3. \A u : m # NewTransaction(u)
    BY MessageFields
  <2>4. \A u : InQueue(eventQ, u) \in Nat
    BY <1>3, QueueNat
  <2> HIDE DEF q
  <2>5. ASSUME NEW u \in Transactions PROVE InQueue(eventQ', u) = InQueue(eventQ, u)
    <3>1. InQueue(q, u) = InQueue(eventQ, u) + (IF m = NewTransaction(u) THEN 1 ELSE 0)
      BY <2>1
    <3>2. InQueue(q, u) = InQueue(eventQ, u) + 0
      BY <2>3, <3>1
    <3>3. InQueue(eventQ, u) \in Nat
      BY <2>4
    <3>4. InQueue(q, u) = InQueue(eventQ, u)
      BY <3>2, <3>3
    <3> QED
      BY <2>2, <3>4
  <2> QED
    BY <2>1, <2>2, <2>5 DEF InMessages
<1> QED
  BY <1>1, <1>2, <1>4, NothingMoves DEF HttpState

LEMMA CancelTransactionStep ==
    ASSUME HttpState, NEW t \in Transactions, CancelTransaction(t)
    PROVE  HttpState'
<1> DEFINE m == Message("CANCEL_TRANSACTION", t, NoHost)
<1>1. m \in Messages /\ m.type # "NEW_TRANSACTION"
  BY MessageTypes, MessageFields
<1>2. eventQ' = eventQ \o <<m>> /\ UNCHANGED <<mgrVars, conn, trans>> /\ shutdown = "none"
  BY DEF CancelTransaction, Posted, mSTS
<1> HIDE DEF m
<1> QED
  BY <1>1, <1>2, PostsStep

LEMMA ShutdownStep ==
    ASSUME HttpState, Shutdown
    PROVE  HttpState'
<1> DEFINE m == Message("SHUTDOWN", NoTransaction, NoHost)
<1>1. m \in Messages /\ m.type # "NEW_TRANSACTION"
  BY MessageTypes, MessageFields
<1>2. eventQ' = eventQ \o <<m>> /\ UNCHANGED <<mgrVars, conn, trans>> /\ shutdown = "none"
  BY DEF Shutdown, Posted, mSTS
<1> HIDE DEF m
<1> QED
  BY <1>1, <1>2, PostsStep

LEMMA PruneStep ==
    ASSUME HttpState, ServePruneDeadConnections
    PROVE  HttpState'
<1>1. /\ OnMsgPruneDeadConnections /\ eventQ' = eventQ /\ shutdown' = shutdown /\ trans' = trans
      /\ mPendingQ' = mPendingQ
  BY DEF ServePruneDeadConnections, OnMsgPruneDeadConnections
<1>2. ConnState' /\ SameForAll
  BY <1>1, PruneConn DEF HttpState
<1>3. eventQ' \in Seq(Messages) /\ \A u \in Transactions : InMessages(u)' = InMessages(u)
  BY <1>1 DEF HttpState, TransTypes, InMessages
<1> QED
  BY <1>1, <1>2, <1>3, NothingMoves DEF HttpState

LEMMA WritesStep ==
    ASSUME HttpState, NEW c \in Connections, Writes(c)
    PROVE  HttpState'
<1>0. conn \in [Connections -> ConnInfo] /\ trans \in [Transactions -> TransInfo] /\ conn[c] \in ConnInfo
  BY DEF HttpState, ConnState, ListTypes, TransTypes
<1>owner. PICK t \in Transactions : conn[c].mTransaction = t
  BY <1>0 DEF Writes, Waits, ConnInfo
<1> DEFINE new == [conn[c] EXCEPT !.waitsTo = "read"]
           k == trans[t].taken \/ ~conn[c].mIsReused
           x == [trans[t] EXCEPT !.mSentData = TRUE, !.taken = k]
<1>1. /\ t # NoTransaction /\ conn[c].transport = "open"
      /\ trans' = [trans EXCEPT ![t].mSentData = TRUE, ![t].taken = k]
      /\ conn' = [conn EXCEPT ![c] = new]
      /\ UNCHANGED <<eventQ, mPendingQ, mActiveConns, mIdleConns, mNumActiveConns, mNumIdleConns, shutdown>>
  BY <1>0, <1>owner DEF Writes, Waits, mgrVars, clientVars
<1>3. /\ new \in ConnInfo /\ new.mConnInfo = conn[c].mConnInfo /\ new.mTransaction = t
      /\ new.transport = conn[c].transport /\ new.waitsTo = "read" /\ new.mIsReused = conn[c].mIsReused
  BY <1>0, <1>owner DEF ConnInfo
<1>5. k \in BOOLEAN /\ trans[t] \in TransInfo
  BY <1>0 DEF TransInfo, ConnInfo
<1>6. (k => trans[t].taken \/ ~conn[c].mIsReused)
  OBVIOUS
<1> HIDE DEF new, k
<1>7. ConnState'
  BY <1>1, <1>3, <1>owner, TouchedConn DEF HttpState
<1>8. /\ x \in TransInfo /\ x.status = trans[t].status /\ x.mConnection = trans[t].mConnection
      /\ x.mReceivedData = trans[t].mReceivedData /\ x.mSentData = TRUE /\ x.taken = k
  BY <1>5 DEF TransInfo
<1>9. trans' = [trans EXCEPT ![t] = x]
  BY <1>0, <1>1, <1>5 DEF TransInfo
<1> HIDE DEF x
<1>10. /\ trans' \in [Transactions -> TransInfo] /\ trans'[t] = x
       /\ \A u \in Transactions \ {t} : trans'[u] = trans[u]
  BY <1>0, <1>8, <1>9
<1>11. conn'[c] = new /\ \A d \in Connections \ {c} : conn'[d] = conn[d]
  BY <1>0, <1>1, <1>3
<1>12. TransTypes' /\ AtHome'
  BY <1>1, <1>10 DEF HttpState, TransTypes, TransInv, AtHome
<1>13. \A u \in Transactions : InMessages(u)' = InMessages(u) /\ InPending(u)' = InPending(u)
  BY <1>1 DEF InMessages, InPending
<1>14. \A d \in Connections : conn'[d].mTransaction = conn[d].mTransaction /\ conn'[d].mIsReused = conn[d].mIsReused
  BY <1>3, <1>11, <1>owner
<1>15. GoodTrans(t)'
  <2>1. GoodTrans(t)
    BY DEF HttpState, TransInv
  <2>2. trans[t].mConnection = c
    BY <1>owner, <2>1 DEF GoodTrans, Knows
  <2>3. Knows(t)'
    BY <1>8, <1>10, <1>14, <2>1 DEF GoodTrans, Knows
  <2>4. Placed(t)'
    BY <1>8, <1>10, <1>13, <2>1 DEF GoodTrans, Placed, OnConnection
  <2>5. Wrote(t)'
    BY <1>8, <1>10 DEF Wrote
  <2>6. Taken(t)'
    <3>1. k => trans[t].mReceivedData \/ ~conn[c].mIsReused
      BY <1>6, <2>1, <2>2 DEF GoodTrans, Taken
    <3> QED
      BY <1>8, <1>10, <1>14, <2>2, <3>1 DEF Taken, OnConnection
  <2> QED
    BY <2>3, <2>4, <2>5, <2>6 DEF GoodTrans
<1>16. ASSUME NEW u \in Transactions, u # t PROVE GoodTrans(u)'
  <2>1. GoodTrans(u) /\ trans'[u] = trans[u]
    BY <1>10, <1>16 DEF HttpState, TransInv
  <2>2. \A d \in Connections : conn[d].mTransaction = u => conn'[d].waitsTo = conn[d].waitsTo
    BY <1>11, <1>16, <1>owner
  <2> QED
    BY <1>13, <1>14, <2>1, <2>2, Undisturbed
<1> QED
  BY <1>7, <1>12, <1>15, <1>16 DEF HttpState, TransInv

\* A connection that has a transaction knows its host.
LEMMA OwnerHost ==
    ASSUME HttpState, NEW c \in Connections, conn[c].mTransaction # NoTransaction
    PROVE  conn[c].mConnInfo \in Hosts
<1>1. c \notin Idle
  BY DEF HttpState, ConnState, ConnInv, ListsInv, Idle, IdleConns, IdleOf
<1>2. CASE c \in Active
  BY <1>2 DEF HttpState, ConnState, ConnInv, ListsInv, Active, ActiveOf
<1>3. CASE c \notin Active
  BY <1>1, <1>3 DEF HttpState, ConnState, ConnInv, ListsInv, Free, Closing
<1> QED
  BY <1>2, <1>3

LEMMA QueueAfterFacts ==
    ASSUME HttpState, NEW c \in Connections, conn[c].mTransaction # NoTransaction, NEW hung
    PROVE  /\ QueueAfter(c, hung) \in Seq(Messages)
           /\ \A u : InQueue(QueueAfter(c, hung), u) = InMessages(u)
<1>1. eventQ \in Seq(Messages) /\ conn[c].mConnInfo \in Hosts
  BY OwnerHost DEF HttpState, TransTypes
<1> DEFINE m == <<ProcessPendingQ(conn[c].mConnInfo)>>
           q == Posted(eventQ, m)
<1>2. Other(m)
  BY <1>1 DEF Other
<1> HIDE DEF m
<1>3. q \in Seq(Messages) /\ \A u : InQueue(q, u) = InQueue(eventQ, u)
  BY <1>1, <1>2, PostedOther
<1>4. QueueAfter(c, hung) = IF hung THEN q ELSE eventQ
  BY DEF QueueAfter, m
<1> HIDE DEF q
<1>5. CASE hung
  BY <1>3, <1>4, <1>5 DEF InMessages
<1>6. CASE ~hung
  BY <1>1, <1>4, <1>6 DEF InMessages
<1> QED
  BY <1>5, <1>6

LEMMA ReadsStep ==
    ASSUME HttpState, NEW c \in Connections, NEW keepAlive \in BOOLEAN, NEW hung \in BOOLEAN,
           NEW full \in BOOLEAN, Reads(c, keepAlive, hung, full)
    PROVE  HttpState'
<1>0. conn \in [Connections -> ConnInfo] /\ trans \in [Transactions -> TransInfo] /\ conn[c] \in ConnInfo
  BY DEF HttpState, ConnState, ListTypes, TransTypes
<1>owner. PICK t \in Transactions : conn[c].mTransaction = t
  BY <1>0 DEF Reads, Waits, ConnInfo
<1> DEFINE new == [conn[c] EXCEPT !.mKeepAlive = keepAlive, !.waitsTo = WaitsAfterReading(full)]
           x == [trans[t] EXCEPT !.mReceivedData = TRUE, !.taken = TRUE]
           q == QueueAfter(c, hung)
<1>1. /\ t # NoTransaction /\ conn[c].transport = "open" /\ conn[c].waitsTo = "read"
      /\ trans' = [trans EXCEPT ![t].mReceivedData = TRUE, ![t].taken = TRUE]
      /\ conn' = [conn EXCEPT ![c] = new]
      /\ eventQ' = q
      /\ UNCHANGED <<mPendingQ, mActiveConns, mIdleConns, mNumActiveConns, mNumIdleConns, shutdown>>
  BY <1>0, <1>owner DEF Reads, Waits, Hangs, mgrVars
<1>2. q \in Seq(Messages) /\ \A u : InQueue(q, u) = InMessages(u)
  BY <1>1, <1>owner, QueueAfterFacts
<1> HIDE DEF q
<1>3. /\ new \in ConnInfo /\ new.mConnInfo = conn[c].mConnInfo /\ new.mTransaction = t
      /\ new.transport = conn[c].transport /\ new.mIsReused = conn[c].mIsReused
  BY <1>0, <1>owner DEF ConnInfo, WaitsAfterReading
<1> HIDE DEF new
<1>4. ConnState'
  BY <1>1, <1>3, <1>owner, TouchedConn DEF HttpState
<1>5. trans[t] \in TransInfo
  BY <1>0
<1>6. /\ x \in TransInfo /\ x.status = trans[t].status /\ x.mConnection = trans[t].mConnection
      /\ x.mReceivedData = TRUE /\ x.mSentData = trans[t].mSentData
  BY <1>5 DEF TransInfo
<1>7. trans' = [trans EXCEPT ![t] = x]
  BY <1>0, <1>1, <1>5 DEF TransInfo
<1> HIDE DEF x
<1>8. /\ trans' \in [Transactions -> TransInfo] /\ trans'[t] = x
      /\ \A u \in Transactions \ {t} : trans'[u] = trans[u]
  BY <1>0, <1>6, <1>7
<1>9. conn'[c] = new /\ \A d \in Connections \ {c} : conn'[d] = conn[d]
  BY <1>0, <1>1, <1>3
<1>10. TransTypes' /\ AtHome'
  BY <1>1, <1>2, <1>8 DEF HttpState, TransTypes, TransInv, AtHome
<1>11. \A u \in Transactions : InMessages(u)' = InMessages(u) /\ InPending(u)' = InPending(u)
  BY <1>1, <1>2 DEF InMessages, InPending
<1>12. \A d \in Connections : conn'[d].mTransaction = conn[d].mTransaction /\ conn'[d].mIsReused = conn[d].mIsReused
  BY <1>3, <1>9, <1>owner
<1>13. GoodTrans(t)'
  <2>1. GoodTrans(t)
    BY DEF HttpState, TransInv
  <2>2. trans[t].mConnection = c /\ trans[t].mSentData
    BY <1>1, <1>owner, <2>1 DEF GoodTrans, Knows, Wrote
  <2>3. Knows(t)'
    BY <1>6, <1>8, <1>12, <2>1 DEF GoodTrans, Knows
  <2>4. Placed(t)'
    BY <1>6, <1>8, <1>11, <2>1 DEF GoodTrans, Placed, OnConnection
  <2>5. Wrote(t)'
    BY <1>6, <1>8, <2>2 DEF Wrote
  <2>6. Taken(t)'
    BY <1>6, <1>8, <2>2 DEF Taken, OnConnection
  <2> QED
    BY <2>3, <2>4, <2>5, <2>6 DEF GoodTrans
<1>14. ASSUME NEW u \in Transactions, u # t PROVE GoodTrans(u)'
  <2>1. GoodTrans(u) /\ trans'[u] = trans[u]
    BY <1>8, <1>14 DEF HttpState, TransInv
  <2>2. \A d \in Connections : conn[d].mTransaction = u => conn'[d].waitsTo = conn[d].waitsTo
    BY <1>9, <1>14, <1>owner
  <2> QED
    BY <1>11, <1>12, <2>1, <2>2, Undisturbed
<1> QED
  BY <1>4, <1>10, <1>13, <1>14 DEF HttpState, TransInv

\* A connection that is resumed has a transaction that has written its request.
LEMMA ResumesStep ==
    ASSUME HttpState, NEW c \in Connections, OnOutputStreamReady(c)
    PROVE  HttpState'
<1>0. conn \in [Connections -> ConnInfo] /\ trans \in [Transactions -> TransInfo] /\ conn[c] \in ConnInfo
  BY DEF HttpState, ConnState, ListTypes, TransTypes
<1> DEFINE new == [conn[c] EXCEPT !.waitsTo = "read"]
<1>1. /\ conn[c].waitsTo = "pipe"
      /\ conn' = [conn EXCEPT ![c] = new]
      /\ UNCHANGED <<eventQ, trans, mPendingQ, mActiveConns, mIdleConns, mNumActiveConns, mNumIdleConns, shutdown>>
  BY <1>0 DEF OnOutputStreamReady, mgrVars, clientVars
<1>2. /\ new \in ConnInfo /\ new.mConnInfo = conn[c].mConnInfo /\ new.mTransaction = conn[c].mTransaction
      /\ new.transport = conn[c].transport /\ new.mKeepAlive = conn[c].mKeepAlive /\ new.mIsReused = conn[c].mIsReused
  BY <1>0 DEF ConnInfo
<1> HIDE DEF new
<1>3. conn'[c] = new /\ \A d \in Connections \ {c} : conn'[d] = conn[d]
  BY <1>0, <1>1, <1>2
<1>4. ConnState'
  <2>1. conn[c] # Free
    BY <1>1 DEF Free
  <2> QED
    BY <1>1, <1>2, <2>1, ResumedConn DEF HttpState
<1>5. TransTypes' /\ AtHome'
  BY <1>1 DEF HttpState, TransTypes, TransInv, AtHome
<1>6. \A t \in Transactions : InMessages(t)' = InMessages(t) /\ InPending(t)' = InPending(t)
  BY <1>1 DEF InMessages, InPending
<1>7. \A d \in Connections : conn'[d].mTransaction = conn[d].mTransaction /\ conn'[d].mIsReused = conn[d].mIsReused
  BY <1>2, <1>3
<1>8. ASSUME NEW t \in Transactions PROVE GoodTrans(t)'
  <2>1. GoodTrans(t) /\ trans'[t] = trans[t]
    BY <1>1 DEF HttpState, TransInv
  <2>2. Knows(t)'
    BY <1>7, <2>1 DEF GoodTrans, Knows
  <2>3. Placed(t)'
    BY <1>6, <2>1 DEF GoodTrans, Placed, OnConnection
  <2>4. Wrote(t)'
    BY <1>1, <1>3, <1>7, <2>1 DEF GoodTrans, Wrote
  <2>5. Taken(t)'
    BY <1>7, <2>1 DEF GoodTrans, Taken, OnConnection
  <2> QED
    BY <2>2, <2>3, <2>4, <2>5 DEF GoodTrans
<1> QED
  BY <1>4, <1>5, <1>8 DEF HttpState, TransInv

LEMMA ConnectionClosesStep ==
    ASSUME HttpState, Emptied, shutdown' = shutdown,
           NEW c \in Connections, NEW t \in Transactions, conn[c].mTransaction = t,
           NEW reason, NEW asks, NEW forget \in BOOLEAN, NEW keepAlive \in BOOLEAN, NEW alive,
           NEW q \in Seq(Messages), \A u \in Transactions : InQueue(q, u) = InMessages(u),
           Restarts(t, asks) => forget \/ ~trans[t].taken,
           ConnectionCloses(c, reason, asks, forget, keepAlive, alive, q)
    PROVE  HttpState'
<1> DEFINE m == <<ProcessPendingQ(conn[c].mConnInfo)>>
           reuse == keepAlive /\ alive /\ reason = "NS_OK" /\ conn[c].transport = "open"
<1>1. t # NoTransaction
  BY HttpAssumption
<1>2. Other(m)
  BY <1>1, OwnerHost DEF Other
<1>3. CloseTransaction(t, reason, asks, forget, q, m) /\ ReclaimConnection(c, reuse, keepAlive)
  BY DEF ConnectionCloses
<1>4. reuse => conn[c].transport = "open"
  OBVIOUS
<1> HIDE DEF m, reuse
<1>5. ConnState' /\ Freed(c)
  BY <1>1, <1>3, <1>4, ReclaimConn DEF HttpState, Emptied
<1>6. mPendingQ' = mPendingQ
  BY <1>3 DEF ReclaimConnection
<1>7. TransTypes' /\ TransInv'
  BY <1>2, <1>3, <1>5, <1>6, CloseOnConnection DEF HttpState
<1> QED
  BY <1>5, <1>7 DEF HttpState

LEMMA TimesOutStep ==
    ASSUME HttpState, Emptied, NEW c \in Connections, NEW hung \in BOOLEAN, TimesOut(c, hung)
    PROVE  HttpState'
<1> DEFINE q == QueueAfter(c, hung)
<1>1. /\ conn[c].mTransaction # NoTransaction /\ shutdown' = shutdown
      /\ ConnectionCloses(c, "NET_RESET", TRUE, TRUE, FALSE, TRUE, q)
  BY DEF TimesOut, Waits, Hangs
<1>2. PICK t \in Transactions : conn[c].mTransaction = t
  BY <1>1 DEF HttpState, ConnState, ListTypes, ConnInfo
<1>3. q \in Seq(Messages) /\ \A u : InQueue(q, u) = InMessages(u)
  BY <1>1, QueueAfterFacts
<1> HIDE DEF q
<1> QED
  BY <1>1, <1>2, <1>3, ConnectionClosesStep, Zenon

LEMMA EndsStep ==
    ASSUME HttpState, Emptied, NEW c \in Connections, NEW reason \in Reasons, NEW alive \in BOOLEAN,
           NEW hung \in BOOLEAN, Ends(c, reason, alive, hung)
    PROVE  HttpState'
<1>1. conn[c].mTransaction # NoTransaction /\ shutdown' = shutdown /\ conn[c] \in ConnInfo
  BY DEF Ends, Hangs, HttpState, ConnState, ListTypes
<1>2. PICK t \in Transactions : conn[c].mTransaction = t
  BY <1>1 DEF ConnInfo
<1> DEFINE q == QueueAfter(c, hung)
           asks == AsksToRestart(t, reason, conn[c].mIsReused)
           keepAlive == conn[c].mKeepAlive /\ ~hung
<1>3. ConnectionCloses(c, reason, asks, FALSE, keepAlive, alive, q)
  BY <1>2 DEF Ends
<1>4. q \in Seq(Messages) /\ \A u : InQueue(q, u) = InMessages(u)
  BY <1>1, QueueAfterFacts
<1>5. keepAlive \in BOOLEAN
  OBVIOUS
<1>6. asks => ~trans[t].taken
  <2>1. GoodTrans(t)
    BY DEF HttpState, TransInv
  <2>2. trans[t].mConnection = c
    BY <1>2, <2>1 DEF GoodTrans, Knows
  <2>3. trans[t].taken => trans[t].mSentData /\ (trans[t].mReceivedData \/ ~conn[c].mIsReused)
    BY <2>1, <2>2 DEF GoodTrans, Taken
  <2> QED
    BY <2>3 DEF AsksToRestart
<1> HIDE DEF q, asks, keepAlive
<1>7. Restarts(t, asks) => ~trans[t].taken
  BY <1>6 DEF Restarts
<1> QED
  BY <1>1, <1>2, <1>3, <1>4, <1>5, <1>7, ConnectionClosesStep, Zenon

\* t joins the pending queue of its host.
LEMMA PendingAppended ==
    ASSUME TransTypes, AtHome, NEW t \in Transactions,
           mPendingQ' = [mPendingQ EXCEPT ![ConnectionInfo[t]] = Append(mPendingQ[ConnectionInfo[t]], t)]
    PROVE  /\ mPendingQ' \in [Hosts -> Seq(Transactions)] /\ AtHome'
           /\ InPending(t)' = InPending(t) + 1
           /\ \A u \in Transactions \ {t} : InPending(u)' = InPending(u)
<1> DEFINE h == ConnectionInfo[t]
           s == mPendingQ[h]
           a == Append(s, t)
<1>1. h \in Hosts /\ mPendingQ \in [Hosts -> Seq(Transactions)]
  BY HttpAssumption DEF TransTypes
<1>2. s \in Seq(Transactions) /\ Len(s) \in Nat
  BY <1>1, LenProperties
<1>3. /\ a \in Seq(Transactions) /\ Len(a) = Len(s) + 1
      /\ \A i \in 1..Len(s) : a[i] = s[i]
      /\ a[Len(s) + 1] = t
  BY <1>2, AppendProperties
<1>4. \A W : Count(a, W) = Count(s, W) + (IF t \in W THEN 1 ELSE 0)
  BY <1>2, CountAppend
<1>5. mPendingQ' = [mPendingQ EXCEPT ![h] = a]
  OBVIOUS
<1>6. \A i \in 1..Len(s) : ConnectionInfo[s[i]] = h
  BY <1>1 DEF AtHome
<1>7. \A W : Count(s, W) \in Nat
  BY <1>2, CountType
<1>8. ConnectionInfo[t] = h
  OBVIOUS
<1> HIDE DEF a, h
<1>9. /\ mPendingQ' \in [Hosts -> Seq(Transactions)] /\ mPendingQ'[h] = a
      /\ \A k \in Hosts \ {h} : mPendingQ'[k] = mPendingQ[k]
  BY <1>1, <1>3, <1>5
<1>10. AtHome'
  <2>1. \A i \in 1..Len(a) : ConnectionInfo[a[i]] = h
    BY <1>2, <1>3, <1>6, <1>8
  <2> QED
    BY <1>9, <2>1 DEF AtHome
<1>11. InPending(t)' = InPending(t) + 1
  <2>1. Count(a, {t}) = Count(s, {t}) + 1
    BY <1>4
  <2> QED
    BY <1>8, <1>9, <2>1 DEF InPending
<1>12. ASSUME NEW u \in Transactions \ {t} PROVE InPending(u)' = InPending(u)
  <2>1. ConnectionInfo[u] \in Hosts
    BY HttpAssumption
  <2>2. CASE ConnectionInfo[u] = h
    <3>1. t \notin {u} /\ Count(s, {u}) \in Nat
      BY <1>7
    <3>2. Count(a, {u}) = Count(s, {u}) + 0
      BY <1>4, <3>1
    <3>3. Count(a, {u}) = Count(s, {u})
      BY <3>1, <3>2
    <3> QED
      BY <1>9, <2>2, <3>3 DEF InPending
  <2>3. CASE ConnectionInfo[u] # h
    BY <1>9, <2>1, <2>3 DEF InPending
  <2> QED
    BY <2>2, <2>3
<1> QED
  BY <1>9, <1>10, <1>11, <1>12

\* It leaves it.
LEMMA PendingRemoved ==
    ASSUME TransTypes, AtHome, NEW h \in Hosts, NEW i \in 1..Len(mPendingQ[h]), NEW t \in Transactions,
           mPendingQ[h][i] = t, mPendingQ' = [mPendingQ EXCEPT ![h] = RemoveElementAt(mPendingQ[h], i)]
    PROVE  /\ mPendingQ' \in [Hosts -> Seq(Transactions)] /\ AtHome'
           /\ ConnectionInfo[t] = h /\ InPending(t) > 0
           /\ InPending(t)' = InPending(t) - 1
           /\ \A u \in Transactions \ {t} : InPending(u)' = InPending(u)
<1> DEFINE s == mPendingQ[h]
           a == RemoveElementAt(s, i)
           W == {u \in Transactions : ConnectionInfo[u] # h}
<1>1. mPendingQ \in [Hosts -> Seq(Transactions)]
  BY DEF TransTypes
<1>2. s \in Seq(Transactions) /\ Len(s) \in Nat
  BY <1>1, LenProperties
<1>3. a = Removed(s, i)
  BY DEF RemoveElementAt, Removed
<1>4. /\ a \in Seq(Transactions)
      /\ \A V : Count(a, V) = Count(s, V) - (IF t \in V THEN 1 ELSE 0)
  BY <1>2, <1>3, CountRemoved
<1>5. \A k \in 1..Len(s) : ConnectionInfo[s[k]] = h
  BY DEF AtHome
<1>6. ConnectionInfo[t] = h
  BY <1>5
<1>7. /\ \A V : Count(s, V) \in Nat /\ Count(a, V) \in Nat
  BY <1>2, <1>4, CountType
<1>8. mPendingQ' = [mPendingQ EXCEPT ![h] = a]
  OBVIOUS
<1> HIDE DEF a
<1>9. /\ mPendingQ' \in [Hosts -> Seq(Transactions)] /\ mPendingQ'[h] = a
      /\ \A k \in Hosts \ {h} : mPendingQ'[k] = mPendingQ[k]
  BY <1>1, <1>4, <1>8
<1>10. \A k \in 1..Len(a) : ConnectionInfo[a[k]] = h
  <2>1. t \notin W
    BY <1>6
  <2>2. \A k \in 1..Len(s) : s[k] \notin W
    BY <1>5
  <2> HIDE DEF W
  <2>3. ~(Count(s, W) > 0)
    BY <1>2, <2>2, CountPositive
  <2>4. Count(a, W) = Count(s, W) - 0
    BY <1>4, <2>1
  <2>5. ~(Count(a, W) > 0)
    BY <1>7, <2>3, <2>4
  <2>6. \A k \in 1..Len(a) : a[k] \notin W
    BY <1>4, <2>5, CountPositive
  <2>7. \A k \in 1..Len(a) : a[k] \in Transactions
    BY <1>4, ElementOfSeq
  <2> QED
    BY <2>6, <2>7 DEF W
<1>11. AtHome'
  BY <1>9, <1>10 DEF AtHome
<1>12. Count(s, {t}) > 0
  BY <1>2, CountPositive
<1>13. InPending(t)' = InPending(t) - 1 /\ InPending(t) > 0
  <2>1. Count(a, {t}) = Count(s, {t}) - 1
    BY <1>4
  <2> QED
    BY <1>6, <1>9, <1>12, <2>1 DEF InPending
<1>14. ASSUME NEW u \in Transactions \ {t} PROVE InPending(u)' = InPending(u)
  <2>1. ConnectionInfo[u] \in Hosts
    BY HttpAssumption
  <2>2. CASE ConnectionInfo[u] = h
    <3>1. t \notin {u} /\ Count(s, {u}) \in Nat
      BY <1>7
    <3>2. Count(a, {u}) = Count(s, {u}) - 0
      BY <1>4, <3>1
    <3>3. Count(a, {u}) = Count(s, {u})
      BY <3>1, <3>2
    <3> QED
      BY <1>9, <2>2, <3>3 DEF InPending
  <2>3. CASE ConnectionInfo[u] # h
    BY <1>9, <2>1, <2>3 DEF InPending
  <2> QED
    BY <2>2, <2>3
<1> QED
  BY <1>6, <1>9, <1>11, <1>13, <1>14

\* The same, as two operators.
LeavesPending(h, i, t) ==
    /\ h \in Hosts /\ i \in 1..Len(mPendingQ[h]) /\ t \in Transactions /\ mPendingQ[h][i] = t
    /\ mPendingQ' = [mPendingQ EXCEPT ![h] = RemoveElementAt(mPendingQ[h], i)]
PendingLess(h, t) ==
    /\ mPendingQ' \in [Hosts -> Seq(Transactions)] /\ AtHome'
    /\ ConnectionInfo[t] = h /\ InPending(t) > 0
    /\ InPending(t)' = InPending(t) - 1
    /\ \A u \in Transactions \ {t} : InPending(u)' = InPending(u)

LEMMA PendingRemovedFacts ==
    ASSUME TransTypes, AtHome, NEW h, NEW i, NEW t, LeavesPending(h, i, t)
    PROVE  PendingLess(h, t)
<1>1. /\ h \in Hosts /\ i \in 1..Len(mPendingQ[h]) /\ t \in Transactions /\ mPendingQ[h][i] = t
      /\ mPendingQ' = [mPendingQ EXCEPT ![h] = RemoveElementAt(mPendingQ[h], i)]
  BY DEF LeavesPending
<1> QED
  BY <1>1, PendingRemoved DEF PendingLess

\* What is known of a transaction that waits: of one that a message is about, of a pending one.
LEMMA OnItsWay ==
    ASSUME HttpState, NEW t \in Transactions, InMessages(t) > 0 \/ InPending(t) > 0
    PROVE  /\ ~OnConnection(t) /\ InMessages(t) + InPending(t) = 1
           /\ InMessages(t) \in Nat /\ InPending(t) \in Nat
           /\ trans[t].status \in {"open", "failed"}
           /\ InPending(t) > 0 => trans[t].status = "open"
<1>1. InMessages(t) \in Nat /\ InPending(t) \in Nat
  BY PendingNat DEF HttpState
<1>2. trans[t].status \in {"unused", "open", "closed", "failed"}
  BY DEF HttpState, TransTypes, TransInfo
<1>3. Placed(t)
  BY DEF HttpState, TransInv, GoodTrans
<1> QED
  BY <1>1, <1>2, <1>3 DEF Placed

LEMMA ServeNewTransactionStep ==
    ASSUME HttpState, shutdown # "returned", ServeNewTransaction
    PROVE  HttpState'
<1> DEFINE q == Tail(eventQ)
<1>1. Serves("NEW_TRANSACTION") /\ shutdown' = shutdown /\ TransTypes /\ TransInv
  BY DEF ServeNewTransaction, clientVars, HttpState
<1>2. /\ Head(eventQ) \in Messages /\ Head(eventQ).type = "NEW_TRANSACTION" /\ q \in Seq(Messages)
      /\ \A u : InQueue(q, u) = InMessages(u) - (IF Head(eventQ) = NewTransaction(u) THEN 1 ELSE 0)
  BY <1>1, Served
<1>3. PICK t \in Transactions : Head(eventQ) = NewTransaction(t) /\ Head(eventQ).trans = t
  BY <1>2, MessageKinds
<1> DEFINE h == ConnectionInfo[t]
           waits == AtActiveConnectionLimit(h, t \in KeepAlive)
<1>4. \A u : NewTransaction(t) = NewTransaction(u) <=> t = u
  BY MessageFields
<1>5. /\ \/ /\ trans[t].status = "failed"
            /\ trans' = [trans EXCEPT ![t].status = "closed"]
            /\ eventQ' = q
            /\ UNCHANGED <<mgrVars, conn>>
         \/ /\ trans[t].status # "failed" /\ waits
            /\ mPendingQ' = [mPendingQ EXCEPT ![h] = Append(mPendingQ[h], t)]
            /\ eventQ' = q
            /\ UNCHANGED <<mActiveConns, mIdleConns, mNumActiveConns, mNumIdleConns, conn, trans>>
         \/ /\ trans[t].status # "failed" /\ ~waits
            /\ \/ DispatchTransaction(h, t) /\ eventQ' = q
               \/ DispatchFails(h, t) /\ CloseTransaction(t, "ABORT", FALSE, FALSE, q, << >>)
            /\ UNCHANGED mPendingQ
  BY <1>3 DEF ServeNewTransaction
<1> HIDE DEF q, waits
<1>6. \A u : InQueue(q, u) \in Nat
  BY <1>2, QueueNat
<1>7. InQueue(q, t) = InMessages(t) - 1
  BY <1>2, <1>3
<1>8. ASSUME NEW u \in Transactions \ {t} PROVE InQueue(q, u) = InMessages(u)
  <2>1. InQueue(q, u) = InMessages(u) - 0
    BY <1>2, <1>3, <1>4
  <2>2. InMessages(u) \in Nat
    BY <1>1, PendingNat
  <2> QED
    BY <2>1, <2>2
<1>9. InMessages(t) \in Nat /\ InPending(t) \in Nat /\ h \in Hosts
  BY <1>1, PendingNat
<1>10. InMessages(t) > 0
  BY <1>6, <1>7, <1>9
<1>11. /\ ~OnConnection(t) /\ InMessages(t) = 1 /\ InPending(t) = 0 /\ InQueue(q, t) = 0
       /\ trans[t].status \in {"open", "failed"}
  BY <1>7, <1>9, <1>10, OnItsWay
<1>12. AtHome
  BY <1>1 DEF TransInv
<1>13. CASE /\ trans[t].status = "failed" /\ trans' = [trans EXCEPT ![t].status = "closed"]
            /\ eventQ' = q /\ UNCHANGED <<mgrVars, conn>>
  <2>1. UNCHANGED <<mPendingQ, mActiveConns, mIdleConns, mNumActiveConns, mNumIdleConns, conn>>
    BY <1>13 DEF mgrVars
  <2>2. ConnState' /\ SameForAll
    BY <1>1, <2>1, SameConn DEF HttpState
  <2> DEFINE x == [trans[t] EXCEPT !.status = "closed"]
  <2>3. trans \in [Transactions -> TransInfo] /\ trans[t] \in TransInfo
    BY <1>1 DEF TransTypes
  <2>4. /\ x \in TransInfo /\ x.status = "closed" /\ x.mConnection = trans[t].mConnection
        /\ x.taken = trans[t].taken /\ trans' = [trans EXCEPT ![t] = x]
    BY <1>13, <2>3 DEF TransInfo
  <2> HIDE DEF x
  <2>5. /\ trans' \in [Transactions -> TransInfo] /\ trans'[t] = x
        /\ \A u \in Transactions \ {t} : trans'[u] = trans[u]
    BY <2>3, <2>4
  <2>6. TransTypes' /\ AtHome'
    BY <1>1, <1>2, <1>12, <1>13, <2>1, <2>5 DEF TransTypes, AtHome
  <2>7. \A u \in Transactions : InPending(u)' = InPending(u)
    BY <2>1 DEF InPending
  <2>8. InMessages(t)' = 0 /\ \A u \in Transactions \ {t} : InMessages(u)' = InMessages(u)
    BY <1>8, <1>11, <1>13 DEF InMessages
  <2>9. GoodTrans(t)'
    <3>1. GoodTrans(t)
      BY <1>1 DEF TransInv
    <3>2. \A c \in Connections : conn'[c].mTransaction # t
      BY <1>11, <2>1, <3>1 DEF GoodTrans, Knows, OnConnection
    <3>3. Knows(t)'
      BY <1>11, <2>4, <2>5, <3>2 DEF Knows, OnConnection
    <3>4. Placed(t)'
      BY <1>11, <2>4, <2>5, <2>7, <2>8 DEF Placed, OnConnection
    <3>5. Wrote(t)'
      BY <3>2 DEF Wrote
    <3>6. ~trans[t].taken
      BY <1>11, <3>1 DEF GoodTrans, Taken
    <3>7. Taken(t)'
      BY <2>4, <2>5, <3>6 DEF Taken
    <3> QED
      BY <3>3, <3>4, <3>5, <3>7 DEF GoodTrans
  <2>10. ASSUME NEW u \in Transactions, u # t PROVE GoodTrans(u)'
    <3>1. GoodTrans(u) /\ trans'[u] = trans[u] /\ InMessages(u)' = InMessages(u) /\ InPending(u)' = InPending(u)
      BY <1>1, <2>5, <2>7, <2>8, <2>10 DEF TransInv
    <3> QED
      BY <2>2, <3>1, UndisturbedBySame
  <2> QED
    BY <2>2, <2>6, <2>9, <2>10 DEF HttpState, TransInv
<1>14. CASE /\ trans[t].status # "failed" /\ eventQ' = q
            /\ mPendingQ' = [mPendingQ EXCEPT ![h] = Append(mPendingQ[h], t)]
            /\ UNCHANGED <<mActiveConns, mIdleConns, mNumActiveConns, mNumIdleConns, conn, trans>>
  <2>1. UNCHANGED <<mActiveConns, mIdleConns, mNumActiveConns, mNumIdleConns, conn, trans>>
    BY <1>14
  <2>2. ConnState' /\ SameForAll
    BY <1>1, <2>1, SameConn DEF HttpState
  <2>3. /\ mPendingQ' \in [Hosts -> Seq(Transactions)] /\ AtHome'
        /\ InPending(t)' = InPending(t) + 1
        /\ \A u \in Transactions \ {t} : InPending(u)' = InPending(u)
    BY <1>1, <1>12, <1>14, PendingAppended
  <2>4. TransTypes'
    BY <1>1, <1>2, <1>14, <2>3 DEF TransTypes
  <2>5. InMessages(t)' = 0 /\ \A u \in Transactions \ {t} : InMessages(u)' = InMessages(u)
    BY <1>8, <1>11, <1>14 DEF InMessages
  <2>6. GoodTrans(t)'
    <3>1. GoodTrans(t)
      BY <1>1 DEF TransInv
    <3>2. Knows(t)' /\ Wrote(t)' /\ Taken(t)'
      BY <2>1, <3>1 DEF GoodTrans, Knows, Wrote, Taken, OnConnection
    <3>3. trans'[t].status = "open" /\ ~(trans'[t].mConnection \in Connections)
      BY <1>11, <1>14 DEF OnConnection
    <3>4. InPending(t)' = 1
      BY <1>11, <2>3
    <3>5. Placed(t)'
      BY <2>5, <3>3, <3>4 DEF Placed, OnConnection
    <3> QED
      BY <3>2, <3>5 DEF GoodTrans
  <2>7. ASSUME NEW u \in Transactions, u # t PROVE GoodTrans(u)'
    <3>1. GoodTrans(u) /\ trans'[u] = trans[u] /\ InMessages(u)' = InMessages(u) /\ InPending(u)' = InPending(u)
      BY <1>1, <2>1, <2>3, <2>5, <2>7 DEF TransInv
    <3> QED
      BY <2>2, <3>1, UndisturbedBySame
  <2> QED
    BY <2>2, <2>3, <2>4, <2>6, <2>7 DEF HttpState, TransInv
<1>15. CASE /\ trans[t].status # "failed" /\ ~waits /\ UNCHANGED mPendingQ
            /\ DispatchTransaction(h, t) /\ eventQ' = q
  <2>1. /\ ConnState'
        /\ \E c \in Connections : Assigned(c, t) /\ trans' = [trans EXCEPT ![t].mConnection = c]
    BY <1>1, <1>9, <1>15, DispatchConn DEF HttpState, waits
  <2>2. PICK c \in Connections : Assigned(c, t) /\ trans' = [trans EXCEPT ![t].mConnection = c]
    BY <2>1
  <2>3. mPendingQ' \in [Hosts -> Seq(Transactions)] /\ AtHome' /\ eventQ' \in Seq(Messages)
    BY <1>1, <1>2, <1>12, <1>15 DEF TransTypes, AtHome
  <2>4. \A u \in Transactions : InPending(u)' = InPending(u)
    BY <1>15 DEF InPending
  <2>5. InMessages(t)' = 0 /\ \A u \in Transactions \ {t} : InMessages(u)' = InMessages(u)
    BY <1>8, <1>11, <1>15 DEF InMessages
  <2>6. trans[t].status = "open" /\ InPending(t)' = 0
    BY <1>11, <1>15, <2>4
  <2>7. TransTypes' /\ TransInv'
    BY <1>1, <1>11, <2>2, <2>3, <2>4, <2>5, <2>6, GetsConnection
  <2> QED
    BY <2>1, <2>7 DEF HttpState
<1>16. CASE /\ ~waits /\ UNCHANGED mPendingQ /\ DispatchFails(h, t)
            /\ CloseTransaction(t, "ABORT", FALSE, FALSE, q, << >>)
  <2>1. ConnState' /\ SameForAll
    BY <1>1, <1>9, <1>16, DispatchFailsConn DEF HttpState, waits
  <2>2. mPendingQ' \in [Hosts -> Seq(Transactions)] /\ AtHome'
    BY <1>1, <1>12, <1>16 DEF TransTypes, AtHome
  <2>3. \A u \in Transactions : InPending(u)' = InPending(u)
    BY <1>16 DEF InPending
  <2>4. InPending(t)' = 0 /\ InQueue(q, t) \in {0, 1}
    BY <1>11, <2>3
  <2>5. CloseTransaction(t, "ABORT", FALSE, FALSE, q, << >>)
    BY <1>16
  <2>6. TransTypes' /\ TransInv'
    BY <1>1, <1>2, <1>8, <1>11, <2>1, <2>2, <2>3, <2>4, <2>5, CloseUnconnected
  <2> QED
    BY <2>1, <2>6 DEF HttpState
<1> QED
  BY <1>5, <1>13, <1>14, <1>15, <1>16

LEMMA IndexOfFacts ==
    ASSUME NEW S, NEW s \in Seq(S), NEW x \in Elements(s)
    PROVE  IndexOf(s, x) \in 1..Len(s) /\ s[IndexOf(s, x)] = x
<1> DEFINE A == {i \in 1..Len(s) : s[i] = x}
<1>1. Len(s) \in Nat /\ DOMAIN s = 1..Len(s) /\ Elements(s) = {s[i] : i \in 1..Len(s)}
  BY LenProperties, ElementsType
<1>2. A \subseteq Nat /\ A # {}
  BY <1>1
<1> HIDE DEF A
<1>3. PICK i \in A : \A j \in A : i <= j
  BY <1>2, FirstExists
<1>4. i \in 1..Len(s) /\ s[i] = x
  BY DEF A
<1>5. \A j \in 1..i - 1 : s[j] # x
  <2> SUFFICES ASSUME NEW j \in 1..i - 1, s[j] = x PROVE FALSE
    OBVIOUS
  <2>1. j \in 1..Len(s) /\ ~(i <= j)
    BY <1>1, <1>4
  <2>2. j \in A
    BY <2>1 DEF A
  <2> QED
    BY <1>3, <2>1, <2>2
<1>6. \E k \in DOMAIN s : s[k] = x /\ \A j \in 1..k - 1 : s[j] # x
  BY <1>1, <1>4, <1>5
<1>7. IndexOf(s, x) \in DOMAIN s /\ s[IndexOf(s, x)] = x
  BY <1>6 DEF IndexOf
<1> QED
  BY <1>1, <1>7

LEMMA ServeCancelTransactionStep ==
    ASSUME HttpState, Emptied, shutdown # "returned", ServeCancelTransaction
    PROVE  HttpState'
<1> DEFINE q == Tail(eventQ)
<1>1. Serves("CANCEL_TRANSACTION") /\ shutdown' = shutdown /\ TransTypes /\ TransInv /\ ConnState
  BY DEF ServeCancelTransaction, clientVars, HttpState
<1>2. /\ Head(eventQ) \in Messages /\ Head(eventQ).type = "CANCEL_TRANSACTION" /\ q \in Seq(Messages)
      /\ \A u : InQueue(q, u) = InMessages(u) - (IF Head(eventQ) = NewTransaction(u) THEN 1 ELSE 0)
  BY <1>1, Served
<1>3. PICK t \in Transactions : Head(eventQ).trans = t
  BY <1>2, MessageKinds
<1> DEFINE h == ConnectionInfo[t]
           s == mPendingQ[h]
           c == trans[t].mConnection
<1>4. \/ /\ c \in Connections
         /\ ConnectionCloses(c, "ABORT", FALSE, FALSE, FALSE, TRUE, q)
      \/ UNCHANGED <<eventQ, mgrVars, conn, trans>>
      \/ /\ c = NoConnection
         /\ IF t \in Elements(s)
            THEN mPendingQ' = [mPendingQ EXCEPT ![h] = RemoveElementAt(s, IndexOf(s, t))]
            ELSE UNCHANGED mPendingQ
         /\ IF trans[t].status = "open" THEN CloseTransaction(t, "ABORT", FALSE, FALSE, q, << >>)
            ELSE eventQ' = q /\ UNCHANGED trans
         /\ UNCHANGED <<mActiveConns, mIdleConns, mNumActiveConns, mNumIdleConns, conn>>
  BY <1>3 DEF ServeCancelTransaction
<1> HIDE DEF q
<1>5. ASSUME NEW u \in Transactions PROVE InQueue(q, u) = InMessages(u)
  <2>1. Head(eventQ) # NewTransaction(u)
    BY <1>2, MessageFields
  <2>2. InQueue(q, u) = InMessages(u) - 0
    BY <1>2, <2>1
  <2>3. InMessages(u) \in Nat
    BY <1>1, PendingNat
  <2> QED
    BY <2>2, <2>3
<1>6. InMessages(t) \in Nat /\ InPending(t) \in Nat /\ h \in Hosts
  BY <1>1, PendingNat
<1>7. AtHome /\ GoodTrans(t)
  BY <1>1 DEF TransInv
<1>8. s \in Seq(Transactions)
  BY <1>1, <1>6 DEF TransTypes
<1>9. CASE c \in Connections /\ ConnectionCloses(c, "ABORT", FALSE, FALSE, FALSE, TRUE, q)
  <2>1. PICK d \in Connections : d = c
    BY <1>9
  <2>2. conn[d].mTransaction = t
    BY <1>7, <2>1 DEF GoodTrans, Knows
  <2>3. ~Restarts(t, FALSE)
    BY DEF Restarts
  <2>4. ConnectionCloses(d, "ABORT", FALSE, FALSE, FALSE, TRUE, q)
    BY <1>9, <2>1
  <2>5. FALSE \in BOOLEAN
    OBVIOUS
  <2> QED
    BY <1>1, <1>2, <1>5, <2>2, <2>3, <2>4, <2>5, ConnectionClosesStep, Zenon
<1>10. CASE UNCHANGED <<eventQ, mgrVars, conn, trans>>
  <2>1. UNCHANGED <<mPendingQ, mActiveConns, mIdleConns, mNumActiveConns, mNumIdleConns, conn>>
    BY <1>10 DEF mgrVars
  <2>2. ConnState' /\ SameForAll
    BY <1>1, <2>1, SameConn
  <2>3. eventQ' \in Seq(Messages) /\ \A u \in Transactions : InMessages(u)' = InMessages(u)
    BY <1>1, <1>10 DEF TransTypes, InMessages
  <2>4. TransTypes' /\ TransInv'
    BY <1>1, <1>10, <2>1, <2>2, <2>3, NothingMoves
  <2> QED
    BY <2>2, <2>4 DEF HttpState
<1>11. CASE /\ c = NoConnection
            /\ IF t \in Elements(s)
               THEN mPendingQ' = [mPendingQ EXCEPT ![h] = RemoveElementAt(s, IndexOf(s, t))]
               ELSE UNCHANGED mPendingQ
            /\ IF trans[t].status = "open" THEN CloseTransaction(t, "ABORT", FALSE, FALSE, q, << >>)
               ELSE eventQ' = q /\ UNCHANGED trans
            /\ UNCHANGED <<mActiveConns, mIdleConns, mNumActiveConns, mNumIdleConns, conn>>
  <2>1. UNCHANGED <<mActiveConns, mIdleConns, mNumActiveConns, mNumIdleConns, conn>>
    BY <1>11
  <2>2. ConnState' /\ SameForAll
    BY <1>1, <2>1, SameConn
  <2>3. ~OnConnection(t)
    BY <1>11, HttpAssumption DEF OnConnection
  <2>4. t \in Elements(s) <=> InPending(t) > 0
    <3>1. Count(s, {t}) > 0 <=> \E i \in 1..Len(s) : s[i] \in {t}
      BY <1>8, CountPositive
    <3>2. Elements(s) = {s[i] : i \in 1..Len(s)}
      BY <1>8, ElementsType
    <3> QED
      BY <3>1, <3>2 DEF InPending
  <2>5. CASE t \in Elements(s)
    <3>1. InMessages(t) + InPending(t) = 1 /\ trans[t].status = "open"
      BY <2>4, <2>5, OnItsWay
    <3> DEFINE i == IndexOf(s, t)
    <3>2. i \in 1..Len(s) /\ s[i] = t
      BY <1>8, <2>5, IndexOfFacts
    <3>3. mPendingQ' = [mPendingQ EXCEPT ![h] = RemoveElementAt(s, i)]
      BY <1>11, <2>5
    <3> HIDE DEF i
    <3>4. /\ mPendingQ' \in [Hosts -> Seq(Transactions)] /\ AtHome'
          /\ InPending(t)' = InPending(t) - 1
          /\ \A u \in Transactions \ {t} : InPending(u)' = InPending(u)
      <4>1. TransTypes /\ AtHome /\ h \in Hosts /\ t \in Transactions /\ i \in 1..Len(mPendingQ[h]) /\ mPendingQ[h][i] = t
        BY <1>1, <1>6, <1>7, <3>2
      <4>2. mPendingQ' = [mPendingQ EXCEPT ![h] = RemoveElementAt(mPendingQ[h], i)]
        BY <3>3
      <4> QED
        <5>1. LeavesPending(h, i, t)
          BY ONLY <4>1, <4>2 DEF LeavesPending
        <5>2. PendingLess(h, t)
          BY ONLY <4>1, <5>1, PendingRemovedFacts, Zenon
        <5> QED
          BY ONLY <5>2 DEF PendingLess
    <3>5. InMessages(t) = 0 /\ InPending(t) = 1
      BY <1>6, <2>4, <2>5, <3>1
    <3>6. InQueue(q, t) \in {0, 1} /\ InPending(t)' = 0
      BY <1>5, <3>4, <3>5
    <3>7. CloseTransaction(t, "ABORT", FALSE, FALSE, q, << >>)
      BY <1>11, <3>1
    <3>8. TransTypes' /\ TransInv'
      BY <1>1, <1>2, <1>5, <2>2, <2>3, <3>4, <3>6, <3>7, CloseUnconnected
    <3> QED
      BY <2>2, <3>8 DEF HttpState
  <2>6. CASE t \notin Elements(s) /\ trans[t].status = "open"
    <3>1. InPending(t) = 0 /\ InMessages(t) = 1
      BY <1>6, <1>7, <2>3, <2>4, <2>6 DEF GoodTrans, Placed
    <3>2. mPendingQ' = mPendingQ /\ CloseTransaction(t, "ABORT", FALSE, FALSE, q, << >>)
      BY <1>11, <2>6
    <3>3. mPendingQ' \in [Hosts -> Seq(Transactions)] /\ AtHome'
      BY <1>1, <1>7, <3>2 DEF TransTypes, AtHome
    <3>4. \A u \in Transactions : InPending(u)' = InPending(u)
      BY <3>2 DEF InPending
    <3>5. InQueue(q, t) \in {0, 1} /\ InPending(t)' = 0
      BY <1>5, <3>1, <3>4
    <3>6. TransTypes' /\ TransInv'
      BY <1>1, <1>2, <1>5, <2>2, <2>3, <3>2, <3>3, <3>4, <3>5, CloseUnconnected
    <3> QED
      BY <2>2, <3>6 DEF HttpState
  <2>7. CASE t \notin Elements(s) /\ trans[t].status # "open"
    <3>1. eventQ' = q /\ trans' = trans /\ mPendingQ' = mPendingQ
      BY <1>11, <2>7
    <3>2. eventQ' \in Seq(Messages) /\ \A u \in Transactions : InMessages(u)' = InMessages(u)
      BY <1>2, <1>5, <3>1 DEF InMessages
    <3>3. TransTypes' /\ TransInv'
      BY <1>1, <2>2, <3>1, <3>2, NothingMoves
    <3> QED
      BY <2>2, <3>3 DEF HttpState
  <2> QED
    BY <2>5, <2>6, <2>7
<1> QED
  BY <1>4, <1>9, <1>10, <1>11

LEMMA ProcessEntryStep ==
    ASSUME HttpState, shutdown # "returned", shutdown' = shutdown,
           eventQ' \in Seq(Messages), \A u \in Transactions : InMessages(u)' = InMessages(u),
           NEW h \in Hosts, Dispatchable(h) # {}, ProcessPendingQForEntry(h)
    PROVE  HttpState'
<1> DEFINE i == CHOOSE n \in Dispatchable(h) : \A m \in Dispatchable(h) : n <= m
           s == mPendingQ[h]
<1>1. TransTypes /\ TransInv /\ ConnState /\ AtHome
  BY DEF HttpState, TransInv
<1>2. s \in Seq(Transactions) /\ DOMAIN s = 1..Len(s) /\ Len(s) \in Nat
  <2>1. s \in Seq(Transactions)
    BY <1>1 DEF TransTypes
  <2> QED
    BY <2>1, LenProperties
<1>3. i \in Dispatchable(h)
  <2>1. Dispatchable(h) \subseteq Nat
    BY <1>2 DEF Dispatchable
  <2>2. \E n \in Dispatchable(h) : \A m \in Dispatchable(h) : n <= m
    BY <2>1, FirstExists
  <2> QED
    BY <2>2
<1>4. \/ /\ DispatchTransaction(h, s[i])
         /\ mPendingQ' = [mPendingQ EXCEPT ![h] = RemoveElementAt(s, i)]
      \/ /\ DispatchFails(h, s[i])
         /\ trans' = [trans EXCEPT ![s[i]].mConnection = Orphan]
         /\ UNCHANGED mPendingQ
  BY DEF ProcessPendingQForEntry
<1> HIDE DEF i
<1>5. i \in 1..Len(s) /\ ~AtActiveConnectionLimit(h, s[i] \in KeepAlive)
  BY <1>2, <1>3 DEF Dispatchable
<1>6. PICK t \in Transactions : t = s[i]
  BY <1>2, <1>5, ElementOfSeq
<1>7. ~AtActiveConnectionLimit(h, t \in KeepAlive)
  BY <1>5, <1>6
<1>8. ConnectionInfo[t] = h /\ InPending(t) > 0
  <2>1. ConnectionInfo[t] = h
    BY <1>1, <1>5, <1>6 DEF AtHome
  <2>2. Count(s, {t}) > 0
    BY <1>2, <1>5, <1>6, CountPositive
  <2> QED
    BY <2>1, <2>2 DEF InPending
<1>9. ~OnConnection(t) /\ InMessages(t) = 0 /\ InPending(t) = 1 /\ trans[t].status = "open"
  <2>1. /\ ~OnConnection(t) /\ InMessages(t) + InPending(t) = 1
        /\ InMessages(t) \in Nat /\ InPending(t) \in Nat
        /\ InPending(t) > 0 => trans[t].status = "open"
    BY <1>8, OnItsWay
  <2> QED
    BY <1>8, <2>1
<1>10. CASE /\ DispatchTransaction(h, s[i])
            /\ mPendingQ' = [mPendingQ EXCEPT ![h] = RemoveElementAt(s, i)]
  <2>1. DispatchTransaction(h, t)
    BY <1>6, <1>10
  <2>2. /\ ConnState'
        /\ \E c \in Connections : Assigned(c, t) /\ trans' = [trans EXCEPT ![t].mConnection = c]
    BY <1>1, <1>7, <2>1, DispatchConn
  <2>3. PICK c \in Connections : Assigned(c, t) /\ trans' = [trans EXCEPT ![t].mConnection = c]
    BY <2>2
  <2>4. /\ mPendingQ' \in [Hosts -> Seq(Transactions)] /\ AtHome'
        /\ InPending(t)' = InPending(t) - 1
        /\ \A u \in Transactions \ {t} : InPending(u)' = InPending(u)
    BY <1>1, <1>5, <1>6, <1>10, PendingRemoved
  <2>5. InMessages(t)' = 0 /\ InPending(t)' = 0
    BY <1>9, <2>4
  <2>6. TransTypes' /\ TransInv'
    BY <1>1, <1>9, <2>3, <2>4, <2>5, GetsConnection
  <2> QED
    BY <2>2, <2>6 DEF HttpState
<1>11. CASE /\ DispatchFails(h, s[i])
            /\ trans' = [trans EXCEPT ![s[i]].mConnection = Orphan]
            /\ UNCHANGED mPendingQ
  <2>1. /\ DispatchFails(h, t) /\ trans' = [trans EXCEPT ![t].mConnection = Orphan]
        /\ mPendingQ' = mPendingQ
    BY <1>6, <1>11
  <2>2. ConnState' /\ SameForAll
    BY <1>1, <1>7, <2>1, DispatchFailsConn
  <2> DEFINE x == [trans[t] EXCEPT !.mConnection = Orphan]
  <2>3. trans \in [Transactions -> TransInfo] /\ trans[t] \in TransInfo
    BY <1>1 DEF TransTypes
  <2>4. /\ x \in TransInfo /\ x.status = trans[t].status /\ x.mConnection = Orphan
        /\ x.taken = trans[t].taken /\ trans' = [trans EXCEPT ![t] = x]
    BY <2>1, <2>3 DEF TransInfo
  <2> HIDE DEF x
  <2>5. /\ trans' \in [Transactions -> TransInfo] /\ trans'[t] = x
        /\ \A u \in Transactions \ {t} : trans'[u] = trans[u]
    BY <2>3, <2>4
  <2>6. TransTypes' /\ AtHome'
    BY <1>1, <2>1, <2>5 DEF TransTypes, AtHome
  <2>7. \A u \in Transactions : InPending(u)' = InPending(u)
    BY <2>1 DEF InPending
  <2>8. Orphan \notin Connections
    BY HttpAssumption
  <2>9. GoodTrans(t)'
    <3>1. GoodTrans(t)
      BY <1>1 DEF TransInv
    <3>2. \A c \in Connections : conn'[c].mTransaction # t
      BY <1>9, <2>2, <3>1 DEF GoodTrans, Knows, OnConnection, SameForAll, SameFor
    <3>3. Knows(t)'
      BY <2>4, <2>5, <2>8, <3>2 DEF Knows
    <3>4. Placed(t)'
      BY <1>9, <2>4, <2>5, <2>7, <2>8 DEF Placed, OnConnection
    <3>5. Wrote(t)'
      BY <3>2 DEF Wrote
    <3>6. ~trans[t].taken
      BY <1>9, <3>1 DEF GoodTrans, Taken
    <3>7. Taken(t)'
      BY <2>4, <2>5, <3>6 DEF Taken
    <3> QED
      BY <3>3, <3>4, <3>5, <3>7 DEF GoodTrans
  <2>10. ASSUME NEW u \in Transactions, u # t PROVE GoodTrans(u)'
    <3>1. GoodTrans(u) /\ trans'[u] = trans[u] /\ InPending(u)' = InPending(u)
      BY <1>1, <2>5, <2>7, <2>10 DEF TransInv
    <3> QED
      BY <2>2, <3>1, UndisturbedBySame
  <2> QED
    BY <2>2, <2>6, <2>9, <2>10 DEF HttpState, TransInv
<1> QED
  BY <1>4, <1>10, <1>11

\* The message that is served was not about a new transaction.
LEMMA ServedOther ==
    ASSUME TransTypes, NEW type, Serves(type), type # "NEW_TRANSACTION"
    PROVE  /\ Head(eventQ) \in Messages /\ Head(eventQ).type = type /\ Tail(eventQ) \in Seq(Messages)
           /\ \A u \in Transactions : InQueue(Tail(eventQ), u) = InMessages(u)
<1>1. /\ Head(eventQ) \in Messages /\ Head(eventQ).type = type /\ Tail(eventQ) \in Seq(Messages)
      /\ \A u : InQueue(Tail(eventQ), u) = InMessages(u) - (IF Head(eventQ) = NewTransaction(u) THEN 1 ELSE 0)
  BY Served
<1>2. ASSUME NEW u \in Transactions PROVE InQueue(Tail(eventQ), u) = InMessages(u)
  <2>1. Head(eventQ) # NewTransaction(u)
    BY <1>1, MessageFields
  <2>2. InQueue(Tail(eventQ), u) = InMessages(u) - 0
    BY <1>1, <2>1
  <2>3. InMessages(u) \in Nat
    BY PendingNat
  <2> QED
    BY <2>2, <2>3
<1> QED
  BY <1>1, <1>2

LEMMA ServeProcessPendingQStep ==
    ASSUME HttpState, shutdown # "returned", ServeProcessPendingQ
    PROVE  HttpState'
<1> DEFINE ready == {k \in mCT : Dispatchable(k) # {}}
           q == Tail(eventQ)
<1>1. /\ Serves("PROCESS_PENDING_Q") /\ shutdown' = shutdown /\ eventQ' = q
      /\ \/ UNCHANGED <<mgrVars, conn, trans>>
         \/ \E k \in ready : ProcessPendingQForEntry(k)
  BY DEF ServeProcessPendingQ, clientVars
<1>2. TransTypes /\ TransInv /\ ConnState
  BY DEF HttpState
<1>3. q \in Seq(Messages) /\ \A u \in Transactions : InQueue(q, u) = InMessages(u)
  BY <1>1, <1>2, ServedOther
<1> HIDE DEF q
<1>4. eventQ' \in Seq(Messages) /\ \A u \in Transactions : InMessages(u)' = InMessages(u)
  BY <1>1, <1>3 DEF InMessages
<1>5. CASE UNCHANGED <<mgrVars, conn, trans>>
  <2>1. UNCHANGED <<mPendingQ, mActiveConns, mIdleConns, mNumActiveConns, mNumIdleConns, conn>>
    BY <1>5 DEF mgrVars
  <2>2. ConnState' /\ SameForAll
    BY <1>1, <1>2, <2>1, SameConn
  <2>3. TransTypes' /\ TransInv'
    BY <1>2, <1>4, <1>5, <2>1, <2>2, NothingMoves
  <2> QED
    BY <2>2, <2>3 DEF HttpState
<1>6. CASE \E k \in ready : ProcessPendingQForEntry(k)
  <2>1. PICK k \in ready : ProcessPendingQForEntry(k)
    BY <1>6
  <2>2. k \in Hosts /\ Dispatchable(k) # {}
    BY <2>1 DEF mCT
  <2> QED
    BY <1>1, <1>4, <2>1, <2>2, ProcessEntryStep
<1> QED
  BY <1>1, <1>5, <1>6

LEMMA ServeShutdownStep ==
    ASSUME HttpState, ServeShutdown
    PROVE  HttpState'
<1> DEFINE q == Tail(eventQ)
           pending == UNION {Elements(mPendingQ[h]) : h \in mCT}
<1>1. /\ Serves("SHUTDOWN") /\ eventQ' = q
      /\ mPendingQ' = [h \in Hosts |-> << >>]
      /\ trans' = [t \in Transactions |-> IF t \in pending THEN Blank("closed") ELSE trans[t]]
  BY DEF ServeShutdown
<1>2. TransTypes /\ TransInv /\ ConnState /\ AtHome
  BY DEF HttpState, TransInv
<1>3. q \in Seq(Messages) /\ \A u \in Transactions : InQueue(q, u) = InMessages(u)
  BY <1>1, <1>2, ServedOther
<1> HIDE DEF q
<1>4. eventQ' \in Seq(Messages) /\ \A u \in Transactions : InMessages(u)' = InMessages(u)
  BY <1>1, <1>3 DEF InMessages
<1>5. ConnState' /\ SameForAll
  BY <1>2, ShutdownConn
<1>6. ASSUME NEW t \in Transactions PROVE t \in pending <=> InPending(t) > 0
  <2>1. ConnectionInfo[t] \in Hosts /\ mPendingQ \in [Hosts -> Seq(Transactions)]
    BY <1>2, HttpAssumption DEF TransTypes
  <2>2. ASSUME NEW h \in Hosts PROVE Elements(mPendingQ[h]) = {mPendingQ[h][i] : i \in 1..Len(mPendingQ[h])}
    BY <2>1, ElementsType
  <2>3. Count(mPendingQ[ConnectionInfo[t]], {t}) > 0
          <=> \E i \in 1..Len(mPendingQ[ConnectionInfo[t]]) : mPendingQ[ConnectionInfo[t]][i] \in {t}
    BY <2>1, CountPositive
  <2>4. ASSUME t \in pending PROVE InPending(t) > 0
    <3>1. PICK h \in Hosts : t \in Elements(mPendingQ[h])
      BY <2>4 DEF mCT
    <3>2. PICK i \in 1..Len(mPendingQ[h]) : mPendingQ[h][i] = t
      BY <2>2, <3>1
    <3>3. ConnectionInfo[t] = h
      BY <1>2, <3>2 DEF AtHome
    <3> QED
      BY <2>3, <3>2, <3>3 DEF InPending
  <2>5. ASSUME InPending(t) > 0 PROVE t \in pending
    <3>1. PICK i \in 1..Len(mPendingQ[ConnectionInfo[t]]) : mPendingQ[ConnectionInfo[t]][i] = t
      BY <2>3, <2>5 DEF InPending
    <3>2. t \in Elements(mPendingQ[ConnectionInfo[t]])
      BY <2>1, <2>2, <3>1
    <3>3. mPendingQ[ConnectionInfo[t]] # << >>
      BY <3>2, EmptyList
    <3> QED
      BY <2>1, <3>2, <3>3 DEF mCT
  <2> QED
    BY <2>4, <2>5
<1> HIDE DEF pending
<1>7. /\ Blank("closed") \in TransInfo /\ Blank("closed").status = "closed" /\ Blank("closed").taken = FALSE
      /\ Blank("closed").mConnection = NoConnection /\ NoConnection \notin Connections
  BY BlankFacts
<1>8. /\ trans' \in [Transactions -> TransInfo]
      /\ \A t \in Transactions : trans'[t] = IF t \in pending THEN Blank("closed") ELSE trans[t]
  BY <1>1, <1>2, <1>7 DEF TransTypes
<1>9. mPendingQ' \in [Hosts -> Seq(Transactions)] /\ \A h \in Hosts : mPendingQ'[h] = << >>
  BY <1>1
<1>10. TransTypes' /\ AtHome'
  BY <1>4, <1>8, <1>9 DEF TransTypes, AtHome
<1>11. \A t \in Transactions : InPending(t)' = 0
  BY <1>9, CountEmpty, HttpAssumption DEF InPending
<1>12. ASSUME NEW t \in Transactions PROVE GoodTrans(t)'
  <2>1. GoodTrans(t) /\ InPending(t) \in Nat
    BY <1>2, PendingNat DEF TransInv
  <2>2. CASE t \in pending
    <3>1. InPending(t) > 0
      BY <1>6, <2>2
    <3>2. ~OnConnection(t) /\ InMessages(t) = 0
      <4>1. /\ ~OnConnection(t) /\ InMessages(t) + InPending(t) = 1
            /\ InMessages(t) \in Nat /\ InPending(t) \in Nat
        BY <3>1, OnItsWay
      <4> QED
        BY <3>1, <4>1
    <3>3. \A c \in Connections : conn'[c].mTransaction # t
      BY <1>5, <2>1, <3>2 DEF GoodTrans, Knows, OnConnection, SameForAll, SameFor
    <3>4. Knows(t)' /\ Wrote(t)' /\ Taken(t)'
      BY <1>7, <1>8, <2>2, <3>3 DEF Knows, Wrote, Taken
    <3>5. Placed(t)'
      BY <1>4, <1>7, <1>8, <1>11, <2>2, <3>2 DEF Placed, OnConnection
    <3> QED
      BY <3>4, <3>5 DEF GoodTrans
  <2>3. CASE t \notin pending
    <3>1. InPending(t) = 0
      BY <1>6, <2>1, <2>3
    <3> QED
      BY <1>4, <1>5, <1>8, <1>11, <2>1, <2>3, <3>1, UndisturbedBySame
  <2> QED
    BY <2>2, <2>3
<1> QED
  BY <1>5, <1>10, <1>12 DEF HttpState, TransInv

------------------------------------------------------------------------------
(* The messages that are left, and what Shutdown leaves.                     *)

Mild == {m \in Messages : m.type # "SHUTDOWN"}

LEMMA TailGood ==
    ASSUME HttpState, QueueInv, NEW type, Serves(type), type # "SHUTDOWN"
    PROVE  GoodQueue(Tail(eventQ)) /\ shutdown # "returned"
<1> DEFINE q == Tail(eventQ)
<1>1. eventQ \in Seq(Messages) /\ eventQ # << >> /\ Head(eventQ).type = type
  BY DEF HttpState, TransTypes, Serves
<1>2. /\ Head(eventQ) = eventQ[1] /\ q \in Seq(Messages) /\ Len(q) = Len(eventQ) - 1
      /\ \A i \in 1..Len(q) : q[i] = eventQ[i + 1]
  BY <1>1, HeadTailProperties
<1>3. Len(eventQ) \in Nat /\ Len(eventQ) # 0
  BY <1>1, LenProperties, EmptySeq
<1>4. shutdown # "returned"
  BY <1>1 DEF QueueInv, GoodQueue
<1> HIDE DEF q
<1>5. ASSUME NEW i \in 1..Len(q), q[i].type = "SHUTDOWN" PROVE shutdown = "waits" /\ i = Len(q)
  <2>1. i + 1 \in 1..Len(eventQ) /\ eventQ[i + 1].type = "SHUTDOWN"
    BY <1>2, <1>3, <1>5
  <2>2. shutdown = "waits" /\ i + 1 = Len(eventQ)
    BY <2>1 DEF QueueInv, GoodQueue
  <2> QED
    BY <1>2, <1>3, <2>2
<1>6. ASSUME shutdown = "waits" PROVE q # << >> /\ q[Len(q)].type = "SHUTDOWN"
  <2>1. eventQ[Len(eventQ)].type = "SHUTDOWN"
    BY <1>6 DEF QueueInv, GoodQueue
  <2>2. Len(eventQ) # 1
    BY <1>1, <1>2, <2>1
  <2>3. Len(q) \in 1..Len(q) /\ Len(q) + 1 = Len(eventQ)
    BY <1>2, <1>3, <2>2
  <2>4. q # << >>
    BY <2>3, EmptySeq
  <2>5. q[Len(q)] = eventQ[Len(q) + 1]
    BY <1>2, <2>3
  <2> QED
    BY <2>1, <2>3, <2>4, <2>5
<1>7. GoodQueue(q)
  BY <1>4, <1>5, <1>6 DEF GoodQueue
<1> QED
  BY <1>4, <1>7 DEF q

LEMMA PostedGood ==
    ASSUME NEW q \in Seq(Messages), NEW messages \in Seq(Mild), GoodQueue(q)
    PROVE  GoodQueue(Posted(q, messages))
<1>1. CASE shutdown # "none"
  BY <1>1 DEF Posted, mSTS
<1>2. CASE shutdown = "none"
  <2> DEFINE r == q \o messages
  <2>1. messages \in Seq(Messages) /\ \A i \in 1..Len(messages) : messages[i].type # "SHUTDOWN"
    <3>1. Mild \subseteq Messages
      BY DEF Mild
    <3>2. \A i \in 1..Len(messages) : messages[i] \in Mild
      BY ElementOfSeq
    <3> QED
      BY <3>1, <3>2 DEF Mild
  <2>2. /\ r \in Seq(Messages) /\ Len(r) = Len(q) + Len(messages)
        /\ \A i \in 1..Len(q) + Len(messages) : r[i] = IF i <= Len(q) THEN q[i] ELSE messages[i - Len(q)]
    BY <2>1, ConcatProperties
  <2>3. Len(q) \in Nat /\ Len(messages) \in Nat
    BY LenProperties
  <2>4. Posted(q, messages) = r
    BY <1>2 DEF Posted, mSTS
  <2> HIDE DEF r
  <2>5. ASSUME NEW i \in 1..Len(r) PROVE r[i].type # "SHUTDOWN"
    <3>1. CASE i <= Len(q)
      <4>1. i \in 1..Len(q) /\ r[i] = q[i]
        BY <2>2, <2>3, <3>1
      <4> QED
        BY <1>2, <4>1 DEF GoodQueue
    <3>2. CASE ~(i <= Len(q))
      <4>1. i - Len(q) \in 1..Len(messages) /\ r[i] = messages[i - Len(q)]
        BY <2>2, <2>3, <3>2
      <4> QED
        BY <2>1, <4>1
    <3> QED
      BY <3>1, <3>2
  <2> QED
    BY <1>2, <2>4, <2>5 DEF GoodQueue
<1> QED
  BY <1>1, <1>2

LEMMA MildMessages ==
    /\ \A t \in Transactions : <<NewTransaction(t)>> \in Seq(Mild)
    /\ \A t \in Transactions : <<Message("CANCEL_TRANSACTION", t, NoHost)>> \in Seq(Mild)
    /\ \A h \in Hosts : <<ProcessPendingQ(h)>> \in Seq(Mild)
    /\ << >> \in Seq(Mild)
<1>1. ASSUME NEW m \in Mild PROVE <<m>> \in Seq(Mild)
  OBVIOUS
<1>2. /\ \A t \in Transactions : NewTransaction(t) \in Mild /\ Message("CANCEL_TRANSACTION", t, NoHost) \in Mild
      /\ \A h \in Hosts : ProcessPendingQ(h) \in Mild
  BY MessageTypes, MessageFields DEF Mild
<1>3. << >> \in Seq(Mild)
  OBVIOUS
<1> QED
  BY <1>1, <1>2, <1>3

LEMMA ClosedGood ==
    ASSUME NEW q \in Seq(Messages), GoodQueue(q), NEW messages, Other(messages),
           NEW t \in Transactions, NEW reason, NEW asks, NEW forget,
           CloseTransaction(t, reason, asks, forget, q, messages), shutdown' = shutdown
    PROVE  GoodQueue(eventQ)'
<1> DEFINE first == IF Restarts(t, asks) THEN <<NewTransaction(t)>> ELSE << >>
           all == first \o messages
<1>1. first \in Seq(Mild) /\ messages \in Seq(Mild)
  BY MildMessages DEF Other
<1>2. eventQ' = Posted(q, all)
  BY DEF CloseTransaction
<1> HIDE DEF first
<1>3. all \in Seq(Mild)
  BY <1>1, ConcatProperties
<1> HIDE DEF all
<1>4. GoodQueue(Posted(q, all))
  BY <1>3, PostedGood
<1> QED
  BY <1>2, <1>4 DEF GoodQueue

LEMMA QueueAfterGood ==
    ASSUME HttpState, QueueInv, NEW c \in Connections, conn[c].mTransaction # NoTransaction, NEW hung
    PROVE  GoodQueue(QueueAfter(c, hung))
<1>1. eventQ \in Seq(Messages) /\ conn[c].mConnInfo \in Hosts /\ GoodQueue(eventQ)
  BY OwnerHost DEF HttpState, TransTypes, QueueInv
<1>2. GoodQueue(Posted(eventQ, <<ProcessPendingQ(conn[c].mConnInfo)>>))
  <2>1. <<ProcessPendingQ(conn[c].mConnInfo)>> \in Seq(Mild)
    BY <1>1, MildMessages
  <2> QED
    BY <1>1, <2>1, PostedGood
<1> QED
  BY <1>1, <1>2 DEF QueueAfter

LEMMA ConnectionClosesQueue ==
    ASSUME HttpState, QueueInv, shutdown' = shutdown,
           NEW c \in Connections, NEW t \in Transactions, conn[c].mTransaction = t,
           NEW reason, NEW asks, NEW forget, NEW keepAlive, NEW alive,
           NEW q \in Seq(Messages), GoodQueue(q),
           ConnectionCloses(c, reason, asks, forget, keepAlive, alive, q)
    PROVE  QueueInv'
<1> DEFINE m == <<ProcessPendingQ(conn[c].mConnInfo)>>
           reuse == keepAlive /\ alive /\ reason = "NS_OK" /\ conn[c].transport = "open"
<1>1. t # NoTransaction
  BY HttpAssumption
<1>2. conn[c].mConnInfo \in Hosts /\ Other(m)
  BY <1>1, OwnerHost DEF Other
<1>3. CloseTransaction(t, reason, asks, forget, q, m) /\ ReclaimConnection(c, reuse, keepAlive)
  BY DEF ConnectionCloses
<1> HIDE DEF m, reuse
<1>4. GoodQueue(eventQ)'
  BY <1>2, <1>3, ClosedGood
<1>5. Emptied'
  <2> SUFFICES ASSUME shutdown = "returned"
               PROVE  \A h \in Hosts : mActiveConns'[h] = {} /\ mIdleConns'[h] = << >> /\ mPendingQ'[h] = << >>
    BY DEF Emptied
  <2>1. \A h \in Hosts : mActiveConns[h] = {} /\ mIdleConns[h] = << >> /\ mPendingQ[h] = << >>
    BY DEF QueueInv, Emptied
  <2>2. conn[c].mConnInfo \notin mCT
    BY <2>1 DEF mCT
  <2>3. mActiveConns' = mActiveConns /\ mIdleConns' = mIdleConns /\ mPendingQ' = mPendingQ
    BY <1>3, <2>2 DEF ReclaimConnection
  <2> QED
    BY <2>1, <2>3
<1> QED
  BY <1>4, <1>5 DEF QueueInv

\* The table stays empty in a step that does not serve Shutdown's message and that does not touch
\* it, or that no step takes once Shutdown has returned.
LEMMA NotReturned ==
    ASSUME shutdown' = shutdown, shutdown # "returned", GoodQueue(eventQ)'
    PROVE  QueueInv'
<1>1. Emptied'
  BY DEF Emptied
<1> QED
  BY <1>1 DEF QueueInv

LEMMA SameQueue ==
    ASSUME QueueInv, shutdown' = shutdown, eventQ' = eventQ, shutdown # "returned" \/ UNCHANGED mgrVars
    PROVE  QueueInv'
<1>1. GoodQueue(eventQ)'
  BY DEF QueueInv, GoodQueue
<1>2. Emptied'
  BY DEF QueueInv, Emptied, mgrVars
<1> QED
  BY <1>1, <1>2 DEF QueueInv

LEMMA PostsQueue ==
    ASSUME HttpState, QueueInv, shutdown' = shutdown, shutdown # "returned",
           NEW messages \in Seq(Mild), eventQ' = Posted(eventQ, messages)
    PROVE  QueueInv'
<1>1. eventQ \in Seq(Messages) /\ GoodQueue(eventQ)
  BY DEF HttpState, TransTypes, QueueInv
<1>2. GoodQueue(Posted(eventQ, messages))
  BY <1>1, PostedGood
<1>3. GoodQueue(eventQ)'
  BY <1>2 DEF GoodQueue
<1> QED
  BY <1>3, NotReturned

LEMMA AddTransactionQueue ==
    ASSUME HttpState, QueueInv, NEW t \in Transactions, AddTransaction(t)
    PROVE  QueueInv'
<1> DEFINE m == <<NewTransaction(t)>>
<1>1. m \in Seq(Mild)
  BY MildMessages
<1>2. shutdown' = shutdown /\ shutdown # "returned" /\ eventQ' = Posted(eventQ, m)
  BY DEF AddTransaction, clientVars, mSTS
<1> HIDE DEF m
<1> QED
  BY <1>1, <1>2, PostsQueue

LEMMA CancelTransactionQueue ==
    ASSUME HttpState, QueueInv, NEW t \in Transactions, CancelTransaction(t)
    PROVE  QueueInv'
<1> DEFINE m == <<Message("CANCEL_TRANSACTION", t, NoHost)>>
<1>1. m \in Seq(Mild)
  BY MildMessages
<1>2. shutdown' = shutdown /\ shutdown # "returned" /\ eventQ' = Posted(eventQ, m)
  BY DEF CancelTransaction, mSTS
<1> HIDE DEF m
<1> QED
  BY <1>1, <1>2, PostsQueue

\* Shutdown's message is the last one: there is none before it, and none is posted after it.
LEMMA ShutdownQueue ==
    ASSUME HttpState, QueueInv, Shutdown
    PROVE  QueueInv'
<1> DEFINE m == Message("SHUTDOWN", NoTransaction, NoHost)
           q == eventQ \o <<m>>
<1>1. shutdown = "none" /\ shutdown' = "waits" /\ eventQ' = q
  BY DEF Shutdown, Posted, mSTS
<1>2. eventQ \in Seq(Messages) /\ m \in Messages /\ m.type = "SHUTDOWN"
  BY MessageTypes, MessageFields DEF HttpState, TransTypes
<1> HIDE DEF m
<1>3. Len(eventQ) \in Nat /\ <<m>> \in Seq(Messages) /\ Len(<<m>>) = 1
  BY <1>2, LenProperties
<1>4. /\ Len(q) = Len(eventQ) + 1
      /\ \A i \in 1..Len(eventQ) : q[i] = eventQ[i]
      /\ q[Len(eventQ) + 1] = m
      /\ q # << >>
  BY <1>2, <1>3
<1> HIDE DEF q
<1>5. \A i \in 1..Len(eventQ) : eventQ[i].type # "SHUTDOWN"
  BY <1>1 DEF QueueInv, GoodQueue
<1>6. ASSUME NEW i \in 1..Len(q), q[i].type = "SHUTDOWN" PROVE i = Len(q)
  BY <1>3, <1>4, <1>5, <1>6
<1>7. q[Len(q)].type = "SHUTDOWN"
  BY <1>2, <1>4
<1>8. GoodQueue(eventQ)'
  BY <1>1, <1>4, <1>6, <1>7 DEF GoodQueue
<1>9. Emptied'
  BY <1>1 DEF Emptied
<1> QED
  BY <1>8, <1>9 DEF QueueInv

LEMMA ReadsQueue ==
    ASSUME HttpState, QueueInv, NEW c \in Connections, NEW keepAlive, NEW hung, NEW full,
           Reads(c, keepAlive, hung, full)
    PROVE  QueueInv'
<1>1. conn[c].mTransaction # NoTransaction /\ shutdown' = shutdown /\ eventQ' = QueueAfter(c, hung) /\ UNCHANGED mgrVars
  BY DEF Reads, Waits, Hangs
<1>2. GoodQueue(QueueAfter(c, hung))
  BY <1>1, QueueAfterGood
<1>3. GoodQueue(eventQ)'
  BY <1>1, <1>2 DEF GoodQueue
<1>4. Emptied'
  BY <1>1 DEF QueueInv, Emptied, mgrVars
<1> QED
  BY <1>3, <1>4 DEF QueueInv

LEMMA TimesOutQueue ==
    ASSUME HttpState, QueueInv, NEW c \in Connections, NEW hung \in BOOLEAN, TimesOut(c, hung)
    PROVE  QueueInv'
<1> DEFINE q == QueueAfter(c, hung)
<1>1. /\ conn[c].mTransaction # NoTransaction /\ shutdown' = shutdown
      /\ ConnectionCloses(c, "NET_RESET", TRUE, TRUE, FALSE, TRUE, q)
  BY DEF TimesOut, Waits, Hangs
<1>2. PICK t \in Transactions : conn[c].mTransaction = t
  BY <1>1 DEF HttpState, ConnState, ListTypes, ConnInfo
<1>3. q \in Seq(Messages) /\ GoodQueue(q)
  BY <1>1, QueueAfterFacts, QueueAfterGood
<1> HIDE DEF q
<1> QED
  BY <1>1, <1>2, <1>3, ConnectionClosesQueue, Zenon

LEMMA EndsQueue ==
    ASSUME HttpState, QueueInv, NEW c \in Connections, NEW reason, NEW alive,
           NEW hung \in BOOLEAN, Ends(c, reason, alive, hung)
    PROVE  QueueInv'
<1>1. conn[c].mTransaction # NoTransaction /\ shutdown' = shutdown /\ conn[c] \in ConnInfo
  BY DEF Ends, Hangs, HttpState, ConnState, ListTypes
<1>2. PICK t \in Transactions : conn[c].mTransaction = t
  BY <1>1 DEF ConnInfo
<1> DEFINE q == QueueAfter(c, hung)
           asks == AsksToRestart(t, reason, conn[c].mIsReused)
           keepAlive == conn[c].mKeepAlive /\ ~hung
<1>3. ConnectionCloses(c, reason, asks, FALSE, keepAlive, alive, q)
  BY <1>2 DEF Ends
<1>4. q \in Seq(Messages) /\ GoodQueue(q)
  BY <1>1, QueueAfterFacts, QueueAfterGood
<1> HIDE DEF q, asks, keepAlive
<1> QED
  BY <1>1, <1>2, <1>3, <1>4, ConnectionClosesQueue, Zenon

LEMMA ServeNewTransactionQueue ==
    ASSUME HttpState, QueueInv, ServeNewTransaction
    PROVE  QueueInv'
<1> DEFINE q == Tail(eventQ)
<1>1. Serves("NEW_TRANSACTION") /\ shutdown' = shutdown /\ TransTypes
  BY DEF ServeNewTransaction, clientVars, HttpState
<1>2. Head(eventQ) \in Messages /\ Head(eventQ).type = "NEW_TRANSACTION" /\ q \in Seq(Messages)
  BY <1>1, Served
<1>3. PICK t \in Transactions : Head(eventQ).trans = t
  BY <1>2, MessageKinds
<1>4. GoodQueue(q) /\ shutdown # "returned"
  BY <1>1, TailGood
<1>5. eventQ' = q \/ CloseTransaction(t, "ABORT", FALSE, FALSE, q, << >>)
  BY <1>3 DEF ServeNewTransaction
<1>6. Other(<< >>)
  BY DEF Other
<1> HIDE DEF q
<1>7. ASSUME eventQ' = q PROVE GoodQueue(eventQ)'
  BY <1>1, <1>4, <1>7 DEF GoodQueue
<1>8. ASSUME CloseTransaction(t, "ABORT", FALSE, FALSE, q, << >>) PROVE GoodQueue(eventQ)'
  BY <1>1, <1>2, <1>4, <1>6, <1>8, ClosedGood, Zenon
<1>9. GoodQueue(eventQ)'
  BY <1>5, <1>7, <1>8
<1> QED
  BY <1>1, <1>4, <1>9, NotReturned

LEMMA ServeCancelTransactionQueue ==
    ASSUME HttpState, QueueInv, ServeCancelTransaction
    PROVE  QueueInv'
<1> DEFINE q == Tail(eventQ)
<1>1. Serves("CANCEL_TRANSACTION") /\ shutdown' = shutdown /\ TransTypes
  BY DEF ServeCancelTransaction, clientVars, HttpState
<1>2. Head(eventQ) \in Messages /\ Head(eventQ).type = "CANCEL_TRANSACTION" /\ q \in Seq(Messages)
  BY <1>1, Served
<1>3. PICK t \in Transactions : Head(eventQ).trans = t
  BY <1>2, MessageKinds
<1>4. GoodQueue(q) /\ shutdown # "returned" /\ GoodTrans(t)
  BY <1>1, TailGood DEF HttpState, TransInv
<1>5. Other(<< >>)
  BY DEF Other
<1>6. CASE trans[t].mConnection \in Connections
  <2>1. PICK c \in Connections : trans[t].mConnection = c
    BY <1>6
  <2>2. conn[c].mTransaction = t
    BY <1>4, <2>1 DEF GoodTrans, Knows
  <2>3. ConnectionCloses(c, "ABORT", FALSE, FALSE, FALSE, TRUE, q)
    <3>1. c # Orphan /\ c # NoConnection
      BY HttpAssumption
    <3> QED
      BY <1>3, <2>1, <3>1 DEF ServeCancelTransaction
  <2> HIDE DEF q
  <2> QED
    BY <1>1, <1>2, <1>4, <2>2, <2>3, ConnectionClosesQueue, Zenon
<1>7. CASE eventQ' = eventQ
  <2>1. GoodQueue(eventQ)'
    BY <1>1, <1>7 DEF QueueInv, GoodQueue
  <2> QED
    BY <1>1, <1>4, <2>1, NotReturned
<1>8. CASE eventQ' = q \/ CloseTransaction(t, "ABORT", FALSE, FALSE, q, << >>)
  <2> HIDE DEF q
  <2>1. ASSUME eventQ' = q PROVE GoodQueue(eventQ)'
    BY <1>1, <1>4, <2>1 DEF GoodQueue
  <2>2. ASSUME CloseTransaction(t, "ABORT", FALSE, FALSE, q, << >>) PROVE GoodQueue(eventQ)'
    BY <1>1, <1>2, <1>4, <1>5, <2>2, ClosedGood, Zenon
  <2>3. GoodQueue(eventQ)'
    BY <1>8, <2>1, <2>2
  <2> QED
    BY <1>1, <1>4, <2>3, NotReturned
<1>9. \/ trans[t].mConnection \in Connections
      \/ eventQ' = eventQ
      \/ eventQ' = q \/ CloseTransaction(t, "ABORT", FALSE, FALSE, q, << >>)
  BY <1>3 DEF ServeCancelTransaction
<1> QED
  BY <1>6, <1>7, <1>8, <1>9

LEMMA ServeProcessPendingQQueue ==
    ASSUME HttpState, QueueInv, ServeProcessPendingQ
    PROVE  QueueInv'
<1>1. Serves("PROCESS_PENDING_Q") /\ shutdown' = shutdown /\ eventQ' = Tail(eventQ)
  BY DEF ServeProcessPendingQ, clientVars
<1>2. GoodQueue(Tail(eventQ)) /\ shutdown # "returned"
  BY <1>1, TailGood
<1>3. GoodQueue(eventQ)'
  BY <1>1, <1>2 DEF GoodQueue
<1> QED
  BY <1>1, <1>2, <1>3, NotReturned

LEMMA ServeShutdownQueue ==
    ASSUME HttpState, QueueInv, ServeShutdown
    PROVE  QueueInv'
<1>1. Serves("SHUTDOWN") /\ shutdown' = "returned" /\ eventQ' = Tail(eventQ)
  BY DEF ServeShutdown
<1>2. eventQ \in Seq(Messages) /\ eventQ # << >> /\ Head(eventQ).type = "SHUTDOWN"
  BY <1>1 DEF HttpState, TransTypes, Serves
<1>3. Head(eventQ) = eventQ[1] /\ Tail(eventQ) \in Seq(Messages) /\ Len(Tail(eventQ)) = Len(eventQ) - 1
  BY <1>2, HeadTailProperties
<1>4. 1 \in 1..Len(eventQ)
  <2>1. Len(eventQ) \in Nat /\ Len(eventQ) # 0
    BY <1>2, LenProperties, EmptySeq
  <2> QED
    BY <2>1
<1>5. 1 = Len(eventQ)
  BY <1>2, <1>3, <1>4 DEF QueueInv, GoodQueue
<1>6. Tail(eventQ) = << >>
  <2>0. Len(Tail(eventQ)) = 1 - 1
    BY <1>3, <1>5, Zenon
  <2>1. Len(Tail(eventQ)) = 0
    BY <2>0
  <2>2. Tail(eventQ) # << >> => Len(Tail(eventQ)) # 0
    BY <1>3, EmptySeq
  <2> QED
    BY <2>1, <2>2
<1>7. GoodQueue(eventQ)'
  BY <1>1, <1>6 DEF GoodQueue
<1>8. Emptied'
  BY ShutdownConn DEF HttpState, Emptied
<1> QED
  BY <1>7, <1>8 DEF QueueInv

------------------------------------------------------------------------------
(* The invariant.                                                            *)

MiscTypes == shutdown \in {"none", "waits", "returned"} /\ incidents \in Nat /\ crashed \in BOOLEAN

LEMMA InvParts == HttpInv <=> MiscTypes /\ HttpState /\ QueueInv
  BY DEF HttpInv, TypeOK, MiscTypes, HttpState, ConnState, ListTypes, TransTypes

LEMMA MiscStep ==
    ASSUME MiscTypes, Next
    PROVE  MiscTypes'
<1>1. ASSUME NEW c \in Connections, NEW hung \in BOOLEAN, Hangs(c, hung)
      PROVE  shutdown' = shutdown /\ incidents' \in Nat
  BY <1>1 DEF MiscTypes, Hangs, Incident
<1>2. CASE Serve
  <2>1. ASSUME ServeNewTransaction \/ ServeCancelTransaction \/ ServeProcessPendingQ \/ ServeShutdown
        PROVE  shutdown' \in {shutdown, "returned"} /\ incidents' = incidents /\ crashed' \in {crashed, TRUE}
    <3>1. CASE ServeNewTransaction
      BY <3>1 DEF ServeNewTransaction, clientVars
    <3>2. CASE ServeCancelTransaction
      BY <3>2 DEF ServeCancelTransaction, clientVars
    <3>3. CASE ServeProcessPendingQ
      BY <3>3 DEF ServeProcessPendingQ, clientVars
    <3>4. CASE ServeShutdown
      BY <3>4 DEF ServeShutdown
    <3> QED
      BY <2>1, <3>1, <3>2, <3>3, <3>4
  <2> QED
    BY <1>2, <2>1 DEF Serve, MiscTypes
<1>3. ASSUME NEW c \in Connections, EndsSomehow(c) PROVE MiscTypes'
  <2>1. PICK reason \in Reasons, alive \in BOOLEAN, hung \in BOOLEAN : Ends(c, reason, alive, hung)
    BY <1>3 DEF EndsSomehow
  <2>2. Hangs(c, hung) /\ crashed' = crashed
    BY <2>1 DEF Ends
  <2> QED
    BY <1>1, <2>2 DEF MiscTypes
<1>4. ASSUME NEW t \in Transactions, AddTransaction(t) PROVE MiscTypes'
  BY <1>4 DEF AddTransaction, clientVars, MiscTypes
<1>5. ASSUME NEW t \in Transactions, CancelTransaction(t) PROVE MiscTypes'
  BY <1>5 DEF CancelTransaction, Incident, MiscTypes
<1>6. CASE ServePruneDeadConnections
  BY <1>6 DEF ServePruneDeadConnections, Incident, MiscTypes
<1>7. CASE Shutdown
  BY <1>7 DEF Shutdown, MiscTypes
<1>8. ASSUME NEW c \in Connections, Writes(c) PROVE MiscTypes'
  BY <1>8 DEF Writes, clientVars, MiscTypes
<1>9. ASSUME NEW c \in Connections, NEW keepAlive \in BOOLEAN, NEW hung \in BOOLEAN, NEW full \in BOOLEAN,
             Reads(c, keepAlive, hung, full)
      PROVE  MiscTypes'
  <2>1. Hangs(c, hung) /\ crashed' = crashed
    BY <1>9 DEF Reads
  <2> QED
    BY <1>1, <2>1 DEF MiscTypes
<1>10. ASSUME NEW c \in Connections, NEW hung \in BOOLEAN, TimesOut(c, hung) PROVE MiscTypes'
  <2>1. Hangs(c, hung) /\ crashed' = crashed
    BY <1>10 DEF TimesOut
  <2> QED
    BY <1>1, <2>1 DEF MiscTypes
<1>11. ASSUME NEW c \in Connections, OnOutputStreamReady(c) PROVE MiscTypes'
  BY <1>11 DEF OnOutputStreamReady, clientVars, MiscTypes
<1> QED
  BY <1>2, <1>3, <1>4, <1>5, <1>6, <1>7, <1>8, <1>9, <1>10, <1>11 DEF Next, Resumes

LEMMA NextStep ==
    ASSUME HttpState, QueueInv, Next
    PROVE  HttpState' /\ QueueInv'
<1>1. CASE ServeNewTransaction
  <2>1. shutdown # "returned"
    BY <1>1, TailGood DEF ServeNewTransaction
  <2> QED
    BY <1>1, <2>1, ServeNewTransactionStep, ServeNewTransactionQueue
<1>2. CASE ServeCancelTransaction
  <2>1. shutdown # "returned" /\ Emptied
    BY <1>2, TailGood DEF ServeCancelTransaction, QueueInv
  <2> QED
    BY <1>2, <2>1, ServeCancelTransactionStep, ServeCancelTransactionQueue
<1>3. CASE ServeProcessPendingQ
  <2>1. shutdown # "returned"
    BY <1>3, TailGood DEF ServeProcessPendingQ
  <2> QED
    BY <1>3, <2>1, ServeProcessPendingQStep, ServeProcessPendingQQueue
<1>4. CASE ServeShutdown
  BY <1>4, ServeShutdownStep, ServeShutdownQueue
<1>5. ASSUME NEW c \in Connections, EndsSomehow(c) PROVE HttpState' /\ QueueInv'
  <2>1. PICK reason \in Reasons, alive \in BOOLEAN, hung \in BOOLEAN : Ends(c, reason, alive, hung)
    BY <1>5 DEF EndsSomehow
  <2>2. Emptied
    BY DEF QueueInv
  <2> QED
    BY <2>1, <2>2, EndsStep, EndsQueue
<1>6. ASSUME NEW t \in Transactions, AddTransaction(t) PROVE HttpState' /\ QueueInv'
  BY <1>6, AddTransactionStep, AddTransactionQueue
<1>7. ASSUME NEW t \in Transactions, CancelTransaction(t) PROVE HttpState' /\ QueueInv'
  BY <1>7, CancelTransactionStep, CancelTransactionQueue
<1>8. CASE ServePruneDeadConnections
  <2>1. shutdown' = shutdown /\ eventQ' = eventQ /\ shutdown # "returned"
    BY <1>8 DEF ServePruneDeadConnections
  <2> QED
    BY <1>8, <2>1, PruneStep, SameQueue
<1>9. CASE Shutdown
  BY <1>9, ShutdownStep, ShutdownQueue
<1>10. ASSUME NEW c \in Connections, Writes(c) PROVE HttpState' /\ QueueInv'
  <2>1. shutdown' = shutdown /\ eventQ' = eventQ /\ UNCHANGED mgrVars
    BY <1>10 DEF Writes, clientVars
  <2> QED
    BY <1>10, <2>1, WritesStep, SameQueue
<1>11. ASSUME NEW c \in Connections, NEW keepAlive \in BOOLEAN, NEW hung \in BOOLEAN, NEW full \in BOOLEAN,
              Reads(c, keepAlive, hung, full)
       PROVE  HttpState' /\ QueueInv'
  BY <1>11, ReadsStep, ReadsQueue
<1>12. ASSUME NEW c \in Connections, NEW hung \in BOOLEAN, TimesOut(c, hung) PROVE HttpState' /\ QueueInv'
  <2>1. Emptied
    BY DEF QueueInv
  <2> QED
    BY <1>12, <2>1, TimesOutStep, TimesOutQueue
<1>13. ASSUME NEW c \in Connections, OnOutputStreamReady(c) PROVE HttpState' /\ QueueInv'
  <2>1. shutdown' = shutdown /\ eventQ' = eventQ /\ UNCHANGED mgrVars
    BY <1>13 DEF OnOutputStreamReady, clientVars
  <2> QED
    BY <1>13, <2>1, ResumesStep, SameQueue
<1> QED
  BY <1>1, <1>2, <1>3, <1>4, <1>5, <1>6, <1>7, <1>8, <1>9, <1>10, <1>11, <1>12, <1>13 DEF Next, Serve, Resumes

LEMMA StutterStep ==
    ASSUME HttpInv, UNCHANGED vars
    PROVE  HttpInv'
<1>1. /\ UNCHANGED <<eventQ, mPendingQ, mActiveConns, mIdleConns, mNumActiveConns, mNumIdleConns, conn, trans>>
      /\ UNCHANGED <<shutdown, incidents, crashed>>
  BY DEF vars, mgrVars, clientVars
<1>2. TypeOK' /\ LimitsHold'
  BY <1>1 DEF HttpInv, ConnInv, TypeOK, LimitsHold
<1>3. ListsInv'
  BY <1>1 DEF HttpInv, ConnInv, ListsInv, ActiveOf, IdleOf, Closing, Active, Idle
<1>4. TransInv'
  BY <1>1 DEF HttpInv, TransInv, AtHome, GoodTrans, Knows, Placed, Wrote, Taken, InMessages, InQueue,
              InPending, OnConnection
<1>5. QueueInv'
  BY <1>1 DEF HttpInv, QueueInv, GoodQueue, Emptied
<1> QED
  BY <1>2, <1>3, <1>4, <1>5 DEF HttpInv, ConnInv

LEMMA InitInv == Init => HttpInv
<1> SUFFICES ASSUME Init PROVE HttpInv
  OBVIOUS
<1>1. /\ \A h \in Hosts : mActiveConns[h] = {} /\ mIdleConns[h] = << >> /\ mPendingQ[h] = << >>
      /\ mNumActiveConns = 0 /\ mNumIdleConns = 0 /\ shutdown = "none" /\ eventQ = << >>
  BY DEF Init
<1>2. Active = {} /\ Idle = {}
  <2>1. \A h \in Hosts : Elements(mIdleConns[h]) = {}
    BY <1>1, EmptyList
  <2> QED
    BY <1>1, <2>1 DEF Active, Idle, IdleConns
<1>3. /\ Blank("unused") \in TransInfo /\ Blank("unused").status = "unused" /\ Blank("unused").taken = FALSE
      /\ Blank("unused").mConnection = NoConnection /\ NoConnection \notin Connections
  BY BlankFacts
<1>4. /\ Free \in ConnInfo /\ Free.mTransaction = NoTransaction /\ NoTransaction \notin Transactions
      /\ conn \in [Connections -> ConnInfo] /\ \A c \in Connections : conn[c] = Free
  BY HttpAssumption DEF Init, Free, ConnInfo
<1>5. /\ trans \in [Transactions -> TransInfo] /\ \A t \in Transactions : trans[t] = Blank("unused")
      /\ mPendingQ \in [Hosts -> Seq(Transactions)] /\ eventQ \in Seq(Messages)
  BY <1>3 DEF Init
<1>6. TypeOK
  <2>1. mActiveConns \in [Hosts -> SUBSET Connections] /\ mIdleConns \in [Hosts -> Seq(Connections)]
    BY EmptyList DEF Init
  <2>2. mNumActiveConns \in Nat /\ mNumIdleConns \in Nat /\ incidents \in Nat
    BY DEF Init
  <2>3. shutdown = "none" /\ crashed \in BOOLEAN
    BY DEF Init
  <2> QED
    BY <1>4, <1>5, <2>1, <2>2, <2>3 DEF TypeOK
<1>7. ListsInv
  BY <1>1, <1>2, <1>4, EmptyList DEF ListsInv
<1>8. LimitsHold
  <2>1. Cardinality({}) = 0
    BY FS_EmptySet
  <2>2. UNION {mActiveConns[h] : h \in Hosts} = {} /\ IdleConns(mIdleConns) = {}
    BY <1>2 DEF Active, Idle
  <2>3. mNumActiveConns + mNumIdleConns <= mMaxConns
    BY <1>1, HttpAssumption
  <2>4. \A h \in Hosts : Cardinality(mActiveConns[h]) <= mMaxConnsPerHost
    <3>1. 0 <= mMaxConnsPerHost
      BY HttpAssumption
    <3>2. \A h \in Hosts : Cardinality(mActiveConns[h]) = 0
      BY <1>1, <2>1, Zenon
    <3> QED
      BY <3>1, <3>2
  <2> QED
    BY <1>1, <2>1, <2>2, <2>3, <2>4 DEF LimitsHold
<1>9. ASSUME NEW t \in Transactions PROVE GoodTrans(t)
  <2>1. InMessages(t) = 0 /\ InPending(t) = 0
    <3>1. ConnectionInfo[t] \in Hosts
      BY HttpAssumption
    <3>2. mPendingQ[ConnectionInfo[t]] = << >>
      BY <1>1, <3>1
    <3> QED
      BY <1>1, <3>2, CountEmpty DEF InMessages, InQueue, InPending
  <2>2. trans[t] = Blank("unused") /\ ~OnConnection(t)
    BY <1>3, <1>5 DEF OnConnection
  <2>3. Placed(t) /\ Taken(t)
    BY <1>3, <2>1, <2>2 DEF Placed, Taken
  <2>4. Knows(t) /\ Wrote(t)
    BY <1>3, <1>4, <2>2 DEF Knows, Wrote
  <2> QED
    BY <2>3, <2>4 DEF GoodTrans
<1>10. AtHome
  BY <1>1, EmptyList DEF AtHome
<1>11. QueueInv
  BY <1>1, EmptyList DEF QueueInv, GoodQueue, Emptied
<1> QED
  BY <1>6, <1>7, <1>8, <1>9, <1>10, <1>11 DEF HttpInv, ConnInv, TransInv

LEMMA HttpInvHolds == Spec => []HttpInv
<1>1. Init => HttpInv
  BY InitInv
<1>2. HttpInv /\ [Next]_vars => HttpInv'
  <2> SUFFICES ASSUME HttpInv, [Next]_vars PROVE HttpInv'
    OBVIOUS
  <2>1. CASE Next
    <3>1. MiscTypes /\ HttpState /\ QueueInv
      BY InvParts
    <3>2. MiscTypes' /\ HttpState' /\ QueueInv'
      BY <2>1, <3>1, MiscStep, NextStep
    <3> QED
      BY <3>2 DEF HttpInv, TypeOK, MiscTypes, HttpState, ConnState, ListTypes, TransTypes
  <2>2. CASE UNCHANGED vars
    BY <2>2, StutterStep
  <2> QED
    BY <2>1, <2>2
<1> QED
  BY <1>1, <1>2, PTL DEF Spec

------------------------------------------------------------------------------
(* What follows from it.                                                     *)

\* What of t there is, in terms of the invariant.
LEMMA PlacesAre ==
    ASSUME HttpState, NEW t \in Transactions
    PROVE  Places(t) = {<<"message", i>> : i \in At(eventQ, {NewTransaction(t)})}
                       \union {<<"pending", ConnectionInfo[t], i>> : i \in At(mPendingQ[ConnectionInfo[t]], {t})}
                       \union {<<"connection", c>> : c \in Connections \cap {trans[t].mConnection}}
<1> DEFINE g == ConnectionInfo[t]
           held == {d \in Connections : conn[d].mTransaction = t}
<1>1. /\ eventQ \in Seq(Messages) /\ \A h \in Hosts : mPendingQ[h] \in Seq(Transactions)
      /\ AtHome /\ Knows(t) /\ g \in Hosts
  BY HttpAssumption DEF HttpState, TransTypes, TransInv, GoodTrans
<1>2. {j \in DOMAIN eventQ : eventQ[j] = NewTransaction(t)} = At(eventQ, {NewTransaction(t)})
  BY <1>1, LenProperties DEF At
<1>3. {i \in DOMAIN mPendingQ[g] : mPendingQ[g][i] = t} = At(mPendingQ[g], {t})
  BY <1>1, LenProperties DEF At
<1>4. ASSUME NEW h \in Hosts, h # g PROVE {i \in DOMAIN mPendingQ[h] : mPendingQ[h][i] = t} = {}
  <2>1. DOMAIN mPendingQ[h] = 1..Len(mPendingQ[h])
    BY <1>1, LenProperties
  <2> QED
    BY <1>1, <1>4, <2>1 DEF AtHome
<1>5. held = Connections \cap {trans[t].mConnection}
  BY <1>1 DEF Knows
<1>6. UNION {{<<"pending", h, i>> : i \in {j \in DOMAIN mPendingQ[h] : mPendingQ[h][j] = t}} : h \in Hosts}
        = {<<"pending", g, i>> : i \in At(mPendingQ[g], {t})}
  <2> DEFINE of(h) == {<<"pending", h, i>> : i \in {j \in DOMAIN mPendingQ[h] : mPendingQ[h][j] = t}}
  <2>1. of(g) = {<<"pending", g, i>> : i \in At(mPendingQ[g], {t})}
    BY <1>3
  <2>2. \A h \in Hosts : h # g => of(h) = {}
    BY <1>4
  <2> HIDE DEF of, g
  <2>3. UNION {of(h) : h \in Hosts} = of(g)
    BY <1>1, <2>2
  <2> USE DEF of
  <2> QED
    BY <2>1, <2>3
<1> DEFINE inMessages == {<<"message", i>> : i \in At(eventQ, {NewTransaction(t)})}
           inPending == {<<"pending", g, i>> : i \in At(mPendingQ[g], {t})}
           onConnection == {<<"connection", c>> : c \in Connections \cap {trans[t].mConnection}}
<1>7. inMessages = {<<"message", i>> : i \in {j \in DOMAIN eventQ : eventQ[j] = NewTransaction(t)}}
  BY <1>2
<1>8. onConnection = {<<"connection", c>> : c \in held}
  BY <1>5
<1>9. UNION {{<<"pending", h, i>> : i \in {j \in DOMAIN mPendingQ[h] : mPendingQ[h][j] = t}} : h \in Hosts} = inPending
  BY <1>6
<1>10. Places(t) = inMessages \union inPending \union onConnection
  <2> HIDE DEF inMessages, inPending, onConnection
  <2> QED
    BY <1>7, <1>8, <1>9, Zenon DEF Places
<1> QED
  BY <1>10

LEMMA CountedAt ==
    ASSUME NEW S, NEW s \in Seq(S), NEW A
    PROVE  /\ Count(s, A) = 0 => At(s, A) = {}
           /\ Count(s, A) = 1 => \E i : At(s, A) = {i}
           /\ Count(s, A) \in Nat
<1>1. IsFiniteSet(At(s, A))
  <2>1. At(s, A) \subseteq 1..Len(s) /\ Len(s) \in Nat
    BY LenProperties DEF At
  <2>2. IsFiniteSet(1..Len(s))
    BY <2>1, FS_Interval
  <2> QED
    BY <2>1, <2>2, FS_Subset
<1>2. Count(s, A) = 0 => At(s, A) = {}
  BY <1>1, FS_EmptySet DEF Count
<1>3. Count(s, A) = 1 => \E i : At(s, A) = {i}
  BY <1>1, FS_Singleton DEF Count
<1> QED
  BY <1>2, <1>3, CountType

\* The places of t, of which there are so many in messages, in its pending queue and on connections.
LEMMA PlacesOf ==
    ASSUME HttpState, NEW t \in Transactions
    PROVE  /\ InMessages(t) = 0 /\ InPending(t) = 0 /\ ~OnConnection(t) => Places(t) = {}
           /\ InMessages(t) = 1 /\ InPending(t) = 0 /\ ~OnConnection(t) =>
                  \E i \in DOMAIN eventQ : Places(t) = {<<"message", i>>}
           /\ InMessages(t) = 0 /\ InPending(t) = 1 /\ ~OnConnection(t) => \E p : Places(t) = {p}
           /\ InMessages(t) = 0 /\ InPending(t) = 0 /\ OnConnection(t) =>
                  Places(t) = {<<"connection", trans[t].mConnection>>}
<1> DEFINE g == ConnectionInfo[t]
           m == At(eventQ, {NewTransaction(t)})
           p == At(mPendingQ[g], {t})
           k == Connections \cap {trans[t].mConnection}
<1>1. Places(t) = {<<"message", i>> : i \in m} \union {<<"pending", g, i>> : i \in p} \union {<<"connection", c>> : c \in k}
  BY PlacesAre
<1>2. eventQ \in Seq(Messages) /\ mPendingQ[g] \in Seq(Transactions)
  BY HttpAssumption DEF HttpState, TransTypes
<1>3. (InMessages(t) = 0 => m = {}) /\ (InMessages(t) = 1 => \E i \in DOMAIN eventQ : m = {i})
  <2>1. (InMessages(t) = 0 => m = {}) /\ (InMessages(t) = 1 => \E i : m = {i})
    BY <1>2, CountedAt DEF InMessages, InQueue
  <2>2. m \subseteq DOMAIN eventQ
    BY <1>2, LenProperties DEF At
  <2> QED
    BY <2>1, <2>2
<1>4. (InPending(t) = 0 => p = {}) /\ (InPending(t) = 1 => \E i : p = {i})
  BY <1>2, CountedAt DEF InPending
<1>5. (~OnConnection(t) => k = {}) /\ (OnConnection(t) => k = {trans[t].mConnection})
  BY DEF OnConnection
<1> HIDE DEF g, m, p, k
<1>6. ASSUME m = {}, p = {}, k = {} PROVE Places(t) = {}
  BY <1>1, <1>6
<1>7. ASSUME NEW i \in DOMAIN eventQ, m = {i}, p = {}, k = {} PROVE Places(t) = {<<"message", i>>}
  BY <1>1, <1>7
<1>8. ASSUME NEW i, m = {}, p = {i}, k = {} PROVE Places(t) = {<<"pending", g, i>>}
  BY <1>1, <1>8
<1>9. ASSUME m = {}, p = {}, k = {trans[t].mConnection} PROVE Places(t) = {<<"connection", trans[t].mConnection>>}
  BY <1>1, <1>9
<1>10. InMessages(t) = 1 /\ InPending(t) = 0 /\ ~OnConnection(t) =>
           \E i \in DOMAIN eventQ : Places(t) = {<<"message", i>>}
  BY <1>3, <1>4, <1>5, <1>7, Zenon
<1>11. InMessages(t) = 0 /\ InPending(t) = 1 /\ ~OnConnection(t) => \E x : Places(t) = {x}
  BY <1>3, <1>4, <1>5, <1>8, Zenon
<1> QED
  BY <1>3, <1>4, <1>5, <1>6, <1>9, <1>10, <1>11, Zenon

LEMMA OnePlaceFollows == HttpInv => OnePlace
<1> SUFFICES ASSUME HttpInv, NEW t \in Transactions
             PROVE  /\ trans[t].status = "open" => Cardinality(Places(t)) = 1
                    /\ trans[t].status = "failed" => Places(t) \subseteq {<<"message", i>> : i \in DOMAIN eventQ}
                    /\ trans[t].status \in {"unused", "closed"} => Places(t) = {}
                    /\ \A c \in Connections : trans[t].mConnection = c <=> conn[c].mTransaction = t
  BY DEF OnePlace
<1>1. HttpState /\ TransTypes /\ Placed(t) /\ Knows(t)
  BY InvParts DEF HttpState, TransInv, GoodTrans
<1>2. InMessages(t) \in Nat /\ InPending(t) \in Nat
  BY <1>1, PendingNat
<1>3. ASSUME trans[t].status = "open" PROVE Cardinality(Places(t)) = 1
  <2>1. InMessages(t) + InPending(t) + (IF OnConnection(t) THEN 1 ELSE 0) = 1
    BY <1>1, <1>3 DEF Placed
  <2>2. \/ InMessages(t) = 1 /\ InPending(t) = 0 /\ ~OnConnection(t)
        \/ InMessages(t) = 0 /\ InPending(t) = 1 /\ ~OnConnection(t)
        \/ InMessages(t) = 0 /\ InPending(t) = 0 /\ OnConnection(t)
    <3>1. CASE OnConnection(t)
      BY <1>2, <2>1, <3>1
    <3>2. CASE ~OnConnection(t)
      BY <1>2, <2>1, <3>2
    <3> QED
      BY <3>1, <3>2
  <2>3. \E p : Places(t) = {p}
    BY <1>1, <2>2, PlacesOf
  <2>4. PICK p : Places(t) = {p}
    BY <2>3
  <2> QED
    BY <2>4, FS_Singleton
<1>4. ASSUME trans[t].status = "failed" PROVE Places(t) \subseteq {<<"message", i>> : i \in DOMAIN eventQ}
  <2>1. InMessages(t) = 1 /\ InPending(t) = 0 /\ ~OnConnection(t)
    BY <1>1, <1>4 DEF Placed
  <2>2. PICK i \in DOMAIN eventQ : Places(t) = {<<"message", i>>}
    BY <1>1, <2>1, PlacesOf
  <2> QED
    BY <2>2
<1>5. ASSUME trans[t].status \in {"unused", "closed"} PROVE Places(t) = {}
  BY <1>1, <1>5, PlacesOf DEF Placed
<1> QED
  BY <1>1, <1>3, <1>4, <1>5 DEF Knows

\* An open transaction that is on a connection is nowhere else.
LEMMA OnlyOnConnection ==
    ASSUME HttpInv, NEW t \in Transactions, OnConnection(t)
    PROVE  InMessages(t) = 0 /\ InPending(t) = 0
<1>1. HttpState /\ TransTypes /\ Placed(t) /\ trans[t] \in TransInfo
  BY InvParts DEF HttpState, TransTypes, TransInv, GoodTrans
<1>2. InMessages(t) \in Nat /\ InPending(t) \in Nat
  BY <1>1, PendingNat
<1>3. trans[t].status = "open"
  BY <1>1 DEF TransInfo, Placed
<1>4. InMessages(t) + InPending(t) + 1 = 1
  BY <1>1, <1>3 DEF Placed
<1> QED
  BY <1>2, <1>4

LEMMA NotRepeatedFollows == HttpInv => NotRepeated
<1> SUFFICES ASSUME HttpInv, NEW t \in Transactions, trans[t].taken, NEW p \in Places(t)
             PROVE  p[1] = "connection"
  BY DEF NotRepeated
<1>1. HttpState /\ Taken(t)
  BY InvParts DEF HttpState, TransInv, GoodTrans
<1>2. OnConnection(t)
  BY <1>1 DEF Taken
<1>3. Places(t) = {<<"connection", trans[t].mConnection>>}
  BY <1>1, <1>2, OnlyOnConnection, PlacesOf
<1> QED
  BY <1>3

LEMMA ShutdownIsCompleteFollows == HttpInv => ShutdownIsComplete
<1> SUFFICES ASSUME HttpInv, shutdown = "returned"
             PROVE  /\ eventQ = << >> /\ mCT = {}
                    /\ mNumActiveConns = 0 /\ mNumIdleConns = 0
                    /\ \A c \in Connections : conn[c] = Free \/ (conn[c].transport = "closed" /\ ~conn[c].mKeepAlive)
                    /\ \A t \in Transactions : trans[t].status = "open" => trans[t].mConnection \in Connections
  BY DEF ShutdownIsComplete
<1>1. /\ eventQ = << >>
      /\ \A h \in Hosts : mActiveConns[h] = {} /\ mIdleConns[h] = << >> /\ mPendingQ[h] = << >>
  BY DEF HttpInv, QueueInv, GoodQueue, Emptied
<1>2. Active = {} /\ Idle = {}
  <2>1. \A h \in Hosts : Elements(mIdleConns[h]) = {}
    BY <1>1, EmptyList
  <2> QED
    BY <1>1, <2>1 DEF Active, Idle, IdleConns
<1>3. mNumActiveConns = 0 /\ mNumIdleConns = 0
  <2>1. mNumActiveConns = Cardinality(Active) /\ mNumIdleConns = Cardinality(Idle)
    BY DEF HttpInv, ConnInv, LimitsHold, Active, Idle
  <2> QED
    BY <1>2, <2>1, FS_EmptySet
<1>4. mCT = {}
  BY <1>1 DEF mCT
<1>5. \A c \in Connections : conn[c] = Free \/ (conn[c].transport = "closed" /\ ~conn[c].mKeepAlive)
  BY <1>2 DEF HttpInv, ConnInv, ListsInv, Closing
<1>6. ASSUME NEW t \in Transactions, trans[t].status = "open" PROVE trans[t].mConnection \in Connections
  <2>1. ConnectionInfo[t] \in Hosts
    BY HttpAssumption
  <2>2. mPendingQ[ConnectionInfo[t]] = << >>
    BY <1>1, <2>1
  <2>3. InMessages(t) = 0 /\ InPending(t) = 0
    BY <1>1, <2>2, CountEmpty DEF InMessages, InQueue, InPending
  <2>4. InMessages(t) + InPending(t) + (IF OnConnection(t) THEN 1 ELSE 0) = 1
    BY <1>6 DEF HttpInv, TransInv, GoodTrans, Placed
  <2>5. OnConnection(t)
    BY <2>3, <2>4
  <2> QED
    BY <2>5 DEF OnConnection
<1> QED
  BY <1>1, <1>3, <1>4, <1>5, <1>6

------------------------------------------------------------------------------
(* The theorems.                                                             *)

\* The variables of the connection manager have their types: no counter of connections ever wraps,
\* and a transaction or connection refers to none that does not exist.
THEOREM Types == Spec => []TypeOK
<1>1. HttpInv => TypeOK
  BY DEF HttpInv
<1> QED
  BY <1>1, HttpInvHolds, PTL

\* The counters say what the lists hold, and the limits on connections hold, whatever the order of
\* dispatch, reuse, reclaim, prune, failure and shutdown.
THEOREM LimitsAlwaysHold == Spec => []LimitsHold
<1>1. HttpInv => LimitsHold
  BY DEF HttpInv, ConnInv
<1> QED
  BY <1>1, HttpInvHolds, PTL

\* An open transaction is in one message, in the pending queue once or on one connection, and a
\* closed one in none that would dispatch it.
THEOREM AlwaysInOnePlace == Spec => []OnePlace
  BY OnePlaceFollows, HttpInvHolds, PTL

\* A request that a server has taken is never queued to be dispatched again.
THEOREM NeverRepeated == Spec => []NotRepeated
  BY NotRepeatedFollows, HttpInvHolds, PTL

\* Once Shutdown has returned there are no messages, no entries and no counted connections, and
\* every open transaction is on a connection that is being closed.
THEOREM ShutdownCompletes == Spec => []ShutdownIsComplete
  BY ShutdownIsCompleteFollows, HttpInvHolds, PTL
==============================================================================
