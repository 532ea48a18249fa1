------------------------- MODULE CacheServiceProof ---------------------------
(***************************************************************************)
(* Proofs about CacheService: an entry outlives its users, it has one      *)
(* writer at most, and a request that waits has somebody to wait for, for  *)
(* any number of requests, entries and keys.                               *)
(*                                                                         *)
(* Calls that reach back into the service do several things to entries,    *)
(* requests and the stack before they are done, so that the parts of the   *)
(* invariant are operators of these: the state in the middle of a call     *)
(* satisfies them too.                                                     *)
(***************************************************************************)
EXTENDS CacheService, SequenceCounts

\* The types of entries, requests and calls in progress.
EntryType == [alive : BOOLEAN, key : Keys \cup {None}, doomed : BOOLEAN, active : BOOLEAN,
              valid : BOOLEAN, expired : BOOLEAN, bound : BOOLEAN, requestQ : Seq(Requests)]
RequestType ==
    [pc : {"idle", "opening", "queued", "waiting", "woken", "granted", "refused", "open",
           "done", "dropped", "dangling"},
     args : Argument \cup {NoArgument}, waitFlag : BOOLEAN, entry : Entries \cup {None},
     granted : SUBSET ACCESS_READ_WRITE]
FrameType == [op : {"process", "create", "pending", "validate", "deactivate", "profile"},
              request : Requests \cup {None}, entry : Entries \cup {None}, left : SUBSET Entries]

Types(en, table, rq, stk, pr) ==
    /\ en \in [Entries -> EntryType]
    /\ table \in [Keys -> Entries \cup {None}]
    /\ rq \in [Requests -> RequestType]
    /\ stk \in Seq(FrameType)
    /\ pr \subseteq Entries

\* A request waits in the queue of its entry, holds a descriptor, or has no entry.
Listens(x) == x.args.mode = "async"
Waits(x) == x.pc \in {"queued", "waiting", "woken"}
Holding(x) == x.pc \in {"granted", "open"}
Queue(en, e) == Elements(en[e].requestQ)
RequestOK(en, rq) ==
    \A r \in Requests :
        /\ rq[r].entry # None => (Waits(rq[r]) \/ Holding(rq[r])) /\ en[rq[r].entry].alive
        /\ Waits(rq[r]) => rq[r].entry # None /\ r \in Queue(en, rq[r].entry)
        /\ rq[r].pc = "queued" => Listens(rq[r])
        /\ rq[r].pc \in {"waiting", "woken"} => ~Listens(rq[r])
        /\ Waits(rq[r]) \/ rq[r].pc = "opening" => rq[r].args \in Argument
QueueOK(en, rq) == \A e \in Entries : \A r \in Queue(en, e) : Waits(rq[r]) /\ rq[r].entry = e

\* The table has active entries under their keys; those that are doomed cannot be found.
TableOK(en, table) ==
    \A k \in Keys : table[k] # None =>
        /\ en[table[k]].alive /\ en[table[k]].active /\ ~en[table[k]].doomed
        /\ en[table[k]].key = k

\* A call that processes a request has it to itself, and an entry is being doomed once.  What a
\* call in progress goes on with is there when it does.
Unlisted(en, e) == en[e].alive /\ ~en[e].active /\ ~en[e].doomed
FrameOK(en, rq, f) ==
    /\ f.op \in {"process", "create"} =>
           f.request \in Requests /\ rq[f.request].pc = "opening" /\ f.entry = None
    /\ f.op = "pending" => f.entry \in Entries /\ en[f.entry].alive /\ en[f.entry].doomed
    /\ f.op = "validate" =>
           f.entry \in Entries /\ \E r \in Requests : rq[r].pc = "open" /\ rq[r].entry = f.entry
    /\ f.op = "deactivate" =>
           f.entry \in Entries /\ Unlisted(en, f.entry) /\ \A r \in Requests : rq[r].entry # f.entry
    /\ f.op = "profile" => f.entry = None
    /\ f.op # "profile" => f.left = {}
    /\ \A e \in f.left : Unlisted(en, e)
ShapeOK(stk) ==
    /\ \A i \in 1..Len(stk) :
          /\ stk[i].op = "process" => i = 1
          /\ stk[i].op \in {"validate", "deactivate", "profile"} => i = Len(stk)
    /\ \A i, j \in 1..Len(stk) :
          /\ stk[i].op \in {"process", "create"} /\ stk[j].op \in {"process", "create"} /\ stk[i].request = stk[j].request => i = j
          /\ stk[i].op = "pending" /\ stk[j].op = "pending" /\ stk[i].entry = stk[j].entry => i = j
StackOK(en, rq, stk) == ShapeOK(stk) /\ \A f \in Elements(stk) : FrameOK(en, rq, f)

\* At most one writer, and only it before the entry is valid.
WriterOK(en, rq) ==
    \A e \in Entries :
        /\ \A r, w \in Descriptors(rq, e) : "write" \in rq[r].granted /\ "write" \in rq[w].granted => r = w
        /\ ~en[e].valid => \A r, w \in Descriptors(rq, e) : r = w

\* Listeners leave the queue of an entry while it is being doomed.
Attends(stk, ops, e) == \E f \in Elements(stk) : f.op \in ops /\ f.entry = e
ListenersOK(en, rq, stk) ==
    \A r \in Requests : rq[r].pc = "queued" /\ en[rq[r].entry].doomed => Attends(stk, {"pending"}, rq[r].entry)

\* Who waits has somebody to wait for.  A waiter that will ask again is one only before the
\* entry is valid: afterwards it would just read.
Stuck(x) == x.pc = "queued" \/ (x.pc = "waiting" /\ x.waitFlag)
Asks(x) == x.pc = "woken" \/ (x.pc = "waiting" /\ ~x.waitFlag)
Helped(en, rq, stk, pr, e) ==
    \/ /\ ~en[e].valid /\ ~en[e].doomed
       /\ Descriptors(rq, e) # {} \/ \E w \in Queue(en, e) : Asks(rq[w])
    \/ Attends(stk, {"pending", "validate"}, e)
    \/ e \in pr
WaitOK(en, rq, stk, pr) == \A r \in Requests : Stuck(rq[r]) => Helped(en, rq, stk, pr, rq[r].entry)

Core(en, table, rq, stk, pr) ==
    /\ Types(en, table, rq, stk, pr) /\ RequestOK(en, rq) /\ QueueOK(en, rq) /\ TableOK(en, table)
    /\ StackOK(en, rq, stk) /\ WriterOK(en, rq) /\ ListenersOK(en, rq, stk)
Inv(en, table, rq, stk, pr) == Core(en, table, rq, stk, pr) /\ WaitOK(en, rq, stk, pr)

MiscTypes ==
    /\ stored \in [Keys -> {"none", "fresh", "expired"}]
    /\ mEnableDiskDevice \in BOOLEAN
    /\ profileChanges \in 0..MaxProfileChanges

CacheInv == MiscTypes /\ Inv(entry, mActiveEntries, request, stack, presumed)

------------------------------------------------------------------------------
(* Queues and the stack.                                                     *)

LEMMA ElementsType ==
    ASSUME NEW S, NEW s \in Seq(S)
    PROVE  /\ Elements(s) \subseteq S
           /\ s # << >> => Head(s) \in Elements(s) /\ Head(s) \in S
           /\ s = << >> <=> Elements(s) = {}
<1>1. Len(s) \in Nat /\ \A i \in 1..Len(s) : s[i] \in S
  BY LenProperties, ElementOfSeq
<1>2. s # << >> => Head(s) = s[1] /\ 1 \in 1..Len(s)
  <2>1. s # << >> => Len(s) # 0
    BY EmptySeq
  <2> QED
    BY <1>1, <2>1, HeadTailProperties
<1>3. s = << >> => Elements(s) = {}
  BY DEF Elements
<1> QED
  BY <1>1, <1>2, <1>3 DEF Elements

LEMMA ElementsEmpty == Elements(<< >>) = {}
  BY DEF Elements

LEMMA ElementsAppend ==
    ASSUME NEW S, NEW s \in Seq(S), NEW x \in S
    PROVE  Append(s, x) \in Seq(S) /\ Elements(Append(s, x)) = Elements(s) \cup {x}
<1> DEFINE a == Append(s, x)
<1>1. /\ a \in Seq(S) /\ Len(a) = Len(s) + 1
      /\ \A i \in 1..Len(s) : a[i] = s[i]
      /\ a[Len(s) + 1] = x
  BY AppendProperties
<1>2. Len(s) \in Nat
  BY LenProperties
<1> HIDE DEF a
<1>3. 1..Len(a) = 1..Len(s) \cup {Len(s) + 1}
  BY <1>1, <1>2
<1>4. Elements(a) = Elements(s) \cup {x}
  BY <1>1, <1>3 DEF Elements
<1> QED
  BY <1>1, <1>4 DEF a

LEMMA ElementsSublist ==
    ASSUME NEW S, NEW s \in Seq(S), NEW W
    PROVE  Sublist(s, W) \in Seq(S) /\ Elements(Sublist(s, W)) = Elements(s) \cap W
<1> DEFINE a == Sublist(s, W)
<1>1. a \in Seq(S) /\ {a[j] : j \in 1..Len(a)} = {s[i] : i \in 1..Len(s)} \cap W
  BY SublistFacts
<1> HIDE DEF a
<1>2. Elements(a) = Elements(s) \cap W
  BY <1>1 DEF Elements
<1> QED
  BY <1>1, <1>2 DEF a

\* A call begins another one.
LEMMA PushedFrame ==
    ASSUME NEW S, NEW s \in Seq(S), NEW f \in S
    PROVE  /\ <<f>> \o s \in Seq(S) /\ Len(<<f>> \o s) = Len(s) + 1
           /\ Elements(<<f>> \o s) = {f} \cup Elements(s)
           /\ \A i \in 1..Len(<<f>> \o s) : (<<f>> \o s)[i] = IF i = 1 THEN f ELSE s[i - 1]
           /\ Len(s) \in Nat
<1> DEFINE a == <<f>> \o s
<1>1. <<f>> \in Seq(S) /\ Len(<<f>>) = 1 /\ <<f>>[1] = f
  OBVIOUS
<1>2. Len(s) \in Nat
  BY LenProperties
<1>3. /\ a \in Seq(S) /\ Len(a) = 1 + Len(s)
      /\ \A i \in 1..1 + Len(s) : a[i] = IF i <= 1 THEN <<f>>[i] ELSE s[i - 1]
  BY <1>1, ConcatProperties, Zenon
<1> HIDE DEF a
<1>4. Len(a) = Len(s) + 1 /\ \A i \in 1..Len(a) : a[i] = IF i = 1 THEN f ELSE s[i - 1]
  BY <1>1, <1>2, <1>3
<1>5. Elements(a) = {f} \cup Elements(s)
  <2>1. ASSUME NEW i \in 1..Len(a) PROVE a[i] \in {f} \cup Elements(s)
    <3>1. CASE i = 1
      BY <1>4, <3>1
    <3>2. CASE i # 1
      <4>1. i - 1 \in 1..Len(s) /\ a[i] = s[i - 1]
        BY <1>2, <1>4, <3>2
      <4> QED
        BY <4>1 DEF Elements
    <3> QED
      BY <3>1, <3>2
  <2>2. f \in Elements(a)
    <3>1. 1 \in 1..Len(a) /\ a[1] = f
      BY <1>2, <1>4
    <3> QED
      BY <3>1 DEF Elements
  <2>3. ASSUME NEW i \in 1..Len(s) PROVE s[i] \in Elements(a)
    <3>1. i + 1 \in 1..Len(a) /\ i + 1 # 1 /\ (i + 1) - 1 = i
      BY <1>2, <1>4
    <3>2. a[i + 1] = s[i]
      BY <1>4, <3>1
    <3> QED
      BY <3>1, <3>2 DEF Elements
  <2> QED
    BY <2>1, <2>2, <2>3 DEF Elements
<1> QED
  BY <1>2, <1>3, <1>4, <1>5 DEF a

LEMMA PoppedFrame ==
    ASSUME NEW S, NEW s \in Seq(S), s # << >>
    PROVE  /\ Head(s) \in S /\ Tail(s) \in Seq(S) /\ s = <<Head(s)>> \o Tail(s)
           /\ Elements(s) = {Head(s)} \cup Elements(Tail(s))
           /\ Len(Tail(s)) \in Nat /\ Len(s) = Len(Tail(s)) + 1
<1>1. Head(s) \in S /\ Tail(s) \in Seq(S) /\ s = <<Head(s)>> \o Tail(s)
  BY HeadTailProperties, ConcatProperties
<1> DEFINE h == Head(s)
           t == Tail(s)
<1> HIDE DEF h, t
<1>2. h \in S /\ t \in Seq(S) /\ s = <<h>> \o t
  BY <1>1 DEF h, t
<1>3. Len(<<h>> \o t) = Len(t) + 1 /\ Elements(<<h>> \o t) = {h} \cup Elements(t) /\ Len(t) \in Nat
  BY <1>2, PushedFrame
<1>4. Len(s) = Len(t) + 1 /\ Elements(s) = {h} \cup Elements(t)
  BY <1>2, <1>3, Zenon
<1> QED
  BY <1>2, <1>3, <1>4 DEF h, t

\* The shape of a stack with one call more, and with one less.
LEMMA PushedShape ==
    ASSUME NEW s \in Seq(FrameType), ShapeOK(s), NEW f \in FrameType,
           \A g \in Elements(s) : g.op # "process",
           f.op \in {"validate", "deactivate", "profile"} => s = << >>,
           f.op \in {"process", "create"} =>
               \A g \in Elements(s) : g.op \in {"process", "create"} => g.request # f.request,
           f.op = "pending" => \A g \in Elements(s) : g.op = "pending" => g.entry # f.entry
    PROVE  ShapeOK(<<f>> \o s)
<1> DEFINE a == <<f>> \o s
<1>1. /\ Len(a) = Len(s) + 1 /\ Len(s) \in Nat
      /\ \A i \in 1..Len(a) : a[i] = IF i = 1 THEN f ELSE s[i - 1]
  BY PushedFrame
<1> HIDE DEF a
<1>2. \A i \in 1..Len(a) : i # 1 => i - 1 \in 1..Len(s) /\ a[i] = s[i - 1]
  BY <1>1
<1>3. 1 \in 1..Len(a) /\ a[1] = f
  BY <1>1
<1>4. \A i \in 1..Len(s) : s[i] \in Elements(s)
  BY DEF Elements
<1>5. ASSUME NEW i \in 1..Len(a)
      PROVE  /\ a[i].op = "process" => i = 1
             /\ a[i].op \in {"validate", "deactivate", "profile"} => i = Len(a)
  <2>1. CASE i = 1
    <3>1. f.op \in {"validate", "deactivate", "profile"} => Len(s) = 0
      BY EmptySeq
    <3> QED
      BY <1>1, <1>3, <2>1, <3>1
  <2>2. CASE i # 1
    <3>1. i - 1 \in 1..Len(s) /\ a[i] = s[i - 1] /\ s[i - 1] \in Elements(s)
      BY <1>2, <1>4, <2>2
    <3>2. s[i - 1].op \in {"validate", "deactivate", "profile"} => i - 1 = Len(s)
      BY <3>1 DEF ShapeOK
    <3>3. i - 1 = Len(s) => i = Len(a)
      BY <1>1
    <3> QED
      BY <3>1, <3>2, <3>3
  <2> QED
    BY <2>1, <2>2
<1>6. ASSUME NEW i \in 1..Len(a), NEW j \in 1..Len(a),
             \/ /\ a[i].op \in {"process", "create"} /\ a[j].op \in {"process", "create"}
                /\ a[i].request = a[j].request
             \/ a[i].op = "pending" /\ a[j].op = "pending" /\ a[i].entry = a[j].entry
      PROVE  i = j
  <2>1. CASE i = 1 /\ j # 1
    BY <1>2, <1>3, <1>4, <1>6, <2>1
  <2>2. CASE i # 1 /\ j = 1
    BY <1>2, <1>3, <1>4, <1>6, <2>2
  <2>3. CASE i # 1 /\ j # 1
    <3>1. i - 1 \in 1..Len(s) /\ a[i] = s[i - 1] /\ j - 1 \in 1..Len(s) /\ a[j] = s[j - 1]
      BY <1>2, <2>3
    <3>2. i - 1 = j - 1
      BY <1>6, <3>1 DEF ShapeOK
    <3> QED
      BY <3>2
  <2> QED
    BY <2>1, <2>2, <2>3
<1>7. ShapeOK(a)
  BY <1>5, <1>6 DEF ShapeOK
<1> QED
  BY <1>7 DEF a

LEMMA PoppedShape ==
    ASSUME NEW s \in Seq(FrameType), ShapeOK(s), s # << >>
    PROVE  /\ ShapeOK(Tail(s))
           /\ \A g \in Elements(Tail(s)) :
                 /\ g.op # "process"
                 /\ Head(s).op \in {"process", "create"} /\ g.op \in {"process", "create"} => g.request # Head(s).request
                 /\ Head(s).op = "pending" /\ g.op = "pending" => g.entry # Head(s).entry
           /\ Head(s).op \in {"validate", "deactivate", "profile"} => Tail(s) = << >>
<1> DEFINE h == Head(s)
           t == Tail(s)
<1>1. h \in FrameType /\ t \in Seq(FrameType) /\ s = <<h>> \o t
  BY PoppedFrame
<1> HIDE DEF h, t
<1>2. /\ Len(<<h>> \o t) = Len(t) + 1 /\ Len(t) \in Nat
      /\ \A i \in 1..Len(<<h>> \o t) : (<<h>> \o t)[i] = IF i = 1 THEN h ELSE t[i - 1]
  BY <1>1, PushedFrame
<1>3. Len(s) = Len(t) + 1 /\ Len(t) \in Nat /\ \A i \in 1..Len(s) : s[i] = IF i = 1 THEN h ELSE t[i - 1]
  BY <1>1, <1>2, Zenon
<1>4. s[1] = h /\ 1 \in 1..Len(s)
  BY <1>3
<1>5. \A i \in 1..Len(t) : i + 1 \in 1..Len(s) /\ i + 1 # 1 /\ s[i + 1] = t[i]
  <2>1. ASSUME NEW i \in 1..Len(t) PROVE i + 1 \in 1..Len(s) /\ i + 1 # 1 /\ (i + 1) - 1 = i
    BY <1>3
  <2> QED
    BY <1>3, <2>1
<1>6. ShapeOK(t)
  <2>1. ASSUME NEW i \in 1..Len(t)
        PROVE  /\ t[i].op # "process"
               /\ t[i].op \in {"validate", "deactivate", "profile"} => i = Len(t)
    <3>1. i + 1 \in 1..Len(s) /\ i + 1 # 1 /\ s[i + 1] = t[i]
      BY <1>5
    <3>2. t[i].op # "process" /\ (t[i].op \in {"validate", "deactivate", "profile"} => i + 1 = Len(s))
      BY <3>1 DEF ShapeOK
    <3> QED
      BY <1>3, <3>2
  <2>2. ASSUME NEW i \in 1..Len(t), NEW j \in 1..Len(t),
               \/ /\ t[i].op \in {"process", "create"} /\ t[j].op \in {"process", "create"}
                  /\ t[i].request = t[j].request
               \/ t[i].op = "pending" /\ t[j].op = "pending" /\ t[i].entry = t[j].entry
        PROVE  i = j
    <3>1. i + 1 \in 1..Len(s) /\ s[i + 1] = t[i] /\ j + 1 \in 1..Len(s) /\ s[j + 1] = t[j]
      BY <1>5
    <3>2. i + 1 = j + 1
      BY <2>2, <3>1 DEF ShapeOK
    <3> QED
      BY <3>2
  <2> QED
    BY <2>1, <2>2 DEF ShapeOK
<1>7. ASSUME NEW i \in 1..Len(t)
      PROVE  /\ t[i].op # "process"
             /\ h.op \in {"process", "create"} /\ t[i].op \in {"process", "create"} => t[i].request # h.request
             /\ h.op = "pending" /\ t[i].op = "pending" => t[i].entry # h.entry
  <2>1. i + 1 \in 1..Len(s) /\ i + 1 # 1 /\ s[i + 1] = t[i]
    BY <1>5
  <2> QED
    BY <1>4, <2>1 DEF ShapeOK
<1>8. h.op \in {"validate", "deactivate", "profile"} => t = << >>
  <2>1. h.op \in {"validate", "deactivate", "profile"} => 1 = Len(s)
    BY <1>4 DEF ShapeOK
  <2>2. 1 = Len(s) => Len(t) = 0
    BY <1>3
  <2>3. Len(t) = 0 => t = << >>
    BY <1>1, EmptySeq
  <2> QED
    BY <2>1, <2>2, <2>3
<1>9. \A g \in Elements(t) :
         /\ g.op # "process"
         /\ h.op \in {"process", "create"} /\ g.op \in {"process", "create"} => g.request # h.request
         /\ h.op = "pending" /\ g.op = "pending" => g.entry # h.entry
  BY <1>7 DEF Elements
<1> QED
  BY <1>6, <1>8, <1>9 DEF h, t

LEMMA PushedStack ==
    ASSUME NEW en, NEW rq, NEW s \in Seq(FrameType), ShapeOK(s), NEW f \in FrameType,
           \A g \in Elements(s) : g.op # "process",
           f.op \in {"validate", "deactivate", "profile"} => s = << >>,
           f.op \in {"process", "create"} =>
               \A g \in Elements(s) : g.op \in {"process", "create"} => g.request # f.request,
           f.op = "pending" => \A g \in Elements(s) : g.op = "pending" => g.entry # f.entry,
           FrameOK(en, rq, f), \A g \in Elements(s) : FrameOK(en, rq, g)
    PROVE  <<f>> \o s \in Seq(FrameType) /\ StackOK(en, rq, <<f>> \o s)
<1>1. ShapeOK(<<f>> \o s)
  BY PushedShape
<1>2. <<f>> \o s \in Seq(FrameType) /\ Elements(<<f>> \o s) = {f} \cup Elements(s)
  BY PushedFrame
<1> QED
  BY <1>1, <1>2 DEF StackOK

------------------------------------------------------------------------------
(* An entry is doomed.                                                       *)

LEMMA DoomedInv ==
    ASSUME NEW en, NEW table, NEW rq, NEW rest, NEW pr, Inv(en, table, rq, rest, pr),
           NEW e \in Entries, en[e].alive, ~en[e].doomed,
           \A g \in Elements(rest) : g.op # "process" /\ (g.op = "deactivate" => g.entry # e) /\ e \notin g.left,
           entry' = [en EXCEPT ![e].doomed = TRUE, ![e].active = FALSE],
           mActiveEntries' = (IF en[e].active THEN [table EXCEPT ![en[e].key] = None] ELSE table),
           presumed' = pr \ {e},
           stack' = <<Frame("pending", None, e, {})>> \o rest
    PROVE  Inv(entry', mActiveEntries', rq, stack', presumed')
<1> DEFINE f == Frame("pending", None, e, {})
<1>1. /\ en \in [Entries -> EntryType] /\ table \in [Keys -> Entries \cup {None}]
      /\ rq \in [Requests -> RequestType] /\ rest \in Seq(FrameType) /\ pr \subseteq Entries
      /\ RequestOK(en, rq) /\ QueueOK(en, rq) /\ TableOK(en, table)
      /\ StackOK(en, rq, rest) /\ WriterOK(en, rq) /\ ListenersOK(en, rq, rest) /\ WaitOK(en, rq, rest, pr)
  BY DEF Inv, Core, Types
<1>2. /\ entry' \in [Entries -> EntryType]
      /\ entry'[e].alive = en[e].alive /\ entry'[e].doomed = TRUE /\ entry'[e].active = FALSE
      /\ entry'[e].valid = en[e].valid /\ entry'[e].requestQ = en[e].requestQ /\ entry'[e].key = en[e].key
      /\ \A d \in Entries \ {e} : entry'[d] = en[d]
  <2>1. en[e] \in EntryType
    BY <1>1
  <2>2. [en[e] EXCEPT !.doomed = TRUE, !.active = FALSE] \in EntryType
    BY ONLY <2>1 DEF EntryType
  <2>3. /\ entry' = [en EXCEPT ![e] = [en[e] EXCEPT !.doomed = TRUE, !.active = FALSE]]
        /\ en \in [Entries -> EntryType] /\ e \in Entries
    BY <1>1
  <2>4. entry' \in [Entries -> EntryType] /\ \A d \in Entries \ {e} : entry'[d] = en[d]
    BY ONLY <2>2, <2>3
  <2>5. entry'[e] = [en[e] EXCEPT !.doomed = TRUE, !.active = FALSE]
    BY ONLY <2>3
  <2> QED
    BY ONLY <2>1, <2>4, <2>5 DEF EntryType
<1>3. /\ \A d \in Entries : entry'[d].alive = en[d].alive /\ entry'[d].valid = en[d].valid
      /\ \A d \in Entries : Queue(entry', d) = Queue(en, d)
  BY <1>2 DEF Queue
<1>4. f \in FrameType /\ f.op = "pending" /\ f.entry = e /\ f.left = {}
  BY CacheAssumption DEF Frame, FrameType
<1> HIDE DEF f
<1>5. /\ stack' = <<f>> \o rest /\ Elements(stack') = {f} \cup Elements(rest) /\ Elements(rest) \subseteq FrameType
  BY <1>1, <1>4, PushedFrame, ElementsType DEF f
<1>6. RequestOK(entry', rq)
  BY <1>1, <1>3 DEF RequestOK, RequestType
<1>7. QueueOK(entry', rq)
  BY <1>1, <1>3 DEF QueueOK
<1>8. mActiveEntries' \in [Keys -> Entries \cup {None}] /\ TableOK(entry', mActiveEntries')
  <2>1. CASE en[e].active
    <3>1. mActiveEntries' = [table EXCEPT ![en[e].key] = None]
      BY <2>1
    <3>2. \A k \in Keys : mActiveEntries'[k] # None => mActiveEntries'[k] = table[k] /\ k # en[e].key
      BY <1>1, <3>1
    <3>3. ASSUME NEW k \in Keys, mActiveEntries'[k] # None
          PROVE  /\ entry'[mActiveEntries'[k]] = en[mActiveEntries'[k]]
                 /\ mActiveEntries'[k] = table[k] /\ table[k] # None
      BY <1>1, <1>2, <3>2, <3>3 DEF TableOK
    <3>4. mActiveEntries' \in [Keys -> Entries \cup {None}]
      BY <1>1, <3>1
    <3> QED
      BY <1>1, <3>3, <3>4 DEF TableOK
  <2>2. CASE ~en[e].active
    <3>1. mActiveEntries' = table
      BY <2>2
    <3>2. ASSUME NEW k \in Keys, mActiveEntries'[k] # None
          PROVE  /\ entry'[mActiveEntries'[k]] = en[mActiveEntries'[k]]
                 /\ mActiveEntries'[k] = table[k] /\ table[k] # None
      BY <1>1, <1>2, <2>2, <3>1, <3>2 DEF TableOK
    <3>3. mActiveEntries' \in [Keys -> Entries \cup {None}]
      BY <1>1, <3>1
    <3> QED
      BY <1>1, <3>2, <3>3 DEF TableOK
  <2> QED
    BY <2>1, <2>2
<1>9. \A g \in Elements(rest) : FrameOK(entry', rq, g)
  <2> SUFFICES ASSUME NEW g \in Elements(rest) PROVE FrameOK(entry', rq, g)
    OBVIOUS
  <2>1. FrameOK(en, rq, g) /\ g \in FrameType /\ g.left \subseteq Entries
    BY <1>1, <1>5 DEF StackOK, FrameType
  <2>2. \A d \in Entries \ {e} : Unlisted(entry', d) <=> Unlisted(en, d)
    BY <1>2 DEF Unlisted
  <2>3. \A d \in g.left : Unlisted(entry', d)
    BY <2>1, <2>2 DEF FrameOK
  <2>4. g.op = "deactivate" => g.entry \in Entries \ {e}
    BY <2>1 DEF FrameOK
  <2>5. g.op = "pending" => entry'[g.entry].alive /\ entry'[g.entry].doomed
    BY <1>2, <2>1 DEF FrameOK
  <2> QED
    BY <2>1, <2>2, <2>3, <2>4, <2>5 DEF FrameOK
<1>10. stack' \in Seq(FrameType) /\ StackOK(entry', rq, stack')
  <2>1. FrameOK(entry', rq, f)
    BY <1>2, <1>4 DEF FrameOK
  <2>2. \A g \in Elements(rest) : g.op = "pending" => g.entry # f.entry
    BY <1>1, <1>4 DEF StackOK, FrameOK
  <2>3. ShapeOK(rest) /\ \A g \in Elements(rest) : g.op # "process"
    BY <1>1 DEF StackOK
  <2>4. <<f>> \o rest \in Seq(FrameType) /\ StackOK(entry', rq, <<f>> \o rest)
    BY <1>1, <1>4, <1>9, <2>1, <2>2, <2>3, PushedStack
  <2> QED
    BY <1>5, <2>4
<1>11. WriterOK(entry', rq)
  BY <1>1, <1>3 DEF WriterOK
<1>12. Attends(stack', {"pending"}, e) /\ Attends(stack', {"pending", "validate"}, e)
  BY <1>4, <1>5 DEF Attends
<1>13. \A ops, d : Attends(rest, ops, d) => Attends(stack', ops, d)
  BY <1>5 DEF Attends
<1>14. ListenersOK(entry', rq, stack')
  <2> SUFFICES ASSUME NEW r \in Requests, rq[r].pc = "queued", entry'[rq[r].entry].doomed
               PROVE  Attends(stack', {"pending"}, rq[r].entry)
    BY DEF ListenersOK
  <2>1. rq[r].entry \in Entries
    BY <1>1 DEF RequestOK, Waits, RequestType
  <2>2. CASE rq[r].entry = e
    BY <1>12, <2>2
  <2>3. CASE rq[r].entry # e
    BY <1>1, <1>2, <1>13, <2>1, <2>3 DEF ListenersOK
  <2> QED
    BY <2>2, <2>3
<1>15. WaitOK(entry', rq, stack', presumed')
  <2> SUFFICES ASSUME NEW r \in Requests, Stuck(rq[r])
               PROVE  Helped(entry', rq, stack', presumed', rq[r].entry)
    BY DEF WaitOK
  <2>1. rq[r].entry \in Entries
    BY <1>1 DEF RequestOK, Waits, RequestType, Stuck
  <2>2. CASE rq[r].entry = e
    BY <1>12, <2>2 DEF Helped
  <2>3. CASE rq[r].entry # e
    <3>1. Helped(en, rq, rest, pr, rq[r].entry)
      BY <1>1 DEF WaitOK
    <3> QED
      BY <1>2, <1>3, <1>13, <2>1, <2>3, <3>1 DEF Helped
  <2> QED
    BY <2>2, <2>3
<1>16. presumed' \subseteq Entries
  BY <1>1
<1> QED
  BY <1>1, <1>2, <1>6, <1>7, <1>8, <1>10, <1>11, <1>14, <1>15, <1>16 DEF Inv, Core, Types

------------------------------------------------------------------------------
(* What a call does to entries.                                              *)

LEMMA InvParts ==
    ASSUME NEW en, NEW table, NEW rq, NEW stk, NEW pr, Core(en, table, rq, stk, pr)
    PROVE  /\ en \in [Entries -> EntryType] /\ table \in [Keys -> Entries \cup {None}]
           /\ rq \in [Requests -> RequestType] /\ stk \in Seq(FrameType) /\ pr \subseteq Entries
           /\ RequestOK(en, rq) /\ QueueOK(en, rq) /\ TableOK(en, table)
           /\ StackOK(en, rq, stk) /\ WriterOK(en, rq) /\ ListenersOK(en, rq, stk)
           /\ Elements(stk) \subseteq FrameType
<1>1. stk \in Seq(FrameType)
  BY DEF Core, Types
<1> QED
  BY <1>1, ElementsType DEF Core, Types

\* Who waits or holds a descriptor has an entry, and it is there.
LEMMA OwnEntry ==
    ASSUME NEW en, NEW rq, rq \in [Requests -> RequestType], RequestOK(en, rq), NEW r \in Requests
    PROVE  /\ rq[r].entry \in Entries \cup {None}
           /\ rq[r].entry # None => rq[r].entry \in Entries /\ en[rq[r].entry].alive
           /\ Waits(rq[r]) => rq[r].entry \in Entries
           /\ Stuck(rq[r]) => Waits(rq[r])
           /\ Asks(rq[r]) => Waits(rq[r])
           /\ ~Waits(rq[r]) /\ ~Holding(rq[r]) => rq[r].entry = None
  BY DEF RequestType, RequestOK, Waits, Stuck, Asks

\* Entries leave the table.  Nothing in the invariant depends on whether an entry is expired or
\* has a record.
LEMMA DelistedInv ==
    ASSUME NEW en, NEW table, NEW rq, NEW stk, NEW pr, Inv(en, table, rq, stk, pr),
           NEW en2 \in [Entries -> EntryType], NEW table2 \in [Keys -> Entries \cup {None}],
           \A d \in Entries : /\ en2[d].alive = en[d].alive /\ en2[d].key = en[d].key
                              /\ en2[d].doomed = en[d].doomed /\ (en2[d].active => en[d].active)
                              /\ en2[d].valid = en[d].valid /\ en2[d].requestQ = en[d].requestQ,
           \A k \in Keys : table2[k] # None => table2[k] = table[k] /\ en2[table[k]].active
    PROVE  Inv(en2, table2, rq, stk, pr)
<1>0. Core(en, table, rq, stk, pr) /\ WaitOK(en, rq, stk, pr)
  BY DEF Inv
<1>1. /\ en \in [Entries -> EntryType] /\ table \in [Keys -> Entries \cup {None}]
      /\ rq \in [Requests -> RequestType] /\ stk \in Seq(FrameType) /\ pr \subseteq Entries
      /\ RequestOK(en, rq) /\ QueueOK(en, rq) /\ TableOK(en, table)
      /\ StackOK(en, rq, stk) /\ WriterOK(en, rq) /\ ListenersOK(en, rq, stk)
      /\ Elements(stk) \subseteq FrameType
  BY <1>0, InvParts
<1>2. /\ \A d \in Entries : Queue(en2, d) = Queue(en, d)
      /\ \A d \in Entries : Unlisted(en, d) => Unlisted(en2, d)
  BY DEF Queue, Unlisted
<1>3. RequestOK(en2, rq)
  <2>1. \A r \in Requests : rq[r].entry \in Entries \cup {None}
    BY <1>1 DEF RequestType
  <2> QED
    BY <1>1, <1>2, <2>1 DEF RequestOK
<1>4. QueueOK(en2, rq)
  BY <1>1, <1>2 DEF QueueOK
<1>5. TableOK(en2, table2)
  BY <1>1 DEF TableOK
<1>6. StackOK(en2, rq, stk)
  <2>1. ASSUME NEW g \in Elements(stk) PROVE FrameOK(en2, rq, g)
    <3>1. FrameOK(en, rq, g) /\ g.left \subseteq Entries
      BY <1>1 DEF StackOK, FrameType
    <3>2. \A d \in g.left : Unlisted(en2, d)
      BY <1>2, <3>1 DEF FrameOK
    <3> QED
      BY <1>2, <3>1, <3>2 DEF FrameOK
  <2> QED
    BY <1>1, <2>1 DEF StackOK
<1>7. WriterOK(en2, rq)
  BY <1>1 DEF WriterOK
<1>8. ListenersOK(en2, rq, stk)
  <2>1. \A r \in Requests : rq[r].pc = "queued" => rq[r].entry \in Entries
    BY <1>1, OwnEntry DEF Waits
  <2> QED
    BY <1>1, <2>1 DEF ListenersOK
<1>9. WaitOK(en2, rq, stk, pr)
  <2>1. \A r \in Requests : Stuck(rq[r]) => rq[r].entry \in Entries
    BY <1>1, OwnEntry
  <2> QED
    BY <1>0, <1>2, <2>1 DEF WaitOK, Helped
<1> QED
  BY <1>1, <1>3, <1>4, <1>5, <1>6, <1>7, <1>8, <1>9 DEF Inv, Core, Types

LEMMA BitsInv ==
    ASSUME NEW en, NEW table, NEW rq, NEW stk, NEW pr, Inv(en, table, rq, stk, pr),
           NEW en2 \in [Entries -> EntryType],
           \A d \in Entries : /\ en2[d].alive = en[d].alive /\ en2[d].key = en[d].key
                              /\ en2[d].doomed = en[d].doomed /\ en2[d].active = en[d].active
                              /\ en2[d].valid = en[d].valid /\ en2[d].requestQ = en[d].requestQ
    PROVE  Inv(en2, table, rq, stk, pr)
<1>1. table \in [Keys -> Entries \cup {None}] /\ TableOK(en, table)
  BY InvParts DEF Inv
<1>2. \A k \in Keys : table[k] # None => table[k] \in Entries /\ en2[table[k]].active
  BY <1>1 DEF TableOK
<1> QED
  BY <1>1, <1>2, DelistedInv

\* A name that is not in use becomes an entry.
FreshOK(en, table, rq, stk, pr, e, new, en2, table2) ==
    /\ Inv(en, table, rq, stk, pr)
    /\ e \in Entries /\ ~en[e].alive
    /\ new \in EntryType /\ new.alive /\ ~new.doomed /\ new.requestQ = << >>
    /\ en2 = [en EXCEPT ![e] = new]
    /\ \/ table2 = table
       \/ new.active /\ new.key \in Keys /\ table2 = [table EXCEPT ![new.key] = e]

LEMMA FreshInv ==
    ASSUME NEW en, NEW table, NEW rq, NEW stk, NEW pr, NEW e, NEW new, NEW en2, NEW table2,
           FreshOK(en, table, rq, stk, pr, e, new, en2, table2)
    PROVE  /\ Inv(en2, table2, rq, stk, pr)
           /\ \A r \in Requests : rq[r].entry # e
           /\ \A g \in Elements(stk) : (g.op \in {"pending", "deactivate", "validate"} => g.entry # e) /\ e \notin g.left
<1> /\ Inv(en, table, rq, stk, pr)
    /\ e \in Entries /\ ~en[e].alive
    /\ en2 = [en EXCEPT ![e] = new]
    /\ new \in EntryType /\ new.alive /\ ~new.doomed /\ new.requestQ = << >>
    /\ \/ table2 = table
       \/ new.active /\ new.key \in Keys /\ table2 = [table EXCEPT ![new.key] = e]
  BY DEF FreshOK
<1>0. Core(en, table, rq, stk, pr) /\ WaitOK(en, rq, stk, pr)
  BY DEF Inv
<1>1. /\ en \in [Entries -> EntryType] /\ table \in [Keys -> Entries \cup {None}]
      /\ rq \in [Requests -> RequestType] /\ stk \in Seq(FrameType) /\ pr \subseteq Entries
      /\ RequestOK(en, rq) /\ QueueOK(en, rq) /\ TableOK(en, table)
      /\ StackOK(en, rq, stk) /\ WriterOK(en, rq) /\ ListenersOK(en, rq, stk)
      /\ Elements(stk) \subseteq FrameType
  BY <1>0, InvParts
<1>2. en2 \in [Entries -> EntryType] /\ en2[e] = new /\ \A d \in Entries \ {e} : en2[d] = en[d]
  BY <1>1
<1>3. \A r \in Requests : rq[r].entry # e /\ rq[r].entry \in Entries \cup {None}
  BY <1>1, CacheAssumption DEF RequestOK, RequestType
<1>4. \A g \in Elements(stk) : (g.op \in {"pending", "deactivate", "validate"} => g.entry # e) /\ e \notin g.left
  <2> SUFFICES ASSUME NEW g \in Elements(stk)
               PROVE  (g.op \in {"pending", "deactivate", "validate"} => g.entry # e) /\ e \notin g.left
    OBVIOUS
  <2>1. FrameOK(en, rq, g)
    BY <1>1 DEF StackOK
  <2> QED
    BY <1>3, <2>1 DEF FrameOK, Unlisted
<1>5. RequestOK(en2, rq)
  <2>1. \A r \in Requests : rq[r].entry # None => en2[rq[r].entry] = en[rq[r].entry]
    BY <1>2, <1>3
  <2> QED
    BY <1>1, <2>1 DEF RequestOK, Queue
<1>6. QueueOK(en2, rq)
  <2>1. Queue(en2, e) = {}
    BY <1>2, ElementsEmpty DEF Queue
  <2>2. \A d \in Entries \ {e} : Queue(en2, d) = Queue(en, d)
    BY <1>2 DEF Queue
  <2> QED
    BY <1>1, <2>1, <2>2 DEF QueueOK
<1>7. table2 \in [Keys -> Entries \cup {None}] /\ TableOK(en2, table2)
  <2>1. \A k \in Keys : table[k] # None => en2[table[k]] = en[table[k]]
    BY <1>1, <1>2 DEF TableOK
  <2>2. TableOK(en2, table)
    BY <1>1, <2>1 DEF TableOK
  <2>3. CASE table2 = table
    BY <1>1, <2>2, <2>3
  <2>4. CASE new.active /\ new.key \in Keys /\ table2 = [table EXCEPT ![new.key] = e]
    <3>1. table2 \in [Keys -> Entries \cup {None}] /\ table2[new.key] = e
          /\ \A k \in Keys \ {new.key} : table2[k] = table[k]
      BY <1>1, <2>4
    <3>2. ASSUME NEW k \in Keys, table2[k] # None
          PROVE  /\ en2[table2[k]].alive /\ en2[table2[k]].active /\ ~en2[table2[k]].doomed
                 /\ en2[table2[k]].key = k
      <4>1. CASE k = new.key
        BY <1>2, <2>4, <3>1, <4>1
      <4>2. CASE k # new.key
        BY <2>2, <3>1, <3>2, <4>2 DEF TableOK
      <4> QED
        BY <4>1, <4>2
    <3> QED
      BY <3>1, <3>2 DEF TableOK
  <2> QED
    BY <2>3, <2>4
<1>8. StackOK(en2, rq, stk)
  <2>1. ASSUME NEW g \in Elements(stk) PROVE FrameOK(en2, rq, g)
    <3>1. FrameOK(en, rq, g) /\ g.left \subseteq Entries \ {e}
      BY <1>1, <1>4 DEF StackOK, FrameType
    <3>2. \A d \in Entries \ {e} : Unlisted(en2, d) <=> Unlisted(en, d)
      BY <1>2 DEF Unlisted
    <3>3. \A d \in g.left : Unlisted(en2, d)
      BY <3>1, <3>2 DEF FrameOK
    <3>4. g.op \in {"pending", "deactivate"} => g.entry \in Entries \ {e}
      BY <1>4, <3>1 DEF FrameOK
    <3> QED
      BY <1>2, <3>1, <3>2, <3>3, <3>4 DEF FrameOK
  <2> QED
    BY <1>1, <2>1 DEF StackOK
<1>9. WriterOK(en2, rq)
  <2>1. Descriptors(rq, e) = {}
    BY <1>3 DEF Descriptors
  <2> QED
    BY <1>1, <1>2, <2>1 DEF WriterOK
<1>10. ListenersOK(en2, rq, stk)
  <2>1. \A r \in Requests : rq[r].pc = "queued" => rq[r].entry \in Entries \ {e}
    BY <1>1, <1>3, OwnEntry DEF Waits
  <2> QED
    BY <1>1, <1>2, <2>1 DEF ListenersOK
<1>11. WaitOK(en2, rq, stk, pr)
  <2>1. \A r \in Requests : Stuck(rq[r]) => rq[r].entry \in Entries \ {e}
    BY <1>1, <1>3, OwnEntry
  <2>2. \A d \in Entries \ {e} : en2[d] = en[d] /\ Queue(en2, d) = Queue(en, d)
    BY <1>2 DEF Queue
  <2> QED
    BY <1>0, <2>1, <2>2 DEF WaitOK, Helped
<1> QED
  BY <1>1, <1>2, <1>3, <1>4, <1>5, <1>6, <1>7, <1>8, <1>9, <1>10, <1>11 DEF Inv, Core, Types

\* An entry that nobody can reach is deleted.
LEMMA DeletedInv ==
    ASSUME NEW en, NEW table, NEW rq, NEW stk, NEW pr, Inv(en, table, rq, stk, pr),
           NEW e \in Entries, \A r \in Requests : rq[r].entry # e, \A k \in Keys : table[k] # e,
           \A g \in Elements(stk) : (g.op \in {"pending", "deactivate"} => g.entry # e) /\ e \notin g.left,
           NEW en2, en2 = [en EXCEPT ![e] = NoEntry], NEW pr2 \in SUBSET Entries, pr \ {e} \subseteq pr2
    PROVE  Inv(en2, table, rq, stk, pr2)
<1>0. Core(en, table, rq, stk, pr) /\ WaitOK(en, rq, stk, pr)
  BY DEF Inv
<1>1. /\ en \in [Entries -> EntryType] /\ table \in [Keys -> Entries \cup {None}]
      /\ rq \in [Requests -> RequestType] /\ stk \in Seq(FrameType) /\ pr \subseteq Entries
      /\ RequestOK(en, rq) /\ QueueOK(en, rq) /\ TableOK(en, table)
      /\ StackOK(en, rq, stk) /\ WriterOK(en, rq) /\ ListenersOK(en, rq, stk)
      /\ Elements(stk) \subseteq FrameType
  BY <1>0, InvParts
<1>2. NoEntry \in EntryType /\ NoEntry.requestQ = << >>
  BY DEF NoEntry, EntryType
<1>3. en2 \in [Entries -> EntryType] /\ en2[e] = NoEntry /\ \A d \in Entries \ {e} : en2[d] = en[d]
  BY <1>1, <1>2
<1>4. \A r \in Requests : rq[r].entry # e /\ rq[r].entry \in Entries \cup {None}
  BY <1>1 DEF RequestType
<1>5. RequestOK(en2, rq)
  <2>1. \A r \in Requests : rq[r].entry # None => en2[rq[r].entry] = en[rq[r].entry]
    BY <1>3, <1>4
  <2> QED
    BY <1>1, <2>1 DEF RequestOK, Queue
<1>6. QueueOK(en2, rq)
  <2>1. Queue(en2, e) = {}
    BY <1>2, <1>3, ElementsEmpty DEF Queue
  <2>2. \A d \in Entries \ {e} : Queue(en2, d) = Queue(en, d)
    BY <1>3 DEF Queue
  <2> QED
    BY <1>1, <2>1, <2>2 DEF QueueOK
<1>7. TableOK(en2, table)
  <2>1. \A k \in Keys : table[k] # None => en2[table[k]] = en[table[k]]
    BY <1>1, <1>3
  <2> QED
    BY <1>1, <2>1 DEF TableOK
<1>8. StackOK(en2, rq, stk)
  <2>1. ASSUME NEW g \in Elements(stk) PROVE FrameOK(en2, rq, g)
    <3>1. FrameOK(en, rq, g) /\ g.left \subseteq Entries \ {e}
      BY <1>1 DEF StackOK, FrameType
    <3>2. \A d \in Entries \ {e} : Unlisted(en2, d) <=> Unlisted(en, d)
      BY <1>3 DEF Unlisted
    <3>3. \A d \in g.left : Unlisted(en2, d)
      BY <3>1, <3>2 DEF FrameOK
    <3>4. g.op \in {"pending", "deactivate"} => g.entry \in Entries \ {e}
      BY <3>1 DEF FrameOK
    <3> QED
      BY <1>3, <3>1, <3>2, <3>3, <3>4 DEF FrameOK
  <2> QED
    BY <1>1, <2>1 DEF StackOK
<1>9. WriterOK(en2, rq)
  <2>1. Descriptors(rq, e) = {}
    BY <1>4 DEF Descriptors
  <2> QED
    BY <1>1, <1>3, <2>1 DEF WriterOK
<1>10. ListenersOK(en2, rq, stk)
  <2>1. \A r \in Requests : rq[r].pc = "queued" => rq[r].entry \in Entries \ {e}
    BY <1>1, <1>4, OwnEntry DEF Waits
  <2> QED
    BY <1>1, <1>3, <2>1 DEF ListenersOK
<1>11. WaitOK(en2, rq, stk, pr2)
  <2>1. \A r \in Requests : Stuck(rq[r]) => rq[r].entry \in Entries \ {e}
    BY <1>1, <1>4, OwnEntry
  <2>2. \A d \in Entries \ {e} : en2[d] = en[d] /\ Queue(en2, d) = Queue(en, d) /\ (d \in pr => d \in pr2)
    BY <1>3 DEF Queue
  <2> QED
    BY <1>0, <2>1, <2>2 DEF WaitOK, Helped
<1> QED
  BY <1>1, <1>3, <1>5, <1>6, <1>7, <1>8, <1>9, <1>10, <1>11 DEF Inv, Core, Types

------------------------------------------------------------------------------
(* Requests of one entry change.                                             *)

\* All who do not wait for e have somebody to wait for.
WaitBut(en, rq, stk, pr, e) ==
    \A r \in Requests : Stuck(rq[r]) /\ rq[r].entry # e => Helped(en, rq, stk, pr, rq[r].entry)

\* Who is in a queue waits there, and the other way round.
LEMMA InQueue ==
    ASSUME NEW en, NEW rq, RequestOK(en, rq), QueueOK(en, rq),
           NEW e \in Entries, NEW r \in Requests
    PROVE  r \in Queue(en, e) <=> Waits(rq[r]) /\ rq[r].entry = e
  BY DEF RequestOK, QueueOK

\* Requests get or lose descriptors of e, join or leave its queue, while the calls in progress that
\* are concerned find what they need.
OnlyEntry(en, en2, e) ==
    /\ en2[e].alive = en[e].alive /\ en2[e].key = en[e].key
    /\ en2[e].doomed = en[e].doomed /\ en2[e].active = en[e].active
    /\ \A d \in Entries \ {e} : en2[d] = en[d]
ChangeOK(en, rq, rq2, stk, e, r) ==
    /\ rq[r].entry \in {None, e} /\ rq2[r].entry \in {None, e}
    /\ rq2[r].entry # None => (Waits(rq2[r]) \/ Holding(rq2[r])) /\ en[e].alive
    /\ Waits(rq2[r]) => rq2[r].entry # None
    /\ rq2[r].pc = "queued" => Listens(rq2[r])
    /\ rq2[r].pc \in {"waiting", "woken"} => ~Listens(rq2[r])
    /\ Waits(rq2[r]) \/ rq2[r].pc = "opening" => rq2[r].args \in Argument
    /\ \A g \in Elements(stk) : g.op \in {"process", "create"} /\ g.request = r => rq2[r].pc = "opening"
QueueRight(en, rq, e) == \A r \in Requests : r \in Queue(en, e) <=> Waits(rq[r]) /\ rq[r].entry = e
CallsRight(en, rq, stk, e) ==
    /\ Attends(stk, {"validate"}, e) => \E r \in Requests : rq[r].pc = "open" /\ rq[r].entry = e
    /\ Attends(stk, {"deactivate"}, e) => \A r \in Requests : rq[r].entry # e
    /\ \A r \in Requests : rq[r].pc = "queued" /\ rq[r].entry = e /\ en[e].doomed => Attends(stk, {"pending"}, e)
WriterRight(en, rq, e) ==
    /\ \A r, w \in Descriptors(rq, e) : "write" \in rq[r].granted /\ "write" \in rq[w].granted => r = w
    /\ ~en[e].valid => \A r, w \in Descriptors(rq, e) : r = w

EntryChanged(en, table, rq, stk, pr, e, en2, rq2, pr2) ==
    /\ Core(en, table, rq, stk, pr) /\ WaitBut(en, rq, stk, pr, e) /\ e \in Entries
    /\ en2 \in [Entries -> EntryType] /\ rq2 \in [Requests -> RequestType] /\ pr2 \subseteq Entries
    /\ OnlyEntry(en, en2, e) /\ pr \ {e} \subseteq pr2
    /\ \A r \in Requests : rq2[r] # rq[r] => ChangeOK(en, rq, rq2, stk, e, r)
    /\ QueueRight(en2, rq2, e) /\ CallsRight(en2, rq2, stk, e) /\ WriterRight(en2, rq2, e)

LEMMA EntryChange ==
    ASSUME NEW en, NEW table, NEW rq, NEW stk, NEW pr, NEW e, NEW en2, NEW rq2, NEW pr2,
           EntryChanged(en, table, rq, stk, pr, e, en2, rq2, pr2)
    PROVE  Core(en2, table, rq2, stk, pr2) /\ WaitBut(en2, rq2, stk, pr2, e)
<1> /\ Core(en, table, rq, stk, pr) /\ WaitBut(en, rq, stk, pr, e) /\ e \in Entries
    /\ en2 \in [Entries -> EntryType] /\ rq2 \in [Requests -> RequestType] /\ pr2 \subseteq Entries
    /\ OnlyEntry(en, en2, e) /\ pr \ {e} \subseteq pr2
    /\ \A r \in Requests : rq2[r] # rq[r] => ChangeOK(en, rq, rq2, stk, e, r)
    /\ QueueRight(en2, rq2, e) /\ CallsRight(en2, rq2, stk, e) /\ WriterRight(en2, rq2, e)
  BY DEF EntryChanged
<1> /\ en2[e].alive = en[e].alive /\ en2[e].key = en[e].key
    /\ en2[e].doomed = en[e].doomed /\ en2[e].active = en[e].active
    /\ \A d \in Entries \ {e} : en2[d] = en[d] /\ (d \in pr => d \in pr2)
  BY DEF OnlyEntry
<1> \A r \in Requests : rq2[r] # rq[r] =>
        /\ rq[r].entry \in {None, e} /\ rq2[r].entry \in {None, e}
        /\ rq2[r].entry # None => (Waits(rq2[r]) \/ Holding(rq2[r])) /\ en[e].alive
        /\ Waits(rq2[r]) => rq2[r].entry # None
        /\ rq2[r].pc = "queued" => Listens(rq2[r])
        /\ rq2[r].pc \in {"waiting", "woken"} => ~Listens(rq2[r])
        /\ Waits(rq2[r]) \/ rq2[r].pc = "opening" => rq2[r].args \in Argument
        /\ \A g \in Elements(stk) : g.op \in {"process", "create"} /\ g.request = r => rq2[r].pc = "opening"
  BY DEF ChangeOK
<1> \A r \in Requests : r \in Queue(en2, e) <=> Waits(rq2[r]) /\ rq2[r].entry = e
  BY DEF QueueRight
<1> /\ Attends(stk, {"validate"}, e) => \E r \in Requests : rq2[r].pc = "open" /\ rq2[r].entry = e
    /\ Attends(stk, {"deactivate"}, e) => \A r \in Requests : rq2[r].entry # e
    /\ \A r \in Requests : rq2[r].pc = "queued" /\ rq2[r].entry = e /\ en[e].doomed => Attends(stk, {"pending"}, e)
  BY DEF CallsRight
<1> /\ \A r, w \in Descriptors(rq2, e) : "write" \in rq2[r].granted /\ "write" \in rq2[w].granted => r = w
    /\ ~en2[e].valid => \A r, w \in Descriptors(rq2, e) : r = w
  BY DEF WriterRight
<1>1. /\ en \in [Entries -> EntryType] /\ table \in [Keys -> Entries \cup {None}]
      /\ rq \in [Requests -> RequestType] /\ stk \in Seq(FrameType) /\ pr \subseteq Entries
      /\ RequestOK(en, rq) /\ QueueOK(en, rq) /\ TableOK(en, table)
      /\ StackOK(en, rq, stk) /\ WriterOK(en, rq) /\ ListenersOK(en, rq, stk)
      /\ Elements(stk) \subseteq FrameType
  BY InvParts
<1>2. \A d \in Entries : /\ en2[d].alive = en[d].alive /\ en2[d].key = en[d].key
                         /\ en2[d].doomed = en[d].doomed /\ en2[d].active = en[d].active
                         /\ Unlisted(en2, d) <=> Unlisted(en, d)
  BY DEF Unlisted
<1>3. \A d \in Entries \ {e} : Queue(en2, d) = Queue(en, d) /\ Descriptors(rq2, d) = Descriptors(rq, d)
  <2> SUFFICES ASSUME NEW d \in Entries \ {e}
               PROVE  Queue(en2, d) = Queue(en, d) /\ Descriptors(rq2, d) = Descriptors(rq, d)
    OBVIOUS
  <2>1. \A r \in Requests : rq2[r] # rq[r] => rq[r].entry # d /\ rq2[r].entry # d
    BY CacheAssumption
  <2>2. Descriptors(rq2, d) = Descriptors(rq, d)
    BY <2>1 DEF Descriptors
  <2> QED
    BY <2>2 DEF Queue
<1>4. RequestOK(en2, rq2)
  <2> SUFFICES ASSUME NEW r \in Requests
               PROVE  /\ rq2[r].entry # None => (Waits(rq2[r]) \/ Holding(rq2[r])) /\ en2[rq2[r].entry].alive
                      /\ Waits(rq2[r]) => rq2[r].entry # None /\ r \in Queue(en2, rq2[r].entry)
                      /\ rq2[r].pc = "queued" => Listens(rq2[r])
                      /\ rq2[r].pc \in {"waiting", "woken"} => ~Listens(rq2[r])
                      /\ Waits(rq2[r]) \/ rq2[r].pc = "opening" => rq2[r].args \in Argument
    BY DEF RequestOK
  <2>1. CASE rq2[r] # rq[r]
    BY <2>1
  <2>2. CASE rq2[r] = rq[r]
    <3>1. rq[r].entry # None => rq[r].entry \in Entries
      BY <1>1, OwnEntry
    <3>2. rq[r].entry # None => en2[rq[r].entry].alive
      BY <1>1, <1>2, <3>1 DEF RequestOK
    <3>3. Waits(rq[r]) => r \in Queue(en2, rq[r].entry)
      <4>1. CASE rq[r].entry = e
        BY <2>2, <4>1
      <4>2. CASE rq[r].entry # e
        BY <1>1, <1>3, <3>1, <4>2 DEF RequestOK
      <4> QED
        BY <4>1, <4>2
    <3> QED
      BY <1>1, <2>2, <3>2, <3>3 DEF RequestOK
  <2> QED
    BY <2>1, <2>2
<1>5. QueueOK(en2, rq2)
  <2> SUFFICES ASSUME NEW d \in Entries, NEW r \in Queue(en2, d) PROVE Waits(rq2[r]) /\ rq2[r].entry = d
    BY DEF QueueOK
  <2>1. r \in Requests
    <3>1. en2[d].requestQ \in Seq(Requests)
      BY DEF EntryType
    <3> QED
      BY <3>1, ElementsType DEF Queue
  <2>2. CASE d = e
    BY <2>1, <2>2
  <2>3. CASE d # e
    <3>1. Waits(rq[r]) /\ rq[r].entry = d
      BY <1>1, <1>3, <2>3 DEF QueueOK
    <3>2. rq2[r] = rq[r]
      BY <2>1, <2>3, <3>1, CacheAssumption
    <3> QED
      BY <3>1, <3>2
  <2> QED
    BY <2>2, <2>3
<1>6. TableOK(en2, table)
  <2>1. \A k \in Keys : table[k] # None => table[k] \in Entries
    BY <1>1
  <2> QED
    BY <1>1, <1>2, <2>1 DEF TableOK
<1>7. StackOK(en2, rq2, stk)
  <2> SUFFICES ASSUME NEW g \in Elements(stk) PROVE FrameOK(en2, rq2, g)
    BY <1>1 DEF StackOK
  <2>1. FrameOK(en, rq, g) /\ g.left \subseteq Entries
    BY <1>1 DEF StackOK, FrameType
  <2>2. g.op \in {"process", "create"} =>
            g.request \in Requests /\ rq2[g.request].pc = "opening" /\ g.entry = None
    BY <2>1 DEF FrameOK
  <2>3. g.op = "pending" => g.entry \in Entries /\ en2[g.entry].alive /\ en2[g.entry].doomed
    BY <1>2, <2>1 DEF FrameOK
  <2>4. g.op = "validate" =>
            g.entry \in Entries /\ \E r \in Requests : rq2[r].pc = "open" /\ rq2[r].entry = g.entry
    <3> SUFFICES ASSUME g.op = "validate"
                 PROVE  g.entry \in Entries /\ \E r \in Requests : rq2[r].pc = "open" /\ rq2[r].entry = g.entry
      OBVIOUS
    <3>1. g.entry \in Entries
      BY <2>1 DEF FrameOK
    <3>2. CASE g.entry = e
      BY <3>1, <3>2 DEF Attends
    <3>3. CASE g.entry # e
      <4>1. PICK r \in Requests : rq[r].pc = "open" /\ rq[r].entry = g.entry
        BY <2>1 DEF FrameOK
      <4>2. rq2[r] = rq[r]
        BY <3>1, <3>3, <4>1, CacheAssumption
      <4> QED
        BY <3>1, <4>1, <4>2
    <3> QED
      BY <3>2, <3>3
  <2>5. g.op = "deactivate" =>
            g.entry \in Entries /\ Unlisted(en2, g.entry) /\ \A r \in Requests : rq2[r].entry # g.entry
    <3> SUFFICES ASSUME g.op = "deactivate"
                 PROVE  g.entry \in Entries /\ Unlisted(en2, g.entry) /\ \A r \in Requests : rq2[r].entry # g.entry
      OBVIOUS
    <3>1. g.entry \in Entries /\ Unlisted(en2, g.entry) /\ \A r \in Requests : rq[r].entry # g.entry
      BY <1>2, <2>1 DEF FrameOK
    <3>2. CASE g.entry = e
      BY <3>1, <3>2 DEF Attends
    <3>3. CASE g.entry # e
      BY <3>1, <3>3, CacheAssumption
    <3> QED
      BY <3>2, <3>3
  <2>6. (g.op = "profile" => g.entry = None) /\ (g.op # "profile" => g.left = {})
    BY <2>1 DEF FrameOK
  <2>7. \A d \in g.left : Unlisted(en2, d)
    BY <1>2, <2>1 DEF FrameOK
  <2> QED
    BY <2>2, <2>3, <2>4, <2>5, <2>6, <2>7 DEF FrameOK
<1>8. WriterOK(en2, rq2)
  <2>1. ASSUME NEW d \in Entries
        PROVE  /\ \A r, w \in Descriptors(rq2, d) :
                     "write" \in rq2[r].granted /\ "write" \in rq2[w].granted => r = w
               /\ ~en2[d].valid => \A r, w \in Descriptors(rq2, d) : r = w
    <3>1. CASE d = e
      BY <3>1
    <3>2. CASE d # e
      <4>1. \A r \in Descriptors(rq, d) : rq2[r] = rq[r]
        BY <3>2, CacheAssumption DEF Descriptors
      <4> QED
        BY <1>1, <1>3, <3>2, <4>1 DEF WriterOK
    <3> QED
      BY <3>1, <3>2
  <2> QED
    BY <2>1 DEF WriterOK
<1>9. ListenersOK(en2, rq2, stk)
  <2> SUFFICES ASSUME NEW r \in Requests, rq2[r].pc = "queued", en2[rq2[r].entry].doomed
               PROVE  Attends(stk, {"pending"}, rq2[r].entry)
    BY DEF ListenersOK
  <2>1. rq2[r].entry \in Entries
    BY <1>4, OwnEntry DEF Waits
  <2>2. CASE rq2[r].entry = e
    BY <2>2
  <2>3. CASE rq2[r].entry # e
    <3>1. rq2[r] = rq[r]
      BY <2>1, <2>3, CacheAssumption
    <3> QED
      BY <1>1, <1>2, <2>1, <3>1 DEF ListenersOK
  <2> QED
    BY <2>2, <2>3
<1>10. WaitBut(en2, rq2, stk, pr2, e)
  <2> SUFFICES ASSUME NEW r \in Requests, Stuck(rq2[r]), rq2[r].entry # e
               PROVE  Helped(en2, rq2, stk, pr2, rq2[r].entry)
    BY DEF WaitBut
  <2>1. rq2[r].entry \in Entries
    BY <1>4, OwnEntry
  <2>2. rq2[r] = rq[r]
    BY <2>1, CacheAssumption
  <2> DEFINE d == rq[r].entry
  <2>3. Helped(en, rq, stk, pr, d) /\ d \in Entries \ {e}
    BY <2>1, <2>2 DEF WaitBut
  <2> HIDE DEF d
  <2>4. \A w \in Queue(en, d) : rq2[w] = rq[w]
    <3> SUFFICES ASSUME NEW w \in Queue(en, d) PROVE rq2[w] = rq[w]
      OBVIOUS
    <3>1. rq[w].entry = d
      BY <1>1, <2>3 DEF QueueOK
    <3>2. w \in Requests
      <4>1. en[d].requestQ \in Seq(Requests)
        BY <1>1, <2>3 DEF EntryType
      <4> QED
        BY <4>1, ElementsType DEF Queue
    <3> QED
      BY <2>3, <3>1, <3>2, CacheAssumption
  <2>5. Helped(en2, rq2, stk, pr2, d)
    BY <1>3, <2>3, <2>4 DEF Helped
  <2> QED
    BY <2>2, <2>5 DEF d
<1> QED
  BY <1>1, <1>4, <1>5, <1>6, <1>7, <1>8, <1>9, <1>10 DEF Core, Types

\* One request changes to x.
RequestChanged(en, table, rq, stk, pr, e, r, x, en2, pr2) ==
    /\ Core(en, table, rq, stk, pr) /\ WaitBut(en, rq, stk, pr, e) /\ e \in Entries
    /\ r \in Requests /\ x \in RequestType
    /\ en2 \in [Entries -> EntryType] /\ pr2 \subseteq Entries
    /\ OnlyEntry(en, en2, e) /\ pr \ {e} \subseteq pr2
    /\ rq[r].entry \in {None, e}
    /\ \/ x.entry = None /\ ~Waits(x)
       \/ x.entry = e /\ (Waits(x) \/ Holding(x)) /\ en[e].alive /\ ~Attends(stk, {"deactivate"}, e)
    /\ x.pc = "queued" => Listens(x) /\ ~en[e].doomed
    /\ x.pc \in {"waiting", "woken"} => ~Listens(x)
    /\ Waits(x) \/ x.pc = "opening" => x.args \in Argument
    /\ \A g \in Elements(stk) : g.op \in {"process", "create"} /\ g.request = r => x.pc = "opening"
    /\ \/ ~(rq[r].pc = "open" /\ rq[r].entry = e)
       \/ ~Attends(stk, {"validate"}, e)
    /\ \A s \in Requests \ {r} : s \in Queue(en2, e) <=> s \in Queue(en, e)
    /\ r \in Queue(en2, e) <=> Waits(x)
    /\ Holding(x) => \A w \in Descriptors(rq, e) \ {r} :
           en2[e].valid /\ ("write" \notin x.granted \/ "write" \notin rq[w].granted)
    /\ en2[e].valid \/ ~en[e].valid \/ Descriptors(rq, e) \subseteq {r}

LEMMA OneChange ==
    ASSUME NEW en, NEW table, NEW rq, NEW stk, NEW pr, NEW e, NEW r, NEW x, NEW en2, NEW pr2,
           RequestChanged(en, table, rq, stk, pr, e, r, x, en2, pr2),
           NEW rq2, rq2 = [rq EXCEPT ![r] = x]
    PROVE  Core(en2, table, rq2, stk, pr2) /\ WaitBut(en2, rq2, stk, pr2, e)
<1>0. /\ Core(en, table, rq, stk, pr) /\ WaitBut(en, rq, stk, pr, e) /\ e \in Entries
      /\ r \in Requests /\ x \in RequestType
      /\ en2 \in [Entries -> EntryType] /\ pr2 \subseteq Entries
      /\ OnlyEntry(en, en2, e) /\ pr \ {e} \subseteq pr2
      /\ rq[r].entry \in {None, e}
      /\ \/ x.entry = None /\ ~Waits(x)
         \/ x.entry = e /\ (Waits(x) \/ Holding(x)) /\ en[e].alive /\ ~Attends(stk, {"deactivate"}, e)
      /\ x.pc = "queued" => Listens(x) /\ ~en[e].doomed
      /\ x.pc \in {"waiting", "woken"} => ~Listens(x)
      /\ Waits(x) \/ x.pc = "opening" => x.args \in Argument
      /\ \A g \in Elements(stk) : g.op \in {"process", "create"} /\ g.request = r => x.pc = "opening"
      /\ ~(rq[r].pc = "open" /\ rq[r].entry = e) \/ ~Attends(stk, {"validate"}, e)
      /\ \A s \in Requests \ {r} : s \in Queue(en2, e) <=> s \in Queue(en, e)
      /\ r \in Queue(en2, e) <=> Waits(x)
      /\ Holding(x) => \A w \in Descriptors(rq, e) \ {r} :
             en2[e].valid /\ ("write" \notin x.granted \/ "write" \notin rq[w].granted)
      /\ en2[e].valid \/ ~en[e].valid \/ Descriptors(rq, e) \subseteq {r}
  BY DEF RequestChanged
<1> USE <1>0
<1>1. /\ en \in [Entries -> EntryType] /\ rq \in [Requests -> RequestType] /\ stk \in Seq(FrameType)
      /\ RequestOK(en, rq) /\ QueueOK(en, rq)
      /\ StackOK(en, rq, stk) /\ WriterOK(en, rq) /\ ListenersOK(en, rq, stk)
      /\ Elements(stk) \subseteq FrameType
  BY InvParts
<1>2. rq2 \in [Requests -> RequestType] /\ rq2[r] = x /\ \A s \in Requests \ {r} : rq2[s] = rq[s]
  BY <1>1
<1>3. e # None
  BY CacheAssumption
<1>4. \A s \in Requests : rq2[s] # rq[s] => ChangeOK(en, rq, rq2, stk, e, s)
  <2>1. \A s \in Requests : rq2[s] # rq[s] => s = r
    BY <1>2
  <2> QED
    BY <1>2, <1>3, <2>1 DEF ChangeOK
<1>5. \A s \in Requests : s \in Queue(en2, e) <=> Waits(rq2[s]) /\ rq2[s].entry = e
  <2>1. \A s \in Requests : s \in Queue(en, e) <=> Waits(rq[s]) /\ rq[s].entry = e
    BY <1>1, InQueue
  <2>2. Waits(x) => x.entry = e
    OBVIOUS
  <2> QED
    BY <1>2, <2>1, <2>2
<1>6. Attends(stk, {"validate"}, e) => \E s \in Requests : rq2[s].pc = "open" /\ rq2[s].entry = e
  <2> SUFFICES ASSUME Attends(stk, {"validate"}, e)
               PROVE  \E s \in Requests : rq2[s].pc = "open" /\ rq2[s].entry = e
    OBVIOUS
  <2>1. PICK s \in Requests : rq[s].pc = "open" /\ rq[s].entry = e
    BY <1>1 DEF Attends, StackOK, FrameOK
  <2> QED
    BY <1>2, <2>1
<1>7. Attends(stk, {"deactivate"}, e) => \A s \in Requests : rq2[s].entry # e
  BY <1>1, <1>2, <1>3 DEF Attends, StackOK, FrameOK
<1>8. Descriptors(rq2, e) \ {r} = Descriptors(rq, e) \ {r} /\ (r \in Descriptors(rq2, e) => Holding(x))
  BY <1>2 DEF Descriptors, Holding
<1>9. \A s \in Descriptors(rq, e) \ {r} : rq2[s] = rq[s]
  BY <1>2 DEF Descriptors
<1>10. \A s, w \in Descriptors(rq2, e) : "write" \in rq2[s].granted /\ "write" \in rq2[w].granted => s = w
  <2> SUFFICES ASSUME NEW s \in Descriptors(rq2, e), NEW w \in Descriptors(rq2, e),
                      "write" \in rq2[s].granted, "write" \in rq2[w].granted, s # w
               PROVE  FALSE
    OBVIOUS
  <2>1. CASE s # r /\ w # r
    <3>1. s \in Descriptors(rq, e) /\ w \in Descriptors(rq, e)
      BY <1>8, <2>1
    <3>2. "write" \in rq[s].granted /\ "write" \in rq[w].granted
      BY <1>9, <2>1, <3>1
    <3> QED
      BY <1>1, <3>1, <3>2 DEF WriterOK
  <2>2. CASE s = r
    BY <1>2, <1>8, <1>9, <2>2
  <2>3. CASE w = r
    BY <1>2, <1>8, <1>9, <2>3
  <2> QED
    BY <2>1, <2>2, <2>3
<1>11. ~en2[e].valid => \A s, w \in Descriptors(rq2, e) : s = w
  <2> SUFFICES ASSUME NEW s \in Descriptors(rq2, e), NEW w \in Descriptors(rq2, e), ~en2[e].valid, s # w
               PROVE  FALSE
    OBVIOUS
  <2>1. CASE s # r /\ w # r
    BY <1>1, <1>8, <2>1 DEF WriterOK
  <2>2. CASE s = r
    BY <1>8, <2>2
  <2>3. CASE w = r
    BY <1>8, <2>3
  <2> QED
    BY <2>1, <2>2, <2>3
<1>12. \A s \in Requests : rq2[s].pc = "queued" /\ rq2[s].entry = e /\ en2[e].doomed => Attends(stk, {"pending"}, e)
  BY <1>1, <1>2 DEF ListenersOK, OnlyEntry
<1>13. QueueRight(en2, rq2, e) /\ CallsRight(en2, rq2, stk, e) /\ WriterRight(en2, rq2, e)
  BY <1>5, <1>6, <1>7, <1>10, <1>11, <1>12 DEF QueueRight, CallsRight, WriterRight
<1>14. EntryChanged(en, table, rq, stk, pr, e, en2, rq2, pr2)
  BY <1>2, <1>4, <1>13 DEF EntryChanged
<1> QED
  BY <1>14, EntryChange

LEMMA WaitAll ==
    ASSUME NEW en, NEW table, NEW rq, NEW stk, NEW pr, NEW e,
           Core(en, table, rq, stk, pr), WaitBut(en, rq, stk, pr, e),
           \A r \in Requests : Stuck(rq[r]) /\ rq[r].entry = e => Helped(en, rq, stk, pr, e)
    PROVE  Inv(en, table, rq, stk, pr)
  BY DEF Inv, WaitOK, WaitBut

LEMMA WaitSome ==
    ASSUME NEW en, NEW table, NEW rq, NEW stk, NEW pr, NEW e, Inv(en, table, rq, stk, pr)
    PROVE  Core(en, table, rq, stk, pr) /\ WaitBut(en, rq, stk, pr, e)
  BY DEF Inv, WaitOK, WaitBut

\* A request without an entry changes and still has none.
LEMMA NoEntryChange ==
    ASSUME NEW en, NEW table, NEW rq, NEW stk, NEW pr, Inv(en, table, rq, stk, pr),
           NEW r \in Requests, rq[r].entry = None,
           NEW x \in RequestType, x.entry = None, ~Waits(x), x.pc = "opening" => x.args \in Argument,
           \A g \in Elements(stk) : g.op \in {"process", "create"} /\ g.request = r => x.pc = "opening"
    PROVE  Inv(en, table, [rq EXCEPT ![r] = x], stk, pr)
<1> DEFINE rq2 == [rq EXCEPT ![r] = x]
<1>0. Core(en, table, rq, stk, pr) /\ WaitOK(en, rq, stk, pr)
  BY DEF Inv
<1>1. /\ en \in [Entries -> EntryType] /\ table \in [Keys -> Entries \cup {None}]
      /\ rq \in [Requests -> RequestType] /\ stk \in Seq(FrameType) /\ pr \subseteq Entries
      /\ RequestOK(en, rq) /\ QueueOK(en, rq) /\ TableOK(en, table)
      /\ StackOK(en, rq, stk) /\ WriterOK(en, rq) /\ ListenersOK(en, rq, stk)
      /\ Elements(stk) \subseteq FrameType
  BY <1>0, InvParts
<1>2. rq2 \in [Requests -> RequestType] /\ rq2[r] = x /\ \A s \in Requests \ {r} : rq2[s] = rq[s]
  BY <1>1
<1> HIDE DEF rq2
<1>3. RequestOK(en, rq2)
  BY <1>1, <1>2 DEF RequestOK, Waits
<1>4. ~Waits(rq[r])
  BY <1>1 DEF RequestOK
<1>5. \A d \in Entries : \A s \in Queue(en, d) : s \in Requests /\ s # r
  <2> SUFFICES ASSUME NEW d \in Entries, NEW s \in Queue(en, d) PROVE s \in Requests /\ s # r
    OBVIOUS
  <2>1. en[d].requestQ \in Seq(Requests)
    BY <1>1 DEF EntryType
  <2> QED
    BY <1>1, <1>4, <2>1, ElementsType DEF Queue, QueueOK
<1>6. QueueOK(en, rq2)
  BY <1>1, <1>2, <1>5 DEF QueueOK
<1>7. \A d \in Entries : Descriptors(rq2, d) = Descriptors(rq, d)
  BY <1>2, CacheAssumption DEF Descriptors
<1>8. StackOK(en, rq2, stk)
  <2>1. ASSUME NEW g \in Elements(stk) PROVE FrameOK(en, rq2, g)
    <3>1. FrameOK(en, rq, g)
      BY <1>1 DEF StackOK
    <3>2. g.op = "validate" => \E s \in Requests : rq2[s].pc = "open" /\ rq2[s].entry = g.entry
      <4> SUFFICES ASSUME g.op = "validate" PROVE \E s \in Requests : rq2[s].pc = "open" /\ rq2[s].entry = g.entry
        OBVIOUS
      <4>1. PICK s \in Requests : rq[s].pc = "open" /\ rq[s].entry = g.entry
        BY <3>1 DEF FrameOK
      <4>2. g.entry \in Entries
        BY <3>1 DEF FrameOK
      <4>3. rq2[s] = rq[s]
        BY <1>2, <4>1, <4>2, CacheAssumption
      <4> QED
        BY <4>1, <4>3
    <3>3. g.op = "deactivate" => \A s \in Requests : rq2[s].entry # g.entry
      BY <1>2, <3>1, CacheAssumption DEF FrameOK
    <3>4. g.op \in {"process", "create"} => rq2[g.request].pc = "opening"
      BY <1>2, <3>1 DEF FrameOK
    <3> QED
      BY <3>1, <3>2, <3>3, <3>4 DEF FrameOK
  <2> QED
    BY <1>1, <2>1 DEF StackOK
<1>9. WriterOK(en, rq2)
  <2>1. \A d \in Entries : \A s \in Descriptors(rq, d) : rq2[s] = rq[s]
    BY <1>2, CacheAssumption DEF Descriptors
  <2> QED
    BY <1>1, <1>7, <2>1 DEF WriterOK
<1>10. ListenersOK(en, rq2, stk)
  BY <1>1, <1>2 DEF ListenersOK, Waits
<1>11. WaitOK(en, rq2, stk, pr)
  <2> SUFFICES ASSUME NEW s \in Requests, Stuck(rq2[s]) PROVE Helped(en, rq2, stk, pr, rq2[s].entry)
    BY DEF WaitOK
  <2>1. s # r
    BY <1>2 DEF Stuck, Waits
  <2> DEFINE d == rq[s].entry
  <2>2. rq2[s] = rq[s] /\ Helped(en, rq, stk, pr, d) /\ d \in Entries
    <3>1. rq2[s] = rq[s]
      BY <1>2, <2>1
    <3> QED
      BY <1>0, <1>1, <3>1, OwnEntry DEF WaitOK
  <2> HIDE DEF d
  <2>3. \A w \in Queue(en, d) : rq2[w] = rq[w]
    BY <1>2, <1>5, <2>2
  <2>4. Helped(en, rq2, stk, pr, d)
    BY <1>7, <2>2, <2>3 DEF Helped
  <2> QED
    BY <2>2, <2>4 DEF d
<1>12. Inv(en, table, rq2, stk, pr)
  BY <1>1, <1>2, <1>3, <1>6, <1>8, <1>9, <1>10, <1>11 DEF Inv, Core, Types
<1> QED
  BY <1>12 DEF rq2

------------------------------------------------------------------------------
(* A call begins and ends.                                                   *)

LEMMA PushedInv ==
    ASSUME NEW en, NEW table, NEW rq, NEW s, NEW pr, Inv(en, table, rq, s, pr), NEW f \in FrameType,
           \A g \in Elements(s) : g.op # "process",
           f.op \in {"validate", "deactivate", "profile"} => s = << >>,
           f.op \in {"process", "create"} =>
               \A g \in Elements(s) : g.op \in {"process", "create"} => g.request # f.request,
           f.op = "pending" => \A g \in Elements(s) : g.op = "pending" => g.entry # f.entry,
           FrameOK(en, rq, f)
    PROVE  Inv(en, table, rq, <<f>> \o s, pr)
<1> DEFINE t == <<f>> \o s
<1>0. Core(en, table, rq, s, pr) /\ WaitOK(en, rq, s, pr)
  BY DEF Inv
<1>1. /\ en \in [Entries -> EntryType] /\ table \in [Keys -> Entries \cup {None}]
      /\ rq \in [Requests -> RequestType] /\ s \in Seq(FrameType) /\ pr \subseteq Entries
      /\ RequestOK(en, rq) /\ QueueOK(en, rq) /\ TableOK(en, table)
      /\ StackOK(en, rq, s) /\ WriterOK(en, rq) /\ ListenersOK(en, rq, s)
      /\ Elements(s) \subseteq FrameType
  BY <1>0, InvParts
<1>2. t \in Seq(FrameType) /\ StackOK(en, rq, t)
  BY <1>1, PushedStack DEF StackOK
<1>3. Elements(t) = {f} \cup Elements(s)
  BY <1>1, PushedFrame
<1> HIDE DEF t
<1>4. \A ops, d : Attends(s, ops, d) => Attends(t, ops, d)
  BY <1>3 DEF Attends
<1>5. ListenersOK(en, rq, t)
  BY <1>1, <1>4 DEF ListenersOK
<1>6. WaitOK(en, rq, t, pr)
  BY <1>0, <1>4 DEF WaitOK, Helped
<1>7. Inv(en, table, rq, t, pr)
  BY <1>1, <1>2, <1>5, <1>6 DEF Inv, Core, Types
<1> QED
  BY <1>7 DEF t

LEMMA PoppedInv ==
    ASSUME NEW en, NEW table, NEW rq, NEW s, NEW pr, Inv(en, table, rq, s, pr), s # << >>,
           Head(s).op \in {"pending", "validate"} => \A r \in Requests : Stuck(rq[r]) => rq[r].entry # Head(s).entry
    PROVE  Inv(en, table, rq, Tail(s), pr)
<1> DEFINE f == Head(s)
           t == Tail(s)
<1>0. Core(en, table, rq, s, pr) /\ WaitOK(en, rq, s, pr)
  BY DEF Inv
<1>1. /\ en \in [Entries -> EntryType] /\ table \in [Keys -> Entries \cup {None}]
      /\ rq \in [Requests -> RequestType] /\ s \in Seq(FrameType) /\ pr \subseteq Entries
      /\ RequestOK(en, rq) /\ QueueOK(en, rq) /\ TableOK(en, table)
      /\ StackOK(en, rq, s) /\ WriterOK(en, rq) /\ ListenersOK(en, rq, s)
      /\ Elements(s) \subseteq FrameType
  BY <1>0, InvParts
<1>2. t \in Seq(FrameType) /\ Elements(s) = {f} \cup Elements(t)
  BY <1>1, PoppedFrame
<1>3. ShapeOK(t)
  BY <1>1, PoppedShape DEF StackOK
<1>4. f.op \in {"pending", "validate"} => \A r \in Requests : Stuck(rq[r]) => rq[r].entry # f.entry
  OBVIOUS
<1> HIDE DEF f, t
<1>5. StackOK(en, rq, t)
  BY <1>1, <1>2, <1>3 DEF StackOK
<1>6. ASSUME NEW r \in Requests, Stuck(rq[r]), NEW ops \in SUBSET {"pending", "validate"},
             Attends(s, ops, rq[r].entry)
      PROVE  Attends(t, ops, rq[r].entry)
  BY <1>2, <1>4, <1>6 DEF Attends
<1>7. ListenersOK(en, rq, t)
  BY <1>1, <1>6 DEF ListenersOK, Stuck
<1>8. WaitOK(en, rq, t, pr)
  <2> SUFFICES ASSUME NEW r \in Requests, Stuck(rq[r]) PROVE Helped(en, rq, t, pr, rq[r].entry)
    BY DEF WaitOK
  <2>1. Helped(en, rq, s, pr, rq[r].entry)
    BY <1>0 DEF WaitOK
  <2>2. Attends(s, {"pending", "validate"}, rq[r].entry) => Attends(t, {"pending", "validate"}, rq[r].entry)
    BY <1>6
  <2> QED
    BY <2>1, <2>2 DEF Helped
<1>9. Inv(en, table, rq, t, pr)
  BY <1>1, <1>2, <1>5, <1>7, <1>8 DEF Inv, Core, Types
<1> QED
  BY <1>9 DEF t

------------------------------------------------------------------------------
(* The steps of requests and listeners.                                      *)

LEMMA CurrentParts ==
    ASSUME CacheInv
    PROVE  /\ Inv(entry, mActiveEntries, request, stack, presumed)
           /\ Core(entry, mActiveEntries, request, stack, presumed)
           /\ entry \in [Entries -> EntryType] /\ mActiveEntries \in [Keys -> Entries \cup {None}]
           /\ request \in [Requests -> RequestType] /\ stack \in Seq(FrameType) /\ presumed \subseteq Entries
           /\ RequestOK(entry, request) /\ QueueOK(entry, request) /\ TableOK(entry, mActiveEntries)
           /\ StackOK(entry, request, stack) /\ WriterOK(entry, request)
           /\ ListenersOK(entry, request, stack) /\ WaitOK(entry, request, stack, presumed)
           /\ Elements(stack) \subseteq FrameType
<1>1. Inv(entry, mActiveEntries, request, stack, presumed)
  BY DEF CacheInv
<1> QED
  BY <1>1, InvParts DEF Inv

LEMMA NoRequestType == NoRequest \in RequestType /\ NoArgument \in Argument \cup {NoArgument}
  BY DEF NoRequest, RequestType

\* A call for a request begins when it is not being processed.
LEMMA ProcessPushed ==
    ASSUME NEW en, NEW table, NEW rq, NEW s, NEW pr, Inv(en, table, rq, s, pr),
           NEW r \in Requests, rq[r].pc = "opening", NEW op \in {"process", "create"},
           \A g \in Elements(s) : g.op # "process" /\ (g.op = "create" => g.request # r)
    PROVE  Inv(en, table, rq, <<Frame(op, r, None, {})>> \o s, pr)
<1> DEFINE f == Frame(op, r, None, {})
<1>1. f \in FrameType /\ f.op = op /\ f.request = r /\ f.entry = None /\ f.left = {}
  BY DEF Frame, FrameType
<1> HIDE DEF f
<1>2. FrameOK(en, rq, f)
  BY <1>1 DEF FrameOK
<1>3. \A g \in Elements(s) : g.op \in {"process", "create"} => g.request # f.request
  BY <1>1
<1>4. Inv(en, table, rq, <<f>> \o s, pr)
  BY <1>1, <1>2, <1>3, PushedInv
<1> QED
  BY <1>4 DEF f

LEMMA OpenCacheEntryStep ==
    ASSUME CacheInv, NEW r \in Requests, OpenCacheEntry(r)
    PROVE  Inv(entry', mActiveEntries', request', stack', presumed')
<1>1. PICK a \in Arguments[r] :
          request' = [request EXCEPT ![r] = [NoRequest EXCEPT !.pc = "opening", !.args = a]]
  BY DEF OpenCacheEntry
<1> DEFINE x == [NoRequest EXCEPT !.pc = "opening", !.args = a]
<1>2. a \in Argument
  BY CacheAssumption
<1>3. x \in RequestType /\ x.entry = None /\ x.pc = "opening" /\ x.args \in Argument
  BY <1>2, NoRequestType DEF NoRequest, RequestType
<1>4. request' = [request EXCEPT ![r] = x]
  BY <1>1
<1> HIDE DEF x
<1>5. /\ entry' = entry /\ mActiveEntries' = mActiveEntries /\ presumed' = presumed
      /\ stack = << >> /\ stack' = <<Frame("process", r, None, {})>> /\ request[r].pc = "idle"
  BY DEF OpenCacheEntry
<1>6. request[r].entry = None
  BY <1>5, CurrentParts, OwnEntry DEF Waits, Holding
<1>7. Elements(stack) = {}
  BY <1>5, ElementsEmpty
<1>8. Inv(entry, mActiveEntries, request', stack, presumed)
  BY <1>3, <1>4, <1>6, <1>7, CurrentParts, NoEntryChange DEF Waits
<1>9. request'[r].pc = "opening"
  BY <1>3, <1>4, CurrentParts
<1>10. Inv(entry, mActiveEntries, request', <<Frame("process", r, None, {})>> \o stack, presumed)
  BY <1>7, <1>8, <1>9, ProcessPushed
<1>11. <<Frame("process", r, None, {})>> \o stack = stack'
  BY <1>5
<1> QED
  BY <1>5, <1>10, <1>11

\* Who waits is in a queue, which has requests only.
LEMMA QueueMembers ==
    ASSUME NEW en \in [Entries -> EntryType], NEW e \in Entries
    PROVE  Queue(en, e) \subseteq Requests /\ en[e].requestQ \in Seq(Requests)
<1>1. en[e].requestQ \in Seq(Requests)
  BY DEF EntryType
<1> QED
  BY <1>1, ElementsType DEF Queue

\* What a call in progress wants from an entry that is in use.
LEMMA NoDeactivate ==
    ASSUME NEW en, NEW rq, NEW stk, StackOK(en, rq, stk),
           NEW r \in Requests, NEW e, rq[r].entry = e
    PROVE  ~Attends(stk, {"deactivate"}, e)
  BY DEF Attends, StackOK, FrameOK

\* The flag of a request that was woken is set again.
LEMMA WaitEndsStep ==
    ASSUME CacheInv, NEW r \in Requests, WaitEnds(r)
    PROVE  Inv(entry', mActiveEntries', request', stack', presumed')
<1> DEFINE e == request[r].entry
           x == [request[r] EXCEPT !.pc = "woken", !.waitFlag = TRUE]
<1>1. /\ entry' = entry /\ mActiveEntries' = mActiveEntries /\ presumed' = presumed /\ stack' = stack
      /\ request[r].pc = "waiting" /\ ~request[r].waitFlag
      /\ request' = [request EXCEPT ![r].pc = "woken", ![r].waitFlag = TRUE]
  BY DEF WaitEnds
<1>2. e \in Entries /\ e # None
  BY <1>1, CurrentParts, OwnEntry, CacheAssumption DEF Waits
<1>3. x \in RequestType /\ x.pc = "woken" /\ x.entry = e /\ x.args = request[r].args
  BY CurrentParts DEF RequestType
<1>4. request' = [request EXCEPT ![r] = x]
  BY <1>1, CurrentParts
<1>5. entry[e].alive /\ ~Listens(request[r]) /\ request[r].args \in Argument
  BY <1>1, <1>2, CurrentParts DEF RequestOK, Waits
<1>6. ~Attends(stack, {"deactivate"}, e)
  BY CurrentParts, NoDeactivate
<1>7. r \in Queue(entry, e)
  BY <1>1, <1>2, CurrentParts, InQueue DEF Waits
<1>8. \A g \in Elements(stack) : g.op \in {"process", "create"} => g.request # r
  BY <1>1, CurrentParts DEF StackOK, FrameOK
<1>9. Core(entry, mActiveEntries, request, stack, presumed) /\ WaitBut(entry, request, stack, presumed, e)
  BY CurrentParts, WaitSome
<1>10. /\ request[r].entry = e /\ \A s \in Requests \ {r} : request'[s] = request[s]
       /\ request'[r] = x
  BY <1>4, CurrentParts
<1>11. entry[e].valid \/ ~entry[e].valid
  OBVIOUS
<1> HIDE DEF x, e
<1>12. RequestChanged(entry, mActiveEntries, request, stack, presumed, e, r, x, entry, presumed)
  BY <1>1, <1>2, <1>3, <1>5, <1>6, <1>7, <1>8, <1>9, <1>10, CurrentParts
     DEF RequestChanged, OnlyEntry, Waits, Holding, Listens
<1>13. Core(entry, mActiveEntries, request', stack, presumed) /\ WaitBut(entry, request', stack, presumed, e)
  BY <1>4, <1>12, OneChange
<1>14. Descriptors(request', e) = Descriptors(request, e)
  BY <1>1, <1>3, <1>10 DEF Descriptors
<1>15. ASSUME NEW s \in Requests, Stuck(request'[s]), request'[s].entry = e
       PROVE  Helped(entry, request', stack, presumed, e)
  <2>1. request'[s] = request[s]
    BY <1>3, <1>10, <1>15 DEF Stuck
  <2>2. Helped(entry, request, stack, presumed, e)
    BY <1>15, <2>1, CurrentParts DEF WaitOK
  <2>3. \A w \in Queue(entry, e) : Asks(request[w]) => Asks(request'[w])
    BY <1>2, <1>3, <1>10, CurrentParts, QueueMembers DEF Asks
  <2> QED
    BY <1>14, <2>2, <2>3 DEF Helped
<1> QED
  BY <1>1, <1>13, <1>15, WaitAll

LEMMA OnCacheEntryAvailableStep ==
    ASSUME CacheInv, NEW r \in Requests, OnCacheEntryAvailable(r)
    PROVE  Inv(entry', mActiveEntries', request', stack', presumed')
<1>1. /\ entry' = entry /\ mActiveEntries' = mActiveEntries /\ presumed' = presumed /\ stack' = stack
      /\ request[r].pc \in {"granted", "refused"}
      /\ request' = IF request[r].pc = "granted" THEN [request EXCEPT ![r].pc = "open"]
                    ELSE [request EXCEPT ![r] = Closed(r)]
  BY DEF OnCacheEntryAvailable
<1>2. \A g \in Elements(stack) : g.op \in {"process", "create"} => g.request # r
  BY <1>1, CurrentParts DEF StackOK, FrameOK
<1>3. CASE request[r].entry = None
  <2> DEFINE x == request'[r]
  <2>1. x \in RequestType /\ x.entry = None /\ x.pc \in {"open", "done"} /\ request' = [request EXCEPT ![r] = x]
    <3>1. CASE request[r].pc = "granted"
      <4>1. request' = [request EXCEPT ![r].pc = "open"]
        BY <1>1, <3>1
      <4> QED
        BY <1>3, <4>1, CurrentParts DEF RequestType
    <3>2. CASE request[r].pc # "granted"
      <4>1. request' = [request EXCEPT ![r] = Closed(r)]
        BY <1>1, <3>2
      <4>2. Closed(r) \in RequestType /\ Closed(r).entry = None /\ Closed(r).pc = "done"
        BY NoRequestType DEF Closed, NoRequest, RequestType
      <4> QED
        BY <4>1, <4>2, CurrentParts
    <3> QED
      BY <3>1, <3>2
  <2> HIDE DEF x
  <2>2. Inv(entry, mActiveEntries, [request EXCEPT ![r] = x], stack, presumed)
    BY <1>2, <1>3, <2>1, CurrentParts, NoEntryChange DEF Waits
  <2> QED
    BY <1>1, <2>1, <2>2
<1>4. CASE request[r].entry # None
  <2> DEFINE e == request[r].entry
             x == [request[r] EXCEPT !.pc = "open"]
  <2>1. request[r].pc = "granted"
    BY <1>1, <1>4, CurrentParts DEF RequestOK, Waits, Holding
  <2>2. request' = [request EXCEPT ![r] = x]
    BY <1>1, <2>1, CurrentParts
  <2>3. x \in RequestType /\ x.pc = "open" /\ x.entry = e /\ x.granted = request[r].granted
    BY CurrentParts DEF RequestType
  <2>4. e \in Entries /\ entry[e].alive
    BY <1>4, CurrentParts, OwnEntry
  <2>5. ~Attends(stack, {"deactivate"}, e)
    BY CurrentParts, NoDeactivate
  <2>6. r \notin Queue(entry, e)
    BY <2>1, <2>4, CurrentParts, InQueue DEF Waits
  <2>7. Core(entry, mActiveEntries, request, stack, presumed) /\ WaitBut(entry, request, stack, presumed, e)
    BY CurrentParts, WaitSome
  <2>8. /\ \A s \in Requests \ {r} : request'[s] = request[s]
        /\ request'[r] = x
    BY <2>2, CurrentParts
  <2>9. r \in Descriptors(request, e) /\ request[r].entry = e
    BY <2>1 DEF Descriptors
  <2> HIDE DEF x, e
  <2>10. Holding(x) => \A w \in Descriptors(request, e) \ {r} :
             entry[e].valid /\ ("write" \notin x.granted \/ "write" \notin request[w].granted)
    BY <2>3, <2>4, <2>9, CurrentParts DEF WriterOK
  <2>11. RequestChanged(entry, mActiveEntries, request, stack, presumed, e, r, x, entry, presumed)
    BY <1>2, <2>1, <2>3, <2>4, <2>5, <2>6, <2>7, <2>9, <2>10, CurrentParts
       DEF RequestChanged, OnlyEntry, Waits, Holding, Listens
  <2>12. Core(entry, mActiveEntries, request', stack, presumed) /\ WaitBut(entry, request', stack, presumed, e)
    BY <2>2, <2>11, OneChange
  <2>13. ASSUME NEW s \in Requests, Stuck(request'[s]), request'[s].entry = e
         PROVE  Helped(entry, request', stack, presumed, e)
    <3>1. request'[s] = request[s]
      BY <2>3, <2>8, <2>13 DEF Stuck
    <3>2. Helped(entry, request, stack, presumed, e)
      BY <2>13, <3>1, CurrentParts DEF WaitOK
    <3>3. \A w \in Queue(entry, e) : Asks(request[w]) => Asks(request'[w])
      BY <2>4, <2>6, <2>8, CurrentParts, QueueMembers DEF Asks
    <3>4. Descriptors(request', e) # {}
      BY <2>3, <2>8 DEF Descriptors
    <3> QED
      BY <3>2, <3>3, <3>4 DEF Helped
  <2> QED
    BY <1>1, <2>12, <2>13, WaitAll
<1> QED
  BY <1>3, <1>4

------------------------------------------------------------------------------
(* The device, and entries that are doomed from outside.                     *)

LEMMA DoomEntryInv ==
    ASSUME NEW en, NEW table, NEW rq, NEW rest, NEW e \in Entries, Inv(en, table, rq, rest, presumed),
           en[e].alive, ~en[e].doomed,
           \A g \in Elements(rest) : g.op # "process" /\ (g.op = "deactivate" => g.entry # e) /\ e \notin g.left,
           DoomEntry(en, table, e, rest)
    PROVE  Inv(entry', mActiveEntries', rq, stack', presumed')
<1>1. /\ entry' = [en EXCEPT ![e].doomed = TRUE, ![e].active = FALSE]
      /\ mActiveEntries' = (IF en[e].active THEN [table EXCEPT ![en[e].key] = None] ELSE table)
      /\ presumed' = presumed \ {e}
      /\ stack' = <<Frame("pending", None, e, {})>> \o rest
  BY DEF DoomEntry
<1> QED
  BY <1>1, DoomedInv

\* The device gives e a record, for which another entry may have to go.
LEMMA BindEntryInv ==
    ASSUME NEW en, NEW table, NEW rq, NEW rest, NEW e \in Entries, Inv(en, table, rq, rest, presumed),
           ~en[e].bound, Elements(rest) \subseteq FrameType,
           \A g \in Elements(rest) : g.op # "process" /\ (g.op = "deactivate" => g.entry = e) /\ g.left = {},
           BindEntry(en, table, e, rest)
    PROVE  Inv(entry', mActiveEntries', rq, stack', presumed')
<1> DEFINE bound == [en EXCEPT ![e].bound = TRUE]
<1>1. en \in [Entries -> EntryType]
  BY InvParts DEF Inv
<1>2. /\ bound \in [Entries -> EntryType]
      /\ \A d \in Entries : /\ bound[d].alive = en[d].alive /\ bound[d].key = en[d].key
                            /\ bound[d].doomed = en[d].doomed /\ bound[d].active = en[d].active
                            /\ bound[d].valid = en[d].valid /\ bound[d].requestQ = en[d].requestQ
  BY <1>1, ZenonT(40) DEF EntryType
<1>3. \/ entry' = bound /\ mActiveEntries' = table /\ stack' = rest /\ presumed' = presumed
      \/ \E v \in Live(en) : DoomEntry(bound, table, v, rest)
  BY DEF BindEntry
<1> HIDE DEF bound
<1>4. Inv(bound, table, rq, rest, presumed)
  BY <1>2, BitsInv
<1>5. CASE entry' = bound /\ mActiveEntries' = table /\ stack' = rest /\ presumed' = presumed
  BY <1>4, <1>5
<1>6. ASSUME NEW v \in Live(en), DoomEntry(bound, table, v, rest)
      PROVE  Inv(entry', mActiveEntries', rq, stack', presumed')
  <2>1. v \in Entries /\ v # e /\ en[v].alive /\ ~en[v].doomed
    BY DEF Live
  <2>2. bound[v].alive /\ ~bound[v].doomed
    BY <1>2, <2>1
  <2> QED
    BY <1>4, <1>6, <2>1, <2>2, DoomEntryInv
<1> QED
  BY <1>3, <1>5, <1>6

\* Nothing is in progress when the lock is free.
LEMMA NoCall ==
    ASSUME stack = << >>
    PROVE  Elements(stack) = {} /\ \A ops, e : ~Attends(stack, ops, e)
  BY ElementsEmpty DEF Attends

\* A client may do something to an entry that is there.
LEMMA Held ==
    ASSUME CacheInv, NEW r \in Requests, Holds(r)
    PROVE  /\ request[r].entry \in Entries /\ entry[request[r].entry].alive
           /\ stack = << >> /\ request[r].pc = "open"
           /\ r \in Descriptors(request, request[r].entry)
           /\ Inv(entry, mActiveEntries, request, << >>, presumed)
<1>1. stack = << >> /\ request[r].pc = "open" /\ request[r].entry # None
  BY DEF Holds
<1>2. request[r].entry \in Entries /\ entry[request[r].entry].alive
  BY <1>1, CurrentParts, OwnEntry
<1>3. r \in Descriptors(request, request[r].entry)
  BY <1>1 DEF Descriptors
<1>4. Inv(entry, mActiveEntries, request, << >>, presumed)
  BY <1>1, CurrentParts
<1> QED
  BY <1>1, <1>2, <1>3, <1>4

LEMMA DoomStep ==
    ASSUME CacheInv, NEW r \in Requests, Doom(r)
    PROVE  Inv(entry', mActiveEntries', request', stack', presumed')
<1> DEFINE e == request[r].entry
<1>1. Holds(r) /\ ~entry[e].doomed /\ DoomEntry(entry, mActiveEntries, e, << >>) /\ request' = request
  BY DEF Doom
<1>2. e \in Entries /\ entry[e].alive /\ Inv(entry, mActiveEntries, request, << >>, presumed)
  BY <1>1, Held
<1> HIDE DEF e
<1>3. Elements(<< >>) = {}
  BY ElementsEmpty
<1>4. Inv(entry', mActiveEntries', request, stack', presumed')
  BY <1>1, <1>2, <1>3, DoomEntryInv
<1> QED
  BY <1>1, <1>4

LEMMA EvictRecordStep ==
    ASSUME CacheInv, EvictRecord
    PROVE  Inv(entry', mActiveEntries', request', stack', presumed')
<1>1. /\ stack = << >> /\ request' = request
      /\ \/ \E e \in Live(entry) : DoomEntry(entry, mActiveEntries, e, << >>)
         \/ /\ entry' = entry /\ mActiveEntries' = mActiveEntries
            /\ stack' = stack /\ presumed' = presumed
  BY DEF EvictRecord
<1>2. Inv(entry, mActiveEntries, request, << >>, presumed) /\ Elements(<< >>) = {}
  BY <1>1, CurrentParts, ElementsEmpty
<1>3. ASSUME NEW e \in Live(entry), DoomEntry(entry, mActiveEntries, e, << >>)
      PROVE  Inv(entry', mActiveEntries', request', stack', presumed')
  <2>1. e \in Entries /\ entry[e].alive /\ ~entry[e].doomed
    BY DEF Live
  <2>2. Inv(entry', mActiveEntries', request, stack', presumed')
    BY <1>2, <1>3, <2>1, DoomEntryInv
  <2> QED
    BY <1>1, <2>2
<1>4. CASE entry' = entry /\ mActiveEntries' = mActiveEntries /\ stack' = stack /\ presumed' = presumed
  BY <1>1, <1>4, CurrentParts
<1> QED
  BY <1>1, <1>3, <1>4

LEMMA SetExpirationTimeStep ==
    ASSUME CacheInv, NEW r \in Requests, SetExpirationTime(r)
    PROVE  Inv(entry', mActiveEntries', request', stack', presumed')
<1>1. /\ entry' = [entry EXCEPT ![request[r].entry].expired = TRUE]
      /\ mActiveEntries' = mActiveEntries /\ request' = request /\ stack' = stack /\ presumed' = presumed
  BY DEF SetExpirationTime
<1>2. /\ entry' \in [Entries -> EntryType]
      /\ \A d \in Entries : /\ entry'[d].alive = entry[d].alive /\ entry'[d].key = entry[d].key
                            /\ entry'[d].doomed = entry[d].doomed /\ entry'[d].active = entry[d].active
                            /\ entry'[d].valid = entry[d].valid /\ entry'[d].requestQ = entry[d].requestQ
  <2>1. entry \in [Entries -> EntryType]
    BY CurrentParts
  <2>2. entry' \in [Entries -> EntryType]
    BY ONLY <1>1, <2>1 DEF EntryType
  <2>3. \A d \in Entries : entry'[d] = IF d = request[r].entry THEN [entry[d] EXCEPT !.expired = TRUE] ELSE entry[d]
    BY ONLY <1>1, <2>1
  <2>4. ASSUME NEW d \in Entries
        PROVE  /\ entry'[d].alive = entry[d].alive /\ entry'[d].key = entry[d].key
               /\ entry'[d].doomed = entry[d].doomed /\ entry'[d].active = entry[d].active
               /\ entry'[d].valid = entry[d].valid /\ entry'[d].requestQ = entry[d].requestQ
    BY ONLY <2>1, <2>3, <2>4 DEF EntryType
  <2> QED
    BY <2>2, <2>4
<1>3. Inv(entry', mActiveEntries, request, stack, presumed)
  BY <1>2, CurrentParts, BitsInv
<1> QED
  BY <1>1, <1>3

LEMMA OpenStreamStep ==
    ASSUME CacheInv, NEW r \in Requests, OpenStream(r)
    PROVE  Inv(entry', mActiveEntries', request', stack', presumed')
<1> DEFINE e == request[r].entry
<1>1. Holds(r) /\ ~entry[e].bound /\ BindEntry(entry, mActiveEntries, e, << >>) /\ request' = request
  BY DEF OpenStream
<1>2. e \in Entries /\ entry[e].alive /\ Inv(entry, mActiveEntries, request, << >>, presumed)
  BY <1>1, Held
<1> HIDE DEF e
<1>3. Elements(<< >>) = {}
  BY ElementsEmpty
<1>4. Inv(entry', mActiveEntries', request, stack', presumed')
  BY <1>1, <1>2, <1>3, BindEntryInv
<1> QED
  BY <1>1, <1>4

LEMMA MarkValidStep ==
    ASSUME CacheInv, NEW r \in Requests, MarkValid(r)
    PROVE  Inv(entry', mActiveEntries', request', stack', presumed')
<1> DEFINE e == request[r].entry
           f == Frame("validate", None, request[r].entry, {})
<1>1. Holds(r) /\ EnsureEntryHasDevice(entry, mActiveEntries, e, <<f>>) /\ request' = request
  BY DEF MarkValid
<1>2. e \in Entries /\ entry[e].alive /\ Inv(entry, mActiveEntries, request, << >>, presumed) /\ request[r].pc = "open"
  BY <1>1, Held
<1>3. f \in FrameType /\ f.op = "validate" /\ f.entry = e /\ f.left = {}
  BY <1>2 DEF Frame, FrameType
<1>4. FrameOK(entry, request, f)
  BY <1>2, <1>3 DEF FrameOK
<1> HIDE DEF e, f
<1>5. Elements(<< >>) = {} /\ <<f>> \o << >> = <<f>>
  BY <1>3, ElementsEmpty
<1>6. Inv(entry, mActiveEntries, request, <<f>> \o << >>, presumed)
  BY <1>2, <1>3, <1>4, <1>5, PushedInv
<1>7. Inv(entry, mActiveEntries, request, <<f>>, presumed)
  BY <1>5, <1>6
<1>8. Elements(<<f>>) = {f}
  BY DEF Elements
<1>9. \/ entry' = entry /\ mActiveEntries' = mActiveEntries /\ stack' = <<f>> /\ presumed' = presumed
      \/ ~entry[e].bound /\ BindEntry(entry, mActiveEntries, e, <<f>>)
  BY <1>1 DEF EnsureEntryHasDevice
<1>10. CASE entry' = entry /\ mActiveEntries' = mActiveEntries /\ stack' = <<f>> /\ presumed' = presumed
  BY <1>1, <1>7, <1>10
<1>11. CASE ~entry[e].bound /\ BindEntry(entry, mActiveEntries, e, <<f>>)
  <2>1. Elements(<<f>>) \subseteq FrameType
        /\ \A g \in Elements(<<f>>) : g.op # "process" /\ (g.op = "deactivate" => g.entry = e) /\ g.left = {}
    BY <1>3, <1>8
  <2>2. Inv(entry', mActiveEntries', request, stack', presumed')
    BY <1>2, <1>7, <1>11, <2>1, BindEntryInv
  <2> QED
    BY <1>1, <2>2
<1> QED
  BY <1>9, <1>10, <1>11

LEMMA OnProfileChangedStep ==
    ASSUME CacheInv, OnProfileChanged
    PROVE  Inv(entry', mActiveEntries', request', stack', presumed')
  BY CurrentParts DEF OnProfileChanged

------------------------------------------------------------------------------
(* The profile, and the device writes an entry.                              *)

LEMMA TopParts ==
    ASSUME CacheInv, NEW op, Top(op)
    PROVE  /\ stack # << >> /\ Head(stack) \in FrameType /\ Tail(stack) \in Seq(FrameType) /\ Head(stack).op = op
           /\ stack = <<Head(stack)>> \o Tail(stack) /\ Elements(stack) = {Head(stack)} \cup Elements(Tail(stack))
           /\ FrameOK(entry, request, Head(stack))
           /\ \A g \in Elements(Tail(stack)) :
                 /\ g \in FrameType /\ FrameOK(entry, request, g) /\ g.op # "process"
                 /\ op \in {"process", "create"} /\ g.op \in {"process", "create"} => g.request # Head(stack).request
                 /\ op = "pending" /\ g.op = "pending" => g.entry # Head(stack).entry
           /\ op \in {"validate", "deactivate", "profile"} => Tail(stack) = << >>
<1>1. stack # << >> /\ Head(stack).op = op
  BY DEF Top
<1>2. /\ Head(stack) \in FrameType /\ Tail(stack) \in Seq(FrameType)
      /\ stack = <<Head(stack)>> \o Tail(stack)
      /\ Elements(stack) = {Head(stack)} \cup Elements(Tail(stack))
  BY <1>1, CurrentParts, PoppedFrame
<1>3. \A g \in Elements(stack) : g \in FrameType /\ FrameOK(entry, request, g)
  BY CurrentParts DEF StackOK
<1>4. /\ \A g \in Elements(Tail(stack)) :
            /\ g.op # "process"
            /\ Head(stack).op \in {"process", "create"} /\ g.op \in {"process", "create"} => g.request # Head(stack).request
            /\ Head(stack).op = "pending" /\ g.op = "pending" => g.entry # Head(stack).entry
      /\ Head(stack).op \in {"validate", "deactivate", "profile"} => Tail(stack) = << >>
  BY <1>1, CurrentParts, PoppedShape DEF StackOK
<1> QED
  BY <1>1, <1>2, <1>3, <1>4

LEMMA DoomActiveEntryStep ==
    ASSUME CacheInv, DoomActiveEntry
    PROVE  Inv(entry', mActiveEntries', request', stack', presumed')
<1> DEFINE f == Head(stack)
<1>1. Top("profile") /\ request' = request
  BY DEF DoomActiveEntry
<1>2. PICK e \in f.left :
          DoomEntry(entry, mActiveEntries, e, <<[f EXCEPT !.left = @ \ {e}]>> \o Tail(stack))
  BY DEF DoomActiveEntry
<1> DEFINE f2 == [f EXCEPT !.left = @ \ {e}]
<1>3. f \in FrameType /\ f.op = "profile" /\ FrameOK(entry, request, f) /\ Tail(stack) = << >> /\ stack # << >>
  BY <1>1, TopParts
<1>4. f2 \in FrameType /\ f2.op = "profile" /\ f2.left = f.left \ {e} /\ f2.entry = f.entry
  BY <1>3 DEF FrameType
<1>5. e \in Entries /\ Unlisted(entry, e)
  BY <1>3 DEF FrameOK, FrameType
<1>6. Inv(entry, mActiveEntries, request, Tail(stack), presumed)
  BY <1>3, CurrentParts, PoppedInv
<1> HIDE DEF f2
<1>7. DoomEntry(entry, mActiveEntries, e, <<f2>> \o << >>)
  BY <1>2, <1>3 DEF f2
<1> HIDE DEF f
<1>8. FrameOK(entry, request, f2)
  BY <1>3, <1>4 DEF FrameOK
<1>9. Elements(<< >>) = {}
  BY ElementsEmpty
<1>10. Inv(entry, mActiveEntries, request, <<f2>> \o << >>, presumed)
  BY <1>3, <1>4, <1>6, <1>8, <1>9, PushedInv
<1>11. \A g \in Elements(<<f2>> \o << >>) : g = f2
  <2>1. <<f2>> \o << >> = <<f2>>
    BY <1>4
  <2>2. Elements(<<f2>>) = {f2}
    BY DEF Elements
  <2> QED
    BY <2>1, <2>2
<1>12. Inv(entry', mActiveEntries', request, stack', presumed')
  BY <1>4, <1>5, <1>7, <1>10, <1>11, DoomEntryInv DEF Unlisted
<1> QED
  BY <1>1, <1>12

LEMMA OnProfileShutdownStep ==
    ASSUME CacheInv, OnProfileShutdown
    PROVE  Inv(entry', mActiveEntries', request', stack', presumed')
<1> DEFINE f == Frame("profile", None, None, Listed)
<1>1. /\ stack = << >> /\ stack' = <<f>> /\ request' = request /\ presumed' = presumed
      /\ entry' = [e \in Entries |-> [entry[e] EXCEPT !.active = @ /\ e \notin Listed]]
      /\ mActiveEntries' = [k \in Keys |-> None]
  BY DEF OnProfileShutdown
<1>2. Listed \subseteq Entries
  BY CurrentParts DEF Listed
<1>3. /\ entry' \in [Entries -> EntryType]
      /\ \A d \in Entries : /\ entry'[d].alive = entry[d].alive /\ entry'[d].key = entry[d].key
                            /\ entry'[d].doomed = entry[d].doomed
                            /\ entry'[d].active => entry[d].active /\ d \notin Listed
                            /\ entry'[d].valid = entry[d].valid /\ entry'[d].requestQ = entry[d].requestQ
  <2>1. ASSUME NEW d \in Entries
        PROVE  /\ entry'[d] \in EntryType
               /\ entry'[d].alive = entry[d].alive /\ entry'[d].key = entry[d].key
               /\ entry'[d].doomed = entry[d].doomed
               /\ entry'[d].active => entry[d].active /\ d \notin Listed
               /\ entry'[d].valid = entry[d].valid /\ entry'[d].requestQ = entry[d].requestQ
    <3>1. entry[d] \in EntryType
      BY CurrentParts
    <3> DEFINE a == entry[d].active /\ d \notin Listed
    <3>2. a \in BOOLEAN
      OBVIOUS
    <3>3. entry'[d] = [entry[d] EXCEPT !.active = a]
      BY <1>1
    <3>4. a => entry[d].active /\ d \notin Listed
      OBVIOUS
    <3> HIDE DEF a
    <3>5. entry'[d].active = a
      BY <3>1, <3>3 DEF EntryType
    <3>6. /\ entry'[d] \in EntryType
          /\ entry'[d].alive = entry[d].alive /\ entry'[d].key = entry[d].key
          /\ entry'[d].doomed = entry[d].doomed
          /\ entry'[d].valid = entry[d].valid /\ entry'[d].requestQ = entry[d].requestQ
      BY <3>1, <3>2, <3>3 DEF EntryType
    <3> QED
      BY <3>4, <3>5, <3>6
  <2> QED
    BY <1>1, <2>1
<1>4. mActiveEntries' \in [Keys -> Entries \cup {None}] /\ \A k \in Keys : mActiveEntries'[k] = None
  BY <1>1
<1>5. Inv(entry', mActiveEntries', request, stack, presumed)
  <2>1. \A d \in Entries : /\ entry'[d].alive = entry[d].alive /\ entry'[d].key = entry[d].key
                            /\ entry'[d].doomed = entry[d].doomed /\ (entry'[d].active => entry[d].active)
                            /\ entry'[d].valid = entry[d].valid /\ entry'[d].requestQ = entry[d].requestQ
    BY <1>3
  <2>2. \A k \in Keys : mActiveEntries'[k] # None =>
           mActiveEntries'[k] = mActiveEntries[k] /\ entry'[mActiveEntries[k]].active
    BY <1>4
  <2>3. entry' \in [Entries -> EntryType] /\ mActiveEntries' \in [Keys -> Entries \cup {None}]
    BY <1>3, <1>4
  <2>4. Inv(entry, mActiveEntries, request, stack, presumed)
    BY CurrentParts
  <2> QED
    BY <2>1, <2>2, <2>3, <2>4, DelistedInv
<1>6. f \in FrameType /\ f.op = "profile" /\ f.entry = None /\ f.left = Listed
  BY <1>2 DEF Frame, FrameType
<1> HIDE DEF f
<1>7. \A e \in Listed : Unlisted(entry', e)
  <2> SUFFICES ASSUME NEW e \in Listed PROVE Unlisted(entry', e)
    OBVIOUS
  <2>1. entry[e].alive /\ ~entry[e].doomed /\ e \in Entries
    BY <1>2, CurrentParts DEF Listed, TableOK
  <2> QED
    BY <1>3, <2>1 DEF Unlisted
<1>8. FrameOK(entry', request, f)
  BY <1>6, <1>7 DEF FrameOK
<1>9. Elements(stack) = {}
  BY <1>1, ElementsEmpty
<1>10. Inv(entry', mActiveEntries', request, <<f>> \o stack, presumed)
  BY <1>1, <1>5, <1>6, <1>8, <1>9, PushedInv
<1>11. <<f>> \o stack = stack'
  BY <1>1
<1> QED
  BY <1>1, <1>10, <1>11

LEMMA WriteAndDeleteStep ==
    ASSUME CacheInv, WriteAndDelete
    PROVE  Inv(entry', mActiveEntries', request', stack', presumed')
<1> DEFINE e == Head(stack).entry
<1>1. /\ Top("deactivate") /\ request' = request /\ mActiveEntries' = mActiveEntries
      /\ entry' = [entry EXCEPT ![e] = NoEntry] /\ presumed' = presumed \ {e} /\ stack' = Tail(stack)
  BY DEF WriteAndDelete
<1>2. /\ stack # << >> /\ Head(stack).op = "deactivate" /\ Tail(stack) = << >>
      /\ e \in Entries /\ Unlisted(entry, e) /\ \A r \in Requests : request[r].entry # e
  BY <1>1, TopParts DEF FrameOK
<1>3. Inv(entry, mActiveEntries, request, Tail(stack), presumed)
  BY <1>2, CurrentParts, PoppedInv
<1> HIDE DEF e
<1>4. \A k \in Keys : mActiveEntries[k] # e
  BY <1>2, CurrentParts, CacheAssumption DEF TableOK, Unlisted
<1>5. Elements(Tail(stack)) = {}
  BY <1>2, ElementsEmpty
<1>6. presumed' \in SUBSET Entries /\ presumed \ {e} \subseteq presumed'
  BY <1>1, CurrentParts
<1>7. Inv(entry', mActiveEntries, request, Tail(stack), presumed')
  BY <1>1, <1>2, <1>3, <1>4, <1>5, <1>6, DeletedInv
<1> QED
  BY <1>1, <1>7

------------------------------------------------------------------------------
(* A request is processed.                                                   *)

LEMMA ProcessedParts ==
    ASSUME CacheInv, Top("process") \/ Top("create")
    PROVE  /\ Processed \in Requests /\ request[Processed].pc = "opening" /\ request[Processed].entry = None
           /\ request[Processed].args \in Argument /\ KeyOf(Processed) \in Keys
           /\ Inv(entry, mActiveEntries, request, Tail(stack), presumed)
           /\ \A g \in Elements(Tail(stack)) :
                 /\ g \in FrameType /\ FrameOK(entry, request, g) /\ g.op # "process"
                 /\ g.op \in {"process", "create"} => g.request # Processed
           /\ Head(stack) = Frame(Head(stack).op, Processed, None, {})
<1>1. PICK op \in {"process", "create"} : Top(op)
  OBVIOUS
<1>2. /\ stack # << >> /\ Head(stack).op = op /\ Head(stack) \in FrameType /\ FrameOK(entry, request, Head(stack))
      /\ \A g \in Elements(Tail(stack)) :
            /\ g \in FrameType /\ FrameOK(entry, request, g) /\ g.op # "process"
            /\ g.op \in {"process", "create"} => g.request # Head(stack).request
  BY <1>1, TopParts
<1>3. Processed \in Requests /\ request[Processed].pc = "opening"
  BY <1>2 DEF FrameOK, Processed
<1>4. request[Processed].entry = None /\ request[Processed].args \in Argument
  BY <1>3, CurrentParts, OwnEntry DEF Waits, Holding, RequestOK
<1>5. KeyOf(Processed) \in Keys
  BY <1>4 DEF KeyOf, Argument
<1>6. Inv(entry, mActiveEntries, request, Tail(stack), presumed)
  BY <1>2, CurrentParts, PoppedInv
<1>7. Head(stack).entry = None /\ Head(stack).left = {}
  BY <1>2 DEF FrameOK
<1>8. Head(stack) = Frame(Head(stack).op, Processed, None, {})
  BY <1>2, <1>7 DEF Frame, FrameType, Processed
<1> QED
  BY <1>2, <1>3, <1>4, <1>5, <1>6, <1>8 DEF Processed

LEMMA ClosedFacts ==
    ASSUME NEW r
    PROVE  /\ Closed(r) \in RequestType /\ Closed(r).pc = "done" /\ Closed(r).entry = None
           /\ ~Waits(Closed(r)) /\ ~Holding(Closed(r)) /\ ~Stuck(Closed(r)) /\ ~Asks(Closed(r))
  BY NoRequestType DEF Closed, NoRequest, RequestType, Waits, Holding, Stuck, Asks

LEMMA RefuseStep ==
    ASSUME CacheInv, Top("process") \/ Top("create"), Refuse(Processed)
    PROVE  Inv(entry', mActiveEntries', request', stack', presumed')
<1> DEFINE r == Processed
           x == request'[r]
<1>1. /\ entry' = entry /\ mActiveEntries' = mActiveEntries /\ presumed' = presumed /\ stack' = Tail(stack)
      /\ request' = IF Async(r) /\ Len(stack) > 1 THEN [request EXCEPT ![r].pc = "refused"]
                    ELSE [request EXCEPT ![r] = Closed(r)]
  BY DEF Refuse
<1>2. /\ r \in Requests /\ request[r].entry = None
      /\ Inv(entry, mActiveEntries, request, Tail(stack), presumed)
      /\ \A g \in Elements(Tail(stack)) : g.op \in {"process", "create"} => g.request # r
  BY ProcessedParts
<1> HIDE DEF r
<1>3. x \in RequestType /\ x.entry = None /\ x.pc \in {"refused", "done"} /\ request' = [request EXCEPT ![r] = x]
  <2>1. CASE request' = [request EXCEPT ![r].pc = "refused"]
    BY <1>2, <2>1, CurrentParts DEF RequestType
  <2>2. CASE request' = [request EXCEPT ![r] = Closed(r)]
    BY <1>2, <2>2, CurrentParts, ClosedFacts
  <2> QED
    BY <1>1, <2>1, <2>2
<1> HIDE DEF x
<1>4. Inv(entry, mActiveEntries, [request EXCEPT ![r] = x], Tail(stack), presumed)
  BY <1>2, <1>3, NoEntryChange DEF Waits
<1> QED
  BY <1>1, <1>3, <1>4

LEMMA StorageDisabledStep ==
    ASSUME CacheInv, StorageDisabled
    PROVE  Inv(entry', mActiveEntries', request', stack', presumed')
  BY RefuseStep DEF StorageDisabled

LEMMA KeyNotFoundStep ==
    ASSUME CacheInv, KeyNotFound
    PROVE  Inv(entry', mActiveEntries', request', stack', presumed')
<1>1. (Top("process") \/ Top("create")) /\ Refuse(Processed)
  BY DEF KeyNotFound, NothingFound
<1> QED
  BY <1>1, RefuseStep

\* The device makes an object of a name that is not in use.
LEMMA FreshEntry ==
    ASSUME CacheInv, EntryLeft, NEW k \in Keys
    PROVE  /\ Unused \in Entries /\ ~entry[Unused].alive
           /\ FromDevice(k) \in EntryType /\ FromDevice(k).alive /\ ~FromDevice(k).doomed /\ ~FromDevice(k).active
           /\ FromDevice(k).requestQ = << >> /\ FromDevice(k).key = k /\ ~FromDevice(k).valid
<1>1. Unused \in Entries /\ ~entry[Unused].alive
  BY DEF EntryLeft, Unused
<1> DEFINE b == (stored[k] = "expired")
<1>2. b \in BOOLEAN
  OBVIOUS
<1>3. FromDevice(k) = [NoEntry EXCEPT !.alive = TRUE, !.key = k, !.bound = TRUE, !.expired = b]
  BY DEF FromDevice
<1> HIDE DEF b
<1>4. FromDevice(k) = [alive |-> TRUE, key |-> k, doomed |-> FALSE, active |-> FALSE, valid |-> FALSE,
                       expired |-> b, bound |-> TRUE, requestQ |-> << >>]
  BY <1>3 DEF NoEntry
<1>5. /\ FromDevice(k) \in EntryType /\ FromDevice(k).alive /\ ~FromDevice(k).doomed /\ ~FromDevice(k).active
      /\ FromDevice(k).requestQ = << >> /\ FromDevice(k).key = k /\ ~FromDevice(k).valid
  BY <1>2, <1>4 DEF EntryType
<1> QED
  BY <1>1, <1>5

\* What ActivateEntry finds is an entry that nobody is deleting.
LEMMA FoundInv ==
    ASSUME CacheInv, Top("process"), NEW k \in Keys, Active(k) \/ EntryLeft
    PROVE  /\ Inv(WithFound(k), mActiveEntries, request, Tail(stack), presumed)
           /\ Found(k) \in Entries /\ WithFound(k)[Found(k)].alive /\ ~WithFound(k)[Found(k)].doomed
           /\ \A g \in Elements(Tail(stack)) :
                 (g.op = "deactivate" => g.entry # Found(k)) /\ Found(k) \notin g.left
<1>1. /\ Inv(entry, mActiveEntries, request, Tail(stack), presumed)
      /\ \A g \in Elements(Tail(stack)) : FrameOK(entry, request, g)
  BY ProcessedParts
<1>2. CASE Active(k)
  <2>1. /\ Found(k) = mActiveEntries[k] /\ WithFound(k) = entry
        /\ Found(k) \in Entries /\ entry[Found(k)].alive /\ entry[Found(k)].active /\ ~entry[Found(k)].doomed
    BY <1>2, CurrentParts DEF Found, WithFound, Active, TableOK
  <2>2. \A g \in Elements(Tail(stack)) : (g.op = "deactivate" => g.entry # Found(k)) /\ Found(k) \notin g.left
    BY <1>1, <2>1 DEF FrameOK, Unlisted
  <2> QED
    BY <1>1, <2>1, <2>2
<1>3. CASE ~Active(k)
  <2>1. Found(k) = Unused /\ WithFound(k) = [entry EXCEPT ![Unused] = FromDevice(k)]
    BY <1>3 DEF Found, WithFound
  <2>2. /\ Unused \in Entries /\ ~entry[Unused].alive
        /\ FromDevice(k) \in EntryType /\ FromDevice(k).alive /\ ~FromDevice(k).doomed
        /\ FromDevice(k).requestQ = << >>
    BY <1>3, FreshEntry
  <2> DEFINE w == WithFound(k)
             u == Unused
             n == FromDevice(k)
  <2>3. w = [entry EXCEPT ![u] = n] /\ w[u] = n
    BY <2>1, <2>2, CurrentParts
  <2>4. /\ u \in Entries /\ ~entry[u].alive /\ n \in EntryType /\ n.alive /\ ~n.doomed /\ n.requestQ = << >>
    BY <2>2
  <2> HIDE DEF w, u, n
  <2>5. /\ Inv(w, mActiveEntries, request, Tail(stack), presumed)
        /\ \A g \in Elements(Tail(stack)) : (g.op \in {"pending", "deactivate", "validate"} => g.entry # u) /\ u \notin g.left
    <3>1. Inv(entry, mActiveEntries, request, Tail(stack), presumed)
      BY <1>1
    <3>2. w = [entry EXCEPT ![u] = n]
      BY <2>3
    <3>3. FreshOK(entry, mActiveEntries, request, Tail(stack), presumed, u, n, w, mActiveEntries)
      BY <2>4, <3>1, <3>2 DEF FreshOK
    <3> QED
      BY <3>3, FreshInv
  <2> QED
    BY <2>1, <2>3, <2>4, <2>5 DEF w, u, n
<1> QED
  BY <1>2, <1>3

LEMMA DoomFoundStep ==
    ASSUME CacheInv, DoomFound
    PROVE  Inv(entry', mActiveEntries', request', stack', presumed')
<1> DEFINE k == KeyOf(Processed)
           en == WithFound(k)
           e == Found(k)
           f == [Head(stack) EXCEPT !.op = "create"]
           rest == <<f>> \o Tail(stack)
<1>1. Top("process") /\ (Active(k) \/ EntryLeft) /\ DoomEntry(en, mActiveEntries, e, rest) /\ request' = request
  BY DEF DoomFound
<1>2. /\ Processed \in Requests /\ request[Processed].pc = "opening" /\ k \in Keys
      /\ \A g \in Elements(Tail(stack)) :
            g.op # "process" /\ (g.op \in {"process", "create"} => g.request # Processed)
      /\ Head(stack) = Frame(Head(stack).op, Processed, None, {})
  BY <1>1, ProcessedParts
<1>3. f = Frame("create", Processed, None, {})
  BY <1>2 DEF Frame
<1>4. /\ Inv(en, mActiveEntries, request, Tail(stack), presumed)
      /\ e \in Entries /\ en[e].alive /\ ~en[e].doomed
      /\ \A g \in Elements(Tail(stack)) : (g.op = "deactivate" => g.entry # e) /\ e \notin g.left
  BY <1>1, <1>2, FoundInv
<1>5. f \in FrameType /\ f.op = "create" /\ f.left = {}
  BY <1>2, <1>3 DEF Frame, FrameType
<1>6. Tail(stack) \in Seq(FrameType)
  BY <1>1, TopParts
<1> HIDE DEF k, en, e, f
<1>7. Inv(en, mActiveEntries, request, rest, presumed)
  <2>1. Inv(en, mActiveEntries, request, <<Frame("create", Processed, None, {})>> \o Tail(stack), presumed)
    BY <1>2, <1>4, ProcessPushed
  <2> QED
    BY <1>3, <2>1, Zenon
<1>8. Elements(rest) = {f} \cup Elements(Tail(stack))
  BY <1>5, <1>6, PushedFrame
<1> HIDE DEF rest
<1>9. \A g \in Elements(rest) : g.op # "process" /\ (g.op = "deactivate" => g.entry # e) /\ e \notin g.left
  BY <1>2, <1>4, <1>5, <1>8
<1>10. Inv(entry', mActiveEntries', request, stack', presumed')
  BY <1>1, <1>4, <1>7, <1>9, DoomEntryInv
<1> QED
  BY <1>1, <1>10

------------------------------------------------------------------------------
(* A request gets access to an entry or waits for it.                        *)

\* r asks for an entry that can be found; if it has waited for it before, it has left the queue.
AskOK(en0, table, en, stk, r, e) ==
    /\ Inv(en0, table, request, stk, presumed) /\ e \in Entries /\ r \in Requests
    /\ en \in [Entries -> EntryType] /\ OnlyEntry(en0, en, e) /\ en[e].valid = en0[e].valid
    /\ Queue(en, e) = Queue(en0, e) \ {r}
    /\ en[e].alive /\ ~en[e].doomed
    /\ request[r].entry \in {None, e} /\ ~Holding(request[r]) /\ request[r].args \in Argument
    /\ \A g \in Elements(stk) : g.op \in {"process", "create"} => g.request # r
    /\ ~Attends(stk, {"deactivate"}, e)

LEMMA GetAccessInv ==
    ASSUME NEW en0, NEW table, NEW en, NEW stk, NEW r, NEW e,
           AskOK(en0, table, en, stk, r, e), GetAccess(en, r, e)
    PROVE  Inv(entry', table, request', stk, presumed')
<1> DEFINE D == Descriptors(request, e)
           x == WithDescriptor(r, e, AccessGranted(r, e))
<1>1. /\ Inv(en0, table, request, stk, presumed) /\ e \in Entries /\ r \in Requests
      /\ en \in [Entries -> EntryType] /\ OnlyEntry(en0, en, e) /\ en[e].valid = en0[e].valid
      /\ Queue(en, e) = Queue(en0, e) \ {r}
      /\ en[e].alive /\ ~en[e].doomed
      /\ request[r].entry \in {None, e} /\ ~Holding(request[r]) /\ request[r].args \in Argument
      /\ \A g \in Elements(stk) : g.op \in {"process", "create"} => g.request # r
      /\ ~Attends(stk, {"deactivate"}, e)
  BY DEF AskOK
<1>2. /\ D # {} => en[e].valid
      /\ request' = [request EXCEPT ![r] = x] /\ entry' = FirstMarks(en, r, e)
  BY DEF GetAccess, MustWait
<1>3. /\ request \in [Requests -> RequestType] /\ RequestOK(en0, request) /\ QueueOK(en0, request)
      /\ en0 \in [Entries -> EntryType] /\ presumed \subseteq Entries
      /\ WaitOK(en0, request, stk, presumed)
      /\ Core(en0, table, request, stk, presumed) /\ WaitBut(en0, request, stk, presumed, e)
  BY <1>1, InvParts, WaitSome DEF Inv
<1>4. /\ AccessGranted(r, e) \in SUBSET ACCESS_READ_WRITE
      /\ D # {} => "write" \notin AccessGranted(r, e)
  BY <1>1 DEF AccessGranted, Argument, ACCESS_READ, ACCESS_WRITE, ACCESS_READ_WRITE
<1>5. x \in RequestType /\ x.pc \in {"granted", "open"} /\ x.entry = e /\ x.granted = AccessGranted(r, e)
  <2> DEFINE p == IF Async(r) THEN "granted" ELSE "open"
  <2>1. x = [request[r] EXCEPT !.pc = p, !.entry = e, !.granted = AccessGranted(r, e)] /\ p \in {"granted", "open"}
    BY DEF WithDescriptor
  <2> HIDE DEF p, x
  <2> QED
    BY <1>1, <1>3, <1>4, <2>1 DEF RequestType
<1>6. /\ entry' \in [Entries -> EntryType] /\ OnlyEntry(en, entry', e) /\ entry'[e].requestQ = en[e].requestQ
      /\ D # {} => entry' = en
  <2>1. CASE D = {}
    <3> DEFINE v == "write" \notin request[r].args.access
    <3>1. v \in BOOLEAN
      OBVIOUS
    <3>2. entry' = [en EXCEPT ![e].valid = v]
      BY <1>2, <2>1 DEF FirstMarks
    <3> HIDE DEF v, D
    <3>3. en \in [Entries -> EntryType] /\ e \in Entries
      BY <1>1
    <3>4. /\ entry' \in [Entries -> EntryType] /\ entry'[e] = [en[e] EXCEPT !.valid = v]
          /\ \A d \in Entries \ {e} : entry'[d] = en[d]
      BY ONLY <3>1, <3>2, <3>3 DEF EntryType
    <3>5. /\ entry'[e].alive = en[e].alive /\ entry'[e].key = en[e].key /\ entry'[e].doomed = en[e].doomed
          /\ entry'[e].active = en[e].active /\ entry'[e].requestQ = en[e].requestQ
      BY ONLY <3>3, <3>4 DEF EntryType
    <3> QED
      BY <2>1, <3>4, <3>5, Zenon DEF OnlyEntry
  <2>2. CASE D # {}
    <3>1. entry' = en
      BY <1>2, <2>2 DEF FirstMarks
    <3> QED
      BY <1>1, <2>2, <3>1 DEF OnlyEntry
  <2> QED
    BY <2>1, <2>2
<1>7. presumed' = (IF entry'[e].valid /\ ~en[e].valid /\ en[e].requestQ # << >> THEN presumed \cup {e} ELSE presumed)
  BY <1>2 DEF GetAccess
<1> HIDE DEF x
<1>8. presumed \subseteq presumed' /\ presumed' \subseteq Entries
  BY <1>1, <1>3, <1>7
<1>9. OnlyEntry(en0, entry', e) /\ Queue(entry', e) = Queue(en0, e) \ {r}
  BY <1>1, <1>6 DEF OnlyEntry, Queue
<1>10. r \notin D
  BY <1>1 DEF Descriptors, Holding
<1>11. /\ Holding(x) => \A w \in D \ {r} :
             entry'[e].valid /\ ("write" \notin x.granted \/ "write" \notin request[w].granted)
       /\ entry'[e].valid \/ ~en0[e].valid \/ D \subseteq {r}
  <2>1. CASE D = {}
    BY <2>1
  <2>2. CASE D # {}
    BY <1>2, <1>4, <1>5, <1>6, <2>2
  <2> QED
    BY <2>1, <2>2
<1>12. /\ x.entry = e /\ (Waits(x) \/ Holding(x)) /\ en0[e].alive /\ ~Attends(stk, {"deactivate"}, e)
       /\ ~Waits(x) /\ x.pc \notin {"queued", "waiting", "woken", "opening"} /\ request[r].pc # "open"
  BY <1>1, <1>5 DEF Waits, Holding, OnlyEntry
<1>13. RequestChanged(en0, table, request, stk, presumed, e, r, x, entry', presumed')
  BY <1>1, <1>3, <1>5, <1>6, <1>8, <1>9, <1>11, <1>12 DEF RequestChanged
<1>14. Core(entry', table, request', stk, presumed') /\ WaitBut(entry', request', stk, presumed', e)
  BY <1>2, <1>13, OneChange
<1>15. r \in Descriptors(request', e)
  BY <1>1, <1>2, <1>3, <1>5 DEF Descriptors
<1>16. ASSUME NEW s \in Requests, Stuck(request'[s]), request'[s].entry = e
       PROVE  Helped(entry', request', stk, presumed', e)
  <2>1. s # r /\ request'[s] = request[s]
    BY <1>1, <1>2, <1>3, <1>5, <1>16 DEF Stuck
  <2>2. s \in Queue(en, e)
    <3>1. Waits(request[s]) /\ request[s].entry = e
      BY <1>16, <2>1 DEF Stuck, Waits
    <3> QED
      BY <1>1, <1>3, <2>1, <3>1, InQueue
  <2>3. Helped(en0, request, stk, presumed, e)
    BY <1>3, <1>16, <2>1 DEF WaitOK
  <2>4. en[e].requestQ # << >>
    BY <2>2, ElementsEmpty DEF Queue
  <2>5. CASE ~entry'[e].valid
    <3>1. ~entry'[e].doomed
      BY <1>1, <1>6 DEF OnlyEntry
    <3> QED
      BY <1>15, <2>5, <3>1 DEF Helped
  <2>6. CASE entry'[e].valid /\ ~en[e].valid
    BY <1>7, <2>4, <2>6 DEF Helped
  <2>7. CASE en[e].valid
    BY <1>1, <1>8, <2>3, <2>7 DEF Helped
  <2> QED
    BY <2>5, <2>6, <2>7
<1> QED
  BY <1>14, <1>16, WaitAll

LEMMA WaitInv ==
    ASSUME NEW en0, NEW table, NEW en, NEW stk, NEW r, NEW e,
           AskOK(en0, table, en, stk, r, e), Wait(en, r, e)
    PROVE  Inv(entry', table, request', stk, presumed')
<1> DEFINE D == Descriptors(request, e)
           p == IF Async(r) THEN "queued" ELSE "waiting"
           x == [request[r] EXCEPT !.pc = p, !.entry = e]
<1>1. /\ Inv(en0, table, request, stk, presumed) /\ e \in Entries /\ r \in Requests
      /\ en \in [Entries -> EntryType] /\ OnlyEntry(en0, en, e) /\ en[e].valid = en0[e].valid
      /\ Queue(en, e) = Queue(en0, e) \ {r}
      /\ en[e].alive /\ ~en[e].doomed
      /\ request[r].entry \in {None, e} /\ ~Holding(request[r]) /\ request[r].args \in Argument
      /\ \A g \in Elements(stk) : g.op \in {"process", "create"} => g.request # r
      /\ ~Attends(stk, {"deactivate"}, e)
  BY DEF AskOK
<1>2. /\ request \in [Requests -> RequestType] /\ RequestOK(en0, request) /\ QueueOK(en0, request)
      /\ en0 \in [Entries -> EntryType] /\ presumed \subseteq Entries
      /\ Core(en0, table, request, stk, presumed) /\ WaitBut(en0, request, stk, presumed, e)
  BY <1>1, InvParts, WaitSome DEF Inv
<1>3. /\ D # {} /\ ~en[e].valid /\ presumed' = presumed
      /\ entry' = [en EXCEPT ![e].requestQ = Append(@, r)]
      /\ request' = [request EXCEPT ![r].pc = p, ![r].entry = e]
  BY DEF Wait, MustWait
<1>4. p \in {"queued", "waiting"} /\ (p = "queued" <=> Async(r))
  OBVIOUS
<1> HIDE DEF p
<1>5. x \in RequestType /\ x.pc = p /\ x.entry = e /\ x.args = request[r].args
  <2>1. request[r] \in RequestType /\ e \in Entries
    BY ONLY <1>1, <1>2
  <2>2. x = [request[r] EXCEPT !.pc = p, !.entry = e]
    OBVIOUS
  <2> HIDE DEF x
  <2> QED
    BY ONLY <1>4, <2>1, <2>2 DEF RequestType
<1>6. request' = [request EXCEPT ![r] = x]
  <2>1. request \in [Requests -> RequestType] /\ r \in Requests
    BY <1>1, <1>2
  <2> QED
    BY ONLY <1>3, <2>1
<1> HIDE DEF x
<1>7. (x.pc = "queued" <=> Listens(x)) /\ Waits(x) /\ ~Holding(x) /\ x.pc \in {"queued", "waiting"}
  BY <1>4, <1>5 DEF Listens, Async, Waits, Holding
<1>8. /\ entry' \in [Entries -> EntryType] /\ Queue(entry', e) = Queue(en, e) \cup {r} /\ entry'[e].valid = en[e].valid
      /\ OnlyEntry(en, entry', e)
  <2>1. en[e].requestQ \in Seq(Requests)
    BY <1>1, QueueMembers
  <2>2. Append(en[e].requestQ, r) \in Seq(Requests) /\ Elements(Append(en[e].requestQ, r)) = Queue(en, e) \cup {r}
    BY <1>1, <2>1, ElementsAppend DEF Queue
  <2> DEFINE q == Append(en[e].requestQ, r)
  <2>3. entry' = [en EXCEPT ![e].requestQ = q]
    BY <1>3
  <2>4. q \in Seq(Requests) /\ Elements(q) = Queue(en, e) \cup {r}
    BY <2>2
  <2> HIDE DEF q
  <2>5. entry'[e] = [en[e] EXCEPT !.requestQ = q] /\ \A d \in Entries \ {e} : entry'[d] = en[d]
    BY <1>1, <2>3
  <2>6. en[e] \in EntryType
    BY <1>1
  <2>7. entry'[e] \in EntryType
    BY <2>4, <2>5, <2>6 DEF EntryType
  <2>8. /\ entry'[e].requestQ = q /\ entry'[e].valid = en[e].valid
        /\ entry'[e].alive = en[e].alive /\ entry'[e].key = en[e].key
        /\ entry'[e].doomed = en[e].doomed /\ entry'[e].active = en[e].active
    BY <2>5, <2>6 DEF EntryType
  <2>9. entry' \in [Entries -> EntryType]
    BY <1>1, <2>3, <2>5, <2>7
  <2>10. Queue(entry', e) = Queue(en, e) \cup {r}
    BY <2>4, <2>8 DEF Queue
  <2> QED
    BY <2>5, <2>8, <2>9, <2>10 DEF OnlyEntry
<1>9. OnlyEntry(en0, entry', e)
  BY <1>1, <1>8 DEF OnlyEntry
<1>10. /\ \A s \in Requests \ {r} : s \in Queue(entry', e) <=> s \in Queue(en0, e)
       /\ r \in Queue(entry', e)
  BY <1>1, <1>8
<1>11. en0[e].alive /\ ~en0[e].doomed /\ request[r].pc # "open" /\ ~en0[e].valid
  BY <1>1, <1>3 DEF OnlyEntry, Holding
<1> HIDE DEF D
<1>12. RequestChanged(en0, table, request, stk, presumed, e, r, x, entry', presumed')
  BY <1>1, <1>2, <1>3, <1>5, <1>7, <1>8, <1>9, <1>10, <1>11 DEF RequestChanged
<1>13. Core(entry', table, request', stk, presumed') /\ WaitBut(entry', request', stk, presumed', e)
  BY <1>6, <1>12, OneChange
<1>14. Descriptors(request', e) # {}
  <2>1. PICK w \in D : TRUE
    BY <1>3
  <2>2. w # r /\ w \in Requests
    BY <1>1, <2>1 DEF D, Descriptors, Holding
  <2> QED
    BY <1>2, <1>6, <2>1, <2>2 DEF D, Descriptors
<1>15. Helped(entry', request', stk, presumed', e)
  BY <1>1, <1>3, <1>8, <1>14 DEF Helped, OnlyEntry
<1> QED
  BY <1>13, <1>15, WaitAll

LEMMA FoundActive ==
    ASSUME CacheInv, Top("process"), NEW k \in Keys, Active(k) \/ EntryLeft,
           NEW e, e = Found(k), NEW en, en = [WithFound(k) EXCEPT ![e].active = TRUE],
           NEW table, table = [mActiveEntries EXCEPT ![k] = e]
    PROVE  /\ Inv(en, table, request, Tail(stack), presumed)
           /\ e \in Entries /\ en[e].alive /\ ~en[e].doomed /\ en[e].active
<1>1. Inv(entry, mActiveEntries, request, Tail(stack), presumed)
  BY ProcessedParts
<1>2. CASE Active(k)
  <2>1. e = mActiveEntries[k] /\ e # None /\ en = [entry EXCEPT ![e].active = TRUE]
    BY <1>2 DEF Found, WithFound, Active
  <2>2. e \in Entries /\ entry[e].alive /\ entry[e].active /\ ~entry[e].doomed
    BY <2>1, CurrentParts DEF TableOK
  <2>3. table = mActiveEntries
    BY <2>1, CurrentParts
  <2>4. /\ en[e] = [entry[e] EXCEPT !.active = TRUE] /\ entry[e] \in EntryType
        /\ \A d \in Entries \ {e} : en[d] = entry[d] /\ entry[d] \in EntryType
    BY <2>1, <2>2, CurrentParts
  <2> DEFINE b == en[e]
             a == entry[e]
  <2>11. b = [a EXCEPT !.active = TRUE] /\ a \in EntryType
    BY <2>4
  <2> HIDE DEF a, b
  <2>12. b \in EntryType /\ b.active /\ b.alive = a.alive /\ b.key = a.key /\ b.doomed = a.doomed
        /\ b.valid = a.valid /\ b.requestQ = a.requestQ
    BY <2>11 DEF EntryType
  <2>5. /\ en[e] \in EntryType /\ en[e].active
        /\ en[e].alive = entry[e].alive /\ en[e].key = entry[e].key
        /\ en[e].doomed = entry[e].doomed
        /\ en[e].valid = entry[e].valid /\ en[e].requestQ = entry[e].requestQ
    BY <2>12 DEF a, b
  <2>6. entry[e].active = TRUE /\ en[e].active = TRUE
    BY <2>2, <2>4, <2>5 DEF EntryType
  <2>7. \A d \in Entries : /\ en[d].alive = entry[d].alive /\ en[d].key = entry[d].key
                           /\ en[d].doomed = entry[d].doomed /\ en[d].active = entry[d].active
                           /\ en[d].valid = entry[d].valid /\ en[d].requestQ = entry[d].requestQ
    BY <2>4, <2>5, <2>6
  <2>8. en \in [Entries -> EntryType]
    BY <2>1, <2>4, <2>5, CurrentParts
  <2>9. Inv(en, mActiveEntries, request, Tail(stack), presumed)
    BY <1>1, <2>7, <2>8, BitsInv
  <2> QED
    BY <2>2, <2>3, <2>5, <2>9
<1>3. CASE ~Active(k)
  <2> DEFINE n == [FromDevice(k) EXCEPT !.active = TRUE]
  <2>1. e = Unused /\ WithFound(k) = [entry EXCEPT ![e] = FromDevice(k)]
    BY <1>3 DEF Found, WithFound
  <2>2. /\ Unused \in Entries /\ ~entry[Unused].alive
        /\ FromDevice(k) \in EntryType /\ FromDevice(k).alive /\ ~FromDevice(k).doomed
        /\ FromDevice(k).requestQ = << >> /\ FromDevice(k).key = k
    BY <1>3, FreshEntry
  <2>3. n \in EntryType /\ n.alive /\ ~n.doomed /\ n.requestQ = << >> /\ n.key = k /\ n.active
    BY <2>2 DEF EntryType
  <2>4. WithFound(k)[e] = FromDevice(k) /\ e \in Entries
    BY <2>1, <2>2, CurrentParts
  <2>5. en = [entry EXCEPT ![e] = n]
    BY <2>1, <2>4, CurrentParts
  <2> HIDE DEF n
  <2>6. FreshOK(entry, mActiveEntries, request, Tail(stack), presumed, e, n, en, table)
    BY <1>1, <2>1, <2>2, <2>3, <2>5 DEF FreshOK
  <2>7. Inv(en, table, request, Tail(stack), presumed)
    BY <2>6, FreshInv
  <2>8. en[e] = n
    BY <2>4, <2>5, CurrentParts
  <2> QED
    BY <2>3, <2>4, <2>7, <2>8
<1> QED
  BY <1>2, <1>3

LEMMA UseFoundStep ==
    ASSUME CacheInv, UseFound
    PROVE  Inv(entry', mActiveEntries', request', stack', presumed')
<1> DEFINE r == Processed
           k == KeyOf(Processed)
           e == Found(k)
           en == [WithFound(k) EXCEPT ![e].active = TRUE]
           table == [mActiveEntries EXCEPT ![k] = e]
<1>1. /\ Top("process") /\ (Active(k) \/ EntryLeft)
      /\ GetAccess(en, r, e) \/ Wait(en, r, e) \/ WillNotWait(en, r, e)
      /\ mActiveEntries' = table /\ stack' = Tail(stack)
  BY DEF UseFound
<1>2. /\ r \in Requests /\ request[r].pc = "opening" /\ request[r].entry = None
      /\ request[r].args \in Argument /\ k \in Keys
      /\ \A g \in Elements(Tail(stack)) :
            FrameOK(entry, request, g) /\ (g.op \in {"process", "create"} => g.request # r)
  BY <1>1, ProcessedParts
<1>3. /\ Inv(en, table, request, Tail(stack), presumed)
      /\ e \in Entries /\ en[e].alive /\ ~en[e].doomed /\ en[e].active
  BY <1>1, <1>2, FoundActive
<1> HIDE DEF r, k, e, en, table
<1>4. StackOK(en, request, Tail(stack)) /\ RequestOK(en, request) /\ QueueOK(en, request) /\ en \in [Entries -> EntryType]
      /\ request \in [Requests -> RequestType]
  BY <1>3, InvParts DEF Inv
<1>5. ~Attends(Tail(stack), {"deactivate"}, e)
  BY <1>3, <1>4 DEF Attends, StackOK, FrameOK, Unlisted
<1>6. r \notin Queue(en, e)
  BY <1>2, <1>3, <1>4, InQueue DEF Waits
<1>7. Queue(en, e) = Queue(en, e) \ {r} /\ OnlyEntry(en, en, e)
  BY <1>6 DEF OnlyEntry
<1>8. AskOK(en, table, en, Tail(stack), r, e)
  BY <1>2, <1>3, <1>4, <1>5, <1>7 DEF AskOK, Holding
<1>9. CASE GetAccess(en, r, e)
  <2>1. Inv(entry', table, request', Tail(stack), presumed')
    BY <1>8, <1>9, GetAccessInv
  <2> QED
    BY <1>1, <2>1
<1>10. CASE Wait(en, r, e)
  <2>1. Inv(entry', table, request', Tail(stack), presumed')
    BY <1>8, <1>10, WaitInv
  <2> QED
    BY <1>1, <2>1
<1>11. CASE WillNotWait(en, r, e)
  <2> DEFINE x == Closed(r)
  <2>1. entry' = en /\ presumed' = presumed /\ request' = [request EXCEPT ![r] = x]
    BY <1>11 DEF WillNotWait
  <2>2. x \in RequestType /\ x.entry = None /\ ~Waits(x) /\ x.pc = "done"
    BY ClosedFacts
  <2> HIDE DEF x
  <2>3. Inv(en, table, [request EXCEPT ![r] = x], Tail(stack), presumed)
    BY <1>2, <1>3, <2>2, NoEntryChange
  <2> QED
    BY <1>1, <2>1, <2>3
<1> QED
  BY <1>1, <1>9, <1>10, <1>11

LEMMA CreateEntryStep ==
    ASSUME CacheInv, CreateEntry
    PROVE  Inv(entry', mActiveEntries', request', stack', presumed')
<1> DEFINE r == Processed
           k == KeyOf(Processed)
           e == Unused
           n == [NoEntry EXCEPT !.alive = TRUE, !.key = k, !.active = TRUE]
           x == WithDescriptor(r, e, ACCESS_WRITE)
           s == Tail(stack)
<1>1. /\ Top("process") \/ Top("create")
      /\ EntryLeft /\ entry' = [entry EXCEPT ![e] = n] /\ mActiveEntries' = [mActiveEntries EXCEPT ![k] = e]
      /\ request' = [request EXCEPT ![r] = x] /\ stack' = s /\ presumed' = presumed
  BY DEF CreateEntry, NothingFound
<1>2. /\ r \in Requests /\ request[r].pc = "opening" /\ request[r].entry = None
      /\ request[r].args \in Argument /\ k \in Keys
      /\ Inv(entry, mActiveEntries, request, s, presumed)
      /\ \A g \in Elements(s) : g.op \in {"process", "create"} => g.request # r
  BY <1>1, ProcessedParts
<1>3. e \in Entries /\ ~entry[e].alive
  BY <1>1, <1>2, FreshEntry
<1> HIDE DEF r, k, e, s
<1>0. n = [NoEntry EXCEPT !.alive = TRUE, !.key = k, !.active = TRUE]
  OBVIOUS
<1> HIDE DEF n
<1>4. n = [alive |-> TRUE, key |-> k, doomed |-> FALSE, active |-> TRUE, valid |-> FALSE,
           expired |-> FALSE, bound |-> FALSE, requestQ |-> << >>]
  BY <1>0 DEF NoEntry
<1>5. n \in EntryType /\ n.alive /\ ~n.doomed /\ n.requestQ = << >> /\ n.key = k /\ n.active /\ ~n.valid
  BY <1>2, <1>4 DEF EntryType
<1>6. x \in RequestType /\ x.pc \in {"granted", "open"} /\ x.entry = e
  <2> DEFINE p == IF Async(r) THEN "granted" ELSE "open"
  <2>1. x = [request[r] EXCEPT !.pc = p, !.entry = e, !.granted = ACCESS_WRITE] /\ p \in {"granted", "open"}
    BY DEF WithDescriptor
  <2> HIDE DEF p, x
  <2>2. request[r] \in RequestType /\ ACCESS_WRITE \subseteq ACCESS_READ_WRITE
    BY <1>2, CurrentParts DEF ACCESS_WRITE, ACCESS_READ_WRITE
  <2> QED
    BY <1>3, <2>1, <2>2 DEF RequestType
<1> HIDE DEF x
<1>7. FreshOK(entry, mActiveEntries, request, s, presumed, e, n, entry', mActiveEntries')
  BY <1>1, <1>2, <1>3, <1>5 DEF FreshOK
<1>8. /\ Inv(entry', mActiveEntries', request, s, presumed)
      /\ \A q \in Requests : request[q].entry # e
      /\ \A g \in Elements(s) : (g.op \in {"pending", "deactivate", "validate"} => g.entry # e) /\ e \notin g.left
  BY <1>7, FreshInv
<1>9. entry'[e] = n
  BY <1>1, <1>3, CurrentParts
<1>10. /\ Core(entry', mActiveEntries', request, s, presumed) /\ WaitBut(entry', request, s, presumed, e)
       /\ entry' \in [Entries -> EntryType] /\ presumed \subseteq Entries
  <2>1. Inv(entry', mActiveEntries', request, s, presumed)
    BY <1>8
  <2>2. Core(entry', mActiveEntries', request, s, presumed) /\ WaitBut(entry', request, s, presumed, e)
    BY <2>1, WaitSome
  <2> QED
    BY <2>2, InvParts
<1>11. Queue(entry', e) = {}
  BY <1>5, <1>9, ElementsEmpty DEF Queue
<1>12. Descriptors(request, e) = {} /\ ~Attends(s, {"deactivate"}, e)
  BY <1>8 DEF Descriptors, Attends
<1>13. ~Waits(x) /\ Holding(x) /\ x.pc \notin {"queued", "waiting", "woken", "opening"}
  BY <1>6 DEF Waits, Holding
<1>14. RequestChanged(entry', mActiveEntries', request, s, presumed, e, r, x, entry', presumed)
  BY <1>2, <1>3, <1>5, <1>6, <1>9, <1>10, <1>11, <1>12, <1>13 DEF RequestChanged, OnlyEntry
<1>15. Core(entry', mActiveEntries', request', s, presumed) /\ WaitBut(entry', request', s, presumed, e)
  BY <1>1, <1>14, OneChange
<1>16. ASSUME NEW q \in Requests, Stuck(request'[q]), request'[q].entry = e
       PROVE  Helped(entry', request', s, presumed, e)
  <2>1. q = r
    BY <1>1, <1>8, <1>16, CurrentParts
  <2>2. request'[q] = x
    BY <1>1, <2>1, CurrentParts
  <2> QED
    BY <1>6, <1>16, <2>2 DEF Stuck
<1>17. Inv(entry', mActiveEntries', request', s, presumed)
  BY <1>15, <1>16, WaitAll
<1> QED
  BY <1>1, <1>17

------------------------------------------------------------------------------
(* Requests leave the queue of an entry that is doomed.                      *)

LessQueue(en, e, W) == [en EXCEPT ![e].requestQ = Sublist(en[e].requestQ, W)]

LEMMA ShorterQueue ==
    ASSUME NEW en \in [Entries -> EntryType], NEW e \in Entries, NEW W, NEW en2, en2 = LessQueue(en, e, W)
    PROVE  /\ en2 \in [Entries -> EntryType] /\ OnlyEntry(en, en2, e) /\ en2[e].valid = en[e].valid
           /\ Queue(en2, e) = Queue(en, e) \cap W /\ en2[e].requestQ = Sublist(en[e].requestQ, W)
<1> DEFINE q == Sublist(en[e].requestQ, W)
<1>1. q \in Seq(Requests) /\ Elements(q) = Queue(en, e) \cap W
  BY QueueMembers, ElementsSublist DEF Queue
<1>2. en2 = [en EXCEPT ![e].requestQ = q]
  BY DEF LessQueue
<1> HIDE DEF q
<1>3. en2[e] = [en[e] EXCEPT !.requestQ = q] /\ \A d \in Entries \ {e} : en2[d] = en[d]
  BY <1>2
<1>4. en[e] \in EntryType
  OBVIOUS
<1>5. en2[e] \in EntryType
  BY <1>1, <1>3, <1>4 DEF EntryType
<1>6. /\ en2[e].requestQ = q /\ en2[e].valid = en[e].valid
      /\ en2[e].alive = en[e].alive /\ en2[e].key = en[e].key
      /\ en2[e].doomed = en[e].doomed /\ en2[e].active = en[e].active
  BY <1>3, <1>4 DEF EntryType
<1>7. en2 \in [Entries -> EntryType]
  BY <1>2, <1>5
<1>8. Queue(en2, e) = Queue(en, e) \cap W
  BY <1>1, <1>6 DEF Queue
<1> QED
  BY <1>3, <1>6, <1>7, <1>8 DEF OnlyEntry, q

LEMMA ProcessPendingRequestStep ==
    ASSUME CacheInv, ProcessPendingRequest
    PROVE  Inv(entry', mActiveEntries', request', stack', presumed')
<1> DEFINE e == Head(stack).entry
           q == Sublist(entry[e].requestQ, Listeners)
           r == Head(q)
           x == [request[r] EXCEPT !.pc = "opening", !.entry = None]
<1>1. /\ Top("pending") /\ q # << >>
      /\ entry' = [entry EXCEPT ![e].requestQ = Without(@, r)]
      /\ request' = [request EXCEPT ![r].pc = "opening", ![r].entry = None]
      /\ stack' = <<Frame("process", r, None, {})>> \o stack
      /\ mActiveEntries' = mActiveEntries /\ presumed' = presumed
  BY DEF ProcessPendingRequest
<1>2. /\ Head(stack).op = "pending" /\ Head(stack) \in Elements(stack)
      /\ e \in Entries /\ entry[e].alive /\ entry[e].doomed
      /\ \A g \in Elements(Tail(stack)) : g.op # "process" /\ FrameOK(entry, request, g)
      /\ Elements(stack) = {Head(stack)} \cup Elements(Tail(stack))
  BY <1>1, TopParts DEF FrameOK
<1>3. r \in Requests /\ Async(r) /\ r \in Queue(entry, e)
  <2>1. entry[e].requestQ \in Seq(Requests)
    BY <1>2, CurrentParts, QueueMembers
  <2>2. q \in Seq(Requests) /\ Elements(q) = Queue(entry, e) \cap Listeners
    BY <2>1, ElementsSublist DEF Queue
  <2>3. q # << >>
    BY <1>1
  <2> HIDE DEF q
  <2>4. r \in Elements(q)
    BY <2>2, <2>3, ElementsType
  <2> QED
    BY <2>2, <2>4 DEF Listeners
<1>4. request[r].pc = "queued" /\ request[r].entry = e /\ request[r].args \in Argument
  <2>1. Waits(request[r]) /\ request[r].entry = e
    BY <1>2, <1>3, CurrentParts DEF QueueOK
  <2> QED
    BY <1>3, <2>1, CurrentParts DEF RequestOK, Waits, Async, Listens
<1>5. entry' = LessQueue(entry, e, Requests \ {r})
  BY <1>1, <1>2, CurrentParts DEF Without, LessQueue
<1> HIDE DEF e, q, r, x
<1>6. /\ entry' \in [Entries -> EntryType] /\ OnlyEntry(entry, entry', e) /\ entry'[e].valid = entry[e].valid
      /\ Queue(entry', e) = Queue(entry, e) \cap (Requests \ {r})
  <2>1. entry \in [Entries -> EntryType]
    BY CurrentParts
  <2> QED
    BY <1>2, <1>5, <2>1, ShorterQueue
<1>7. x \in RequestType /\ x.pc = "opening" /\ x.entry = None /\ x.args = request[r].args
      /\ request' = [request EXCEPT ![r] = x]
  BY <1>1, <1>3, CurrentParts DEF x, RequestType
<1>8. Core(entry, mActiveEntries, request, stack, presumed) /\ WaitBut(entry, request, stack, presumed, e)
  BY CurrentParts, WaitSome
<1>9. /\ \A s \in Requests \ {r} : s \in Queue(entry', e) <=> s \in Queue(entry, e)
      /\ r \notin Queue(entry', e)
  BY <1>6
<1>10. RequestChanged(entry, mActiveEntries, request, stack, presumed, e, r, x, entry', presumed)
  BY <1>2, <1>3, <1>4, <1>6, <1>7, <1>8, <1>9, CurrentParts DEF RequestChanged, Waits, Holding
<1>11. Core(entry', mActiveEntries, request', stack, presumed) /\ WaitBut(entry', request', stack, presumed, e)
  BY <1>7, <1>10, OneChange
<1>12. Helped(entry', request', stack, presumed, e)
  BY <1>2 DEF Helped, Attends, e
<1>13. Inv(entry', mActiveEntries, request', stack, presumed)
  BY <1>11, <1>12, WaitAll
<1>14. \A g \in Elements(stack) : g.op # "process" /\ (g.op = "create" => g.request # r)
  BY <1>2, <1>4 DEF FrameOK
<1>15. request'[r].pc = "opening"
  BY <1>3, <1>7, CurrentParts
<1>16. Inv(entry', mActiveEntries, request', <<Frame("process", r, None, {})>> \o stack, presumed)
  BY <1>3, <1>13, <1>14, <1>15, ProcessPushed
<1> QED
  BY <1>1, <1>16

\* Requests are woken.
LEMMA AwakeFacts ==
    ASSUME NEW rq \in [Requests -> RequestType], NEW rs
    PROVE  /\ Awake(rq, rs) \in [Requests -> RequestType]
           /\ \A r \in Requests :
                 /\ Awake(rq, rs)[r].pc = rq[r].pc /\ Awake(rq, rs)[r].args = rq[r].args
                 /\ Awake(rq, rs)[r].entry = rq[r].entry /\ Awake(rq, rs)[r].granted = rq[r].granted
                 /\ r \in rs => ~Awake(rq, rs)[r].waitFlag
                 /\ r \notin rs => Awake(rq, rs)[r] = rq[r]
<1> DEFINE a == Awake(rq, rs)
<1>1. a = [r \in Requests |-> IF r \in rs THEN [rq[r] EXCEPT !.waitFlag = FALSE] ELSE rq[r]]
  BY DEF Awake
<1> HIDE DEF a
<1>2. ASSUME NEW r \in Requests
      PROVE  /\ a[r] \in RequestType /\ a[r].pc = rq[r].pc /\ a[r].args = rq[r].args
             /\ a[r].entry = rq[r].entry /\ a[r].granted = rq[r].granted
             /\ r \in rs => ~a[r].waitFlag
             /\ r \notin rs => a[r] = rq[r]
  <2>1. rq[r] \in RequestType
    OBVIOUS
  <2>2. CASE r \in rs
    <3>1. a[r] = [rq[r] EXCEPT !.waitFlag = FALSE]
      BY <1>1, <2>2
    <3> QED
      BY <2>1, <2>2, <3>1 DEF RequestType
  <2>3. CASE r \notin rs
    BY <1>1, <2>1, <2>3
  <2> QED
    BY <2>2, <2>3
<1>3. a \in [Requests -> RequestType]
  BY <1>1, <1>2
<1> QED
  BY <1>2, <1>3 DEF a

\* Who waits for one entry is woken.
LEMMA AwakeInv ==
    ASSUME NEW en, NEW table, NEW rq, NEW stk, NEW pr, NEW e \in Entries, NEW rs,
           Core(en, table, rq, stk, pr), WaitBut(en, rq, stk, pr, e), rs \subseteq Queue(en, e)
    PROVE  Core(en, table, Awake(rq, rs), stk, pr) /\ WaitBut(en, Awake(rq, rs), stk, pr, e)
<1> DEFINE a == Awake(rq, rs)
<1>1. /\ en \in [Entries -> EntryType]
      /\ rq \in [Requests -> RequestType] /\ stk \in Seq(FrameType) /\ pr \subseteq Entries
      /\ RequestOK(en, rq) /\ QueueOK(en, rq)
      /\ StackOK(en, rq, stk) /\ WriterOK(en, rq) /\ ListenersOK(en, rq, stk)
  BY InvParts
<1>2. /\ a \in [Requests -> RequestType]
      /\ \A r \in Requests :
            /\ a[r].pc = rq[r].pc /\ a[r].args = rq[r].args
            /\ a[r].entry = rq[r].entry /\ a[r].granted = rq[r].granted
            /\ r \in rs => ~a[r].waitFlag
            /\ r \notin rs => a[r] = rq[r]
  BY <1>1, AwakeFacts
<1> HIDE DEF a
<1>3. \A r \in Requests : a[r] # rq[r] => ChangeOK(en, rq, a, stk, e, r)
  <2> SUFFICES ASSUME NEW r \in Requests, r \in rs PROVE ChangeOK(en, rq, a, stk, e, r)
    BY <1>2
  <2>1. Waits(rq[r]) /\ rq[r].entry = e
    BY <1>1 DEF QueueOK
  <2>2. en[e].alive
    BY <1>1, <2>1, CacheAssumption DEF RequestOK
  <2>3. \A g \in Elements(stk) : g.op \in {"process", "create"} => g.request # r
    BY <1>1, <2>1 DEF StackOK, FrameOK, Waits
  <2>4. Waits(a[r]) /\ a[r].entry = e /\ a[r].args = rq[r].args /\ e # None
    BY <1>2, <2>1, CacheAssumption DEF Waits
  <2>5. /\ rq[r].pc = "queued" => Listens(rq[r])
        /\ rq[r].pc \in {"waiting", "woken"} => ~Listens(rq[r])
        /\ rq[r].args \in Argument
    BY <1>1, <2>1 DEF RequestOK
  <2> QED
    BY <1>2, <2>1, <2>2, <2>3, <2>4, <2>5 DEF ChangeOK, Listens
<1>4. Descriptors(a, e) = Descriptors(rq, e)
  BY <1>2 DEF Descriptors
<1>5. QueueRight(en, a, e)
  BY <1>1, <1>2, InQueue DEF QueueRight, Waits
<1>6. CallsRight(en, a, stk, e)
  <2>1. Attends(stk, {"validate"}, e) => \E r \in Requests : rq[r].pc = "open" /\ rq[r].entry = e
    BY <1>1 DEF Attends, StackOK, FrameOK
  <2>2. Attends(stk, {"deactivate"}, e) => \A r \in Requests : rq[r].entry # e
    BY <1>1 DEF Attends, StackOK, FrameOK
  <2>3. \A r \in Requests : rq[r].pc = "queued" /\ rq[r].entry = e /\ en[e].doomed => Attends(stk, {"pending"}, e)
    BY <1>1 DEF ListenersOK
  <2> QED
    BY <1>2, <2>1, <2>2, <2>3 DEF CallsRight
<1>7. WriterRight(en, a, e)
  <2>1. \A r \in Descriptors(rq, e) : a[r].granted = rq[r].granted
    BY <1>2 DEF Descriptors
  <2> QED
    BY <1>1, <1>4, <2>1 DEF WriterRight, WriterOK
<1>8. EntryChanged(en, table, rq, stk, pr, e, en, a, pr)
  BY <1>1, <1>2, <1>3, <1>5, <1>6, <1>7 DEF EntryChanged, OnlyEntry
<1>9. Core(en, table, a, stk, pr) /\ WaitBut(en, a, stk, pr, e)
  BY <1>8, EntryChange
<1> QED
  BY <1>9 DEF a

LEMMA AllAwake ==
    ASSUME NEW en, NEW table, NEW rq, NEW stk, NEW pr, NEW e \in Entries,
           Core(en, table, rq, stk, pr), WaitBut(en, rq, stk, pr, e),
           \A r \in Requests : rq[r].pc = "queued" => rq[r].entry # e,
           NEW rq2, rq2 = Awake(rq, Queue(en, e))
    PROVE  /\ Inv(en, table, rq2, stk, pr)
           /\ \A r \in Requests : Stuck(rq2[r]) => rq2[r].entry # e
           /\ \A r \in Requests : rq2[r].entry = rq[r].entry
<1>1. Core(en, table, rq2, stk, pr) /\ WaitBut(en, rq2, stk, pr, e)
  BY AwakeInv
<1>2. rq \in [Requests -> RequestType] /\ RequestOK(en, rq)
  BY InvParts
<1>3. \A r \in Requests :
         /\ rq2[r].pc = rq[r].pc /\ rq2[r].entry = rq[r].entry
         /\ r \in Queue(en, e) => ~rq2[r].waitFlag
  BY <1>2, AwakeFacts
<1>4. ASSUME NEW r \in Requests, Stuck(rq2[r]) PROVE rq2[r].entry # e
  <2> SUFFICES ASSUME rq2[r].entry = e PROVE FALSE
    OBVIOUS
  <2>1. rq[r].pc = "waiting" /\ rq[r].entry = e /\ rq2[r].waitFlag
    BY <1>3, <1>4 DEF Stuck
  <2>2. r \in Queue(en, e)
    BY <1>2, <2>1 DEF RequestOK, Waits
  <2> QED
    BY <1>3, <2>1, <2>2
<1>5. Inv(en, table, rq2, stk, pr)
  BY <1>1, <1>4, WaitAll
<1> QED
  BY <1>3, <1>4, <1>5

LEMMA NobodyUses ==
    ASSUME NEW en, NEW rq, RequestOK(en, rq), NEW e \in Entries, NotInUse(en, rq, e)
    PROVE  \A r \in Requests : rq[r].entry # e
<1> SUFFICES ASSUME NEW r \in Requests, rq[r].entry = e PROVE FALSE
  OBVIOUS
<1>1. Waits(rq[r]) \/ Holding(rq[r])
  BY CacheAssumption DEF RequestOK
<1>2. CASE Waits(rq[r])
  <2>1. r \in Queue(en, e)
    BY <1>2 DEF RequestOK
  <2> QED
    BY <2>1, ElementsEmpty DEF Queue, NotInUse
<1>3. CASE Holding(rq[r])
  BY <1>3 DEF Holding, NotInUse, Descriptors
<1> QED
  BY <1>1, <1>2, <1>3

LEMMA DoomCompletesStep ==
    ASSUME CacheInv, DoomCompletes
    PROVE  Inv(entry', mActiveEntries', request', stack', presumed')
<1> DEFINE e == Head(stack).entry
<1>1. /\ Top("pending") /\ Sublist(entry[e].requestQ, Listeners) = << >>
      /\ request' = Awake(request, Queue(entry, e))
      /\ entry' = (IF NotInUse(entry, request, e) THEN [entry EXCEPT ![e] = NoEntry] ELSE entry)
      /\ stack' = Tail(stack) /\ mActiveEntries' = mActiveEntries /\ presumed' = presumed
  BY DEF DoomCompletes, Queue
<1>2. /\ stack # << >> /\ Head(stack).op = "pending"
      /\ e \in Entries /\ entry[e].alive /\ entry[e].doomed
      /\ \A g \in Elements(Tail(stack)) :
            FrameOK(entry, request, g) /\ (g.op = "pending" => g.entry # e)
  BY <1>1, TopParts DEF FrameOK
<1>3. \A r \in Requests : request[r].pc = "queued" => request[r].entry # e
  <2> SUFFICES ASSUME NEW r \in Requests, request[r].pc = "queued", request[r].entry = e PROVE FALSE
    OBVIOUS
  <2> HIDE DEF e
  <2>1. r \in Queue(entry, e) /\ r \in Listeners
    BY CurrentParts DEF RequestOK, Waits, Listens, Listeners, Async
  <2>2. entry[e].requestQ \in Seq(Requests)
    BY <1>2, CurrentParts, QueueMembers
  <2>3. Elements(Sublist(entry[e].requestQ, Listeners)) = Queue(entry, e) \cap Listeners
    BY <2>2, ElementsSublist DEF Queue
  <2> QED
    BY <1>1, <2>1, <2>3, ElementsEmpty
<1>4. /\ Inv(entry, mActiveEntries, request', stack, presumed)
      /\ \A r \in Requests : Stuck(request'[r]) => request'[r].entry # e
      /\ \A r \in Requests : request'[r].entry = request[r].entry
  <2>1. Core(entry, mActiveEntries, request, stack, presumed) /\ WaitBut(entry, request, stack, presumed, e)
    BY CurrentParts, WaitSome
  <2> HIDE DEF e
  <2> QED
    BY <1>1, <1>2, <1>3, <2>1, AllAwake
<1>5. Inv(entry, mActiveEntries, request', Tail(stack), presumed)
  BY <1>2, <1>4, PoppedInv
<1> HIDE DEF e
<1>6. CASE ~NotInUse(entry, request, e)
  BY <1>1, <1>5, <1>6
<1>7. CASE NotInUse(entry, request, e)
  <2>1. entry' = [entry EXCEPT ![e] = NoEntry]
    BY <1>1, <1>7
  <2>2. \A r \in Requests : request'[r].entry # e
    BY <1>2, <1>4, <1>7, CurrentParts, NobodyUses
  <2>3. \A k \in Keys : mActiveEntries[k] # e
    BY <1>2, CurrentParts, CacheAssumption DEF TableOK
  <2>4. \A g \in Elements(Tail(stack)) : (g.op \in {"pending", "deactivate"} => g.entry # e) /\ e \notin g.left
    BY <1>2 DEF FrameOK, Unlisted
  <2>5. presumed \in SUBSET Entries
    BY CurrentParts
  <2>6. Inv(entry', mActiveEntries, request', Tail(stack), presumed)
    BY <1>2, <1>5, <2>1, <2>2, <2>3, <2>4, <2>5, DeletedInv
  <2> QED
    BY <1>1, <2>6
<1> QED
  BY <1>6, <1>7

LEMMA AskAgainStep ==
    ASSUME CacheInv, NEW r \in Requests, AskAgain(r)
    PROVE  Inv(entry', mActiveEntries', request', stack', presumed')
<1> DEFINE e == request[r].entry
           en == [entry EXCEPT ![e].requestQ = Without(@, r)]
           x == [request[r] EXCEPT !.pc = "opening", !.entry = None]
<1>1. /\ stack = << >> /\ request[r].pc = "woken" /\ mActiveEntries' = mActiveEntries
      /\ \/ /\ ~en[e].doomed
            /\ GetAccess(en, r, e) \/ Wait(en, r, e)
            /\ stack' = stack
         \/ /\ en[e].doomed
            /\ entry' = (IF NotInUse(en, request, e) THEN [en EXCEPT ![e] = NoEntry] ELSE en)
            /\ request' = [request EXCEPT ![r].pc = "opening", ![r].entry = None]
            /\ stack' = <<Frame("process", r, None, {})>>
            /\ presumed' = presumed
  BY DEF AskAgain
<1>2. /\ e \in Entries /\ entry[e].alive /\ r \in Queue(entry, e) /\ request[r].args \in Argument
  BY <1>1, CurrentParts, OwnEntry DEF Waits, RequestOK
<1>3. Elements(stack) = {} /\ \A ops, d : ~Attends(stack, ops, d)
  BY <1>1, NoCall
<1>4. en = LessQueue(entry, e, Requests \ {r})
  BY <1>2, CurrentParts DEF Without, LessQueue
<1> HIDE DEF e, en, x
<1>5. /\ en \in [Entries -> EntryType] /\ OnlyEntry(entry, en, e) /\ en[e].valid = entry[e].valid
      /\ Queue(en, e) = Queue(entry, e) \cap (Requests \ {r})
  <2>1. entry \in [Entries -> EntryType]
    BY CurrentParts
  <2> QED
    BY <1>2, <1>4, <2>1, ShorterQueue
<1>6. Queue(en, e) = Queue(entry, e) \ {r} /\ request[r].entry = e /\ ~Holding(request[r])
  <2>1. Queue(entry, e) \subseteq Requests
    BY <1>2, CurrentParts, QueueMembers
  <2> QED
    BY <1>1, <1>5, <2>1 DEF Holding, e
<1>7. CASE ~en[e].doomed /\ (GetAccess(en, r, e) \/ Wait(en, r, e)) /\ stack' = stack
  <2>1. en[e].alive
    BY <1>2, <1>5 DEF OnlyEntry
  <2>2. AskOK(entry, mActiveEntries, en, stack, r, e)
    BY <1>2, <1>3, <1>5, <1>6, <1>7, <2>1, CurrentParts DEF AskOK
  <2>3. Inv(entry', mActiveEntries, request', stack, presumed')
    BY <1>7, <2>2, GetAccessInv, WaitInv
  <2> QED
    BY <1>1, <1>7, <2>3
<1>8. CASE /\ en[e].doomed
           /\ entry' = (IF NotInUse(en, request, e) THEN [en EXCEPT ![e] = NoEntry] ELSE en)
           /\ request' = [request EXCEPT ![r].pc = "opening", ![r].entry = None]
           /\ stack' = <<Frame("process", r, None, {})>>
           /\ presumed' = presumed
  <2>1. x \in RequestType /\ x.pc = "opening" /\ x.entry = None /\ x.args = request[r].args
        /\ request' = [request EXCEPT ![r] = x]
    BY <1>8, CurrentParts DEF x, RequestType
  <2>2. Core(entry, mActiveEntries, request, stack, presumed) /\ WaitBut(entry, request, stack, presumed, e)
    BY CurrentParts, WaitSome
  <2>3. RequestChanged(entry, mActiveEntries, request, stack, presumed, e, r, x, en, presumed)
    BY <1>1, <1>2, <1>3, <1>5, <1>6, <2>1, <2>2, CurrentParts DEF RequestChanged, Waits, Holding
  <2>4. Core(en, mActiveEntries, request', stack, presumed) /\ WaitBut(en, request', stack, presumed, e)
    BY <2>1, <2>3, OneChange
  <2>5. request'[r] = x /\ \A s \in Requests \ {r} : request'[s] = request[s]
    BY <2>1, CurrentParts
  <2>6. ASSUME NEW s \in Requests, Stuck(request'[s]), request'[s].entry = e
        PROVE  Helped(en, request', stack, presumed, e)
    <3>1. s # r /\ request'[s] = request[s]
      BY <2>1, <2>5, <2>6 DEF Stuck
    <3>2. Helped(entry, request, stack, presumed, e)
      BY <2>6, <3>1, CurrentParts DEF WaitOK
    <3>3. entry[e].doomed
      BY <1>5, <1>8 DEF OnlyEntry
    <3> QED
      BY <1>3, <3>2, <3>3 DEF Helped
  <2>7. Inv(en, mActiveEntries, request', stack, presumed)
    BY <2>4, <2>6, WaitAll
  <2>8. Inv(entry', mActiveEntries, request', stack, presumed)
    <3>1. CASE ~NotInUse(en, request, e)
      BY <1>8, <2>7, <3>1
    <3>2. CASE NotInUse(en, request, e)
      <4>1. entry' = [en EXCEPT ![e] = NoEntry]
        BY <1>8, <3>2
      <4>2. \A s \in Requests : request'[s].entry # e
        <5> SUFFICES ASSUME NEW s \in Requests, request'[s].entry = e PROVE FALSE
          OBVIOUS
        <5>1. s # r /\ request[s].entry = e
          BY <1>2, <2>1, <2>5, CacheAssumption
        <5>2. Waits(request[s]) \/ Holding(request[s])
          BY <1>2, <5>1, CurrentParts, CacheAssumption DEF RequestOK
        <5>3. ~Holding(request[s])
          BY <3>2, <5>1 DEF NotInUse, Descriptors, Holding
        <5>4. s \in Queue(en, e)
          BY <1>2, <1>6, <5>1, <5>2, <5>3, CurrentParts, InQueue
        <5> QED
          BY <3>2, <5>4, ElementsEmpty DEF NotInUse, Queue
      <4>3. \A k \in Keys : mActiveEntries[k] # e
        <5>1. entry[e].doomed
          BY <1>5, <1>8 DEF OnlyEntry
        <5> QED
          BY <1>2, <5>1, CurrentParts, CacheAssumption DEF TableOK
      <4>4. presumed \in SUBSET Entries
        BY CurrentParts
      <4> QED
        BY <1>2, <1>3, <2>7, <4>1, <4>2, <4>3, <4>4, DeletedInv
    <3> QED
      BY <3>1, <3>2
  <2>9. request'[r].pc = "opening"
    BY <2>1, <2>5
  <2>10. Inv(entry', mActiveEntries, request', <<Frame("process", r, None, {})>> \o stack, presumed)
    BY <1>3, <2>8, <2>9, ProcessPushed
  <2>11. <<Frame("process", r, None, {})>> \o stack = stack'
    BY <1>1, <1>8
  <2> QED
    BY <1>1, <1>8, <2>10, <2>11
<1> QED
  BY <1>1, <1>7, <1>8

------------------------------------------------------------------------------
(* The queue of an entry is served.                                          *)

\* A call in progress finds its entry in use while nobody closes a descriptor of it.
LEMMA CallsStay ==
    ASSUME NEW en, NEW rq, NEW stk, StackOK(en, rq, stk), ListenersOK(en, rq, stk), NEW e
    PROVE  CallsRight(en, rq, stk, e)
<1>1. Attends(stk, {"validate"}, e) => \E r \in Requests : rq[r].pc = "open" /\ rq[r].entry = e
  BY DEF Attends, StackOK, FrameOK
<1>2. Attends(stk, {"deactivate"}, e) => \A r \in Requests : rq[r].entry # e
  BY DEF Attends, StackOK, FrameOK
<1>3. \A r \in Requests : rq[r].pc = "queued" /\ rq[r].entry = e /\ en[e].doomed => Attends(stk, {"pending"}, e)
  BY DEF ListenersOK
<1> QED
  BY <1>1, <1>2, <1>3 DEF CallsRight

\* The entry becomes valid.
MarkedOK(en, table, rq, stk, pr, e, en2, pr2) ==
    /\ Core(en, table, rq, stk, pr) /\ WaitBut(en, rq, stk, pr, e) /\ e \in Entries
    /\ en2 = [en EXCEPT ![e].valid = TRUE] /\ pr2 \subseteq Entries /\ pr \ {e} \subseteq pr2

LEMMA MarkedValid ==
    ASSUME NEW en, NEW table, NEW rq, NEW stk, NEW pr, NEW e, NEW en2, NEW pr2,
           MarkedOK(en, table, rq, stk, pr, e, en2, pr2)
    PROVE  /\ Core(en2, table, rq, stk, pr2) /\ WaitBut(en2, rq, stk, pr2, e)
           /\ OnlyEntry(en, en2, e) /\ Queue(en2, e) = Queue(en, e) /\ en2[e].requestQ = en[e].requestQ /\ en2[e].valid
<1>0. /\ Core(en, table, rq, stk, pr) /\ WaitBut(en, rq, stk, pr, e) /\ e \in Entries
      /\ en2 = [en EXCEPT ![e].valid = TRUE] /\ pr2 \subseteq Entries /\ pr \ {e} \subseteq pr2
  BY DEF MarkedOK
<1>1. /\ en \in [Entries -> EntryType]
      /\ rq \in [Requests -> RequestType]
      /\ RequestOK(en, rq) /\ QueueOK(en, rq)
      /\ StackOK(en, rq, stk) /\ WriterOK(en, rq) /\ ListenersOK(en, rq, stk)
  BY <1>0, InvParts
<1>2. en2[e] = [en[e] EXCEPT !.valid = TRUE] /\ \A d \in Entries \ {e} : en2[d] = en[d]
  BY <1>0, <1>1
<1>3. en[e] \in EntryType
  BY <1>0, <1>1
<1>4. /\ en2[e] \in EntryType /\ en2[e].requestQ = en[e].requestQ /\ en2[e].valid
      /\ en2[e].alive = en[e].alive /\ en2[e].key = en[e].key
      /\ en2[e].doomed = en[e].doomed /\ en2[e].active = en[e].active
  <2> DEFINE a == en[e]
             b == en2[e]
  <2>1. b = [a EXCEPT !.valid = TRUE] /\ a \in EntryType
    BY <1>2, <1>3
  <2> HIDE DEF a, b
  <2>2. /\ b \in EntryType /\ b.requestQ = a.requestQ /\ b.valid
        /\ b.alive = a.alive /\ b.key = a.key /\ b.doomed = a.doomed /\ b.active = a.active
    BY <2>1 DEF EntryType
  <2> QED
    BY <2>2 DEF a, b
<1>5. en2 \in [Entries -> EntryType]
  BY <1>0, <1>1, <1>2, <1>4
<1>6. OnlyEntry(en, en2, e) /\ Queue(en2, e) = Queue(en, e)
  BY <1>2, <1>4 DEF OnlyEntry, Queue
<1>7. QueueRight(en2, rq, e)
  BY <1>0, <1>1, <1>6, InQueue DEF QueueRight
<1>8. CallsRight(en2, rq, stk, e)
  BY <1>0, <1>1, <1>4, CallsStay DEF CallsRight
<1>9. WriterRight(en2, rq, e)
  BY <1>0, <1>1, <1>4 DEF WriterRight, WriterOK
<1>10. EntryChanged(en, table, rq, stk, pr, e, en2, rq, pr2)
  BY <1>0, <1>1, <1>5, <1>6, <1>7, <1>8, <1>9 DEF EntryChanged
<1> QED
  BY <1>0, <1>4, <1>6, <1>10, EntryChange

\* The listeners that wait for e, L, get descriptors or are dropped (y), the others are woken.
ServedOK(en, table, rq, stk, pr, e, L, y, en2, rq2) ==
    /\ Core(en, table, rq, stk, pr) /\ WaitBut(en, rq, stk, pr, e) /\ e \in Entries
    /\ \A r \in Queue(en, e) : r \in L <=> Listens(rq[r])
    /\ en2 = LessQueue(en, e, Requests \ L)
    /\ \A r \in Requests : rq2[r] = IF r \in Queue(en, e) /\ r \in L THEN y[r] ELSE Awake(rq, Queue(en, e))[r]
    /\ rq2 \in [Requests -> RequestType]
    /\ \A r \in Queue(en, e) \cap L :
          \/ y[r].entry = None /\ y[r].pc = "dropped"
          \/ y[r].entry = e /\ y[r].pc = "granted" /\ "write" \notin y[r].granted /\ en[e].valid

LEMMA ServedInv ==
    ASSUME NEW en, NEW table, NEW rq, NEW stk, NEW pr, NEW e, NEW L, NEW y, NEW en2, NEW rq2,
           ServedOK(en, table, rq, stk, pr, e, L, y, en2, rq2)
    PROVE  /\ Inv(en2, table, rq2, stk, pr)
           /\ \A r \in Requests : Stuck(rq2[r]) => rq2[r].entry # e
<1> DEFINE a == Awake(rq, Queue(en, e))
<1>1. /\ Core(en, table, rq, stk, pr) /\ WaitBut(en, rq, stk, pr, e) /\ e \in Entries
      /\ \A r \in Queue(en, e) : r \in L <=> Listens(rq[r])
      /\ en2 = LessQueue(en, e, Requests \ L)
      /\ \A r \in Requests : rq2[r] = IF r \in Queue(en, e) /\ r \in L THEN y[r] ELSE a[r]
      /\ rq2 \in [Requests -> RequestType]
      /\ \A r \in Queue(en, e) \cap L :
            \/ y[r].entry = None /\ y[r].pc = "dropped"
            \/ y[r].entry = e /\ y[r].pc = "granted" /\ "write" \notin y[r].granted /\ en[e].valid
  BY DEF ServedOK
<1>2. /\ en \in [Entries -> EntryType] /\ rq \in [Requests -> RequestType] /\ pr \subseteq Entries
      /\ RequestOK(en, rq) /\ QueueOK(en, rq)
      /\ StackOK(en, rq, stk) /\ WriterOK(en, rq) /\ ListenersOK(en, rq, stk)
  BY <1>1, InvParts
<1>3. \A r \in Requests :
            /\ a[r].pc = rq[r].pc /\ a[r].args = rq[r].args
            /\ a[r].entry = rq[r].entry /\ a[r].granted = rq[r].granted
            /\ r \in Queue(en, e) => ~a[r].waitFlag
            /\ r \notin Queue(en, e) => a[r] = rq[r]
  BY <1>2, AwakeFacts
<1> HIDE DEF a
<1>4. /\ en2 \in [Entries -> EntryType] /\ OnlyEntry(en, en2, e) /\ en2[e].valid = en[e].valid
      /\ Queue(en2, e) = Queue(en, e) \cap (Requests \ L)
  BY <1>1, <1>2, ShorterQueue
<1>5. \A r \in Requests : r \in Queue(en, e) <=> Waits(rq[r]) /\ rq[r].entry = e
  BY <1>1, <1>2, InQueue
<1>6. ASSUME NEW r \in Queue(en, e), r \in Requests
      PROVE  /\ rq[r].entry = e /\ Waits(rq[r]) /\ rq[r].args \in Argument /\ en[e].alive /\ e # None
             /\ rq[r].pc = "queued" <=> r \in L
             /\ r \in L => rq2[r] = y[r]
             /\ r \notin L => rq2[r] = a[r]
             /\ \A g \in Elements(stk) : g.op \in {"process", "create"} => g.request # r
             /\ ~Attends(stk, {"deactivate"}, e)
  <2>1. rq[r].entry = e /\ Waits(rq[r]) /\ e # None
    BY <1>1, <1>5, <1>6, CacheAssumption
  <2>2. rq[r].args \in Argument /\ en[e].alive
    BY <1>2, <1>6, <2>1 DEF RequestOK
  <2>3. rq[r].pc = "queued" <=> r \in L
    <3>1. r \in L <=> Listens(rq[r])
      BY <1>1
    <3>2. rq[r].pc = "queued" <=> Listens(rq[r])
      BY <1>2, <1>6, <2>1 DEF RequestOK, Waits
    <3> QED
      BY <3>1, <3>2
  <2>4. \A g \in Elements(stk) : g.op \in {"process", "create"} => g.request # r
    BY <1>2, <2>1 DEF StackOK, FrameOK, Waits
  <2>5. ~Attends(stk, {"deactivate"}, e)
    BY <1>2, <1>6, <2>1, NoDeactivate
  <2>6. (r \in L => rq2[r] = y[r]) /\ (r \notin L => rq2[r] = a[r])
    BY <1>1, <1>6
  <2> QED
    BY <2>1, <2>2, <2>3, <2>4, <2>5, <2>6
<1>7. \A r \in Requests : r \notin Queue(en, e) => rq2[r] = rq[r]
  BY <1>1, <1>3
<1>8. ASSUME NEW r \in Requests, rq2[r] # rq[r] PROVE ChangeOK(en, rq, rq2, stk, e, r)
  <2>1. r \in Queue(en, e)
    BY <1>7, <1>8
  <2>2. /\ rq[r].entry = e /\ Waits(rq[r]) /\ rq[r].args \in Argument /\ en[e].alive /\ e # None
        /\ rq[r].pc = "queued" <=> r \in L
        /\ r \in L => rq2[r] = y[r]
        /\ r \notin L => rq2[r] = a[r]
        /\ \A g \in Elements(stk) : g.op \in {"process", "create"} => g.request # r
    BY <1>6, <2>1
  <2>3. CASE r \in L
    <3>1. rq2[r].entry \in {None, e} /\ rq2[r].pc \in {"dropped", "granted"} /\ (rq2[r].pc = "dropped" => rq2[r].entry = None)
      BY <1>1, <2>1, <2>2, <2>3
    <3> QED
      BY <2>2, <3>1 DEF ChangeOK, Waits, Holding
  <2>4. CASE r \notin L
    <3>1. rq2[r].pc = rq[r].pc /\ rq2[r].entry = e /\ rq2[r].args = rq[r].args
      BY <1>3, <2>2, <2>4
    <3>2. rq[r].pc \in {"waiting", "woken"} /\ ~Listens(rq[r])
      BY <1>1, <2>1, <2>2, <2>4 DEF Waits
    <3>3. ~Listens(rq2[r]) /\ Waits(rq2[r])
      BY <3>1, <3>2 DEF Listens, Waits
    <3> QED
      BY <2>2, <3>1, <3>2, <3>3 DEF ChangeOK
  <2> QED
    BY <2>3, <2>4
<1>9. \A r \in Requests : r \in Queue(en2, e) <=> Waits(rq2[r]) /\ rq2[r].entry = e
  <2> SUFFICES ASSUME NEW r \in Requests PROVE r \in Queue(en2, e) <=> Waits(rq2[r]) /\ rq2[r].entry = e
    OBVIOUS
  <2>1. CASE r \notin Queue(en, e)
    BY <1>4, <1>5, <1>7, <2>1
  <2>2. CASE r \in Queue(en, e) /\ r \in L
    <3>1. rq2[r] = y[r] /\ y[r].pc \in {"dropped", "granted"}
      BY <1>1, <1>6, <2>2
    <3> QED
      BY <1>4, <2>2, <3>1 DEF Waits
  <2>3. CASE r \in Queue(en, e) /\ r \notin L
    <3>1. rq2[r] = a[r] /\ Waits(rq[r]) /\ rq[r].entry = e
      BY <1>6, <2>3
    <3> QED
      BY <1>3, <1>4, <2>3, <3>1 DEF Waits
  <2> QED
    BY <2>1, <2>2, <2>3
<1>10. \A r \in Requests : r \in Descriptors(rq, e) => r \notin Queue(en, e) /\ rq2[r] = rq[r]
  BY <1>5, <1>7 DEF Descriptors, Waits
<1>11. ASSUME NEW r \in Descriptors(rq2, e), r \notin Descriptors(rq, e)
       PROVE  "write" \notin rq2[r].granted /\ en[e].valid
  <2>1. r \in Requests /\ rq2[r].entry = e /\ rq2[r].pc \in {"granted", "open"}
    BY DEF Descriptors
  <2>2. r \in Queue(en, e)
    BY <1>7, <1>11, <2>1 DEF Descriptors
  <2>3. r \in L
    <3> SUFFICES ASSUME r \notin L PROVE FALSE
      OBVIOUS
    <3>1. rq2[r].pc = rq[r].pc /\ Waits(rq[r])
      BY <1>3, <1>6, <2>1, <2>2
    <3> QED
      BY <2>1, <3>1 DEF Waits
  <2>4. rq2[r] = y[r] /\ e # None
    BY <1>6, <2>1, <2>2, <2>3
  <2> QED
    BY <1>1, <2>1, <2>2, <2>3, <2>4
<1>12. WriterRight(en2, rq2, e)
  <2>1. ASSUME NEW r \in Descriptors(rq2, e), NEW w \in Descriptors(rq2, e),
               "write" \in rq2[r].granted, "write" \in rq2[w].granted
        PROVE  r = w
    <3>1. r \in Descriptors(rq, e) /\ w \in Descriptors(rq, e)
      BY <1>11, <2>1
    <3>2. rq2[r] = rq[r] /\ rq2[w] = rq[w]
      BY <1>10, <3>1 DEF Descriptors
    <3> QED
      BY <1>1, <1>2, <2>1, <3>1, <3>2 DEF WriterOK
  <2>2. ASSUME ~en2[e].valid, NEW r \in Descriptors(rq2, e), NEW w \in Descriptors(rq2, e)
        PROVE  r = w
    <3>1. r \in Descriptors(rq, e) /\ w \in Descriptors(rq, e)
      BY <1>4, <1>11, <2>2
    <3> QED
      BY <1>1, <1>2, <1>4, <2>2, <3>1 DEF WriterOK
  <2> QED
    BY <2>1, <2>2 DEF WriterRight
<1>13. CallsRight(en2, rq2, stk, e)
  <2>1. CallsRight(en, rq, stk, e)
    BY <1>2, CallsStay
  <2>2. ASSUME Attends(stk, {"validate"}, e)
        PROVE  \E r \in Requests : rq2[r].pc = "open" /\ rq2[r].entry = e
    <3>1. PICK r \in Requests : rq[r].pc = "open" /\ rq[r].entry = e
      BY <2>1, <2>2 DEF CallsRight
    <3>2. rq2[r] = rq[r]
      BY <1>10, <3>1 DEF Descriptors
    <3> QED
      BY <3>1, <3>2
  <2>3. ASSUME Attends(stk, {"deactivate"}, e), NEW r \in Requests
        PROVE  rq2[r].entry # e
    <3>1. rq[r].entry # e
      BY <2>1, <2>3 DEF CallsRight
    <3>2. r \notin Queue(en, e)
      BY <1>5, <3>1
    <3> QED
      BY <1>7, <3>1, <3>2
  <2>4. ASSUME NEW r \in Requests, rq2[r].pc = "queued", rq2[r].entry = e PROVE FALSE
    <3>1. r \in Queue(en2, e)
      BY <1>9, <2>4 DEF Waits
    <3>2. r \in Queue(en, e) /\ r \notin L
      BY <1>4, <3>1
    <3>3. rq2[r] = a[r] /\ rq[r].pc # "queued"
      BY <1>6, <3>2
    <3> QED
      BY <1>3, <2>4, <3>3
  <2> QED
    BY <2>2, <2>3, <2>4 DEF CallsRight
<1>14. QueueRight(en2, rq2, e)
  BY <1>9 DEF QueueRight
<1>15. EntryChanged(en, table, rq, stk, pr, e, en2, rq2, pr)
  BY <1>1, <1>2, <1>4, <1>8, <1>12, <1>13, <1>14 DEF EntryChanged
<1>16. Core(en2, table, rq2, stk, pr) /\ WaitBut(en2, rq2, stk, pr, e)
  BY <1>15, EntryChange
<1>17. ASSUME NEW r \in Requests, Stuck(rq2[r]), rq2[r].entry = e PROVE FALSE
  <2>1. r \in Queue(en2, e)
    BY <1>9, <1>17 DEF Stuck, Waits
  <2>2. r \in Queue(en, e) /\ r \notin L
    BY <1>4, <2>1
  <2>3. rq2[r] = a[r] /\ rq[r].pc # "queued" /\ ~a[r].waitFlag /\ a[r].pc = rq[r].pc
    BY <1>3, <1>6, <2>2
  <2> QED
    BY <1>17, <2>3 DEF Stuck
<1>18. Inv(en2, table, rq2, stk, pr)
  BY <1>16, <1>17, WaitAll
<1> QED
  BY <1>17, <1>18

LEMMA DescriptorFacts ==
    ASSUME NEW r \in Requests, request[r] \in RequestType, request[r].args \in Argument, NEW e \in Entries
    PROVE  LET x == WithDescriptor(r, e, AccessGranted(r, e)) IN
           /\ x \in RequestType /\ x.entry = e /\ x.args = request[r].args
           /\ x.pc = IF Async(r) THEN "granted" ELSE "open"
           /\ Descriptors(request, e) # {} => "write" \notin x.granted
<1> DEFINE g == AccessGranted(r, e)
           p == IF Async(r) THEN "granted" ELSE "open"
           x == WithDescriptor(r, e, g)
<1>1. g \in SUBSET ACCESS_READ_WRITE /\ (Descriptors(request, e) # {} => "write" \notin g)
  BY DEF AccessGranted, Argument, ACCESS_READ, ACCESS_WRITE, ACCESS_READ_WRITE
<1>2. p \in {"granted", "open"} /\ x = [request[r] EXCEPT !.pc = p, !.entry = e, !.granted = g]
  BY DEF WithDescriptor
<1>3. p = IF Async(r) THEN "granted" ELSE "open"
  OBVIOUS
<1> HIDE DEF g, p, x
<1>4. x \in RequestType /\ x.entry = e /\ x.args = request[r].args /\ x.pc = p /\ x.granted = g
  BY <1>1, <1>2 DEF RequestType
<1> QED
  BY <1>1, <1>3, <1>4 DEF x, g

LEMMA ValidateEntryStep ==
    ASSUME CacheInv, ValidateEntry
    PROVE  Inv(entry', mActiveEntries', request', stack', presumed')
<1> DEFINE e == Head(stack).entry
           en == [entry EXCEPT ![e].valid = TRUE]
<1>1. /\ Top("validate") /\ presumed' = presumed \ {e} /\ stack' = Tail(stack) /\ mActiveEntries' = mActiveEntries
      /\ IF en[e].doomed THEN WakeSynchronous(en, request, e) ELSE ServeReaders(en, request, e)
  BY DEF ValidateEntry
<1>2. /\ stack # << >> /\ Head(stack).op = "validate" /\ Tail(stack) = << >>
      /\ e \in Entries /\ \E r \in Requests : request[r].pc = "open" /\ request[r].entry = e
      /\ Elements(stack) = {Head(stack)} \cup Elements(Tail(stack))
  BY <1>1, TopParts DEF FrameOK
<1>3. ~Attends(stack, {"pending"}, e)
  BY <1>2, ElementsEmpty DEF Attends
<1>4. Core(entry, mActiveEntries, request, stack, presumed) /\ WaitBut(entry, request, stack, presumed, e)
  BY CurrentParts, WaitSome
<1>5. Descriptors(request, e) # {}
  BY <1>2 DEF Descriptors
<1> DEFINE pr == presumed \ {e}
<1>6. pr \subseteq Entries /\ presumed \ {e} \subseteq pr
  BY CurrentParts
<1>7. en = [entry EXCEPT ![e].valid = TRUE]
  OBVIOUS
<1>8. presumed' = pr
  BY <1>1
<1> HIDE DEF en, pr
<1>9. Inv(entry', mActiveEntries, request', stack, pr) /\ \A r \in Requests : Stuck(request'[r]) => request'[r].entry # e
  <2> HIDE DEF e
  <2>1. /\ Core(en, mActiveEntries, request, stack, pr) /\ WaitBut(en, request, stack, pr, e)
        /\ OnlyEntry(entry, en, e) /\ Queue(en, e) = Queue(entry, e) /\ en[e].valid
    <3>1. MarkedOK(entry, mActiveEntries, request, stack, presumed, e, en, pr)
      BY <1>2, <1>4, <1>6, <1>7 DEF MarkedOK
    <3> QED
      BY <3>1, MarkedValid
  <2>2. CASE en[e].doomed
    <3>1. entry' = en /\ request' = Awake(request, Queue(en, e))
      BY <1>1, <2>2 DEF WakeSynchronous, Queue
    <3>2. \A r \in Requests : request[r].pc = "queued" => request[r].entry # e
      BY <1>3, <2>1, <2>2, InvParts DEF ListenersOK
    <3>3. /\ Inv(en, mActiveEntries, request', stack, pr)
          /\ \A r \in Requests : Stuck(request'[r]) => request'[r].entry # e
      BY <1>2, <2>1, <3>1, <3>2, AllAwake
    <3> QED
      BY <3>1, <3>3
  <2>3. CASE ~en[e].doomed
    <3> DEFINE y == [r \in Requests |-> WithDescriptor(r, e, AccessGranted(r, e))]
               a == Awake(request, Queue(en, e))
    <3>1. /\ entry' = LessQueue(en, e, Requests \ Listeners)
          /\ request' = [r \in Requests |->
                 IF r \in {s \in Queue(en, e) : Async(s)} THEN WithDescriptor(r, e, AccessGranted(r, e)) ELSE a[r]]
      BY <1>1, <2>3 DEF ServeReaders, LessQueue, Queue
    <3>2. \A r \in Requests : request'[r] = IF r \in Queue(en, e) /\ r \in Listeners THEN y[r] ELSE a[r]
      BY <3>1 DEF Listeners
    <3>3. request \in [Requests -> RequestType] /\ RequestOK(en, request) /\ QueueOK(en, request) /\ en \in [Entries -> EntryType]
      BY <2>1, InvParts
    <3>4. \A r \in Queue(en, e) : r \in Requests /\ request[r].args \in Argument
      <4>1. Queue(en, e) \subseteq Requests
        BY <1>2, <3>3, QueueMembers
      <4> QED
        BY <1>2, <3>3, <4>1 DEF QueueOK, RequestOK
    <3>5. ASSUME NEW r \in Queue(en, e)
          PROVE  /\ y[r] \in RequestType /\ y[r].entry = e /\ "write" \notin y[r].granted
                 /\ r \in Listeners => y[r].pc = "granted"
      BY <1>2, <1>5, <3>3, <3>4, DescriptorFacts DEF Listeners
    <3>6. a \in [Requests -> RequestType]
      BY <3>3, AwakeFacts
    <3>7. \A r \in Queue(en, e) : r \in Listeners <=> Listens(request[r])
      BY <3>4 DEF Listeners, Listens, Async
    <3>8. request' = [r \in Requests |-> request'[r]]
      BY <3>1
    <3>9. y \in [Requests -> {y[r] : r \in Requests}]
      OBVIOUS
    <3> HIDE DEF y, a
    <3>10. request' \in [Requests -> RequestType]
      BY <3>2, <3>5, <3>6, <3>8
    <3>11. ServedOK(en, mActiveEntries, request, stack, pr, e, Listeners, y, entry', request')
      BY <1>2, <2>1, <3>1, <3>2, <3>5, <3>7, <3>10 DEF ServedOK, a
    <3> QED
      BY <3>11, ServedInv
  <2> QED
    BY <2>2, <2>3
<1>10. Inv(entry', mActiveEntries, request', Tail(stack), pr)
  BY <1>2, <1>9, PoppedInv
<1> QED
  BY <1>1, <1>8, <1>10

------------------------------------------------------------------------------
(* A descriptor is closed.                                                   *)

Closing(r, e, rq) ==
    /\ stack = << >> /\ request[r].pc = "open" /\ request[r].entry = e /\ e # None
    /\ rq = [request EXCEPT ![r] = Closed(r)]

LEMMA ClosingInv ==
    ASSUME CacheInv, NEW r \in Requests, NEW e, NEW rq, Closing(r, e, rq)
    PROVE  /\ e \in Entries /\ entry[e].alive
           /\ Core(entry, mActiveEntries, rq, stack, presumed) /\ WaitBut(entry, rq, stack, presumed, e)
           /\ rq[r] = Closed(r) /\ \A s \in Requests \ {r} : rq[s] = request[s]
           /\ ~entry[e].valid => Descriptors(rq, e) = {}
           /\ r \notin Queue(entry, e)
<1> DEFINE x == Closed(r)
<1>1. /\ stack = << >> /\ request[r].pc = "open" /\ request[r].entry = e /\ e # None
      /\ rq = [request EXCEPT ![r] = x]
  BY DEF Closing
<1>2. e \in Entries /\ entry[e].alive
  BY <1>1, CurrentParts, OwnEntry
<1>3. x \in RequestType /\ x.pc = "done" /\ x.entry = None /\ ~Waits(x) /\ ~Holding(x)
  BY ClosedFacts
<1> HIDE DEF x
<1>4. Elements(stack) = {} /\ \A ops, d : ~Attends(stack, ops, d)
  BY <1>1, NoCall
<1>5. r \notin Queue(entry, e)
  BY <1>1, <1>2, CurrentParts DEF QueueOK, Waits
<1>6. Core(entry, mActiveEntries, request, stack, presumed) /\ WaitBut(entry, request, stack, presumed, e)
  BY CurrentParts, WaitSome
<1>7. RequestChanged(entry, mActiveEntries, request, stack, presumed, e, r, x, entry, presumed)
  <2>1. entry[e].valid \/ ~entry[e].valid
    OBVIOUS
  <2> QED
    BY <1>1, <1>2, <1>3, <1>4, <1>5, <1>6, CurrentParts DEF RequestChanged, OnlyEntry, Waits
<1>8. Core(entry, mActiveEntries, rq, stack, presumed) /\ WaitBut(entry, rq, stack, presumed, e)
  BY <1>1, <1>7, OneChange
<1>9. rq[r] = x /\ \A s \in Requests \ {r} : rq[s] = request[s]
  BY <1>1, CurrentParts
<1>10. ASSUME ~entry[e].valid PROVE Descriptors(rq, e) = {}
  <2> SUFFICES ASSUME NEW s \in Descriptors(rq, e) PROVE FALSE
    OBVIOUS
  <2>1. s \in Requests /\ s # r /\ s \in Descriptors(request, e)
    BY <1>2, <1>3, <1>9, CacheAssumption DEF Descriptors
  <2>2. r \in Descriptors(request, e)
    BY <1>1 DEF Descriptors
  <2> QED
    BY <1>2, <1>10, <2>1, <2>2, CurrentParts DEF WriterOK
<1> QED
  BY <1>2, <1>5, <1>8, <1>9, <1>10 DEF x

\* The entry of the last one leaves the table.
Delisted(en, table, e) ==
    en = [entry EXCEPT ![e].active = FALSE] /\ table = [mActiveEntries EXCEPT ![entry[e].key] = None]

OffTheTable(en, table, e) ==
    /\ en[e].alive = entry[e].alive /\ en[e].doomed = entry[e].doomed /\ ~en[e].active
    /\ \A k \in Keys : table[k] # e

LEMMA DelistedEntry ==
    ASSUME NEW rq, Inv(entry, mActiveEntries, rq, stack, presumed), NEW e \in Entries,
           NEW en, NEW table, Delisted(en, table, e)
    PROVE  Inv(en, table, rq, stack, presumed) /\ OffTheTable(en, table, e)
<1> en = [entry EXCEPT ![e].active = FALSE] /\ table = [mActiveEntries EXCEPT ![entry[e].key] = None]
  BY DEF Delisted
<1>1. entry \in [Entries -> EntryType] /\ mActiveEntries \in [Keys -> Entries \cup {None}] /\ TableOK(entry, mActiveEntries)
  BY InvParts DEF Inv
<1>2. en \in [Entries -> EntryType] /\ table \in [Keys -> Entries \cup {None}]
  BY <1>1 DEF EntryType
<1>3. \A d \in Entries : /\ en[d].alive = entry[d].alive /\ en[d].key = entry[d].key
                         /\ en[d].doomed = entry[d].doomed /\ (en[d].active => entry[d].active)
                         /\ en[d].valid = entry[d].valid /\ en[d].requestQ = entry[d].requestQ
  BY <1>1 DEF EntryType
<1>4. ~en[e].active /\ \A d \in Entries \ {e} : en[d] = entry[d]
  BY <1>1 DEF EntryType
<1>5. \A k \in Keys : table[k] # None => table[k] = mActiveEntries[k] /\ k # entry[e].key
  BY <1>1
<1>6. \A k \in Keys : table[k] # None => mActiveEntries[k] \in Entries \ {e} /\ en[mActiveEntries[k]].active
  BY <1>1, <1>4, <1>5 DEF TableOK
<1>7. Inv(en, table, rq, stack, presumed)
  <2>1. \A k \in Keys : table[k] # None => table[k] = mActiveEntries[k] /\ en[mActiveEntries[k]].active
    BY <1>5, <1>6
  <2> QED
    BY <1>2, <1>3, <2>1, DelistedInv
<1>8. \A k \in Keys : table[k] # e
  BY <1>5, <1>6, CacheAssumption
<1> QED
  BY <1>3, <1>4, <1>7, <1>8 DEF OffTheTable

LEMMA CloseLastStep ==
    ASSUME CacheInv, NEW r \in Requests, NEW e, Closing(r, e, request'),
           NotInUse(entry, request', e), CloseLast(r, e)
    PROVE  Inv(entry', mActiveEntries', request', stack', presumed')
<1> DEFINE table == [mActiveEntries EXCEPT ![entry[e].key] = None]
           en == [entry EXCEPT ![e].active = FALSE]
           f == Frame("deactivate", None, e, {})
<1>1. \/ /\ entry[e].doomed \/ ~entry[e].bound
         /\ entry' = [entry EXCEPT ![e] = NoEntry]
         /\ mActiveEntries' = (IF entry[e].doomed THEN mActiveEntries ELSE table)
         /\ presumed' = presumed \ {e} /\ stack' = stack
      \/ ~entry[e].doomed /\ EnsureEntryHasDevice(en, table, e, <<f>>)
  BY DEF CloseLast
<1>2. /\ e \in Entries /\ entry[e].alive
      /\ Core(entry, mActiveEntries, request', stack, presumed) /\ WaitBut(entry, request', stack, presumed, e)
  BY ClosingInv
<1>3. stack = << >> /\ Elements(stack) = {}
  BY NoCall DEF Closing
<1>4. \A s \in Requests : request'[s].entry # e
  <2>1. RequestOK(entry, request')
    BY <1>2, InvParts
  <2> QED
    BY <1>2, <2>1, NobodyUses
<1>5. Inv(entry, mActiveEntries, request', stack, presumed)
  BY <1>2, <1>4, WaitAll
<1>6. /\ Inv(en, table, request', stack, presumed)
      /\ en[e].alive /\ en[e].doomed = entry[e].doomed /\ ~en[e].active
      /\ \A k \in Keys : table[k] # e
  <2>1. e \in Entries /\ entry[e].alive
    BY <1>2
  <2>2. Delisted(en, table, e)
    BY DEF Delisted
  <2> HIDE DEF en, table
  <2>3. Inv(en, table, request', stack, presumed) /\ OffTheTable(en, table, e)
    BY ONLY <1>5, <2>1, <2>2, DelistedEntry, Zenon
  <2> QED
    BY ONLY <2>1, <2>3, Zenon DEF OffTheTable
<1>7. [en EXCEPT ![e] = NoEntry] = [entry EXCEPT ![e] = NoEntry]
  BY <1>2, CurrentParts
<1> HIDE DEF en, table
<1>8. presumed \ {e} \in SUBSET Entries
  BY CurrentParts
<1>9. CASE entry' = [entry EXCEPT ![e] = NoEntry] /\ presumed' = presumed \ {e} /\ stack' = stack
           /\ mActiveEntries' = (IF entry[e].doomed THEN mActiveEntries ELSE table)
  <2>1. CASE entry[e].doomed
    <3>1. \A k \in Keys : mActiveEntries[k] # e
      BY <1>2, <2>1, CurrentParts, CacheAssumption DEF TableOK
    <3>2. Inv(entry', mActiveEntries, request', stack, presumed')
      BY <1>2, <1>3, <1>4, <1>5, <1>8, <1>9, <3>1, DeletedInv
    <3> QED
      BY <1>9, <2>1, <3>2
  <2>2. CASE ~entry[e].doomed
    <3>1. Inv(entry', table, request', stack, presumed')
      BY <1>2, <1>3, <1>4, <1>6, <1>7, <1>8, <1>9, DeletedInv
    <3> QED
      BY <1>9, <2>2, <3>1
  <2> QED
    BY <2>1, <2>2
<1>10. CASE ~entry[e].doomed /\ EnsureEntryHasDevice(en, table, e, <<f>>)
  <2>1. f \in FrameType /\ f.op = "deactivate" /\ f.entry = e /\ f.left = {}
    BY <1>2 DEF Frame, FrameType
  <2>2. FrameOK(en, request', f)
    BY <1>2, <1>4, <1>6, <1>10, <2>1 DEF FrameOK, Unlisted
  <2> HIDE DEF f
  <2>3. Inv(en, table, request', <<f>> \o stack, presumed)
    BY <1>3, <1>6, <2>1, <2>2, PushedInv
  <2>4. <<f>> \o stack = <<f>>
    BY <1>3
  <2>5. Inv(en, table, request', <<f>>, presumed)
    BY <2>3, <2>4
  <2>6. Elements(<<f>>) = {f}
    BY DEF Elements
  <2>7. \/ entry' = en /\ mActiveEntries' = table /\ stack' = <<f>> /\ presumed' = presumed
        \/ ~en[e].bound /\ BindEntry(en, table, e, <<f>>)
    BY <1>10 DEF EnsureEntryHasDevice
  <2>8. CASE entry' = en /\ mActiveEntries' = table /\ stack' = <<f>> /\ presumed' = presumed
    BY <2>5, <2>8
  <2>9. CASE ~en[e].bound /\ BindEntry(en, table, e, <<f>>)
    <3>1. Elements(<<f>>) \subseteq FrameType
          /\ \A g \in Elements(<<f>>) : g.op # "process" /\ (g.op = "deactivate" => g.entry = e) /\ g.left = {}
      BY <2>1, <2>6
    <3> QED
      BY <1>2, <2>5, <2>9, <3>1, BindEntryInv
  <2> QED
    BY <2>7, <2>8, <2>9
<1> QED
  BY <1>1, <1>9, <1>10

\* The first request that wants to write is given the entry, or woken.
LEMMA PromotedInv ==
    ASSUME CacheInv, NEW r \in Requests, NEW e, NEW rq, Closing(r, e, rq),
           ~entry[e].valid, ~entry[e].doomed, NEW w \in Queue(entry, e)
    PROVE  /\ Async(w) /\ entry' = [entry EXCEPT ![e].requestQ = Without(@, w), ![e].valid = FALSE]
              /\ request' = [rq EXCEPT ![w] = WithDescriptor(w, e, request[w].args.access)]
                 => Inv(entry', mActiveEntries, request', stack, presumed)
           /\ ~Async(w) /\ entry' = entry /\ request' = Awake(rq, {w})
                 => Inv(entry', mActiveEntries, request', stack, presumed)
<1>1. /\ e \in Entries /\ entry[e].alive
      /\ Core(entry, mActiveEntries, rq, stack, presumed) /\ WaitBut(entry, rq, stack, presumed, e)
      /\ \A s \in Requests \ {r} : rq[s] = request[s]
      /\ Descriptors(rq, e) = {} /\ r \notin Queue(entry, e)
  BY ClosingInv
<1>2. Elements(stack) = {} /\ \A ops, d : ~Attends(stack, ops, d)
  BY NoCall DEF Closing
<1>3. /\ entry \in [Entries -> EntryType] /\ rq \in [Requests -> RequestType]
      /\ RequestOK(entry, rq) /\ QueueOK(entry, rq) /\ presumed \subseteq Entries
  BY <1>1, InvParts
<1>4. w \in Requests /\ w # r /\ rq[w] = request[w]
  BY <1>1, <1>3, QueueMembers
<1>5. Waits(rq[w]) /\ rq[w].entry = e /\ rq[w].args \in Argument /\ ~Holding(rq[w]) /\ e # None
  BY <1>1, <1>3, <1>4, CacheAssumption DEF QueueOK, RequestOK, Waits, Holding
<1>6. ASSUME Async(w), entry' = [entry EXCEPT ![e].requestQ = Without(@, w), ![e].valid = FALSE],
             request' = [rq EXCEPT ![w] = WithDescriptor(w, e, request[w].args.access)]
      PROVE  Inv(entry', mActiveEntries, request', stack, presumed)
  <2> DEFINE x == WithDescriptor(w, e, request[w].args.access)
  <2>1. x \in RequestType /\ x.pc = "granted" /\ x.entry = e
    <3> DEFINE a == request[w]
               g == request[w].args.access
    <3>1. a \in RequestType /\ g \in SUBSET ACCESS_READ_WRITE
      BY <1>4, <1>5, CurrentParts DEF Argument, ACCESS_READ, ACCESS_WRITE, ACCESS_READ_WRITE
    <3>2. x = [a EXCEPT !.pc = "granted", !.entry = e, !.granted = g]
      BY <1>6 DEF WithDescriptor
    <3> HIDE DEF a, g, x
    <3> QED
      BY <1>1, <3>1, <3>2 DEF RequestType
  <2>2. entry' = LessQueue(entry, e, Requests \ {w})
    <3> DEFINE a == entry[e]
               s == Sublist(entry[e].requestQ, Requests \ {w})
    <3>1. entry' = [entry EXCEPT ![e] = [a EXCEPT !.requestQ = s, !.valid = FALSE]]
      BY <1>1, <1>3, <1>6 DEF Without
    <3>2. a \in EntryType /\ a.valid = FALSE
      BY <1>1, <1>3 DEF EntryType
    <3>3. LessQueue(entry, e, Requests \ {w}) = [entry EXCEPT ![e] = [a EXCEPT !.requestQ = s]]
      BY <1>1, <1>3 DEF LessQueue
    <3> HIDE DEF a, s
    <3>4. [a EXCEPT !.requestQ = s, !.valid = FALSE] = [a EXCEPT !.requestQ = s]
      BY <3>2 DEF EntryType
    <3> QED
      BY <3>1, <3>3, <3>4
  <2>3. request' = [rq EXCEPT ![w] = x]
    BY <1>6
  <2> HIDE DEF x
  <2>4. /\ entry' \in [Entries -> EntryType] /\ OnlyEntry(entry, entry', e) /\ entry'[e].valid = entry[e].valid
        /\ Queue(entry', e) = Queue(entry, e) \cap (Requests \ {w})
    BY <1>1, <1>3, <2>2, ShorterQueue
  <2>5. /\ \A s \in Requests \ {w} : s \in Queue(entry', e) <=> s \in Queue(entry, e)
        /\ w \notin Queue(entry', e)
    BY <2>4
  <2>6. RequestChanged(entry, mActiveEntries, rq, stack, presumed, e, w, x, entry', presumed)
    <3>1. /\ rq[w].pc # "open" /\ ~Waits(x) /\ Holding(x)
      BY <1>5, <2>1 DEF Waits, Holding
    <3> QED
      BY <1>1, <1>2, <1>3, <1>4, <1>5, <2>1, <2>4, <2>5, <3>1 DEF RequestChanged
  <2>7. Core(entry', mActiveEntries, request', stack, presumed) /\ WaitBut(entry', request', stack, presumed, e)
    BY <2>3, <2>6, OneChange
  <2>8. Helped(entry', request', stack, presumed, e)
    <3>1. request'[w] = x
      BY <1>3, <1>4, <2>3
    <3>2. w \in Descriptors(request', e)
      BY <1>4, <2>1, <3>1 DEF Descriptors
    <3>3. ~entry'[e].valid /\ ~entry'[e].doomed
      BY <2>4 DEF OnlyEntry
    <3> QED
      BY <3>2, <3>3 DEF Helped
  <2> QED
    BY <2>7, <2>8, WaitAll
<1>7. ASSUME ~Async(w), entry' = entry, request' = Awake(rq, {w})
      PROVE  Inv(entry', mActiveEntries, request', stack, presumed)
  <2>1. Core(entry, mActiveEntries, request', stack, presumed) /\ WaitBut(entry, request', stack, presumed, e)
    BY <1>1, <1>7, AwakeInv
  <2>2. request'[w].pc = rq[w].pc /\ ~request'[w].waitFlag
    BY <1>3, <1>4, <1>7, AwakeFacts
  <2>3. rq[w].pc # "queued"
    BY <1>3, <1>4, <1>7 DEF RequestOK, Async, Listens
  <2>4. Asks(request'[w])
    BY <1>5, <2>2, <2>3 DEF Asks, Waits
  <2>5. Helped(entry, request', stack, presumed, e)
    BY <2>4 DEF Helped
  <2>6. Inv(entry, mActiveEntries, request', stack, presumed)
    BY <2>1, <2>5, WaitAll
  <2> QED
    BY <1>7, <2>6
<1> QED
  BY <1>6, <1>7

\* Nobody wants to write.
LEMMA DroppedInv ==
    ASSUME CacheInv, NEW r \in Requests, NEW e, NEW rq, Closing(r, e, rq),
           entry' = [entry EXCEPT ![e].requestQ = Sublist(entry[e].requestQ, Requests \ Listeners)],
           request' = [s \in Requests |->
               IF s \in Queue(entry, e) /\ Async(s) THEN [NoRequest EXCEPT !.pc = "dropped"]
               ELSE Awake(rq, Queue(entry, e))[s]]
    PROVE  Inv(entry', mActiveEntries, request', stack, presumed)
<1> DEFINE x == [NoRequest EXCEPT !.pc = "dropped"]
           y == [s \in Requests |-> x]
           a == Awake(rq, Queue(entry, e))
<1>1. /\ e \in Entries /\ entry[e].alive
      /\ Core(entry, mActiveEntries, rq, stack, presumed) /\ WaitBut(entry, rq, stack, presumed, e)
      /\ \A s \in Requests \ {r} : rq[s] = request[s]
      /\ r \notin Queue(entry, e)
  BY ClosingInv
<1>2. /\ entry \in [Entries -> EntryType] /\ rq \in [Requests -> RequestType]
  BY <1>1, InvParts
<1>3. x \in RequestType /\ x.entry = None /\ x.pc = "dropped"
  BY NoRequestType DEF NoRequest, RequestType
<1>4. a \in [Requests -> RequestType]
  BY <1>2, AwakeFacts
<1>5. entry' = LessQueue(entry, e, Requests \ Listeners)
  BY DEF LessQueue
<1>6. \A s \in Queue(entry, e) : s \in Requests /\ (s \in Listeners <=> Listens(rq[s]))
  BY <1>1, <1>2, QueueMembers DEF Listeners, Listens, Async
<1>7. /\ request' = [s \in Requests |-> IF s \in Queue(entry, e) /\ Async(s) THEN x ELSE a[s]]
      /\ \A s \in Requests : y[s] = x
  OBVIOUS
<1> HIDE DEF x, a, y
<1>8. request' \in [Requests -> RequestType]
  BY <1>3, <1>4, <1>7
<1>9. \A s \in Requests : request'[s] = IF s \in Queue(entry, e) /\ s \in Listeners THEN y[s] ELSE a[s]
  BY <1>7 DEF Listeners
<1>10. ServedOK(entry, mActiveEntries, rq, stack, presumed, e, Listeners, y, entry', request')
  BY <1>1, <1>3, <1>5, <1>6, <1>7, <1>8, <1>9 DEF ServedOK, a
<1> QED
  BY <1>10, ServedInv

LEMMA CloseOtherStep ==
    ASSUME CacheInv, NEW r \in Requests, NEW e, NEW rq, Closing(r, e, rq), CloseOther(r, e)
    PROVE  Inv(entry', mActiveEntries', request', stack', presumed')
<1>1. rq = [request EXCEPT ![r] = Closed(r)]
  BY DEF Closing
<1>2. /\ IF entry[e].valid THEN entry' = entry /\ request' = rq
         ELSE IF entry[e].doomed THEN WakeSynchronous(entry, rq, e)
         ELSE PromoteWriter(entry, rq, e)
      /\ mActiveEntries' = mActiveEntries /\ stack' = stack /\ presumed' = presumed
  BY <1>1 DEF CloseOther
<1>3. /\ e \in Entries /\ entry[e].alive
      /\ Core(entry, mActiveEntries, rq, stack, presumed) /\ WaitBut(entry, rq, stack, presumed, e)
      /\ rq[r] = Closed(r) /\ \A s \in Requests \ {r} : rq[s] = request[s]
  BY ClosingInv
<1>4. \A ops, d : ~Attends(stack, ops, d)
  BY NoCall DEF Closing
<1>5. Inv(entry', mActiveEntries, request', stack, presumed)
  <2>1. CASE entry[e].valid
    <3>1. entry' = entry /\ request' = rq
      BY <1>2, <2>1
    <3>2. ASSUME NEW s \in Requests, Stuck(rq[s]), rq[s].entry = e PROVE Helped(entry, rq, stack, presumed, e)
      <4>1. s # r /\ rq[s] = request[s]
        BY <1>3, <3>2, ClosedFacts
      <4>2. Helped(entry, request, stack, presumed, e)
        BY <3>2, <4>1, CurrentParts DEF WaitOK
      <4> QED
        BY <1>4, <2>1, <4>2 DEF Helped
    <3>3. Inv(entry, mActiveEntries, rq, stack, presumed)
      BY <1>3, <3>2, WaitAll
    <3> QED
      BY <3>1, <3>3
  <2>2. CASE ~entry[e].valid /\ entry[e].doomed
    <3>1. entry' = entry /\ request' = Awake(rq, Queue(entry, e))
      BY <1>2, <2>2 DEF WakeSynchronous, Queue
    <3>2. \A s \in Requests : rq[s].pc = "queued" => rq[s].entry # e
      <4>1. ListenersOK(entry, rq, stack)
        BY <1>3, InvParts
      <4> QED
        BY <1>4, <2>2, <4>1 DEF ListenersOK
    <3>3. Inv(entry, mActiveEntries, request', stack, presumed)
      BY <1>3, <3>1, <3>2, AllAwake
    <3> QED
      BY <3>1, <3>3
  <2>3. CASE ~entry[e].valid /\ ~entry[e].doomed
    <3> DEFINE q == entry[e].requestQ
               writers == Sublist(q, {s \in Requests : request[s].args.access = ACCESS_READ_WRITE})
               w == Head(writers)
    <3>1. PromoteWriter(entry, rq, e)
      BY <1>2, <2>3
    <3>2. \/ /\ writers # << >> /\ Async(w)
             /\ entry' = [entry EXCEPT ![e].requestQ = Without(q, w), ![e].valid = FALSE]
             /\ request' = [rq EXCEPT ![w] = WithDescriptor(w, e, request[w].args.access)]
          \/ /\ writers # << >> /\ ~Async(w) /\ entry' = entry /\ request' = Awake(rq, {w})
          \/ /\ entry' = [entry EXCEPT ![e].requestQ = Sublist(q, Requests \ Listeners)]
             /\ request' = [s \in Requests |->
                   IF s \in Queue(entry, e) /\ Async(s) THEN [NoRequest EXCEPT !.pc = "dropped"]
                   ELSE Awake(rq, Queue(entry, e))[s]]
      BY <3>1 DEF PromoteWriter, Queue
    <3>3. q \in Seq(Requests) /\ Elements(q) = Queue(entry, e)
      BY <1>3, CurrentParts, QueueMembers DEF Queue
    <3>4. writers # << >> => w \in Queue(entry, e)
      <4> HIDE DEF q
      <4>1. writers \in Seq(Requests) /\ Elements(writers) \subseteq Elements(q)
        BY <3>3, ElementsSublist
      <4> HIDE DEF writers
      <4> QED
        BY <3>3, <4>1, ElementsType
    <3> HIDE DEF w, writers
    <3>5. CASE /\ writers # << >> /\ Async(w)
               /\ entry' = [entry EXCEPT ![e].requestQ = Without(q, w), ![e].valid = FALSE]
               /\ request' = [rq EXCEPT ![w] = WithDescriptor(w, e, request[w].args.access)]
      <4>1. entry' = [entry EXCEPT ![e].requestQ = Without(@, w), ![e].valid = FALSE]
        BY <1>3, <3>5, CurrentParts
      <4> QED
        BY <2>3, <3>4, <3>5, <4>1, PromotedInv
    <3>6. CASE writers # << >> /\ ~Async(w) /\ entry' = entry /\ request' = Awake(rq, {w})
      BY <2>3, <3>4, <3>6, PromotedInv
    <3>7. CASE /\ entry' = [entry EXCEPT ![e].requestQ = Sublist(q, Requests \ Listeners)]
               /\ request' = [s \in Requests |->
                     IF s \in Queue(entry, e) /\ Async(s) THEN [NoRequest EXCEPT !.pc = "dropped"]
                     ELSE Awake(rq, Queue(entry, e))[s]]
      BY <3>7, DroppedInv
    <3> QED
      BY <3>2, <3>5, <3>6, <3>7
  <2> QED
    BY <2>1, <2>2, <2>3
<1> QED
  BY <1>2, <1>5

LEMMA CloseStep ==
    ASSUME CacheInv, NEW r \in Requests, Close(r)
    PROVE  Inv(entry', mActiveEntries', request', stack', presumed')
<1> DEFINE e == request[r].entry
           rq == [request EXCEPT ![r] = Closed(r)]
<1>1. /\ stack = << >> /\ request[r].pc = "open"
      /\ IF e = None
         THEN /\ request' = rq /\ entry' = entry /\ mActiveEntries' = mActiveEntries
              /\ stack' = stack /\ presumed' = presumed
         ELSE IF NotInUse(entry, rq, e) THEN CloseLast(r, e) ELSE CloseOther(r, e)
  BY DEF Close
<1>2. CASE e = None
  <2>1. Inv(entry, mActiveEntries, rq, stack, presumed)
    <3>1. Elements(stack) = {} /\ Closed(r) \in RequestType /\ Closed(r).entry = None /\ ~Waits(Closed(r)) /\ Closed(r).pc = "done"
      BY <1>1, NoCall, ClosedFacts
    <3> QED
      BY <1>2, <3>1, CurrentParts, NoEntryChange
  <2> QED
    BY <1>1, <1>2, <2>1
<1>3. CASE e # None
  <2>1. Closing(r, e, rq)
    BY <1>1, <1>3 DEF Closing
  <2>2. CASE NotInUse(entry, rq, e)
    <3>1. CloseLast(r, e)
      BY <1>1, <1>3, <2>2
    <3>2. request' = rq
      BY <3>1 DEF CloseLast
    <3> HIDE DEF e, rq
    <3>3. Closing(r, e, request') /\ NotInUse(entry, request', e)
      BY <2>1, <2>2, <3>2
    <3> QED
      BY <3>1, <3>3, CloseLastStep
  <2>3. CASE ~NotInUse(entry, rq, e)
    <3>1. CloseOther(r, e)
      BY <1>1, <1>3, <2>3
    <3> HIDE DEF e, rq
    <3> QED
      BY <2>1, <3>1, CloseOtherStep
  <2> QED
    BY <2>2, <2>3
<1> QED
  BY <1>2, <1>3

------------------------------------------------------------------------------
(* The doomed entries are deleted.                                           *)

LEMMA ClearedRequests ==
    ASSUME CacheInv, ClearDoomList, NEW r \in Requests
    PROVE  /\ request'[r] \in RequestType
           /\ \/ request[r].entry \notin {e \in Entries : entry[e].doomed} /\ request'[r] = request[r]
              \/ /\ request[r].entry \in {e \in Entries : entry[e].doomed}
                 /\ request'[r].entry = None /\ request'[r].pc \in {"dangling", "granted", "open"}
<1> DEFINE doomed == {e \in Entries : entry[e].doomed}
<1>1. /\ Top("profile")
      /\ request' = [s \in Requests |->
            IF request[s].entry \notin doomed THEN request[s]
            ELSE IF request[s].pc \in {"waiting", "woken"} THEN [NoRequest EXCEPT !.pc = "dangling"]
            ELSE [request[s] EXCEPT !.entry = None]]
  BY DEF ClearDoomList
<1>2. request[r] \in RequestType
  BY CurrentParts
<1>3. CASE request[r].entry \notin doomed
  BY <1>1, <1>2, <1>3
<1>4. CASE request[r].entry \in doomed
  <2>1. Waits(request[r]) \/ Holding(request[r])
    BY <1>4, CurrentParts, CacheAssumption DEF RequestOK
  <2>2. request[r].pc # "queued"
    <3>1. ~Attends(stack, {"pending"}, request[r].entry)
      <4>1. Head(stack).op = "profile" /\ Tail(stack) = << >> /\ Elements(stack) = {Head(stack)} \cup Elements(Tail(stack))
        BY <1>1, TopParts
      <4> QED
        BY <4>1, ElementsEmpty DEF Attends
    <3> QED
      BY <1>4, <3>1, CurrentParts DEF ListenersOK
  <2>3. CASE request[r].pc \in {"waiting", "woken"}
    <3>1. request'[r] = [NoRequest EXCEPT !.pc = "dangling"]
      BY <1>1, <1>4, <2>3
    <3>2. request'[r] \in RequestType /\ request'[r].entry = None /\ request'[r].pc = "dangling"
      BY <3>1, NoRequestType DEF NoRequest, RequestType
    <3> QED
      BY <1>4, <3>2
  <2>4. CASE request[r].pc \in {"granted", "open"}
    <3>1. request'[r] = [request[r] EXCEPT !.entry = None]
      BY <1>1, <1>4, <2>4
    <3>2. request'[r] \in RequestType /\ request'[r].entry = None /\ request'[r].pc = request[r].pc
      BY <1>2, <3>1 DEF RequestType
    <3> QED
      BY <1>4, <2>4, <3>2
  <2> QED
    BY <2>1, <2>2, <2>3, <2>4 DEF Waits, Holding
<1> QED
  BY <1>3, <1>4

LEMMA ClearDoomListStep ==
    ASSUME CacheInv, ClearDoomList
    PROVE  Inv(entry', mActiveEntries', request', stack', presumed')
<1> DEFINE doomed == {e \in Entries : entry[e].doomed}
<1>1. /\ Top("profile") /\ Head(stack).left = {}
      /\ entry' = [e \in Entries |-> IF e \in doomed THEN NoEntry ELSE entry[e]]
      /\ presumed' = presumed \ doomed /\ stack' = Tail(stack) /\ mActiveEntries' = mActiveEntries
  BY DEF ClearDoomList
<1>2. /\ stack' = << >>
      /\ \A e : ~Attends(stack, {"pending", "validate"}, e)
  <2>1. Head(stack).op = "profile" /\ Tail(stack) = << >> /\ Elements(stack) = {Head(stack)} \cup Elements(Tail(stack))
    BY <1>1, TopParts
  <2> QED
    BY <1>1, <2>1, ElementsEmpty DEF Attends
<1>3. /\ \A e \in doomed : entry'[e] = NoEntry
      /\ \A e \in Entries \ doomed : entry'[e] = entry[e] /\ ~entry[e].doomed
  BY <1>1
<1>4. \A e \in doomed : e \in Entries /\ e # None /\ Queue(entry', e) = {}
  BY <1>3, CacheAssumption, ElementsEmpty DEF Queue, NoEntry
<1>5. \A r \in Requests :
         \/ request[r].entry \notin doomed /\ request'[r] = request[r]
         \/ request[r].entry \in doomed /\ request'[r].entry = None /\ request'[r].pc \in {"dangling", "granted", "open"}
  BY ClearedRequests
<1>6. Types(entry', mActiveEntries, request', << >>, presumed')
  <2>1. NoEntry \in EntryType
    BY DEF NoEntry, EntryType
  <2>2. entry' \in [Entries -> EntryType]
    BY <1>1, <2>1, CurrentParts
  <2>3. request' = [r \in Requests |-> request'[r]]
    BY DEF ClearDoomList
  <2>4. request' \in [Requests -> RequestType]
    BY <2>3, ClearedRequests
  <2>5. presumed' \subseteq Entries
    BY <1>1, CurrentParts
  <2> QED
    BY <2>2, <2>4, <2>5, CurrentParts DEF Types
<1> HIDE DEF doomed
<1>7. RequestOK(entry', request')
  <2> SUFFICES ASSUME NEW r \in Requests
               PROVE  /\ request'[r].entry # None => (Waits(request'[r]) \/ Holding(request'[r])) /\ entry'[request'[r].entry].alive
                      /\ Waits(request'[r]) => request'[r].entry # None /\ r \in Queue(entry', request'[r].entry)
                      /\ request'[r].pc = "queued" => Listens(request'[r])
                      /\ request'[r].pc \in {"waiting", "woken"} => ~Listens(request'[r])
                      /\ Waits(request'[r]) \/ request'[r].pc = "opening" => request'[r].args \in Argument
    BY DEF RequestOK
  <2>1. CASE request[r].entry \notin doomed /\ request'[r] = request[r]
    <3>1. request[r].entry # None => entry'[request[r].entry] = entry[request[r].entry]
      BY <1>3, <2>1, CurrentParts, OwnEntry
    <3>2. request[r].entry # None => Queue(entry', request[r].entry) = Queue(entry, request[r].entry)
      BY <3>1 DEF Queue
    <3> QED
      BY <2>1, <3>1, <3>2, CurrentParts DEF RequestOK
  <2>2. CASE request'[r].entry = None /\ request'[r].pc \in {"dangling", "granted", "open"}
    BY <2>2 DEF Waits
  <2> QED
    BY <1>5, <2>1, <2>2
<1>8. QueueOK(entry', request')
  <2> SUFFICES ASSUME NEW e \in Entries, NEW r \in Queue(entry', e)
               PROVE  Waits(request'[r]) /\ request'[r].entry = e
    BY DEF QueueOK
  <2>1. e \notin doomed /\ r \in Queue(entry, e)
    BY <1>3, <1>4 DEF Queue
  <2>2. r \in Requests /\ Waits(request[r]) /\ request[r].entry = e
    BY <2>1, CurrentParts, QueueMembers DEF QueueOK
  <2> QED
    BY <1>5, <2>1, <2>2
<1>9. TableOK(entry', mActiveEntries)
  <2> SUFFICES ASSUME NEW k \in Keys, mActiveEntries[k] # None
               PROVE  /\ entry'[mActiveEntries[k]].alive /\ entry'[mActiveEntries[k]].active
                      /\ ~entry'[mActiveEntries[k]].doomed /\ entry'[mActiveEntries[k]].key = k
    BY DEF TableOK
  <2>1. mActiveEntries[k] \in Entries \ doomed
    BY CurrentParts DEF TableOK, doomed
  <2> QED
    BY <1>3, <2>1, CurrentParts DEF TableOK
<1>10. StackOK(entry', request', << >>)
  BY ElementsEmpty DEF StackOK, ShapeOK
<1>11. \A e \in Entries : Descriptors(request', e) \subseteq Descriptors(request, e)
          /\ (Descriptors(request', e) # {} => e \notin doomed)
          /\ (e \notin doomed => Descriptors(request', e) = Descriptors(request, e))
          /\ \A r \in Descriptors(request', e) : request'[r] = request[r]
  <2> SUFFICES ASSUME NEW e \in Entries
               PROVE  /\ Descriptors(request', e) \subseteq Descriptors(request, e)
                      /\ (Descriptors(request', e) # {} => e \notin doomed)
                      /\ (e \notin doomed => Descriptors(request', e) = Descriptors(request, e))
                      /\ \A r \in Descriptors(request', e) : request'[r] = request[r]
    OBVIOUS
  <2>1. e # None
    BY CacheAssumption
  <2>2. \A r \in Requests : request'[r].entry = e => request'[r] = request[r] /\ e \notin doomed
    BY <1>5, <2>1
  <2>3. \A r \in Requests : request[r].entry = e /\ e \notin doomed => request'[r] = request[r]
    BY <1>5
  <2> QED
    BY <2>2, <2>3 DEF Descriptors
<1>12. WriterOK(entry', request')
  <2> SUFFICES ASSUME NEW e \in Entries, NEW r \in Descriptors(request', e), NEW w \in Descriptors(request', e),
                      \/ "write" \in request'[r].granted /\ "write" \in request'[w].granted
                      \/ ~entry'[e].valid
               PROVE  r = w
    BY DEF WriterOK
  <2>1. e \notin doomed /\ r \in Descriptors(request, e) /\ w \in Descriptors(request, e)
        /\ request'[r] = request[r] /\ request'[w] = request[w] /\ entry'[e] = entry[e]
    BY <1>3, <1>11
  <2> QED
    BY <2>1, CurrentParts DEF WriterOK
<1>13. ASSUME NEW r \in Requests, Waits(request'[r])
       PROVE  request'[r] = request[r] /\ request[r].entry \in Entries \ doomed
  <2>1. request'[r] = request[r] /\ request[r].entry \notin doomed
    BY <1>5, <1>13 DEF Waits
  <2> QED
    BY <1>13, <2>1, CurrentParts, OwnEntry
<1>14. ListenersOK(entry', request', << >>)
  BY <1>3, <1>13 DEF ListenersOK, Waits
<1>15. WaitOK(entry', request', << >>, presumed')
  <2> SUFFICES ASSUME NEW r \in Requests, Stuck(request'[r])
               PROVE  Helped(entry', request', << >>, presumed', request'[r].entry)
    BY DEF WaitOK
  <2> DEFINE e == request[r].entry
  <2>1. request'[r] = request[r] /\ e \in Entries \ doomed
    BY <1>13 DEF Waits, Stuck
  <2>2. Helped(entry, request, stack, presumed, e)
    BY <2>1, CurrentParts DEF WaitOK
  <2> HIDE DEF e
  <2>3. entry'[e] = entry[e] /\ Descriptors(request', e) = Descriptors(request, e) /\ Queue(entry', e) = Queue(entry, e)
    BY <1>3, <1>11, <2>1 DEF Queue
  <2>4. \A w \in Queue(entry, e) : request'[w] = request[w]
    <3> SUFFICES ASSUME NEW w \in Queue(entry, e) PROVE request'[w] = request[w]
      OBVIOUS
    <3>1. w \in Requests /\ request[w].entry = e
      BY <2>1, CurrentParts, QueueMembers DEF QueueOK
    <3> QED
      BY <1>5, <2>1, <3>1
  <2>5. e \in presumed => e \in presumed'
    BY <1>1, <2>1
  <2>6. Helped(entry', request', << >>, presumed', e)
    BY <1>2, <2>2, <2>3, <2>4, <2>5 DEF Helped
  <2> QED
    BY <2>1, <2>6 DEF e
<1> QED
  BY <1>1, <1>2, <1>6, <1>7, <1>8, <1>9, <1>10, <1>12, <1>14, <1>15 DEF Inv, Core

------------------------------------------------------------------------------
(* What the device has, and the invariant.                                   *)

StoredType == [Keys -> {"none", "fresh", "expired"}]

LEMMA DoomStores ==
    ASSUME stored \in StoredType, NEW en, NEW table, NEW e, NEW rest,
           DoomEntry(en, table, e, rest) \/ BindEntry(en, table, e, rest) \/ EnsureEntryHasDevice(en, table, e, rest)
    PROVE  stored' \in StoredType
<1>1. ASSUME NEW bound, NEW v, DoomEntry(bound, table, v, rest) PROVE stored' \in StoredType
  <2>1. stored' = stored \/ stored' = [stored EXCEPT ![bound[v].key] = "none"]
    BY <1>1 DEF DoomEntry
  <2> QED
    BY <2>1 DEF StoredType
<1>2. ASSUME BindEntry(en, table, e, rest) PROVE stored' \in StoredType
  <2>1. \/ stored' = stored
        \/ \E k \in Idle : stored' = [stored EXCEPT ![k] = "none"]
        \/ \E v \in Live(en) : DoomEntry([en EXCEPT ![e].bound = TRUE], table, v, rest)
    BY <1>2 DEF BindEntry
  <2>2. CASE stored' = stored
    BY <2>2
  <2>3. CASE \E k \in Idle : stored' = [stored EXCEPT ![k] = "none"]
    BY <2>3 DEF StoredType
  <2>4. CASE \E v \in Live(en) : DoomEntry([en EXCEPT ![e].bound = TRUE], table, v, rest)
    BY <1>1, <2>4
  <2> QED
    BY <2>1, <2>2, <2>3, <2>4
<1>3. ASSUME EnsureEntryHasDevice(en, table, e, rest) PROVE stored' \in StoredType
  <2>1. stored' = stored \/ BindEntry(en, table, e, rest)
    BY <1>3 DEF EnsureEntryHasDevice
  <2> QED
    BY <1>2, <2>1
<1> QED
  BY <1>1, <1>2, <1>3

LEMMA MiscServiceStep ==
    ASSUME MiscTypes, ServiceStep
    PROVE  MiscTypes'
<1>1. stored \in StoredType /\ mEnableDiskDevice \in BOOLEAN /\ profileChanges \in 0..MaxProfileChanges
  BY DEF MiscTypes, StoredType
<1>2. CASE ProcessPendingRequest \/ DoomCompletes \/ ValidateEntry
  BY <1>1, <1>2 DEF ProcessPendingRequest, DoomCompletes, ValidateEntry, profile, MiscTypes, StoredType
<1>3. CASE StorageDisabled \/ KeyNotFound
  BY <1>1, <1>3 DEF StorageDisabled, KeyNotFound, Refuse, profile, MiscTypes, StoredType
<1>4. CASE UseFound \/ CreateEntry
  BY <1>1, <1>4 DEF UseFound, CreateEntry, profile, MiscTypes, StoredType
<1>5. CASE DoomFound
  <2>1. profile' = profile /\ \E en, e, rest : DoomEntry(en, mActiveEntries, e, rest)
    BY <1>5 DEF DoomFound, profile
  <2>2. stored' \in StoredType
    BY <1>1, <2>1, DoomStores
  <2> QED
    BY <1>1, <2>1, <2>2 DEF profile, MiscTypes, StoredType
<1>6. CASE WriteAndDelete
  <2> DEFINE k == entry[Head(stack).entry].key
             v == IF entry[Head(stack).entry].expired THEN "expired" ELSE "fresh"
  <2>1. stored' = [stored EXCEPT ![k] = v] /\ v \in {"none", "fresh", "expired"} /\ profile' = profile
    BY <1>6 DEF WriteAndDelete, profile
  <2> HIDE DEF k, v
  <2>2. stored' \in StoredType
    BY <1>1, <2>1 DEF StoredType
  <2> QED
    BY <1>1, <2>1, <2>2 DEF profile, MiscTypes, StoredType
<1>7. CASE DoomActiveEntry
  <2>1. profile' = profile /\ \E e, rest : DoomEntry(entry, mActiveEntries, e, rest)
    BY <1>7 DEF DoomActiveEntry, profile
  <2>2. stored' \in StoredType
    BY <1>1, <2>1, DoomStores
  <2> QED
    BY <1>1, <2>1, <2>2 DEF profile, MiscTypes, StoredType
<1>8. CASE ClearDoomList
  BY <1>1, <1>8 DEF ClearDoomList, MiscTypes
<1> QED
  BY <1>2, <1>3, <1>4, <1>5, <1>6, <1>7, <1>8 DEF ServiceStep

LEMMA MiscClientStep ==
    ASSUME MiscTypes, NEW r \in Requests,
           \/ OpenCacheEntry(r) \/ WaitEnds(r) \/ AskAgain(r) \/ OnCacheEntryAvailable(r)
           \/ OpenStream(r) \/ MarkValid(r) \/ Doom(r) \/ SetExpirationTime(r) \/ Close(r)
    PROVE  MiscTypes'
<1>1. stored \in StoredType /\ mEnableDiskDevice \in BOOLEAN /\ profileChanges \in 0..MaxProfileChanges
  BY DEF MiscTypes, StoredType
<1>2. profile' = profile
  BY DEF OpenCacheEntry, WaitEnds, AskAgain, OnCacheEntryAvailable, OpenStream, MarkValid, Doom,
         SetExpirationTime, Close, profile
<1>3. stored' \in StoredType
  <2>1. CASE OpenCacheEntry(r) \/ WaitEnds(r) \/ AskAgain(r) \/ OnCacheEntryAvailable(r) \/ SetExpirationTime(r)
    BY <1>1, <2>1 DEF OpenCacheEntry, WaitEnds, AskAgain, OnCacheEntryAvailable, SetExpirationTime
  <2>2. CASE OpenStream(r) \/ MarkValid(r) \/ Doom(r)
    BY <1>1, <2>2, DoomStores DEF OpenStream, MarkValid, Doom
  <2>3. CASE Close(r)
    <3>1. stored' = stored \/ CloseLast(r, request[r].entry)
      BY <2>3 DEF Close, CloseOther
    <3>2. CASE CloseLast(r, request[r].entry)
      <4>1. stored' = stored \/ \E en, table, e, rest : EnsureEntryHasDevice(en, table, e, rest)
        BY <3>2 DEF CloseLast
      <4> QED
        BY <1>1, <4>1, DoomStores
    <3> QED
      BY <1>1, <3>1, <3>2
  <2> QED
    BY <2>1, <2>2, <2>3
<1> QED
  BY <1>1, <1>2, <1>3 DEF profile, MiscTypes, StoredType

LEMMA MiscOtherStep ==
    ASSUME MiscTypes, EvictRecord \/ OnProfileShutdown \/ OnProfileChanged \/ UNCHANGED vars
    PROVE  MiscTypes'
<1>1. stored \in StoredType /\ mEnableDiskDevice \in BOOLEAN /\ profileChanges \in 0..MaxProfileChanges
  BY DEF MiscTypes, StoredType
<1>2. CASE EvictRecord
  <2>1. stored' \in StoredType
    <3>1. \/ \E e : DoomEntry(entry, mActiveEntries, e, << >>)
          \/ \E k : stored' = [stored EXCEPT ![k] = "none"]
      BY <1>2 DEF EvictRecord
    <3>2. CASE \E e : DoomEntry(entry, mActiveEntries, e, << >>)
      BY <1>1, <3>2, DoomStores
    <3>3. CASE \E k : stored' = [stored EXCEPT ![k] = "none"]
      BY <1>1, <3>3 DEF StoredType
    <3> QED
      BY <3>1, <3>2, <3>3
  <2> QED
    BY <1>1, <1>2, <2>1 DEF EvictRecord, profile, MiscTypes, StoredType
<1>3. CASE OnProfileShutdown
  <2>1. stored' = stored /\ mEnableDiskDevice' = mEnableDiskDevice
        /\ profileChanges < MaxProfileChanges /\ profileChanges' = profileChanges + 1
    BY <1>3 DEF OnProfileShutdown
  <2>2. profileChanges' \in 0..MaxProfileChanges
    BY <1>1, <2>1, CacheAssumption
  <2> QED
    BY <1>1, <2>1, <2>2 DEF MiscTypes, StoredType
<1>4. CASE OnProfileChanged
  <2>1. stored' \in [Keys -> OnDisk] /\ mEnableDiskDevice' = TRUE /\ profileChanges' = profileChanges
    BY <1>4 DEF OnProfileChanged
  <2>2. stored' \in StoredType
    BY <2>1, CacheAssumption DEF StoredType
  <2> QED
    BY <1>1, <2>1, <2>2 DEF MiscTypes, StoredType
<1>5. CASE UNCHANGED vars
  BY <1>1, <1>5 DEF vars, MiscTypes, StoredType
<1> QED
  BY <1>2, <1>3, <1>4, <1>5

LEMMA InitInv == Init => CacheInv
<1> SUFFICES ASSUME Init PROVE CacheInv
  OBVIOUS
<1>1. /\ entry = [e \in Entries |-> NoEntry] /\ mActiveEntries = [k \in Keys |-> None]
      /\ stored \in [Keys -> OnDisk] /\ request = [r \in Requests |-> NoRequest]
      /\ stack = << >> /\ mEnableDiskDevice = TRUE /\ presumed = {} /\ profileChanges = 0
  BY DEF Init
<1>2. NoEntry \in EntryType /\ NoRequest \in RequestType
  BY NoRequestType DEF NoEntry, EntryType
<1>3. MiscTypes
  <2>1. stored \in [Keys -> {"none", "fresh", "expired"}]
    BY <1>1, CacheAssumption
  <2>2. profileChanges \in 0..MaxProfileChanges
    BY <1>1, CacheAssumption
  <2> QED
    BY <1>1, <2>1, <2>2 DEF MiscTypes
<1>4. Types(entry, mActiveEntries, request, stack, presumed)
  BY <1>1, <1>2 DEF Types
<1>5. \A r \in Requests : request[r].pc = "idle" /\ request[r].entry = None
  BY <1>1 DEF NoRequest
<1>6. \A e \in Entries : Queue(entry, e) = {} /\ Descriptors(request, e) = {}
  BY <1>1, <1>5, ElementsEmpty, CacheAssumption DEF Queue, NoEntry, Descriptors
<1>7. RequestOK(entry, request) /\ QueueOK(entry, request)
  BY <1>5, <1>6 DEF RequestOK, QueueOK, Waits
<1>8. TableOK(entry, mActiveEntries)
  BY <1>1 DEF TableOK
<1>9. StackOK(entry, request, stack)
  BY <1>1, ElementsEmpty DEF StackOK, ShapeOK
<1>10. WriterOK(entry, request)
  BY <1>6 DEF WriterOK
<1>11. ListenersOK(entry, request, stack) /\ WaitOK(entry, request, stack, presumed)
  BY <1>5 DEF ListenersOK, WaitOK, Stuck
<1> QED
  BY <1>3, <1>4, <1>7, <1>8, <1>9, <1>10, <1>11 DEF CacheInv, Inv, Core

LEMMA NextInv == CacheInv /\ [Next]_vars => CacheInv'
<1> SUFFICES ASSUME CacheInv, [Next]_vars PROVE CacheInv'
  OBVIOUS
<1>1. MiscTypes
  BY DEF CacheInv
<1>2. CASE ServiceStep
  <2>1. Inv(entry', mActiveEntries', request', stack', presumed')
    BY <1>2, ProcessPendingRequestStep, DoomCompletesStep, StorageDisabledStep, DoomFoundStep, UseFoundStep,
       KeyNotFoundStep, CreateEntryStep, ValidateEntryStep, WriteAndDeleteStep, DoomActiveEntryStep,
       ClearDoomListStep DEF ServiceStep
  <2>2. MiscTypes'
    BY <1>1, <1>2, MiscServiceStep
  <2> QED
    BY <2>1, <2>2 DEF CacheInv
<1>3. ASSUME NEW r \in Requests,
             \/ OpenCacheEntry(r) \/ WaitEnds(r) \/ AskAgain(r) \/ OnCacheEntryAvailable(r)
             \/ OpenStream(r) \/ MarkValid(r) \/ Doom(r) \/ SetExpirationTime(r) \/ Close(r)
      PROVE  CacheInv'
  <2>1. Inv(entry', mActiveEntries', request', stack', presumed')
    BY <1>3, OpenCacheEntryStep, WaitEndsStep, AskAgainStep, OnCacheEntryAvailableStep, OpenStreamStep,
       MarkValidStep, DoomStep, SetExpirationTimeStep, CloseStep
  <2>2. MiscTypes'
    BY <1>1, <1>3, MiscClientStep
  <2> QED
    BY <2>1, <2>2 DEF CacheInv
<1>4. CASE EvictRecord \/ OnProfileShutdown \/ OnProfileChanged \/ UNCHANGED vars
  <2>1. CASE UNCHANGED vars
    <3>1. Inv(entry', mActiveEntries', request', stack', presumed')
      BY <2>1, CurrentParts DEF vars
    <3>2. MiscTypes'
      BY <1>1, <2>1, MiscOtherStep
    <3> QED
      BY <3>1, <3>2 DEF CacheInv
  <2>2. CASE EvictRecord \/ OnProfileShutdown \/ OnProfileChanged
    <3>1. Inv(entry', mActiveEntries', request', stack', presumed')
      BY <2>2, EvictRecordStep, OnProfileShutdownStep, OnProfileChangedStep
    <3>2. MiscTypes'
      BY <1>1, <2>2, MiscOtherStep
    <3> QED
      BY <3>1, <3>2 DEF CacheInv
  <2> QED
    BY <1>4, <2>1, <2>2
<1> QED
  BY <1>2, <1>3, <1>4 DEF Next

------------------------------------------------------------------------------
(* What the invariant implies, and the theorems.                             *)

LEMMA TypesFollow == CacheInv => TypeOK
<1> SUFFICES ASSUME CacheInv PROVE TypeOK
  OBVIOUS
<1>1. /\ entry \in [Entries -> EntryType] /\ mActiveEntries \in [Keys -> Entries \cup {None}]
      /\ request \in [Requests -> RequestType] /\ stack \in Seq(FrameType) /\ presumed \subseteq Entries
  BY CurrentParts
<1>2. MiscTypes
  BY DEF CacheInv
<1> QED
  BY <1>1, <1>2 DEF TypeOK, MiscTypes, EntryType, RequestType, FrameType

LEMMA UsersFollow == CacheInv => EntryOutlivesUsers
<1> SUFFICES ASSUME CacheInv PROVE EntryOutlivesUsers
  OBVIOUS
<1>1. ASSUME NEW r \in Requests, request[r].entry # None
      PROVE  /\ entry[request[r].entry].alive
             /\ request[r].pc \in {"queued", "waiting", "woken"} =>
                   r \in Elements(entry[request[r].entry].requestQ)
  BY <1>1, CurrentParts DEF RequestOK, Waits, Queue
<1>2. ASSUME NEW i \in 1..Len(stack), NEW e \in ({stack[i].entry} \ {None}) \cup stack[i].left
      PROVE  entry[e].alive
  <2> DEFINE f == stack[i]
  <2>1. f \in Elements(stack)
    BY DEF Elements
  <2>2. f \in FrameType /\ FrameOK(entry, request, f)
    BY <2>1, CurrentParts DEF StackOK
  <2>3. e \in f.left \/ (e = f.entry /\ f.entry # None)
    BY <1>2
  <2> HIDE DEF f
  <2>4. CASE e \in f.left
    BY <2>2, <2>4 DEF FrameOK, Unlisted
  <2>5. CASE e = f.entry /\ f.entry # None
    <3>1. CASE f.op \in {"process", "create", "profile"}
      BY <2>2, <2>5, <3>1 DEF FrameOK
    <3>2. CASE f.op \in {"pending", "deactivate"}
      BY <2>2, <2>5, <3>2 DEF FrameOK, Unlisted
    <3>3. CASE f.op = "validate"
      <4>1. PICK r \in Requests : request[r].entry = e
        BY <2>2, <2>5, <3>3 DEF FrameOK
      <4> QED
        BY <2>5, <4>1, CurrentParts DEF RequestOK
    <3> QED
      BY <2>2, <3>1, <3>2, <3>3 DEF FrameType
  <2> QED
    BY <2>3, <2>4, <2>5
<1>3. \A k \in Keys : mActiveEntries[k] # None => entry[mActiveEntries[k]].alive
  BY CurrentParts DEF TableOK
<1> QED
  BY <1>1, <1>2, <1>3 DEF EntryOutlivesUsers

LEMMA OneAtMost ==
    ASSUME NEW S, \A x, y \in S : x = y
    PROVE  Cardinality(S) <= 1
<1>1. CASE S = {}
  BY <1>1, FS_EmptySet
<1>2. CASE S # {}
  <2>1. PICK x \in S : TRUE
    BY <1>2
  <2>2. S = {x}
    OBVIOUS
  <2> QED
    BY <2>2, FS_Singleton
<1> QED
  BY <1>1, <1>2

LEMMA WriterFollows == CacheInv => OneWriter
<1> SUFFICES ASSUME CacheInv, NEW e \in Entries
             PROVE  /\ Cardinality({r \in Descriptors(request, e) : "write" \in request[r].granted}) <= 1
                    /\ ~entry[e].valid => Cardinality(Descriptors(request, e)) <= 1
  BY DEF OneWriter
<1>1. WriterOK(entry, request)
  BY CurrentParts
<1>2. \A r, w \in {s \in Descriptors(request, e) : "write" \in request[s].granted} : r = w
  BY <1>1 DEF WriterOK
<1>3. ~entry[e].valid => \A r, w \in Descriptors(request, e) : r = w
  BY <1>1 DEF WriterOK
<1> QED
  BY <1>2, <1>3, OneAtMost

LEMMA WaitFollows == CacheInv => SomeoneToWaitFor
<1> SUFFICES ASSUME CacheInv, NEW r \in Requests, request[r].pc = "queued" \/ (request[r].pc = "waiting" /\ request[r].waitFlag),
                    NEW e, e = request[r].entry
             PROVE  \/ ~entry[e].valid /\ ~entry[e].doomed /\ Descriptors(request, e) # {}
                    \/ \E i \in 1..Len(stack) : stack[i].op \in {"pending", "validate"} /\ stack[i].entry = e
                    \/ \E w \in Elements(entry[e].requestQ) :
                          request[w].pc = "woken" \/ (request[w].pc = "waiting" /\ ~request[w].waitFlag)
                    \/ e \in presumed
  BY DEF SomeoneToWaitFor
<1>1. Helped(entry, request, stack, presumed, e)
  BY CurrentParts DEF WaitOK, Stuck
<1>2. CASE ~entry[e].valid /\ ~entry[e].doomed /\ Descriptors(request, e) # {}
  BY <1>2
<1>3. CASE \E w \in Queue(entry, e) : Asks(request[w])
  BY <1>3 DEF Queue, Asks
<1>4. CASE Attends(stack, {"pending", "validate"}, e)
  BY <1>4 DEF Attends, Elements
<1>5. CASE e \in presumed
  BY <1>5
<1> QED
  BY <1>1, <1>2, <1>3, <1>4, <1>5 DEF Helped

\* Every state of the service satisfies the invariant: whatever the order in which entries are
\* opened, doomed, validated and closed, evicted or cleared away with a profile.
THEOREM CacheInvHolds == Spec => []CacheInv
<1>1. Init => CacheInv
  BY InitInv
<1>2. CacheInv /\ [Next]_vars => CacheInv'
  BY NextInv
<1> QED
  BY <1>1, <1>2, PTL DEF Spec

\* Entries, requests, the table and the calls in progress keep their types.
THEOREM CacheTypes == Spec => []TypeOK
<1>1. CacheInv => TypeOK
  BY TypesFollow
<1> QED
  BY <1>1, CacheInvHolds, PTL

\* nsCacheService deletes an entry (DeactivateEntry, ClearDoomList) only when no descriptor, no
\* request that waits, no call in progress and no slot of the table can reach it.
THEOREM NoUseAfterDelete == Spec => []EntryOutlivesUsers
<1>1. CacheInv => EntryOutlivesUsers
  BY UsersFollow
<1> QED
  BY <1>1, CacheInvHolds, PTL

\* nsCacheEntry::RequestAccess never lets two descriptors of one entry write, nor a second one in
\* before the entry is valid, whoever is promoted when a writer gives up.
THEOREM WritersAreAlone == Spec => []OneWriter
<1>1. CacheInv => OneWriter
  BY WriterFollows
<1> QED
  BY <1>1, CacheInvHolds, PTL

\* ProcessPendingRequests forgets nobody: a request that waits for an entry has a writer, a call in
\* progress or a waiter that will ask again to wait for, or the entry is one a reader presumed valid.
THEOREM NobodyIsForgotten == Spec => []SomeoneToWaitFor
<1>1. CacheInv => SomeoneToWaitFor
  BY WaitFollows
<1> QED
  BY <1>1, CacheInvHolds, PTL
==============================================================================
