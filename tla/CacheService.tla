---------------------------- MODULE CacheService -----------------------------
(***************************************************************************)
(* nsCacheService with nsCacheEntry, nsCacheRequest and                    *)
(* nsCacheEntryDescriptor (netwerk/cache/src): clients open entries by     *)
(* key, one of them writes and validates an entry, the others wait for it, *)
(* and any of them may doom it.                                            *)
(*                                                                         *)
(* All of it runs under mCacheServiceLock.  A call that completes in one   *)
(* go is one action.  Calls that reach back into the service keep frames   *)
(* on `stack`, innermost first: dooming an entry serves the requests that  *)
(* wait for it, each is processed like a new one and may doom again.  The  *)
(* lock is free when the stack is empty.  A synchronous request releases   *)
(* it while it waits.                                                      *)
(*                                                                         *)
(* A descriptor goes by the name of the request it was granted to.  The    *)
(* device is the disk.  All sessions are stream based and store on disk.   *)
(***************************************************************************)
EXTENDS Naturals, Sequences, FiniteSets, Sublists

CONSTANTS
    Requests,           \* calls of OpenCacheEntry, each made at most once
    Entries,            \* names of nsCacheEntry objects, used again once deleted
    Keys,
    Arguments,          \* what each request may ask for
    None,
    OnDisk,             \* what the disk may have for a key when a profile is opened
    MaxProfileChanges   \* bound: how often the profile is changed

ACCESS_READ == {"read"}
ACCESS_WRITE == {"write"}
ACCESS_READ_WRITE == {"read", "write"}

Argument == [key : Keys, access : {ACCESS_READ, ACCESS_WRITE, ACCESS_READ_WRITE},
             mode : {"async", "blocking", "nonblocking"}, doomsExpired : BOOLEAN]

ASSUME CacheAssumption ==
    /\ IsFiniteSet(Requests) /\ IsFiniteSet(Entries)
    /\ None \notin Entries \cup Requests \cup Keys
    /\ Arguments \in [Requests -> SUBSET Argument]
    /\ OnDisk # {} /\ OnDisk \subseteq {"none", "fresh", "expired"}
    /\ MaxProfileChanges \in Nat

VARIABLES
    entry,              \* nsCacheEntry objects
    mActiveEntries,     \* the hash table of active entries
    stored,             \* per key: what nsDiskCacheDevice::FindEntry would find
    request,            \* nsCacheRequest objects and the descriptors they become
    stack,              \* calls in progress under mCacheServiceLock
    mEnableDiskDevice,
    presumed,           \* entries a reader took for valid while requests waited for them
    profileChanges

vars == <<entry, mActiveEntries, stored, request, stack, mEnableDiskDevice, presumed, profileChanges>>
profile == <<mEnableDiskDevice, profileChanges>>

NoEntry == [alive |-> FALSE, key |-> None, doomed |-> FALSE, active |-> FALSE, valid |-> FALSE,
            expired |-> FALSE, bound |-> FALSE, requestQ |-> <<>>]
NoArgument == [key |-> None, access |-> {}, mode |-> "async", doomsExpired |-> FALSE]
NoRequest == [pc |-> "idle", args |-> NoArgument, waitFlag |-> TRUE, entry |-> None, granted |-> {}]
Frame(op, r, e, left) == [op |-> op, request |-> r, entry |-> e, left |-> left]

Init ==
    /\ entry = [e \in Entries |-> NoEntry]
    /\ mActiveEntries = [k \in Keys |-> None]
    /\ stored \in [Keys -> OnDisk]
    /\ request = [r \in Requests |-> NoRequest]
    /\ stack = <<>>
    /\ mEnableDiskDevice = TRUE /\ presumed = {} /\ profileChanges = 0

------------------------------------------------------------------------------
(* Entries, requests and descriptors.  en and rq are the entries and the    *)
(* requests in the middle of a call.                                        *)

Elements(q) == {q[i] : i \in 1..Len(q)}
Async(r) == request[r].args.mode = "async"
Listeners == {r \in Requests : Async(r)}
Without(q, r) == Sublist(q, Requests \ {r})

\* mDescriptorQ
Descriptors(rq, e) == {r \in Requests : rq[r].entry = e /\ rq[r].pc \in {"granted", "open"}}

\* Mutant: requests that wait do not count as a use.
HasNoDescriptor(en, rq, e) == Descriptors(rq, e) = {}

\* IsInUse
NotInUse(en, rq, e) == Descriptors(rq, e) = {} /\ en[e].requestQ = <<>>

Closed(r) == [NoRequest EXCEPT !.pc = "done"]

\* CreateDescriptor, and the answer: a synchronous caller has the descriptor at once,
\* a listener is sent an event (NotifyListener).
WithDescriptor(r, e, access) ==
    [request[r] EXCEPT !.pc = IF Async(r) THEN "granted" ELSE "open",
                       !.entry = e, !.granted = access]

\* WakeUp
Awake(rq, rs) == [r \in Requests |-> IF r \in rs THEN [rq[r] EXCEPT !.waitFlag = FALSE] ELSE rq[r]]

------------------------------------------------------------------------------
(* nsCacheEntry::RequestAccess and what ProcessRequest makes of its answer. *)

\* Mutant: a second descriptor may write.
AccessGrantedInFull(r, e) == request[r].args.access

\* The first descriptor of an entry gets what it asks for, the others may only read.
AccessGranted(r, e) ==
    IF Descriptors(request, e) = {} THEN request[r].args.access
    ELSE request[r].args.access \ ACCESS_WRITE

\* The first descriptor decides whether the entry is valid.
FirstMarks(en, r, e) ==
    IF Descriptors(request, e) = {}
    THEN [en EXCEPT ![e].valid = "write" \notin request[r].args.access]
    ELSE en

MustWait(en, e) == Descriptors(request, e) # {} /\ ~en[e].valid

GetAccess(en, r, e) ==
    /\ ~MustWait(en, e)
    /\ request' = [request EXCEPT ![r] = WithDescriptor(r, e, AccessGranted(r, e))]
    /\ entry' = FirstMarks(en, r, e)
    /\ presumed' = IF FirstMarks(en, r, e)[e].valid /\ ~en[e].valid /\ en[e].requestQ # <<>>
                   THEN presumed \cup {e} ELSE presumed

Wait(en, r, e) ==
    /\ MustWait(en, e) /\ request[r].args.mode # "nonblocking"
    /\ request' = [request EXCEPT ![r].pc = IF Async(r) THEN "queued" ELSE "waiting", ![r].entry = e]
    /\ entry' = [en EXCEPT ![e].requestQ = Append(@, r)]
    /\ UNCHANGED presumed

\* NS_ERROR_CACHE_WAIT_FOR_VALIDATION
WillNotWait(en, r, e) ==
    /\ MustWait(en, e) /\ request[r].args.mode = "nonblocking"
    /\ request' = [request EXCEPT ![r] = Closed(r)]
    /\ entry' = en
    /\ UNCHANGED presumed

------------------------------------------------------------------------------
(* DoomEntry_Internal and ProcessPendingRequests; table is mActiveEntries.  *)

\* DoomEntry_Internal up to its call of ProcessPendingRequests: e can no longer be found.
\* RemoveEntry takes out whatever entry the table has for the key.
DoomEntry(en, table, e, rest) ==
    /\ entry' = [en EXCEPT ![e].doomed = TRUE, ![e].active = FALSE]
    /\ mActiveEntries' = IF en[e].active THEN [table EXCEPT ![en[e].key] = None] ELSE table
    /\ stored' = IF en[e].bound THEN [stored EXCEPT ![en[e].key] = "none"] ELSE stored
    /\ presumed' = presumed \ {e}
    /\ stack' = <<Frame("pending", None, e, {})>> \o rest

Top(op) == stack # <<>> /\ Head(stack).op = op

\* The asynchronous requests of a doomed entry are processed anew, in their order.
ProcessPendingRequest ==
    /\ Top("pending")
    /\ LET e == Head(stack).entry
           q == Sublist(entry[e].requestQ, Listeners)
       IN  /\ q # <<>>
           /\ entry' = [entry EXCEPT ![e].requestQ = Without(@, Head(q))]
           /\ request' = [request EXCEPT ![Head(q)].pc = "opening", ![Head(q)].entry = None]
           /\ stack' = <<Frame("process", Head(q), None, {})>> \o stack
    /\ UNCHANGED <<mActiveEntries, stored, presumed, profile>>

\* Then the synchronous ones are woken, and the entry is deleted unless one of them or a
\* descriptor still uses it (DeactivateEntry of a doomed entry).
DoomCompletes ==
    /\ Top("pending")
    /\ LET e == Head(stack).entry IN
       /\ Sublist(entry[e].requestQ, Listeners) = <<>>
       /\ request' = Awake(request, Elements(entry[e].requestQ))
       /\ entry' = IF NotInUse(entry, request, e) THEN [entry EXCEPT ![e] = NoEntry] ELSE entry
    /\ stack' = Tail(stack)
    /\ UNCHANGED <<mActiveEntries, stored, presumed, profile>>

\* ProcessPendingRequests for a valid entry: everyone may read.
ServeReaders(en, rq, e) ==
    LET q == en[e].requestQ
        async == {r \in Elements(q) : Async(r)}
    IN  /\ entry' = [en EXCEPT ![e].requestQ = Sublist(q, Requests \ Listeners)]
        /\ request' = [r \in Requests |->
               IF r \in async THEN WithDescriptor(r, e, AccessGranted(r, e))
               ELSE Awake(rq, Elements(q))[r]]

\* Mutant: if nobody wants to write, nobody is served.
PromoteWriterOnly(en, rq, e) ==
    LET q == en[e].requestQ
        writers == Sublist(q, {r \in Requests : request[r].args.access = ACCESS_READ_WRITE})
        w == Head(writers)
    IN  IF writers = <<>> THEN entry' = en /\ request' = rq
        ELSE IF Async(w)
        THEN /\ entry' = [en EXCEPT ![e].requestQ = Without(q, w), ![e].valid = FALSE]
             /\ request' = [rq EXCEPT ![w] = WithDescriptor(w, e, request[w].args.access)]
        ELSE entry' = en /\ request' = Awake(rq, {w})

\* ProcessPendingRequests for an entry whose last descriptor was closed before the entry was
\* valid: the first request that wants to read and write becomes the writer, the others stay.
\* If there is none, listeners are dropped and synchronous readers are woken.
PromoteWriter(en, rq, e) ==
    LET q == en[e].requestQ
        writers == Sublist(q, {r \in Requests : request[r].args.access = ACCESS_READ_WRITE})
        w == Head(writers)
    IN  \/ /\ writers # <<>> /\ Async(w)
           /\ entry' = [en EXCEPT ![e].requestQ = Without(q, w), ![e].valid = FALSE]
           /\ request' = [rq EXCEPT ![w] = WithDescriptor(w, e, request[w].args.access)]
        \/ /\ writers # <<>> /\ ~Async(w)
           /\ entry' = en
           /\ request' = Awake(rq, {w})
        \/ /\ writers = <<>>
           /\ entry' = [en EXCEPT ![e].requestQ = Sublist(q, Requests \ Listeners)]
           /\ request' = [r \in Requests |->
                  IF r \in Elements(q) /\ Async(r) THEN [NoRequest EXCEPT !.pc = "dropped"]
                  ELSE Awake(rq, Elements(q))[r]]

\* A doomed entry has no listeners left outside DoomEntry_Internal.
WakeSynchronous(en, rq, e) ==
    /\ entry' = en
    /\ request' = Awake(rq, Elements(en[e].requestQ))

------------------------------------------------------------------------------
(* OpenCacheEntry and ProcessRequest.                                       *)

OpenCacheEntry(r) ==
    /\ stack = <<>> /\ request[r].pc = "idle"
    /\ \E a \in Arguments[r] :
          request' = [request EXCEPT ![r] = [NoRequest EXCEPT !.pc = "opening", !.args = a]]
    /\ stack' = <<Frame("process", r, None, {})>>
    /\ UNCHANGED <<entry, mActiveEntries, stored, presumed, profile>>

\* The device makes a new object for what it has stored.  Entries bounds how many there are at once:
\* a call that would need one more is not taken further.
EntryLeft == \E e \in Entries : ~entry[e].alive
Unused == CHOOSE e \in Entries : ~entry[e].alive
Active(k) == mActiveEntries[k] # None
Cached(k) == Active(k) \/ stored[k] # "none"
Found(k) == IF Active(k) THEN mActiveEntries[k] ELSE Unused
FromDevice(k) == [NoEntry EXCEPT !.alive = TRUE, !.key = k, !.bound = TRUE,
                                 !.expired = (stored[k] = "expired")]
WithFound(k) == IF Active(k) THEN entry ELSE [entry EXCEPT ![Unused] = FromDevice(k)]

\* A request to write, or one that dooms expired entries, will not have the entry it finds.
WillDoom(r) ==
    LET k == request[r].args.key IN
    \/ request[r].args.access = ACCESS_WRITE
    \/ WithFound(k)[Found(k)].expired /\ request[r].args.doomsExpired

Refuse(r) ==
    /\ request' = IF Async(r) /\ Len(stack) > 1 THEN [request EXCEPT ![r].pc = "refused"]
                  ELSE [request EXCEPT ![r] = Closed(r)]
    /\ stack' = Tail(stack)
    /\ UNCHANGED <<entry, mActiveEntries, stored, presumed, profile>>

Processed == Head(stack).request
KeyOf(r) == request[r].args.key

StorageDisabled ==
    /\ Top("process") /\ ~mEnableDiskDevice
    /\ Refuse(Processed)

\* ActivateEntry dooms the entry it found and goes on to create one.
DoomFound ==
    /\ Top("process") /\ mEnableDiskDevice
    /\ LET k == KeyOf(Processed) IN
       /\ Cached(k) /\ (Active(k) \/ EntryLeft) /\ WillDoom(Processed)
       /\ DoomEntry(WithFound(k), mActiveEntries, Found(k),
                    <<[Head(stack) EXCEPT !.op = "create"]>> \o Tail(stack))
    /\ UNCHANGED <<request, profile>>

UseFound ==
    /\ Top("process") /\ mEnableDiskDevice
    /\ LET k == KeyOf(Processed)
           e == Found(k)
       IN  /\ Cached(k) /\ (Active(k) \/ EntryLeft) /\ ~WillDoom(Processed)
           /\ LET en == [WithFound(k) EXCEPT ![e].active = TRUE] IN
              GetAccess(en, Processed, e) \/ Wait(en, Processed, e) \/ WillNotWait(en, Processed, e)
           /\ mActiveEntries' = [mActiveEntries EXCEPT ![k] = e]
    /\ stack' = Tail(stack)
    /\ UNCHANGED <<stored, profile>>

NothingFound == \/ Top("create")
                \/ Top("process") /\ mEnableDiskDevice /\ ~Cached(KeyOf(Processed))

KeyNotFound ==
    /\ NothingFound /\ "write" \notin request[Processed].args.access
    /\ Refuse(Processed)

\* AddEntry puts the new entry into the table whatever the table has for the key.
CreateEntry ==
    /\ NothingFound /\ "write" \in request[Processed].args.access /\ EntryLeft
    /\ LET k == KeyOf(Processed) IN
       /\ entry' = [entry EXCEPT ![Unused] = [NoEntry EXCEPT !.alive = TRUE, !.key = k, !.active = TRUE]]
       /\ mActiveEntries' = [mActiveEntries EXCEPT ![k] = Unused]
    /\ request' = [request EXCEPT ![Processed] = WithDescriptor(Processed, Unused, ACCESS_WRITE)]
    /\ stack' = Tail(stack)
    /\ UNCHANGED <<stored, presumed, profile>>

------------------------------------------------------------------------------
(* A synchronous request waits.                                             *)

\* WaitForValidation returns; it sets the flag again for the next time.
WaitEnds(r) ==
    /\ request[r].pc = "waiting" /\ ~request[r].waitFlag
    /\ request' = [request EXCEPT ![r].pc = "woken", ![r].waitFlag = TRUE]
    /\ UNCHANGED <<entry, mActiveEntries, stored, stack, presumed, profile>>

\* The request has the lock again, leaves the queue and asks again; if the entry was doomed
\* meanwhile, it looks for another one, and deletes this one if nobody else uses it.
AskAgain(r) ==
    /\ stack = <<>> /\ request[r].pc = "woken"
    /\ LET e == request[r].entry
           en == [entry EXCEPT ![e].requestQ = Without(@, r)]
       IN  \/ /\ ~en[e].doomed
              /\ GetAccess(en, r, e) \/ Wait(en, r, e)
              /\ UNCHANGED stack
           \/ /\ en[e].doomed
              /\ entry' = IF NotInUse(en, request, e) THEN [en EXCEPT ![e] = NoEntry] ELSE en
              /\ request' = [request EXCEPT ![r].pc = "opening", ![r].entry = None]
              /\ stack' = <<Frame("process", r, None, {})>>
              /\ UNCHANGED presumed
    /\ UNCHANGED <<mActiveEntries, stored, profile>>

\* The listener's thread handles the event.
OnCacheEntryAvailable(r) ==
    /\ request[r].pc \in {"granted", "refused"}
    /\ request' = IF request[r].pc = "granted" THEN [request EXCEPT ![r].pc = "open"]
                  ELSE [request EXCEPT ![r] = Closed(r)]
    /\ UNCHANGED <<entry, mActiveEntries, stored, stack, presumed, profile>>

------------------------------------------------------------------------------
(* The device.                                                              *)

Live(en) == {e \in Entries : en[e].alive /\ en[e].bound /\ ~en[e].doomed}
Idle == {k \in Keys : \A e \in Live(entry) : entry[e].key # k}

\* nsDiskCacheDevice::BindEntry: e gets a record unless it is doomed.  If its bucket of the
\* cache map is full the record of another entry goes, which is doomed first if it is in use.
BindEntry(en, table, e, rest) ==
    LET bound == [en EXCEPT ![e].bound = TRUE] IN
    \/ /\ entry' = bound /\ mActiveEntries' = table /\ stack' = rest
       /\ \/ UNCHANGED stored
          \/ ~en[e].doomed /\ \E k \in Idle : stored' = [stored EXCEPT ![k] = "none"]
       /\ UNCHANGED presumed
    \/ /\ ~en[e].doomed
       /\ \E v \in Live(en) : DoomEntry(bound, table, v, rest)

\* EnsureEntryHasDevice when it succeeds; `rest` is what follows.
EnsureEntryHasDevice(en, table, e, rest) ==
    \/ /\ en[e].bound
       /\ entry' = en /\ mActiveEntries' = table /\ stack' = rest
       /\ UNCHANGED <<stored, presumed>>
    \/ ~en[e].bound /\ mEnableDiskDevice /\ BindEntry(en, table, e, rest)

\* nsDiskCacheEvictor::VisitRecord: a record goes, because it has to make room or because the
\* cache is cleared; an entry in use is doomed.
EvictRecord ==
    /\ stack = <<>> /\ mEnableDiskDevice
    /\ \/ \E e \in Live(entry) : DoomEntry(entry, mActiveEntries, e, <<>>)
       \/ /\ \E k \in Idle : stored[k] # "none" /\ stored' = [stored EXCEPT ![k] = "none"]
          /\ UNCHANGED <<entry, mActiveEntries, stack, presumed>>
    /\ UNCHANGED <<request, profile>>

------------------------------------------------------------------------------
(* Clients of a descriptor.  A descriptor whose entry is gone does nothing. *)

Holds(r) == stack = <<>> /\ request[r].pc = "open" /\ request[r].entry # None

\* OpenInputStreamForEntry, OpenOutputStreamForEntry, OnDataSizeChange, GetFileForEntry
OpenStream(r) ==
    /\ Holds(r) /\ ~entry[request[r].entry].bound /\ mEnableDiskDevice
    /\ BindEntry(entry, mActiveEntries, request[r].entry, <<>>)
    /\ UNCHANGED <<request, profile>>

\* MarkValid does nothing for an entry that gets no device.
MarkValid(r) ==
    /\ Holds(r)
    /\ EnsureEntryHasDevice(entry, mActiveEntries, request[r].entry,
                            <<Frame("validate", None, request[r].entry, {})>>)
    /\ UNCHANGED <<request, profile>>

ValidateEntry ==
    /\ Top("validate")
    /\ LET e == Head(stack).entry
           en == [entry EXCEPT ![e].valid = TRUE]
       IN  /\ IF en[e].doomed THEN WakeSynchronous(en, request, e) ELSE ServeReaders(en, request, e)
           /\ presumed' = presumed \ {e}
    /\ stack' = Tail(stack)
    /\ UNCHANGED <<mActiveEntries, stored, profile>>

\* Doom by the client, or by the device when the data outgrow it.
Doom(r) ==
    /\ Holds(r) /\ ~entry[request[r].entry].doomed
    /\ DoomEntry(entry, mActiveEntries, request[r].entry, <<>>)
    /\ UNCHANGED <<request, profile>>

SetExpirationTime(r) ==
    /\ Holds(r)
    /\ entry' = [entry EXCEPT ![request[r].entry].expired = TRUE]
    /\ UNCHANGED <<mActiveEntries, stored, request, stack, presumed, profile>>

\* CloseDescriptor of the last user: a doomed entry is deleted; another one leaves the table --
\* it takes out whatever entry the table has for the key -- and is written to the device, or
\* lost if it gets none.
CloseLast(r, e) ==
    LET table == [mActiveEntries EXCEPT ![entry[e].key] = None]
        en == [entry EXCEPT ![e].active = FALSE]
    IN  /\ request' = [request EXCEPT ![r] = Closed(r)]
        /\ \/ /\ entry[e].doomed \/ ~entry[e].bound
              /\ entry' = [entry EXCEPT ![e] = NoEntry]
              /\ mActiveEntries' = IF entry[e].doomed THEN mActiveEntries ELSE table
              /\ presumed' = presumed \ {e}
              /\ UNCHANGED <<stored, stack>>
           \/ /\ ~entry[e].doomed
              /\ EnsureEntryHasDevice(en, table, e, <<Frame("deactivate", None, e, {})>>)

\* CloseDescriptor of another one.
CloseOther(r, e) ==
    LET rq == [request EXCEPT ![r] = Closed(r)] IN
    /\ IF entry[e].valid THEN entry' = entry /\ request' = rq
       ELSE IF entry[e].doomed THEN WakeSynchronous(entry, rq, e)
       ELSE PromoteWriter(entry, rq, e)
    /\ UNCHANGED <<mActiveEntries, stored, stack, presumed>>

Close(r) ==
    /\ stack = <<>> /\ request[r].pc = "open"
    /\ LET e == request[r].entry IN
       IF e = None
       THEN /\ request' = [request EXCEPT ![r] = Closed(r)]
            /\ UNCHANGED <<entry, mActiveEntries, stored, stack, presumed>>
       ELSE IF NotInUse(entry, [request EXCEPT ![r] = Closed(r)], e)
       THEN CloseLast(r, e)
       ELSE CloseOther(r, e)
    /\ UNCHANGED profile

\* nsDiskCacheDevice::DeactivateEntry of an entry that is not doomed
WriteAndDelete ==
    /\ Top("deactivate")
    /\ LET e == Head(stack).entry IN
       /\ stored' = [stored EXCEPT ![entry[e].key] = IF entry[e].expired THEN "expired" ELSE "fresh"]
       /\ entry' = [entry EXCEPT ![e] = NoEntry]
       /\ presumed' = presumed \ {e}
    /\ stack' = Tail(stack)
    /\ UNCHANGED <<mActiveEntries, request, profile>>

------------------------------------------------------------------------------
(* The profile changes.                                                     *)

\* Mutant: the table's free slots are taken for entries.
Slots == {mActiveEntries[k] : k \in Keys}

Listed == {mActiveEntries[k] : k \in Keys} \ {None}

\* DoomActiveEntries empties the table and dooms what was in it.
OnProfileShutdown ==
    /\ stack = <<>> /\ mEnableDiskDevice /\ profileChanges < MaxProfileChanges
    /\ entry' = [e \in Entries |-> [entry[e] EXCEPT !.active = @ /\ e \notin Listed]]
    /\ stack' = <<Frame("profile", None, None, Listed)>>
    /\ mActiveEntries' = [k \in Keys |-> None]
    /\ profileChanges' = profileChanges + 1
    /\ UNCHANGED <<stored, request, presumed, mEnableDiskDevice>>

DoomActiveEntry ==
    /\ Top("profile")
    /\ \E e \in Head(stack).left :
          DoomEntry(entry, mActiveEntries, e, <<[Head(stack) EXCEPT !.left = @ \ {e}]>> \o Tail(stack))
    /\ UNCHANGED <<request, profile>>

\* ClearDoomList deletes every doomed entry and detaches its descriptors.  A synchronous
\* request that has not had the lock since it was woken is left in the queue of a deleted entry.
ClearDoomList ==
    /\ Top("profile") /\ Head(stack).left = {}
    /\ LET doomed == {e \in Entries : entry[e].doomed} IN
       /\ entry' = [e \in Entries |-> IF e \in doomed THEN NoEntry ELSE entry[e]]
       /\ request' = [r \in Requests |->
              IF request[r].entry \notin doomed THEN request[r]
              ELSE IF request[r].pc \in {"waiting", "woken"} THEN [NoRequest EXCEPT !.pc = "dangling"]
              ELSE [request[r] EXCEPT !.entry = None]]
       /\ presumed' = presumed \ doomed
    /\ stored' = [k \in Keys |-> "none"]
    /\ mEnableDiskDevice' = FALSE
    /\ stack' = Tail(stack)
    /\ UNCHANGED <<mActiveEntries, profileChanges>>

\* The cache of the new profile.
OnProfileChanged ==
    /\ stack = <<>> /\ ~mEnableDiskDevice
    /\ mEnableDiskDevice' = TRUE
    /\ stored' \in [Keys -> OnDisk]
    /\ UNCHANGED <<entry, mActiveEntries, request, stack, presumed, profileChanges>>

------------------------------------------------------------------------------

\* The thread that has the lock goes on.
ServiceStep ==
    \/ ProcessPendingRequest \/ DoomCompletes
    \/ StorageDisabled \/ DoomFound \/ UseFound \/ KeyNotFound \/ CreateEntry
    \/ ValidateEntry \/ WriteAndDelete
    \/ DoomActiveEntry \/ ClearDoomList

Next ==
    \/ ServiceStep
    \/ \E r \in Requests :
          \/ OpenCacheEntry(r) \/ WaitEnds(r) \/ AskAgain(r) \/ OnCacheEntryAvailable(r)
          \/ OpenStream(r) \/ MarkValid(r) \/ Doom(r) \/ SetExpirationTime(r) \/ Close(r)
    \/ EvictRecord \/ OnProfileShutdown \/ OnProfileChanged

Spec == Init /\ [][Next]_vars

------------------------------------------------------------------------------
(* Properties.                                                              *)

\* Entries, requests and frames keep their types.
TypeOK ==
    /\ entry \in [Entries -> [alive : BOOLEAN, key : Keys \cup {None}, doomed : BOOLEAN, active : BOOLEAN,
                              valid : BOOLEAN, expired : BOOLEAN, bound : BOOLEAN,
                              requestQ : Seq(Requests)]]
    /\ mActiveEntries \in [Keys -> Entries \cup {None}]
    /\ stored \in [Keys -> {"none", "fresh", "expired"}]
    /\ request \in [Requests ->
           [pc : {"idle", "opening", "queued", "waiting", "woken", "granted", "refused", "open",
                  "done", "dropped", "dangling"},
            args : Argument \cup {NoArgument}, waitFlag : BOOLEAN, entry : Entries \cup {None},
            granted : SUBSET ACCESS_READ_WRITE]]
    /\ stack \in Seq([op : {"process", "create", "pending", "validate", "deactivate", "profile"},
                      request : Requests \cup {None}, entry : Entries \cup {None},
                      left : SUBSET Entries])
    /\ mEnableDiskDevice \in BOOLEAN
    /\ presumed \subseteq Entries
    /\ profileChanges \in 0..MaxProfileChanges

\* An entry is deleted only when nobody can reach it: no descriptor, no request, no call in
\* progress, not the table of active entries; and a request that waits is in the queue of the
\* entry it waits for.  (ClearDoomList breaks this for requests that are "dangling".)
EntryOutlivesUsers ==
    /\ \A r \in Requests : request[r].entry # None =>
          /\ entry[request[r].entry].alive
          /\ request[r].pc \in {"queued", "waiting", "woken"} =>
                r \in Elements(entry[request[r].entry].requestQ)
    /\ \A i \in 1..Len(stack) :
          \A e \in ({stack[i].entry} \ {None}) \cup stack[i].left : entry[e].alive
    /\ \A k \in Keys : mActiveEntries[k] # None => entry[mActiveEntries[k]].alive

\* A descriptor with write access has the entry to itself until it marks it as valid, and no
\* second one is given out.
OneWriter ==
    \A e \in Entries :
        LET open == Descriptors(request, e) IN
        /\ Cardinality({r \in open : "write" \in request[r].granted}) <= 1
        /\ ~entry[e].valid => Cardinality(open) <= 1

\* nsCacheEntryHashTable::AddEntry asserts that the table has no entry for the key yet, so an
\* entry that is marked active is the one in the table.
ActiveIsListed ==
    \A e \in Entries : entry[e].active => mActiveEntries[entry[e].key] = e

\* A request that waits has somebody to wait for: a descriptor that will validate the entry or be
\* closed, a call in progress that will serve the queue, or another waiter that has been woken and
\* will ask again.  So nobody waits for ever, whether or not a writer validates its entry.  The
\* exception is an entry a reader has presumed valid with requests still in its queue.
SomeoneToWaitFor ==
    \A r \in Requests :
        (request[r].pc = "queued" \/ (request[r].pc = "waiting" /\ request[r].waitFlag)) =>
            LET e == request[r].entry IN
            \/ ~entry[e].valid /\ ~entry[e].doomed /\ Descriptors(request, e) # {}
            \/ \E i \in 1..Len(stack) : stack[i].op \in {"pending", "validate"} /\ stack[i].entry = e
            \/ \E w \in Elements(entry[e].requestQ) :
                  request[w].pc = "woken" \/ (request[w].pc = "waiting" /\ ~request[w].waitFlag)
            \/ e \in presumed
==============================================================================
