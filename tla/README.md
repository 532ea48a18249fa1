# TLA+ models of Classilla's runtime

Classilla is a fork of Mozilla 1.3 (`src/mozilla`).  Most of its 24 000 files are
data, generated code, build machinery, or passive libraries.  What is hard to get
right in it is the machinery every page load runs on: the threads, queues, timers and
streams of XPCOM (`xpcom/`), and the network library that is built out of them
(`netwerk/`).  This project models that machinery.

## Inventory

| Part | State it keeps | Operations | Talks to | Hard behaviour | Correct when |
|---|---|---|---|---|---|
| **Pipe** `xpcom/io/nsPipe3.cpp`, `nsSegmentedBuffer` | segments, four cursors, status, `mAvailable`/`mWritable`, blocked flags, pending callbacks | Read/Write(Segments), Wait, AsyncWait, CloseEx | every asynchronous stream in Necko | clients copy outside the monitor; one condition for two ends; closes from anywhere | it is a bounded channel; nobody sleeps beside data or room; one callback per AsyncWait |
| **Thread pool** `xpcom/threads/nsThread.cpp` | thread list, request list, running list, busy count | DispatchRequest, GetRequest, RequestDone, Shutdown | stream transports, DNS | spawn decision on counts that lag; timed waits; shutdown during dispatch | every request runs once; no two threads run the same runnable |
| **Timers** `xpcom/threads/TimerThread.cpp`, `nsTimerImpl.cpp` | sorted timer list, per-timer generation, armed flag | Init, Cancel, SetDelay, SetType, Run, PostTimerEvent, Fire | event queues | unlocked fields read by two threads; event in flight while the timer is re-initialised | a cancelled timer does not fire; a timer is in the list once |
| **Event queue** `xpcom/threads/plevent.c` | event list, notified flag, handler reentrancy | Post, PostSynchronous, Get, Process, Revoke, Destroy | every thread | synchronous posts; revocation against handling; nested processing | every event is handled or destroyed once; every synchronous caller wakes |
| **Event queue chain** `nsEventQueue.cpp`, `nsEventQueueService.cpp` | elder/younger chain, accepting flag | Push, Pop, StopAccepting, PostEvent | proxies, UI | posting while a queue goes dark | no event is stranded |
| **Proxy calls** `xpcom/proxy/src/nsProxyEvent.cpp` | call record, completion | Post, PostAndWait, EventHandler, PostCompleted | event queues | nested loops, dead destinations | a synchronous call returns once |
| **HTTP connections** `netwerk/protocol/http/src/nsHttpConnectionMgr.cpp`, `nsHttpConnection.cpp`, `nsHttpPipeline.cpp`, `nsHttpTransaction.cpp` | pending, active and idle lists per host, counters | Add, Process, Dispatch, Reclaim, Prune, Cancel, Shutdown | socket thread, channels | messages to the socket thread overtaken by sockets; restarts that race cancels; shutdown | limits hold, counters are exact, a transaction is in one place and ends, no request is repeated |
| **Cache service** `netwerk/cache/src/nsCacheService.cpp`, `nsCacheEntry*.cpp` | active entries, doomed entries, per-entry request and descriptor queues | OpenCacheEntry, Validate, Doom, Close | HTTP channel | one writer, many waiting readers, dooming | one writer; waiters get an answer |
| **Memory cache device** `nsMemoryCacheDevice.cpp` | lists of entries by eviction rank | Find, Bind, Deactivate, Doom, Evict | cache service | none: sequential under the service's lock | limits hold |
| **Disk cache** `nsDiskCacheMap.cpp`, `nsDiskCacheBlockFile.cpp`, `nsDiskCacheDevice.cpp`, `nsDiskCacheBinding.cpp` | buckets, eviction ranks, bitmaps, bindings, streams | Find, Bind, Doom, Deactivate, Write, Evict, Open, Close | cache service | crash with a dirty map; data flushed after its entry was doomed; eviction that calls back | no block belongs to two records or to none; only a complete map is read again |
| **Sockets** `netwerk/base/src/nsSocketTransportService2.cpp`, `nsSocketTransport2.cpp` | active and idle lists, event queue | Attach, Poll, Post, Detach | HTTP, DNS | poll list edited while polled | no socket is lost between lists |
| **Stream pumps** `nsStreamTransportService.cpp`, `nsInputStreamPump.cpp`, `nsAsyncStreamCopier.cpp` | pump state, suspend count | AsyncRead, Suspend, Resume, Cancel | pipe, pool | callbacks re-enter; cancel races | OnStart, OnData*, OnStop exactly once |
| **Load group** `nsLoadGroup.cpp` | request table, foreground count | Add, Remove, Cancel, Suspend | document loader | Cancel calls back into Remove | foreground count is exact |
| **DNS** `netwerk/dns/src/nsDnsService.cpp` | lookup table, pending requests | Lookup, Complete, Cancel, Evict | resolver thread | completion races cancel | every request completes once |

Left out: the layout, content, DOM, view, gfx, widget and editor trees (rendering; their
state is documents, not protocols), the JavaScript engine, NSPR and NSS (separate
libraries, used here through their calls), mail and news, XUL applications, installers,
build systems, third-party codecs and databases.

How the parts interact: a page load asks an HTTP channel; the channel asks the cache
service for an entry and posts a transaction to the connection manager on the socket
thread; the transaction writes its answer into a **pipe**, whose reading end calls back
through the main thread's event queue; files and cache entries are read by stream
transports, whose blocking reads run on the **thread pool** and write into pipes too;
time-outs, redirections and animations are **timers**, whose events go to the same
queues.  Pipe, pool, timers and event queues are therefore modelled first: everything else is
their client.

`PROJECT.json` lists every part with its sources, the hazards with the line at which
each bites, and the map from definitions to source lines.

## What is modelled

One action is one critical section of the code's lock, or one access to a field that the
code does not lock.  Variables and operators keep the names of the members and functions
they stand for.

### Pipe (`Pipe.tla`, `ByteChannel.tla`)

A reading and a writing client and, with `ForeignClose`, a third thread that closes
either end.  Bytes are named by their position in the stream, so order, loss and
duplication are visible; `heap` holds what each block of memory contains, so that a copy
into or out of a segment that has been freed or rolled back is visible as well.

| Code | Model |
|---|---|
| `nsPipe::mBuffer`, `mReadCursor` ... `mWriteLimit` | the same names; a pointer is an offset in its segment |
| `mMonitor` | one action per critical section; `waiters` is its wait set; `PR_Notify` takes any one waiter out |
| `GetReadSegment`, client callback, `AdvanceReadCursor` | `GetReadSegment`, `CopyFromSegment`/`ReaderRefuses`, `AdvanceWithinSegment`/`DeleteFirstSegment`: the copy runs outside the monitor |
| `GetWriteSegment`, client callback, `AdvanceWriteCursor` | `GetCurrentSegment`/`AppendNewSegment`, `CopyToSegment`/`WriterRefuses`, `AdvanceWriteCursor` |
| `OnPipeException`, `CloseEx` | `OnPipeException` and the two close actions |
| `Wait`, `AsyncWait`, `nsPipeEvents` | `*WaitBlocks`/`*WaitReturns`, `*AsyncWait`, the `inEvent`/`outEvent` flags and the callbacks that consume them |

`ByteChannel` is what a pipe promises: a bounded, ordered channel that can be closed.
`Pipe!ImplementsChannel` maps the bytes between the cursors to its `chan`.

### Thread pool (`ThreadPool.tla`, `Executor.tla`)

Workers come with demand and leave after a timed wait; clients dispatch the same
runnables again and again; one thread calls `Shutdown`.  `pc[t]` is where a worker is in
`nsThreadPoolRunnable::Run` and `GetRequest`; the constructor and the destructor of
`nsThreadPoolBusyBody` are steps of their own (`BumpBusy`, `DropBusy`) because each takes
the lock again.  `Executor` is the promise: every accepted request is started once, the
oldest that may run first.

### Timers (`Timer.tla`)

Two threads: the timer thread (`TimerThread::Run` and `PostTimerEvent`, which it calls
with the lock released, in `pc`), and the timers' owner, who calls, handles events and
runs callbacks (`ownerPc`, with `opPc` inside `Init` and `SetDelay` and `relPc` inside
`Release`).  `nsTimerImpl` reads and writes its fields with no lock, so `InitTimer`,
`InitDelay`, `InitAdd` are three steps, `Release` is three (`DropReference`, `TestArmed`,
`RemoveReleased`), and `PostTimerEvent` is four.  Time is a counter modulo `Domain` that
starts anywhere; `LessThan` is the code's comparison of wrapped times.  Two variables are
not in the code: `tooEarly`, the ticks left until the timer may call back, counted in
real time; and `raced`, the timers that were ever initialised while `PostTimerEvent` was at
work on them.  A later `Init` does not take a timer out of `raced`: `RemoveTimer` finds one of
the two places the timer may have in the list by then.

### Cache service (`CacheService.tla`)

Clients call `OpenCacheEntry` with a key, an access mode and a way to be answered: through
a listener (`async`), by blocking, or by an error if they would have to wait.  Everything
happens under `mCacheServiceLock`, but not in one piece: dooming an entry processes the
requests that wait for it, which may doom again, and a synchronous request gives the lock
up while it waits.  `stack` holds the calls in progress, innermost first; the lock is free
when it is empty.

| Code | Model |
|---|---|
| `nsCacheEntry`, its flags, `mRequestQ` and `mDescriptorQ` | `entry`; descriptors are the requests in state `granted` or `open` |
| `mActiveEntries` | a function from keys; `AddEntry` and `RemoveEntry` go by key and overwrite, as the code does |
| `ProcessRequest`, `ActivateEntry`, `RequestAccess` | `process` and `create` frames; `DoomFound`, `UseFound`, `KeyNotFound`, `CreateEntry`, and `AskAgain` for the loop of a synchronous request |
| `DoomEntry_Internal`, `ProcessPendingRequests` | `DoomEntry`, `pending` frames with `ProcessPendingRequest` and `DoomCompletes`; `ServeReaders` and `PromoteWriter` for entries that live on |
| `WaitForValidation`, `WakeUp` | `waitFlag`, `WaitEnds` |
| `CloseDescriptor`, `DeactivateEntry` | `Close`, `WriteAndDelete` |
| the disk device | `stored`, what `FindEntry` would find for a key; `BindEntry` and `EvictRecord` take records of other entries away and doom them if they are in use |
| a change of profile | `OnProfileShutdown`, `DoomActiveEntry`, `ClearDoomList`, `OnProfileChanged` |

`presumed` is not in the code: it names the entries a reader took for valid while requests
were still queued (see below).

### Event queues and proxy calls (`EventQueue.tla`, `ProxyEvent.tla`, `RemoteCall.tla`)

`EventQueue` holds the queues of all threads and their operations, each one critical section
of a queue's monitor; it has no specification of its own.  `ProxyEvent` adds the threads.  A
thread is a stack of what it is in the middle of, innermost first, because calls nest without
bound here: a thread that waits for a call handles the calls of others meanwhile.

| Code | Model |
|---|---|
| `PLEventQueue`: `queue`, `notified`, `processingEvents`, `eventPipe` | the same names, as functions of the queue; a pipe is its number of bytes |
| `PL_PostEvent`, `PL_GetEvent`, `PL_ProcessPendingEvents` | `PL_PostEvent`, `PL_GetEvent`; `BeginProcessing`, the frame `loop`, `EndProcessing`; `ProcessNested` |
| `PL_WaitForEvent` | `Sleep` and `TakeEvent`; `asleep` are the threads in `PR_Wait`, which a post takes out again (`Notify`) |
| `PL_PostSynchronousEvent` | the frame `sync`, whose `n` the handler sets |
| `nsEventQueueImpl::PostEvent` | the test of `mAcceptingEvents` and the post are two steps (`Accepted`, `AppendEvent`), since the code holds no lock; `PassedOn` to the elder, `Refused` |
| `nsEventQueueImpl::ProcessPendingEvents` | `Enter`, `Finish`, `OnceMore`, `ToElder` |
| `nsEventQueueServiceImpl` | `table`, `mEventQMonitor` (held from step to step only by `PopThreadEventQueue`), `PushModal`, `ModalEnds`, `PopReturns` |
| `nsProxyObject`, `nsProxyObjectCallInfo` | the record `call`, which is emptied when the code deletes it, so that who writes to it later is seen |
| `Post`, `PostAndWait`, `EventHandler`, `DestroyHandler`, `PostCompleted`, `CompletedEventHandler` | `CallSync`, `CallAsync`, `UseOwnQueue`, `UseNewQueue`, `WaitReturns`; `Invokes`, `MethodReturns`, `PostCompleted`, `Completes` |
| the native event loop, `PL_EventLoop`, modal loops | `NativeLoop` (the Unix code: it listens to every native queue of the thread), `InEventLoop`, the frame `modal` |

`RemoteCall` is what a caller may rely on: a method is called once for each call, a
synchronous call ends after its method has returned.  `ProxyEvent!ImplementsRemoteCall` maps the
records of the calls to its `phase`.

### Disk cache (`DiskCacheMap.tla`, `DiskCache.tla`)

`DiskCacheMap` is the map object with its block file as a value, and each of its operations a
function of it.  `DiskCache` gives it to the device, its entries and the files on disk.  The calls of
the service run under its lock from beginning to end, so that each is one action, and that action is a
function of the cache: `CloseDescriptor`, say, is `EnsureEntryHasDevice`, `WriteDiskCacheEntry` and
`ClearBinding` one after the other, each of which may find no room.  An eviction goes record by record.

| Code | Model |
|---|---|
| `nsDiskCacheMap`: `mBuckets`, the header's `mEntryCount`, `mDataSize`, `mEvictionRank` | fields of the value `map`; a bucket is a sequence of records |
| `nsDiskCacheBlockFile` | `mBitMap`, the set of allocated blocks, and `mBitMapDirty`; first fit within a quad |
| `nsDiskCacheRecord` | its hash number and rank, and the blocks of data and meta data |
| `nsDiskCacheBinding`, `nsDiskCacheStreamIO`, `nsCacheEntry` | a record of `entry`: the copy of the record the binding holds, where the stream ends, whether its buffer is dirty |
| `FindEntry`, `BindEntry`, `DoomEntry`, `DeactivateEntry` | `OpenEntry`, `BindEntry`, `DoomEntry`, `DeactivateEntry`, called by the clients' actions |
| `Flush`, `WriteDataCacheBlocks`, `WriteDiskCacheEntry`, `ClearBinding` | the same names |
| `EvictRecords`, `VisitRecords`, `nsDiskCacheEvictor` | `Evict`, `EvictEntries`, `VisitRecord`, `EvictionEnds` |
| `Open`, `InitializeCacheDirectory`, `Close` | `OpenMap`; `RemoveMap` and `RemoveBlockFile` in either order; `FlushBitMap`, `FlushBuckets`, `FlushHeader`, in the order of the code |
| the end of the program | `Crash`, between any two steps; `disk` stays as it is |

`amiss` is not in the code.  Five cases are known in which the code does what its authors did not mean
to (below); the model notes the case and goes no further than a crash, so that what is checked holds
until one of them is met.

### HTTP connections (`HttpConnectionMgr.tla`)

Clients on any thread post messages (`eventQ`), which the socket thread serves in order; between
them it calls the connections whose sockets are ready.  Only the socket thread touches the table
of connections, so that a handler with all that it calls is one action; what can happen in
between is the rest of the queue.  Messages and sockets interleave freely, which covers the batches in
which `nsSocketTransportService2.cpp:553-660` takes them.

| Code | Model |
|---|---|
| `nsConnectionEntry` of the table `mCT` | `mPendingQ`, `mActiveConns`, `mIdleConns` by host; an entry with nothing in it is as good as none |
| `mSTS`, `Shutdown` | `shutdown`: nothing can be posted once it is not `"none"` |
| `AtActiveConnectionLimit`, `GetConnection`, `PurgeOneIdleConnectionCB` | `AtActiveConnectionLimit`, `DispatchOnIdle`, `IdleLeft` |
| `DispatchTransaction`, `nsHttpConnection::Activate` | `Dispatched`, and `DispatchFails` when the transport cannot be made |
| `OnMsg...` | `Serve...` |
| `nsHttpConnection::CloseTransaction`, `ReclaimConnection`, `nsHttpTransaction::Close`, `Restart` | `ConnectionCloses`, `ReclaimConnection`, `CloseTransaction` with `AsksToRestart` and `Restarts` |
| `OnSocketWritable`, `OnSocketReadable`, a 408 response, the end of a response or a failure | `Writes`, `Reads`, `TimesOut`, `Ends` |
| `AsyncWait` on the socket or, when the pipe for the response is full, on that pipe; `nsHttpTransaction::OnOutputStreamReady`, `OnSocketEvent`, `ResumeRecv` | `waitsTo`; `WaitsAfterReading`, `OnOutputStreamReady` |
| `CanReuse` | chosen when it is asked: a connection that cannot be reused is always dropped then |

`taken` is not in the code: it says that a server has taken the request, which is when part of it
went out on a connection that had not been used before, or any answer but "timed out" came.

A connection whose transaction has no room for more of the response does not wait for its socket
(`nsHttpConnection.cpp:644-649`): it is told nothing, neither of a reset nor of our own `Close`, until
the transaction resumes it, which takes a thread that reads the response and a socket transport
service by which to say so (`GetSTS`).  The event is posted and served in one step with
`OnOutputStreamReady`: while it is on its way the connection may as well be one whose socket is not ready,
and that is what `read` allows, after `Shutdown`'s message too, for `GetSTS` and the post are not one step
and the event may come after it.

## Runs

| Run | Instance | Question |
|---|---|---|
| `pipe_safe` | blocking reader, asynchronous writer, closes from a third thread, refusing callbacks, failing allocation, interrupted waits | Is the pipe a bounded channel (`ImplementsChannel`, `BytesInOrder`), is held memory live, do the counts agree with the cursors (`CountsAgree`), does nobody sleep beside data or room, does a close release everybody? |
| `pipe_live` | asynchronous reader, blocking writer, each closes only its own end | Is each `AsyncWait` answered once, is every committed byte delivered, does every `Write` end, is end-of-file final? |
| `pool` | 4 threads, 2 runnables, minimum 1, maximum 3 | Is no runnable run by two workers (`RunsAlone`), are requests started in order and once (`ImplementsExecutor`), does no worker sleep beside work, is every request run, is shutdown clean and does it return? |
| `timer_once` | two repeating timers, each initialised once, cancelled or released at any moment | Is a timer armed exactly while it is listed, once, and is the list in order across the wrap (`ListIsRight`)? |
| `timer_live` | one timer of any type, initialised twice, with or without `Cancel` in between, `Shutdown` at any moment | Does it ring until it is cancelled or spent, does `Shutdown` return, is a released timer destroyed (`Progress`); only by the race of `timer_early`, is it listed other than armed and once (`ListedAsArmed`), or called early (`EarlyOnlyByRace`)? |
| `timer_any` | one timer, every call, in callbacks too, timers listed several times | Are reference counts exact, is no timer touched after it was deleted (`HandsOff`), does the thread wake in time, whatever delay and type are set (`NoOversleep`)? |
| `timer_early` | *violation* | The comment in `PostTimerEvent` says that the copied generation keeps a re-initialised timer from firing for its old time; it does not when `Init` comes before the copy |
| `cache` | three requests of different kinds, two keys, an entry on disk or none, one change of profile | Is no entry deleted under a descriptor, request or call in progress, does one descriptor write, has every request that waits somebody to wait for? |
| `cache_twice` | *violation*, same instance | An assertion says that an entry is added for a key that has none; `ActivateEntry` adds one after it has let another request add its own |
| `proxy_calls` | the user interface's thread with a native event loop, and a worker or a thread in an event loop; three calls, sent or waited for, made from anywhere, modal loops, methods that process events | Do events always announce themselves to the native loop, has every call one owner and no deleted record a user, and is the caller there when its call is completed (`NoCallIsLost`: `OnePlace` and `CallerListens`), is a method called once (`ImplementsRemoteCall`), does everything end and the native loop come to rest? |
| `http` | three transactions for hosts near, far, near; two connections, cancels, restarts, resets, a hang, pruning, `Shutdown` at any moment | Do counters and limits hold, is a transaction in one place, is no taken request repeated, is `Shutdown` complete, does every transaction end but those that `Shutdown` has cut off (`CutOff`)? |
| `disk` | three keys, two entries in use at a time, room for two records and eight blocks; the program may end between any two steps | Has every block one owner and is the size right (`StorageIsRight`), do records and header agree with the entries (`RecordsAreRight`), is only a complete map read again (`CleanIsComplete`), and is that the one that was closed (`ClosesComplete`)? |

### Bounds, and why they suffice

* **Pipe.** Segments of 2 bytes, 2 segments, 5 bytes to write, calls of 1 to 3 bytes: a call can end
  inside a segment, at its end, or cross it; the buffer fills, empties, rolls back and
  deletes segments, and the fifth byte goes into a block of memory that was used before.
  Both blocking modes of each end are covered by the two runs in one combination each; the proofs
  cover all four.
* **Pool.** Maximum 3 of 4 names, so the bound and not the supply of names stops
  growth; minimum 1, so workers leave; two runnables and up to four requests, so the same
  runnable waits behind itself while another overtakes it.
* **Timer.** Interval times of 3 bits (2 in `timer_any`) with delays 1 and 2, starting at any time:
  every comparison is made on both sides of the wrap.  `MaxLag` is how many ticks due work may
  be late; the code's comparison is right only while lateness stays under half the domain, which
  `TimerAssumption` states.  `MaxGeneration` 2 gives one re-`Init` (a third `Init`
  in `timer_live` takes TLC too long with `Progress`; without it, it shows no more).  `MaxReferences` stops
  `SetDelay` and `SetType` in `timer_any` where the code would list a timer more often
  still.
* **Cache.** Three requests: one that writes, one that waits, one that comes while it waits
  (to read, to write, to doom, or for another key), so that a queue has a first and a second
  request and a doomed entry has both a descriptor and a queue.  Each request is made once.
  Three entries are all there can be at a time; a fourth would stop the run with an error.
  The disk has nothing or an expired entry at first; entries that are closed become fresh ones.
  One change of profile, and what comes after it.
* **Proxy calls.** Three calls nest three deep: a call, a call back while its caller waits, and one
  more from there, and an asynchronous one may come in between.  `MaxQueues` 2 gives the user
  interface's thread one modal loop above its first queue, and a worker a queue for each of two
  waits.  A pipe of two bytes gets full.  A method processes its own queue at most once.  A thread
  has at most one proxy that it has not called yet; its queue was youngest when it was made and
  may have gone dark since.  The bounds are in the guards of `UseNewQueue`, `PushModal`,
  `ProcessOwn` and `MakeProxy`.
* **HTTP.** Transactions 1 and 3 go to one host, 2 to another; 1 and 3 ask for keep-alive and
  2 does not, so that a persistent limit of 1 stops one transaction and not the next, an idle
  connection of one host stands in the way of the other, and a connection that is freed has to
  serve another host.  Two connections in all, two per host: the limit on a host is met together with
  the one on all; `MaxRequestAttempts` 2 gives one restart.  `MaxIncidents` 1: one cancel, one
  pruning or one hang per behaviour.  `Shutdown`, restarts, resets and failing transports are not
  bounded by it, and a response may fill its pipe any number of times.
* **Disk cache.** One bucket with room for two records and three keys, so that a new record replaces the
  most evictable one, in use or not; two quads of four blocks, where data takes 2 and meta data 3, so
  that there is room for the meta data of two entries and then for the data of none, or for both of
  one.  Ranks 1 and 2: older, newer and alike.  A client evicts by key, and the whole cache is evicted
  down to 5 blocks.  `Alike` makes names of keys and of entries interchangeable.  The view
  `WhatMatters` leaves out which blocks the bit map on disk names while the one in memory is marked
  dirty: it will be written over before it is read, or removed.
  With three ranks the run takes three times as long and shows the same.

### Deadlock

The disk cache never stops: it can always be opened, or the program end.  Elsewhere
`CHECK_DEADLOCK FALSE` is said, because the system may stop: a closed pipe
whose clients are done, a pool that is down, timers after `Shutdown`, threads whose calls are
made, a connection manager that is shut down.  Waiting for ever
where one should not is caught by the liveness properties.

### Fairness

* **Pipe**: a client inside a call goes on, its callback comes; nobody has to start a
  call, close an end or, if it blocks, be woken without a `PR_Notify`.
* **Pool**: a worker that can move does, and runnables return; timeouts need not
  expire, clients need not call, `Shutdown` need not be called.
* **Timer**: both threads run, callbacks return, time passes.  The code assumes no more.
  The two threads are at most `MaxLag` ticks late, which is a bound and not a fairness
  assumption.
* **Cache**: only safety is checked.  That requests are answered is stated as the invariant
  `SomeoneToWaitFor`: whoever waits, waits for a descriptor that is open, a call in progress or a
  thread that has been woken.  With a lock that is granted in the end and clients that close
  what they open, nobody waits for ever.
* **Proxy calls**: a thread that is in the middle of something goes on (`Continue`): methods
  return, modal loops end.  Nobody has to make a call, push a queue or process its own.  A thread that
  waits for a monitor is not helped: it needs the holder to go on.
* **Disk cache**: only safety is checked; everything happens in one call or another of the service.
* **HTTP**: the socket thread takes its messages (`Serve`).  Whoever reads a response reads on or closes
  the pipe (`Resumes`): the code is at the consumer's mercy here, and one that never reads holds its connection,
  and the transactions behind it, until it is cancelled.  `EndsSomehow`: the response is complete after
  finitely many parts, or the server closes or resets the connection, or the socket times out.  This can only come while the
  connection waits for its socket, which a full pipe keeps it from doing again and again; each time it is
  resumed a part of the response is taken, so that the fairness is strong.  It is no help to a connection that is not
  resumed: while there is a service to resume it `Resumes` does, and after `Shutdown` nothing does.  Bodies of
  requests do not make a connection wait: those the tree uploads are strings, files and the like, which are always
  ready (a stream that said WOULD_BLOCK would stop its connection for good: `nsHttpConnection.cpp:566-570`
  waits for a `ResumeSend` that only pipelines call).  The servers' answers in between, idle
  connections going stale, cancels and pruning need not happen.

## Proofs

Eight modules hold theorems: `PipeProof`, `ThreadPoolProof`, `TimerProof`, `CacheServiceProof`,
`ProxyEventProof`, `HttpConnectionMgrProof`, `DiskCacheProof` and, with lemmas only, `SequenceCounts`.
They hold for all values of the constants that satisfy the assumptions the modules state: any segment
size, any number of segments, threads, runnables, requests, timers, entries, keys, hosts, transactions,
buckets, blocks, ranks and sizes, any limits, any interval clock of even size.  Of these assumptions
one is about the model rather than the code: `HttpAssumption` has more connection objects than
`mMaxConns`, because the code allocates a new one where the model takes an unused one.
(`CacheAssumption` needs no such clause: it takes any set of entries, because a request that finds no
unused one is simply not made.)  `TypeOK` of `Pipe`, `ThreadPool` and `Timer` is proved and for that reason
not checked by a run any more.

**Sequences** (`SequenceCounts.tla`).  Reference counts and "is in one place" are statements about how
often a list or queue has an element.  `Count(s, W)` is that number, and there is a lemma for what
appending, removing the head, removing at an index, inserting and keeping a sublist do to it, to the
elements and to whether they are distinct.  `Sublists.tla` has the operators themselves.
What induction over sequences would show is derived from the size of a set of indices, or from a least
counterexample (`FirstExists`).

**Pipe.** `CountsAgree` (`AvailableIsBuffered` and `WritableIsRoom`), `NoMissedWakeup`, `OneCallback` and
`HeldMemoryIsLive` are not inductive by themselves: whether a deletion keeps the count
right depends on where the writer is while it copies outside the monitor.  `IInv` adds

* `BufferInv`: which combinations of cursors and limits there are; in particular a first
  segment that is read out is still being written, which is what the test in
  `AdvanceReadCursor` and the roll-back in `GetWriteSegment` maintain together;
* `ReaderInv` and `WriterInv`: a client outside the monitor holds the bytes from
  `mReadCursor` on, or the room behind `mWriteCursor`, of the first or last segment;
* `WaitInv`: whoever is in the wait set has set its `mBlocked`.

The step proof has a step per action; the actions that delete, append and commit rest on
lemmas of their own (`DeleteFirstSegmentKeepsBuffer`, `AppendNewSegmentKeepsBytes`,
`AdvanceWriteCursorCommits`, ...).  `HeldMemoryIsLive` follows from `IInv`.

`BytesArriveInOrder` needs what is in the memory and not only how much: `DataInv` says that the byte
`k` places behind the read cursor is byte number `rOffset + k` of the stream, wherever the segments'
boundaries are, so that the reader's account and the writer's meet at the write cursor.
`EofStaysFinal` is proved on top of `IInv` for pipes that only their own two ends close
(`ForeignClose = FALSE`): a third thread that closes the output end between a writer's copy and its
commit makes the statement false, see below.  `PipeIsChannel` is the refinement of `ByteChannel`, with
`ForeignClose` or without: each action of the pipe is one of the channel on the contents (`BufferIsContents`)
or leaves them alone.

**Thread pool.** `IInv` is the conjunction of the properties themselves: `NoIdleBesideWork`
needs `RunsAlone` (a finished run makes at most one more runnable startable) and the counts;
`PoolIsBounded`, `BusyIsExact` and `ShutdownIsClean` need only the types.  Each conjunct
has its step lemma.  `NoIdleBesideWork` compares the sizes of two sets: the lemmas `BothGain`
and `BothLose` say that each step that makes a runnable startable puts a worker on its
way, and that a worker who goes to sleep has found nothing startable.  `Implementation`
proves the refinement of `Executor` step by step.

**Timers.** `NobodyTouchesTheDead` (`HandsOff`) says of one look at a timer that its memory is still there.
What makes it true is that `mRefCnt` is exactly the number of references there are: `AllCounted` adds up the places
in `mTimers`, the events in the queue and the four hands a timer can be in (owner, timer thread, the
event being handled, a `Release` between its decrement and its look at `mArmed`), and `Control` says
where a hand holds one.  `TypesHold` has the same invariant.  The types do not bound `mRefCnt`; that it never
goes below zero is a consequence of the count.  These two hold for every owner.  The others need
`OneAtATime`: the owner calls neither `SetDelay` nor `SetType`, and callbacks initialise new timers only;
without it the code does list timers twice (see below).

* `ListedWhileArmed` (`ListedAsArmed`), by `PlacesInv`: a timer that is not in `raced` is in the list, in the
  hands of `PostTimerEvent`, or in neither, and `mArmed` says which; a slack timer stays in one place even as an
  event and through its callback (`OnePlace`), and when `Init` has taken it out of the list nothing of its
  generation is left anywhere until it is added (`Blank`).  One-shot timers, precise timers and slack timers
  disagree on when a timer may be in two places, which is why the invariant counts the places by type.
* `SleepEndsInTime` (`NoOversleep`): what goes to the head of the list wakes the thread or finds it awake.
  With re-`Init` it holds while `raced` is empty; with one `Init` for each timer, always.
* `EarlyNeedsARace` (`EarlyOnlyByRace`), by `EarlyInv`: while a timer may not call back for another `n` ticks its
  timeout is `n` ahead of now and no event of its generation is on its way.  `EarlyByTheAdjustment` is the
  same for a timer thread that makes up for its delay by serving timers up to `A` early (`mTimeoutAdjustment`):
  no callback is earlier than that.
* `ListKeepsOrder` (`ListIsRight`), for owners that initialise each timer once (`InitOnce`).  Wrapped times have no
  order of their own.  They have one by how far they are ahead of now (`Ahead`), and `TIMER_LESS_THAN` compares
  just that (`LessThanAhead`) for times that are less than half a turn apart.  `ListInv` says that they are: the
  timeout of a timer in the list, or on its way there, is between `-(lag + A)` and `mDelay + A` ahead
  (`TimeInv`), and the list is in the order of `Aheads`.  A tick brings every timeout one nearer; that none
  falls further behind than `lag` allows is a matter of the head alone, because nobody is behind it
  (`NobodyBehind`), and of the thread's being awake for it (`NoOversleep`): the two properties need each other.  The
  hypothesis `Window(A)` is the limit of the clock: delay, lateness and four times the adjustment
  stay under half a turn (24 days for 32 bits of milliseconds).  In `timer_once` they do by one: 2 + 1 < 4.

**Cache service.** The calls under the service's lock do several things to entries, requests and the
stack of calls before they are done, so that each part of `CacheInv` (`Types`, `RequestOK`, `QueueOK`,
`TableOK`, `StackOK`, `WriterOK`, `ListenersOK`, `WaitOK`) is an operator of these: a state in the middle of a
call satisfies them as well, and a call is proved step by step like the code it stands for.
`OneWriter` needs `ListenersOK` (whom an entry's queue and the descriptors of it make up);
`SomeoneToWaitFor` is not inductive: a waiter who "will ask again" helps the others only as long as the
entry is not valid yet, and `Helped` says so.  `EntryOutlivesUsers` needs that who is on the stack of calls
still refers to its entry (`StackOK`).

**HTTP connections.** `ConnInv` has the lists of connections, each connection in one list of its host or
in none, and the counters that are their sizes; `TransInv` counts the messages, pending places and connections of
every transaction (`Placed`: an open one has exactly one of them), and which transaction a connection
has; `QueueInv` is what the messages in the queue of the socket thread refer to.  `LimitsHold` is part of
the invariant; `OnePlace`, `NotRepeated` and `ShutdownIsComplete` follow.  Dispatch, reuse, reclaim, prune,
failure and shutdown each have a lemma about the lists and one about the transactions.

**Event queues.** `EventsAreAnnounced` is not inductive: a nested call takes the notification
away while events wait.  `IInv` says that the flag `notified` is set only while there is a byte in
the pipe, and that it is set for every native queue with events that is not being processed.  Each
operation of `EventQueue` has a lemma, and each action of `ProxyEvent` is one of them or leaves the
queues alone; where the threads are plays no part, so that no type of `stack` is needed.

**Proxy calls.** `NoCallIsLost` (`CallsAreNotLost`) says where a call is.  `CallInv` counts: the frames of all
stacks and the events of all queues that hold a call are one altogether from the call to its end, and none
before and after (`PlaceOf`); the question for the caller's own queue (`lookup`) is counted too, which is the
moment that `OnePlace` leaves out.  That a thread which takes an event, or goes on with its top frame, has the
call alone (`HeadHolds`, `TopHolds`) is what keeps every other frame's and event's record as it was.  `FitsInv`
says how far the record has come for each kind of frame and event: an event that calls a method is of a
call not yet invoked, one that completes it of a call whose method has returned.

That the caller's queue accepts events until the answer is there (`AcceptInv`) is not inductive: queues go
dark when modal loops end and when `PostAndWait` destroys the queue it made.  `OwnersAreYounger` is the reason
why these are other queues: a frame that will stop its queue made it after every frame below it
began to wait.  `CallerInv` keeps the waiting frame on the stack of the queue's thread.

Each action has a lemma `...Keeps`; below them `Rebuilds` describes a step by what it puts on the stack and
whether it takes the top away, `StackStep`, `AcceptStep`, `CallerStep` and `CallStep` say what such a step has
to show, and `QuietKeeps` covers the steps of nested processing, which hold no call.  `CallsAreRemoteCalls` is the
refinement of `RemoteCall`: with `CallInv` each action moves the phase of one call along, or none.
The proof needs that a thread may make a queue at all (`MaxQueues` is not 0), as those with a native
event loop do when they start.

**Disk cache.** `ClosesComplete` looks at one step, the last of the closing, but what makes it true has
been going on since the opening: the bit map in memory is that of the block file unless it is marked
dirty (`FlushedInv`), and every call that allocates or frees a block has to see to that, however many
other calls it makes on its way.  `Marked` is that obligation, for a map before and after an operation;
each operation of the map has its lemma, and so has each call (`...Keeps`), from `DeleteStorage` up to
`DeactivateEntry`, each from those of the calls it makes.  `DirtyInv` says that a map in use is marked
dirty on disk, and gives `InUseIsDirty`.  The theorem covers the cases of `amiss` as well.

`NoBlockIsLost` (`StorageIsRight`), `RecordsAreKept` (`RecordsAreRight`), `CleanFilesAreComplete`
(`CleanIsComplete`) and `TypesAreKept` (`TypeOK`) come from one more invariant, `StorageInv`.  Its core,
`InOrder(map, entry)`, is two conjuncts.

* `Booked`: records are in their buckets and each hash number is there once; an active entry with a
  binding has a record that names the same meta data and, unless its buffer is dirty, the same data; an
  active entry without one has no record, or `FindEntry` would have found it; every other record names
  meta data.
* `Allotted`: data and meta data of each entry with a binding, and of each record that no active entry
  has bound (`Holdings`), are disjoint, and together they are the bit map, whose size is `mDataSize`.

A cache is `Good` if it is in order or something has gone amiss: within a call neither need be known, so
that the lemmas about calls (`BindEntryFacts`, `FlushFacts`, `WriteDiskCacheEntryFacts`, `ClearBindingFacts`,
`DeactivateEntryFacts`, ...) say that each makes a good cache of a good one, and an action is `Sound` if its
calls are, one after the other.  Below them the map is seen by what it finds for a key (`Minus`, `Plus`,
`Even`), with the buckets, the shifted last record and the eviction rank left behind in lemmas
(`DeleteRecordFacts`, `AddInsteadFinds`, ...); the header agrees with the buckets in every state
(`MapOK`).  The other half of `StorageInv` is about the files: what will be read again is in order
with no entries in use, which the step that clears the dirty bit takes from the map in memory
(`FlushHeaderIsComplete`) and `OpenMap` gives back.  The proof needs that bucket indexes are
numbers, for `EvictRecords` goes to the first bucket that has the highest rank; they are (`GetBucketIndex`
masks the hash number).

**Only model-checked:** the liveness properties (TLAPS has no rule for fairness at hand): `Progress` and the like of
each component; and what `Timer` does for owners outside the theorems' hypotheses: `timer_any` checks `NoOversleep` with
`SetDelay`, `SetType` and callbacks that initialise their own timer, for one timer.  The other invariants and
the action properties of the runs are theorems.  No module proved about
has a RECURSIVE operator; what induction over sequences would need is avoided or left to TLC.

## Found on the way

* `timer_early`, `cache_twice`: see the runs, and "findings" in
  `PROJECT.json` with the lines quoted.
* A worker of the pool compares the number of threads with `mMinThreads` before its timed wait and
  leaves after it without another look (`nsThread.cpp:632-653`), so that workers who wait together all
  leave, and the pool falls below its minimum.
* A pipe whose input end is closed with a failure still delivers the bytes it holds
  (`GetReadSegment` does not look at the status while there are bytes, `nsPipe3.cpp:379`), although
  `nsIAsyncInputStream.idl:48-50` says that reads fail after `closeEx`.
* When a third thread closes the output end while the writing client copies, the bytes are committed
  all the same (`nsPipe3.cpp:492`), after the reader was told end-of-file: `EofIsFinal` is checked
  where only clients close.  A client that has an `AsyncWait` pending and blocks in `Read` as well
  may sleep on (`nsPipe3.cpp:605`); no caller in the tree does that.
* A precise timer that is initialised while the timer thread is re-arming it is listed
  twice from then on and is never destroyed by `Release`; `Progress`, `ListedAsArmed` and
  `EarlyOnlyByRace` leave such timers (`raced`) out.  A further `Init` does not repair that: of two places
  `RemoveTimer` takes the first, and `AddTimer` makes a new second one.
* `Init` of a slack timer, or `SetType` from precise to slack, in the timer's own
  callback lists it twice, against the comment at `nsTimerImpl.cpp:313-315`; `timer_any` allows for it and shows
  that reference counts survive it.
* A precise timer that is initialised again counts from its old timeout
  (`nsTimerImpl.cpp:520`).
* A synchronous request that is promoted to writer of an entry is woken but has not got the
  lock; a reader that opens the entry first is its first descriptor and marks it as valid
  (`nsCacheEntry.cpp:255`).  The requests still in the queue are then served by nobody;
  `SomeoneToWaitFor` leaves such entries (`presumed`) out.
* Listeners that wait to read an entry whose writer gives up, with nobody else to write, are
  taken out of the queue and never called ("XXX bad state", `nsCacheService.cpp:1441`): the
  state `dropped`.  `ClearDoomList` deletes entries in whose queue a woken synchronous request
  still is: the state `dangling`.
* Two threads that complete calls for each other at once wait for ever: `PostCompleted` posts with
  `PostSynchronousEvent` (`nsProxyEvent.cpp:236`), which waits on the event's condition and handles
  no events, while the caller it waits for is in the same state.  A thread that pops a modal queue
  handles events with the service's monitor held (`nsEventQueueService.cpp:332`), and what they
  call on another thread may need that monitor.  A call whose queue went with the loop it was made for
  is not answered.  `ComesToRest` leaves these states (`Stuck`) out and shows that there are no
  others: it states what the code lets happen, and no document promises more.
* A transaction that `ProcessPendingQForEntry` puts back because its transport could not be made
  keeps a pointer to the connection that failed, and that connection has let go of the transaction: a
  cancel calls `mTransaction->Close` on null (`nsHttpConnection.cpp:472-479`, where an assertion
  says "wrong transaction"); and nothing is posted for the transaction, so that it waits until some
  other connection of any host is closed.  `TransactionsEnd` leaves these behaviours out.
* A transaction whose pipe is full when `Shutdown` lets go of the socket transport service is never closed
  (after a second `Init` it could be cancelled).  Its connection does not wait for the socket, so that nobody learns that `ShutdownPassCB` has closed it; and when the
  consumer reads on, `nsHttpTransaction::OnOutputStreamReady` gets no service from `GetSTS`
  (`nsHttpTransaction.cpp:976-979`, `nsHttpConnectionMgr.cpp:126`), posts nothing and reports nothing.  The consumer
  reads what the pipe holds and then waits.  The same goes for a pipe that gets full between `Shutdown`'s
  message and its being served.  `TransactionsEnd` says that there are no others (`CutOff`).
* `nsHttpConnectionMgr::Init` says (lines 94-95) that nothing goes on on the socket thread after
  `Shutdown`.  Sockets still report that they were closed then (`ShutdownIsComplete` names what is
  left); after a second `Init` such a report would be counted against the new table (line 246).
* `GetThreadEventQueue` walks the chain of queues outside of the service's monitor
  (`nsEventQueueService.cpp:383`), while their owner may unlink one.  The walk is one step here.

* The disk cache, by the name the case has in `amiss`:
  * `seen`: `MarkDoomed`.  `nsCacheService::DoomEntry` serves the requests that wait for the entry before an
    eviction has deleted the record, so that one of them may find the entry again: what
    `nsDiskCacheDevice::DoomEntry` says cannot be ("so it can't be seen by FindEntry() ever again",
    `nsDiskCacheDevice.cpp:581`).
  * `late`: `WriteDataCacheBlocks` updates the map without asking whether the entry is doomed
    (`nsDiskCacheMap.cpp:773`; its caller asks, `nsDiskCacheStreams.cpp:511`).  If its key has a new entry
    by then, the record of the doomed one replaces the new one's.
  * `empty`: a record that was replaced in a full bucket has no data, or no meta data; `DeleteStorage` takes
    it for a file, fails, and `BindEntry` returns with the new record in the map and no binding
    (`nsDiskCacheDevice.cpp:555`, "XXX delete record we just added?").
  * `severed`: `ClearBinding` flushes what is in the buffer after the record was deleted, or in vain, and the stream
    that is closed later finds its buffer dirty (`nsDiskCacheStreams.cpp:440`, "oops").
  * `halfwiped`: the program ends when the cache directory has lost the map and not the block file, and
    the next start takes the block file for that of a new map: its blocks are lost to the cache.
* Dooming the entry whose record was replaced in a full bucket looks for that record and does not find it:
  the assertion "DoomRecord failed." (`nsDiskCacheDevice.cpp:582`) is met on a legal path.
* A flush that finds no room leaves an entry with a size and no data.

## Not modelled

Of the modelled parts: `Search`, `Seek` and `Tell` of a pipe (they only read); the
circular array in `nsSegmentedBuffer`; `nsThread` itself; `nsTimerManager` and the
arithmetic of `UpdateFilter`, whose result is taken from the constant `Adjustments`;
allocation failures of timers and events; what happens after a `Shutdown` has returned.
Of the cache service: the memory
device and entries that are not stream based, meta data, eviction by client, the shutdown of
the service itself, failing allocation, and references to descriptors.  Several records that
one call evicts are evicted one by one.  The record of an entry is named by its key, so two
entries of one key share it, and collisions of hash numbers between keys are left out.
Of the disk cache: data and entries that are too large for the block files, in files of their own, with
the generation numbers that name them; two keys with one hash number; streams that start at an offset and
those that read; `Trim` and `Visit`; reads and writes that fail; the memory device as a second home.
Three block files are one, and any target may be the capacity of an eviction.  Names in the directory are
removed one by one, not by way of `Cache.Trash`, and what the operating system does to the order of
writes when the power fails is not modelled.  `Doom` is any dooming, and what happens at a change of
profile is `Doom` and `CloseDescriptor` of all entries and then `FlushBitMap`.  An eviction updates the
header with each record instead of with each bucket, which is not looked at in between.
Of the event queues: revoking and mapping events, queues that are unlinked and destroyed (one that is
dark and empty stays in its chain), the Windows and Mac notifications (the Mac polls only the youngest
active queue, so that an event posted late to a popped queue may lie there), the references that
proxies and native callbacks hold or fail to hold.  Of HTTP: pipelines, which are off unless a preference
turns them on (`all.js:607`), CONNECT through a proxy, a second `Init`, the parsing of
responses, and streams of request bodies that are not ready (see "Fairness").  A pipeline's
dispatch cannot fail, because pipelines are built only on connections that have a transport, so that no transaction is restarted and put back at once.
The parts marked `not_modelled` in `PROJECT.json` are the plan below.

## Plan

In this order, each with an abstract specification where there is one to state:

1. `StreamTransport`: composition of `Pipe` and `ThreadPool` under the service's lock.
2. HTTP pipelines on top of `HttpConnectionMgr`; `SocketTransportService`, `InputStreamPump`,
   `LoadGroup`, `DNS` as far as there is room.
