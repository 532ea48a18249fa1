------------------------------- MODULE DiskCache -------------------------------
(***************************************************************************)
(* nsDiskCacheDevice with its bindings and streams (netwerk/cache/src):    *)
(* the cache service opens, binds, dooms and deactivates entries, clients  *)
(* write their data through streams, records are evicted, and the program  *)
(* may end at any moment without writing anything any more.                *)
(*                                                                         *)
(* The calls run under mCacheServiceLock, so that a call with all that it  *)
(* calls is one action; only an eviction goes record by record (evicting). *)
(* Calls are functions of the cache, a record of the map, the entries and  *)
(* what has gone amiss, and an action is the call that it makes.           *)
(*                                                                         *)
(* An entry in use has a descriptor; who closes the last one deactivates   *)
(* it.  What the service itself does is in module CacheService.  A key is  *)
(* named by its hash number, all data fits into the block file, entries    *)
(* may be stored on disk only, and streams write from the start.           *)
(***************************************************************************)
EXTENDS DiskCacheMap

CONSTANTS
    Entries,            \* names of nsCacheEntry objects, used again once deleted
    Ranks,              \* eviction ranks: the later, the lower
    DataSizes,          \* of what clients write, in blocks
    MetaSizes,          \* of what is stored of an entry itself, in blocks
    Targets,            \* sizes below which evictions may have to bring the cache
    Clients             \* the keys of each client that may have its entries evicted

ASSUME DiskCacheAssumption ==
    /\ IsFiniteSet(Entries)
    /\ Ranks # {} /\ Ranks \subseteq Nat \ {0}
    /\ DataSizes \subseteq 1 .. 4
    /\ MetaSizes # {} /\ MetaSizes \subseteq Nat \ {0}
    /\ Targets \subseteq Nat
    /\ Clients \subseteq SUBSET HashNumbers

VARIABLES
    map,                \* mCacheMap
    entry,              \* nsCacheEntry objects with their bindings and streams
    evicting,           \* the eviction in progress: down to which size, whose records
    phase,              \* of the device, from Init to Shutdown
    disk,               \* the files of the cache directory
    amiss               \* the known cases met: the model goes no further than the first

vars == <<map, entry, evicting, phase, disk, amiss>>

Free == [key |-> "none", state |-> "free", valid |-> "yes", bound |-> FALSE,
         mRecord |-> NewRecord("none", 0),
         mOutStream |-> FALSE, mStreamEnd |-> 0, mBufDirty |-> FALSE]
Idle == [target |-> 0, keys |-> {}]
NoFiles == [map |-> "none", mIsDirty |-> TRUE, header |-> {}, mBuckets |-> {}, mBitMap |-> {}]

Init ==
    /\ map = NewMap /\ entry = [e \in Entries |-> Free] /\ evicting = Idle
    /\ phase = "down" /\ disk = NoFiles /\ amiss = {}

cache == [map |-> map, entry |-> entry, amiss |-> amiss]

Becomes(c) == map' = c.map /\ entry' = c.entry /\ amiss' = c.amiss

Amiss(c, case, met) == IF met THEN [c EXCEPT !.amiss = @ \cup {case}] ELSE c

-----------------------------------------------------------------------------
(* The bindery and the calls of the service.                                *)

\* FindActiveBinding, as a set
ActiveBindings(c, key) ==
    {e \in Entries : c.entry[e].state = "active" /\ c.entry[e].bound /\ c.entry[e].key = key}

\* FindRecord and ReadDiskCacheEntry
CanBeFound(m, key) ==
    /\ HasRecord(m, key)
    /\ FindRecord(m, key).meta # {}
    /\ FindRecord(m, key).meta \subseteq m.mBitMap

\* nsCacheService::DoomEntry but for the record.  A request that waits for the entry is
\* processed like a new one: it is "seen" if it finds the entry again.
MarkDoomed(c, e) ==
    LET doomed == [c EXCEPT !.entry[e].state = "doomed", !.entry[e].valid = "yes"]
    IN  Amiss(doomed, "seen", c.entry[e].valid = "awaited" /\ CanBeFound(c.map, c.entry[e].key))

DoomEntry(c, e) ==
    MarkDoomed([c EXCEPT !.map = IF c.entry[e].bound THEN DeleteRecord(@, c.entry[e].key) ELSE @], e)

CreateBinding(c, e, record) == [c EXCEPT !.entry[e].bound = TRUE, !.entry[e].mRecord = record]

\* DeleteStorage of a record fails if it lacks a location: it takes it for a file of its own.
\* "empty": BindEntry then returns with the new record in the map and no binding.
MakeRoom(c, old) ==
    IF ActiveBindings(c, old.hash) # {}
    THEN DoomEntry(c, CHOOSE e \in ActiveBindings(c, old.hash) : TRUE)
    ELSE Amiss([c EXCEPT !.map = DeleteAllStorage(@, old)], "empty", old.data = {} \/ old.meta = {})

BindEntry(c, e, rank) ==
    LET key == c.entry[e].key
        record == NewRecord(key, rank)
        added == [c EXCEPT !.map = AddRecord(@, record)]
        room == IF IsFull(c.map, key) THEN MakeRoom(added, OldRecord(c.map, key)) ELSE added
    IN  IF c.entry[e].state = "doomed" THEN CreateBinding(c, e, record)
        ELSE IF "empty" \in room.amiss THEN room
        ELSE CreateBinding(room, e, record)

EnsureEntryHasDevice(c, e, rank) == IF c.entry[e].bound THEN c ELSE BindEntry(c, e, rank)

-----------------------------------------------------------------------------
(* Streams and storage.                                                     *)

\* WriteDataCacheBlocks updates the map for a doomed entry too: "late" if there is
\* another record of that hash number by now.  With no record the buffer stays dirty.
WriteDataCacheBlocks(c, e, place) ==
    LET key == c.entry[e].key
        record == [c.entry[e].mRecord EXCEPT !.data = place]
        stored == [WithBlocks(c.map, place) EXCEPT !.mDataSize = @ + Cardinality(place)]
        known == HasRecord(c.map, key)
    IN  Amiss([c EXCEPT !.map = UpdateRecord(stored, record), !.entry[e].mRecord = record,
                        !.entry[e].mBufDirty = ~known],
              "late", c.entry[e].state = "doomed" /\ known)

\* Mutant: the old data stays when there is new.
FlushBeside(c, e) ==
    LET record == c.entry[e].mRecord
        gone == [c EXCEPT !.map = DeleteStorage(@, record.data), !.entry[e].mRecord.data = {}]
        emptied == [gone EXCEPT !.entry[e].mBufDirty = FALSE,
                                !.map = IF c.entry[e].state = "doomed" THEN @
                                        ELSE UpdateRecord(@, gone.entry[e].mRecord)]
        place == AllocateBlocks(c.map, c.entry[e].mStreamEnd)
    IN  IF ~c.entry[e].mBufDirty THEN c
        ELSE IF c.entry[e].mStreamEnd = 0 THEN emptied
        ELSE IF place = {} THEN c
        ELSE WriteDataCacheBlocks(c, e, place)

\* The old data goes first.  Without room for the new, the map still names the old.
Flush(c, e) ==
    LET record == c.entry[e].mRecord
        gone == [c EXCEPT !.map = DeleteStorage(@, record.data), !.entry[e].mRecord.data = {}]
        emptied == [gone EXCEPT !.entry[e].mBufDirty = FALSE,
                                !.map = IF c.entry[e].state = "doomed" THEN @
                                        ELSE UpdateRecord(@, gone.entry[e].mRecord)]
        place == AllocateBlocks(gone.map, c.entry[e].mStreamEnd)
    IN  IF ~c.entry[e].mBufDirty THEN c
        ELSE IF c.entry[e].mStreamEnd = 0 THEN emptied
        ELSE IF place = {} THEN gone
        ELSE WriteDataCacheBlocks(gone, e, place)

\* WriteDiskCacheEntry, and DeactivateEntry's answer if it fails: there is no room for the
\* meta data, or it is too large.
WriteDiskCacheEntry(c, e, rank, size) ==
    LET old == c.entry[e].mRecord
        gone == DeleteStorage(c.map, old.meta)
        place == AllocateBlocks(gone, size)
        record == [old EXCEPT !.rank = rank, !.meta = place]
        stored == [WithBlocks(gone, place) EXCEPT !.mDataSize = @ + Cardinality(place)]
    IN  IF place = {}
        THEN [c EXCEPT !.map = DeleteRecord(DeleteStorage(gone, old.data), old.hash),
                       !.entry[e].mRecord = NewRecord(old.hash, rank),
                       !.entry[e].state = "doomed"]
        ELSE [c EXCEPT !.map = UpdateRecord(stored, record), !.entry[e].mRecord = record]

\* Mutant: what is stored of the entry itself stays.
DeleteDoomedData(c, e) ==
    [c EXCEPT !.map = DeleteStorage(@, c.entry[e].mRecord.data),
              !.entry[e].mRecord = NewRecord(c.entry[e].key, @.rank)]

DeleteDoomed(c, e) ==
    [c EXCEPT !.map = DeleteAllStorage(@, c.entry[e].mRecord),
              !.entry[e].mRecord = NewRecord(c.entry[e].key, @.rank)]

\* With the binding goes its hold on the stream: what is still in the buffer is flushed.
\* "severed": into blocks that no record names, or in vain when the old data is deleted.
ClearBinding(c, e) ==
    LET flushed == Flush(c, e)
        bad == ~HasRecord(flushed.map, c.entry[e].key) \/ flushed.entry[e].mBufDirty
        closed == IF c.entry[e].mOutStream
                  THEN Amiss(flushed, "severed", c.entry[e].mBufDirty /\ bad) ELSE c
    IN  [closed EXCEPT !.entry[e] = Free]

DeactivateEntry(c, e, rank, size) ==
    IF ~c.entry[e].bound THEN [c EXCEPT !.entry[e] = Free]
    ELSE IF c.entry[e].state = "doomed" THEN ClearBinding(DeleteDoomed(c, e), e)
    ELSE ClearBinding(WriteDiskCacheEntry(c, e, rank, size), e)

-----------------------------------------------------------------------------
(* Clients.                                                                 *)

\* Nothing but a crash comes after a case that went amiss.
Ready == phase = "up" /\ evicting = Idle /\ amiss = {}
Same == UNCHANGED <<evicting, phase, disk>>

IsActive(key) == \E e \in Entries : entry[e].state = "active" /\ entry[e].key = key

\* A request for a key that no active entry has: FindEntry, or a new entry.  Who wants to
\* write makes a found one invalid.  Requests that wait for a new one find nothing if it is
\* doomed: they are left out, and it counts as valid.
OpenEntry(e, key, valid) ==
    /\ Ready /\ entry[e].state = "free" /\ ~IsActive(key)
    /\ valid = "no" => CanBeFound(map, key)
    /\ LET opened == [cache EXCEPT !.entry[e] = [Free EXCEPT !.key = key, !.state = "active",
                                                             !.valid = valid]]
       IN  Becomes(IF CanBeFound(map, key) THEN CreateBinding(opened, e, FindRecord(map, key))
                   ELSE opened)
    /\ Same

\* Another request for the key has to wait.
WaitForValidation(e) ==
    /\ Ready /\ entry[e].state = "active" /\ entry[e].valid = "no"
    /\ entry' = [entry EXCEPT ![e].valid = "awaited"]
    /\ UNCHANGED <<map, amiss>> /\ Same

MarkValid(e, rank) ==
    /\ Ready /\ entry[e].state # "free"
    /\ entry[e].valid # "yes" \/ ~entry[e].bound
    /\ LET c == EnsureEntryHasDevice(cache, e, rank)
       IN  Becomes([c EXCEPT !.entry[e].valid = "yes"])
    /\ Same

GetOutputStream(e, rank) ==
    /\ Ready /\ entry[e].state # "free" /\ ~entry[e].mOutStream
    /\ LET c == EnsureEntryHasDevice(cache, e, rank)
       IN  Becomes(IF c.entry[e].bound
                   THEN [c EXCEPT !.entry[e].mOutStream = TRUE, !.entry[e].mStreamEnd = 0] ELSE c)
    /\ Same

Write(e, size) ==
    /\ Ready /\ entry[e].mOutStream /\ entry[e].mStreamEnd < size
    /\ entry' = [entry EXCEPT ![e].mStreamEnd = size, ![e].mBufDirty = TRUE]
    /\ UNCHANGED <<map, amiss>> /\ Same

CloseOutputStream(e) ==
    /\ Ready /\ entry[e].mOutStream
    /\ Becomes([Flush(cache, e) EXCEPT !.entry[e].mOutStream = FALSE, !.entry[e].mStreamEnd = 0])
    /\ Same

\* A client does it, or OnDataSizeChange if the data outgrows the capacity.
Doom(e) ==
    /\ Ready /\ entry[e].state = "active"
    /\ Becomes(DoomEntry(cache, e))
    /\ Same

\* The last descriptor closes.  If a request waits it is the next writer.
CloseDescriptor(e, rank, size) ==
    /\ Ready /\ entry[e].state # "free"
    /\ LET c == IF entry[e].state = "active" THEN EnsureEntryHasDevice(cache, e, rank) ELSE cache
       IN  Becomes(IF entry[e].valid = "awaited" THEN [cache EXCEPT !.entry[e].valid = "no"]
                   ELSE DeactivateEntry(c, e, rank, size))
    /\ Same

-----------------------------------------------------------------------------
(* Eviction.                                                                *)

\* SetCapacity, Shutdown and OnDataSizeChange.
Evict(target) ==
    /\ Ready /\ map.mDataSize >= target /\ ~IsEmpty(map)
    /\ evicting' = [target |-> target, keys |-> HashNumbers]
    /\ UNCHANGED <<map, entry, amiss, phase, disk>>

EvictEntries(keys) ==
    /\ Ready
    /\ \E key \in keys : CanBeFound(map, key)
    /\ evicting' = [target |-> 0, keys |-> {key \in keys : CanBeFound(map, key)}]
    /\ UNCHANGED <<map, entry, amiss, phase, disk>>

ToVisit == {at \in Places(map) : RecordAt(map, at).hash \in evicting.keys}

\* EvictRecords visits by rank; when all records of a client go, their order is no matter.
NextVisited ==
    IF evicting.keys = HashNumbers THEN NextEvicted(map) ELSE CHOOSE at \in ToVisit : TRUE

\* The evictor marks the binding so that dooming the entry does not delete the record that
\* is being visited.
EvictOne(c, record) ==
    IF ActiveBindings(c, record.hash) # {}
    THEN MarkDoomed(c, CHOOSE e \in ActiveBindings(c, record.hash) : TRUE)
    ELSE [c EXCEPT !.map = DeleteAllStorage(@, record)]

VisitRecord ==
    /\ evicting # Idle /\ amiss = {}
    /\ ToVisit # {} /\ map.mDataSize >= evicting.target
    /\ LET at == NextVisited
           c == EvictOne(cache, RecordAt(map, at))
       IN  Becomes([c EXCEPT !.map = DeleteVisited(@, at[1], at[2])])
    /\ UNCHANGED <<evicting, phase, disk>>

EvictionEnds ==
    /\ evicting # Idle /\ amiss = {}
    /\ ToVisit = {} \/ map.mDataSize < evicting.target
    /\ evicting' = Idle
    /\ UNCHANGED <<map, entry, amiss, phase, disk>>

-----------------------------------------------------------------------------
(* The device starts and stops.                                             *)

HeaderOf(m) == [mEntryCount |-> m.mEntryCount, mDataSize |-> m.mDataSize,
                mEvictionRank |-> m.mEvictionRank]

Readable == disk.map = "none" \/ (disk.map = "full" /\ ~disk.mIsDirty)

\* What nsDiskCacheMap::Open makes of the files.
ReadMap ==
    LET read == IF disk.map = "none" THEN NewMap
                ELSE [NewMap EXCEPT !.mBuckets = disk.mBuckets,
                                    !.mEntryCount = disk.header.mEntryCount,
                                    !.mDataSize = disk.header.mDataSize,
                                    !.mEvictionRank = disk.header.mEvictionRank]
    IN  [read EXCEPT !.mBitMap = disk.mBitMap]

\* Mutant: the header stays as it was read.
CleanFiles == [disk EXCEPT !.map = IF @ = "none" THEN "header" ELSE @]

\* The header of a map in use is dirty; what is behind it will not be read again, and is
\* not kept in `disk`.  A new map is as long as its header.
DirtyFiles ==
    [disk EXCEPT !.map = IF @ = "none" THEN "header" ELSE @,
                 !.mIsDirty = TRUE, !.header = {}, !.mBuckets = {}]

\* "halfwiped": the map was removed and the block file was not.
OpenMap ==
    /\ phase = "down" /\ Readable
    /\ Becomes(Amiss([cache EXCEPT !.map = ReadMap], "halfwiped",
                     disk.map = "none" /\ disk.mBitMap # {}))
    /\ disk' = DirtyFiles
    /\ phase' = "up"
    /\ UNCHANGED evicting

\* InitializeCacheDirectory removes the files, in no particular order, and opens the map again.
InitializeCacheDirectory ==
    /\ phase = "down" /\ ~Readable
    /\ phase' = "wiping"
    /\ UNCHANGED <<map, entry, amiss, evicting, disk>>

RemoveMap ==
    /\ phase = "wiping" /\ disk.map # "none"
    /\ disk' = [NoFiles EXCEPT !.mBitMap = disk.mBitMap]
    /\ phase' = IF disk.mBitMap = {} THEN "down" ELSE phase
    /\ UNCHANGED <<map, entry, amiss, evicting>>

RemoveBlockFile ==
    /\ phase = "wiping" /\ disk.mBitMap # {}
    /\ disk' = [disk EXCEPT !.mBitMap = {}]
    /\ phase' = IF disk.map = "none" THEN "down" ELSE phase
    /\ UNCHANGED <<map, entry, amiss, evicting>>

\* Mutant: the bit map is not written.
KeepBitMap ==
    /\ Ready /\ \A e \in Entries : entry[e].state = "free"
    /\ phase' = "bitmap flushed"
    /\ UNCHANGED <<map, entry, amiss, evicting, disk>>

\* The service has doomed and deactivated all entries; the bit map is written first.
FlushBitMap ==
    /\ Ready /\ \A e \in Entries : entry[e].state = "free"
    /\ disk' = [disk EXCEPT !.mBitMap = IF map.mBitMapDirty THEN map.mBitMap ELSE @]
    /\ phase' = "bitmap flushed"
    /\ UNCHANGED <<map, entry, amiss, evicting>>

FlushBuckets ==
    /\ phase = "bitmap flushed"
    /\ disk' = [disk EXCEPT !.map = "full", !.mBuckets = map.mBuckets]
    /\ phase' = "buckets flushed"
    /\ UNCHANGED <<map, entry, amiss, evicting>>

FlushHeader ==
    /\ phase = "buckets flushed"
    /\ disk' = [disk EXCEPT !.header = HeaderOf(map), !.mIsDirty = FALSE]
    /\ phase' = "down"
    /\ map' = NewMap
    /\ UNCHANGED <<entry, amiss, evicting>>

\* The program ends; the files stay as they are.
Crash ==
    /\ phase # "down"
    /\ Becomes([map |-> NewMap, entry |-> [e \in Entries |-> Free], amiss |-> {}])
    /\ phase' = "down" /\ evicting' = Idle
    /\ UNCHANGED disk

-----------------------------------------------------------------------------
ClientStep(e) ==
    \/ \E key \in HashNumbers : \E valid \in {"yes", "no"} : OpenEntry(e, key, valid)
    \/ WaitForValidation(e)
    \/ \E rank \in Ranks : MarkValid(e, rank)
    \/ \E rank \in Ranks : GetOutputStream(e, rank)
    \/ \E size \in DataSizes : Write(e, size)
    \/ CloseOutputStream(e)
    \/ Doom(e)
    \/ \E rank \in Ranks : \E size \in MetaSizes : CloseDescriptor(e, rank, size)

EvictionStep ==
    \/ \E target \in Targets : Evict(target)
    \/ \E keys \in Clients : EvictEntries(keys)
    \/ VisitRecord
    \/ EvictionEnds

DeviceStep ==
    \/ OpenMap
    \/ InitializeCacheDirectory \/ RemoveMap \/ RemoveBlockFile
    \/ FlushBitMap \/ FlushBuckets \/ FlushHeader

Next == (\E e \in Entries : ClientStep(e)) \/ EvictionStep \/ DeviceStep \/ Crash

Spec == Init /\ [][Next]_vars

-----------------------------------------------------------------------------
(* Properties.                                                              *)

File == {"none", "header", "full"}

Entry == [key : HashNumbers \cup {"none"}, state : {"free", "active", "doomed"},
          valid : {"no", "awaited", "yes"}, bound : BOOLEAN,
          mRecord : Record \cup {NewRecord("none", 0)},
          mOutStream : BOOLEAN, mStreamEnd : {0} \cup DataSizes, mBufDirty : BOOLEAN]

\* Every variable has its type, and no bucket has more records than it has room for.
TypeOK ==
    /\ MapType(map)
    /\ \A e \in Entries : entry[e] \in Entry
    /\ evicting \in [target : {0} \cup Targets, keys : SUBSET HashNumbers]
    /\ phase \in {"down", "wiping", "up", "bitmap flushed", "buckets flushed"}
    /\ disk.map \in File /\ disk.mIsDirty \in BOOLEAN /\ disk.mBitMap \subseteq Blocks
    /\ amiss \subseteq {"seen", "late", "empty", "severed", "halfwiped"}

Settled == phase = "up" /\ amiss = {} /\ evicting = Idle

\* The records of the map that no active entry has bound, by bucket and position.
Inactive == {at \in Places(map) : ActiveBindings(cache, RecordAt(map, at).hash) = {}}

\* Who owns blocks: entries by their bindings, doomed ones too, and records what is stored
\* of the others.
Owners ==
    {<<e, entry[e].mRecord>> : e \in {f \in Entries : entry[f].bound}}
    \cup {<<at, RecordAt(map, at)>> : at \in Inactive}

BlocksOf(record) == record.data \cup record.meta

\* No block is owned twice, be it for data and for meta data.
OwnedOnce(owners) ==
    /\ \A x \in owners : x[2].data \cap x[2].meta = {}
    /\ \A x, y \in owners : x # y => BlocksOf(x[2]) \cap BlocksOf(y[2]) = {}

\* Each allocated block has one owner and each owned block is allocated, and the size of
\* the cache is what is allocated: nothing leaks, is freed twice or is overwritten.
StorageIsRight ==
    Settled =>
        /\ map.mBitMap = UNION {BlocksOf(x[2]) : x \in Owners}
        /\ OwnedOnce(Owners)
        /\ map.mDataSize = Cardinality(map.mBitMap)

\* The header counts and ranks the records as they are, when something went amiss too.  Each
\* hash number has one record; an active entry has its own, which names its meta data and,
\* unless there is more to flush, its data; all others can be found.
RecordsAreRight ==
    (evicting = Idle => HeaderAgrees(map)) /\ (Settled =>
        /\ \A key \in HashNumbers : Cardinality(Positions(map, key)) <= 1
        /\ \A key \in HashNumbers : \A e \in ActiveBindings(cache, key) :
               /\ HasRecord(map, key)
               /\ FindRecord(map, key).meta = entry[e].mRecord.meta
               /\ entry[e].mBufDirty \/ FindRecord(map, key) = entry[e].mRecord
        /\ \A at \in Inactive : CanBeFound(map, RecordAt(map, at).hash))

\* A map file that will be read again is complete, agrees with its header and with the
\* block file, and is not in use.
CleanIsComplete ==
    disk.map = "full" /\ ~disk.mIsDirty =>
        LET found == ReadMap
            records == {<<at, RecordAt(found, at)>> : at \in Places(found)}
        IN  /\ phase = "down"
            /\ HeaderAgrees(found)
            /\ found.mBitMap = UNION {BlocksOf(x[2]) : x \in records}
            /\ OwnedOnce(records)
            /\ found.mDataSize = Cardinality(found.mBitMap)

\* When the dirty bit is cleared the files say all that the map said: whatever was done to
\* the map since it was opened, and whether or not the program ended before, what is read
\* next is what was closed.
ClosesComplete ==
    [][disk.mIsDirty /\ ~disk'.mIsDirty =>
           \A field \in DOMAIN NewMap \ {"mBitMapDirty"} : ReadMap'[field] = map[field]]_vars
==============================================================================
