---------------------------- MODULE DiskCacheProof -----------------------------
(***************************************************************************)
(* The disk cache keeps its storage in order, and what it was when it was  *)
(* closed is what is read when it is opened again: for any buckets,        *)
(* blocks, entries and sizes, whatever was done to it and wherever the     *)
(* program ended before.                                                   *)
(*                                                                         *)
(* The first part is about the files.  The dirty bit of the map file is    *)
(* set from the opening to the last step of the closing.  And the bit map  *)
(* in memory is the one of the block file unless it is marked dirty, which *)
(* every call that changes it has to see to.                               *)
(*                                                                         *)
(* The second part is about the storage.  It goes up from the buckets of   *)
(* the map over what the map finds for a key, and who owns which blocks,   *)
(* to the calls, the steps and an invariant (StorageInv): the cache is in  *)
(* order unless something went amiss, and what will be read again is too.  *)
(***************************************************************************)
EXTENDS DiskCache, SequenceCounts, TLAPS

\* All that the proof has to know of the type of a map.
HasBits(m) == {"mBitMap", "mBitMapDirty"} \subseteq DOMAIN m

\* From m to n the bit map is marked, or left as it is.
Marked(m, n) ==
    /\ HasBits(n)
    /\ n.mBitMapDirty \/ (n.mBitMap = m.mBitMap /\ (n.mBitMapDirty <=> m.mBitMapDirty))

\* A call makes a cache of a cache, and marks the bit map if it changes it.
IsCache(c) == "map" \in DOMAIN c /\ HasBits(c.map)
Keeps(c, d) == IsCache(d) /\ Marked(c.map, d.map)

-----------------------------------------------------------------------------
(* Operations of the map.                                                   *)

LEMMA MarkedTwice ==
    ASSUME NEW m, NEW n, NEW o, Marked(m, n), Marked(n, o)
    PROVE  Marked(m, o)
BY DEF Marked

LEMMA MarkedSame == ASSUME NEW m, HasBits(m) PROVE Marked(m, m)
BY DEF Marked

LEMMA WithBlocksMarks == ASSUME NEW m, NEW place, HasBits(m) PROVE Marked(m, WithBlocks(m, place))
BY DEF Marked, HasBits, WithBlocks

LEMMA DeallocateMarks ==
    ASSUME NEW m, NEW place, HasBits(m) PROVE Marked(m, DeallocateBlocks(m, place))
BY DEF Marked, HasBits, DeallocateBlocks

LEMMA DeleteStorageMarks ==
    ASSUME NEW m, NEW place, HasBits(m) PROVE Marked(m, DeleteStorage(m, place))
<1> DEFINE n == DeallocateBlocks(m, place)
<1>1. Marked(m, n)
  BY DeallocateMarks
<1> HIDE DEF n
<1>2. HasBits(n)
  BY <1>1 DEF Marked
<1>3. \A size : Marked(n, [n EXCEPT !.mDataSize = size])
  BY <1>2 DEF Marked, HasBits
<1>4. Marked(n, [n EXCEPT !.mDataSize = n.mDataSize - Cardinality(place)])
  BY <1>3
<1>5. DeleteStorage(m, place) = [n EXCEPT !.mDataSize = n.mDataSize - Cardinality(place)]
  BY DEF DeleteStorage, n
<1> QED
  BY <1>1, <1>4, <1>5, MarkedTwice

LEMMA DeleteAllStorageMarks ==
    ASSUME NEW m, NEW record, HasBits(m) PROVE Marked(m, DeleteAllStorage(m, record))
<1>1. Marked(m, DeleteStorage(m, record.data))
  BY DeleteStorageMarks
<1>2. HasBits(DeleteStorage(m, record.data))
  BY <1>1 DEF Marked
<1>3. Marked(DeleteStorage(m, record.data), DeleteAllStorage(m, record))
  BY <1>2, DeleteStorageMarks DEF DeleteAllStorage
<1> QED
  BY <1>1, <1>3, MarkedTwice

\* The records are not in the bit map.
LEMMA AddRecordMarks == ASSUME NEW m, NEW record, HasBits(m) PROVE Marked(m, AddRecord(m, record))
BY DEF Marked, HasBits, AddRecord

LEMMA UpdateRecordMarks ==
    ASSUME NEW m, NEW record, HasBits(m) PROVE Marked(m, UpdateRecord(m, record))
BY DEF Marked, HasBits, UpdateRecord

LEMMA DeleteRecordMarks == ASSUME NEW m, NEW hash, HasBits(m) PROVE Marked(m, DeleteRecord(m, hash))
BY DEF Marked, HasBits, DeleteRecord

LEMMA DeleteVisitedMarks ==
    ASSUME NEW m, NEW i, NEW p, HasBits(m) PROVE Marked(m, DeleteVisited(m, i, p))
BY DEF Marked, HasBits, DeleteVisited

-----------------------------------------------------------------------------
(* Calls of the cache.                                                      *)

LEMMA KeepsTwice ==
    ASSUME NEW c, NEW d, NEW x, Keeps(c, d), Keeps(d, x)
    PROVE  Keeps(c, x)
BY MarkedTwice DEF Keeps

LEMMA KeepsSame == ASSUME NEW c, IsCache(c) PROVE Keeps(c, c)
BY MarkedSame DEF Keeps, IsCache

\* The entries, and what has gone amiss, are beside the map.
LEMMA KeepsBeside ==
    ASSUME NEW c, IsCache(c), NEW x
    PROVE  Keeps(c, [c EXCEPT !.entry = x]) /\ Keeps(c, [c EXCEPT !.amiss = x])
<1>1. [c EXCEPT !.entry = x].map = c.map /\ [c EXCEPT !.amiss = x].map = c.map
  BY DEF IsCache
<1>2. IsCache([c EXCEPT !.entry = x]) /\ IsCache([c EXCEPT !.amiss = x])
  BY <1>1 DEF IsCache
<1> QED
  BY <1>1, <1>2, MarkedSame DEF Keeps, IsCache

LEMMA KeepsMap ==
    ASSUME NEW c, IsCache(c), NEW n, Marked(c.map, n)
    PROVE  Keeps(c, [c EXCEPT !.map = n])
<1>1. [c EXCEPT !.map = n].map = n
  BY DEF IsCache
<1>2. HasBits(n)
  BY DEF Marked
<1> QED
  BY <1>1, <1>2 DEF Keeps, IsCache

LEMMA AmissKeeps ==
    ASSUME NEW c, IsCache(c), NEW case, NEW met
    PROVE  Keeps(c, Amiss(c, case, met))
BY KeepsBeside, KeepsSame DEF Amiss

LEMMA MarkDoomedKeeps == ASSUME NEW c, IsCache(c), NEW e PROVE Keeps(c, MarkDoomed(c, e))
<1> DEFINE d == [c EXCEPT !.entry[e].state = "doomed", !.entry[e].valid = "yes"]
<1>1. Keeps(c, d)
  <2> DEFINE b == [c EXCEPT !.entry[e].state = "doomed"]
  <2>1. Keeps(c, b)
    BY KeepsBeside
  <2> HIDE DEF b
  <2>2. Keeps(b, [b EXCEPT !.entry[e].valid = "yes"])
    BY <2>1, KeepsBeside DEF Keeps
  <2> USE DEF b
  <2> QED
    BY <2>1, <2>2, KeepsTwice
<1> HIDE DEF d
<1>2. IsCache(d)
  BY <1>1 DEF Keeps
<1>3. \A met : Keeps(d, Amiss(d, "seen", met))
  BY <1>2, AmissKeeps
<1>4. \A met : Keeps(c, Amiss(d, "seen", met))
  BY <1>1, <1>3, KeepsTwice
<1> QED
  BY <1>4 DEF MarkDoomed, d

LEMMA DoomEntryKeeps == ASSUME NEW c, IsCache(c), NEW e PROVE Keeps(c, DoomEntry(c, e))
<1> DEFINE n == IF c.entry[e].bound THEN DeleteRecord(c.map, c.entry[e].key) ELSE c.map
           d == [c EXCEPT !.map = n]
<1>1. Marked(c.map, n)
  BY DeleteRecordMarks, MarkedSame DEF IsCache
<1> HIDE DEF n
<1>2. Keeps(c, d)
  BY <1>1, KeepsMap
<1> HIDE DEF d
<1>3. Keeps(d, MarkDoomed(d, e))
  BY <1>2, MarkDoomedKeeps DEF Keeps
<1>4. Keeps(c, MarkDoomed(d, e))
  BY <1>2, <1>3, KeepsTwice
<1> QED
  BY <1>4 DEF DoomEntry, d, n

LEMMA CreateBindingKeeps ==
    ASSUME NEW c, IsCache(c), NEW e, NEW record
    PROVE  Keeps(c, CreateBinding(c, e, record))
<1> DEFINE d == [c EXCEPT !.entry[e].bound = TRUE]
<1>1. Keeps(c, d)
  BY KeepsBeside
<1> HIDE DEF d
<1>2. Keeps(d, [d EXCEPT !.entry[e].mRecord = record])
  BY <1>1, KeepsBeside DEF Keeps
<1>3. CreateBinding(c, e, record) = [d EXCEPT !.entry[e].mRecord = record]
  BY DEF CreateBinding, d
<1> QED
  BY <1>1, <1>2, <1>3, KeepsTwice

LEMMA MakeRoomKeeps == ASSUME NEW c, IsCache(c), NEW old PROVE Keeps(c, MakeRoom(c, old))
<1>1. CASE ActiveBindings(c, old.hash) # {}
  BY <1>1, DoomEntryKeeps DEF MakeRoom
<1>2. CASE ActiveBindings(c, old.hash) = {}
  <2> DEFINE d == [c EXCEPT !.map = DeleteAllStorage(c.map, old)]
  <2>1. Keeps(c, d)
    BY DeleteAllStorageMarks, KeepsMap DEF IsCache
  <2> HIDE DEF d
  <2>2. \A met : Keeps(d, Amiss(d, "empty", met))
    BY <2>1, AmissKeeps DEF Keeps
  <2>3. \A met : Keeps(c, Amiss(d, "empty", met))
    BY <2>1, <2>2, KeepsTwice
  <2> QED
    BY <1>2, <2>3 DEF MakeRoom, d
<1> QED
  BY <1>1, <1>2

LEMMA BindEntryKeeps ==
    ASSUME NEW c, IsCache(c), NEW e, NEW rank
    PROVE  Keeps(c, BindEntry(c, e, rank))
<1> DEFINE key == c.entry[e].key
           record == NewRecord(key, rank)
           added == [c EXCEPT !.map = AddRecord(c.map, record)]
           room == IF IsFull(c.map, key) THEN MakeRoom(added, OldRecord(c.map, key)) ELSE added
<1>1. Keeps(c, added)
  BY AddRecordMarks, KeepsMap DEF IsCache
<1> HIDE DEF added
<1>2. Keeps(added, room)
  BY <1>1, MakeRoomKeeps, KeepsSame DEF Keeps
<1> HIDE DEF room
<1>3. Keeps(c, room)
  BY <1>1, <1>2, KeepsTwice
<1>4. Keeps(room, CreateBinding(room, e, record))
  BY <1>2, CreateBindingKeeps DEF Keeps
<1>5. Keeps(c, CreateBinding(room, e, record))
  BY <1>3, <1>4, KeepsTwice
<1>6. Keeps(c, CreateBinding(c, e, record))
  BY CreateBindingKeeps
<1>7. BindEntry(c, e, rank) \in {CreateBinding(c, e, record), room, CreateBinding(room, e, record)}
  BY DEF BindEntry, room, added
<1> QED
  BY <1>3, <1>5, <1>6, <1>7

LEMMA EnsureEntryHasDeviceKeeps ==
    ASSUME NEW c, IsCache(c), NEW e, NEW rank
    PROVE  Keeps(c, EnsureEntryHasDevice(c, e, rank))
BY BindEntryKeeps, KeepsSame DEF EnsureEntryHasDevice

LEMMA WriteDataCacheBlocksKeeps ==
    ASSUME NEW c, IsCache(c), NEW e, NEW place
    PROVE  Keeps(c, WriteDataCacheBlocks(c, e, place))
<1> DEFINE record == [c.entry[e].mRecord EXCEPT !.data = place]
           with == WithBlocks(c.map, place)
           stored == [with EXCEPT !.mDataSize = @ + Cardinality(place)]
           n == UpdateRecord(stored, record)
           known == HasRecord(c.map, c.entry[e].key)
<1>1. Marked(c.map, with)
  BY WithBlocksMarks DEF IsCache
<1> HIDE DEF with
<1>2. Marked(with, stored)
  BY <1>1 DEF Marked, HasBits
<1> HIDE DEF stored
<1>3. Marked(stored, n)
  BY <1>2, UpdateRecordMarks DEF Marked
<1> HIDE DEF n
<1>4. Marked(c.map, n)
  BY <1>1, <1>2, <1>3, MarkedTwice
<1> DEFINE d1 == [c EXCEPT !.map = n]
           d2 == [d1 EXCEPT !.entry[e].mRecord = record]
           d3 == [d2 EXCEPT !.entry[e].mBufDirty = ~known]
<1>5. Keeps(c, d1)
  BY <1>4, KeepsMap
<1> HIDE DEF d1
<1>6. Keeps(d1, d2)
  BY <1>5, KeepsBeside DEF Keeps
<1> HIDE DEF d2
<1>7. Keeps(d2, d3)
  BY <1>6, KeepsBeside DEF Keeps
<1> HIDE DEF d3
<1>8. Keeps(c, d3)
  BY <1>5, <1>6, <1>7, KeepsTwice
<1>9. \A met : Keeps(d3, Amiss(d3, "late", met))
  BY <1>8, AmissKeeps DEF Keeps
<1>10. \A met : Keeps(c, Amiss(d3, "late", met))
  BY <1>8, <1>9, KeepsTwice
<1> QED
  BY <1>10 DEF WriteDataCacheBlocks, d3, d2, d1, n, stored, with

LEMMA FlushKeeps == ASSUME NEW c, IsCache(c), NEW e PROVE Keeps(c, Flush(c, e))
<1> DEFINE record == c.entry[e].mRecord
           g1 == [c EXCEPT !.map = DeleteStorage(c.map, record.data)]
           gone == [g1 EXCEPT !.entry[e].mRecord.data = {}]
           e1 == [gone EXCEPT !.entry[e].mBufDirty = FALSE]
           n == IF c.entry[e].state = "doomed" THEN e1.map
                ELSE UpdateRecord(e1.map, gone.entry[e].mRecord)
           emptied == [e1 EXCEPT !.map = n]
           place == AllocateBlocks(gone.map, c.entry[e].mStreamEnd)
<1>1. Keeps(c, g1)
  BY DeleteStorageMarks, KeepsMap DEF IsCache
<1> HIDE DEF g1
<1>2. Keeps(g1, gone)
  BY <1>1, KeepsBeside DEF Keeps
<1> HIDE DEF gone
<1>3. Keeps(c, gone)
  BY <1>1, <1>2, KeepsTwice
<1>4. Keeps(gone, e1)
  BY <1>3, KeepsBeside DEF Keeps
<1> HIDE DEF e1
<1>5. Marked(e1.map, n)
  BY <1>4, UpdateRecordMarks, MarkedSame DEF Keeps, IsCache
<1> HIDE DEF n
<1>6. Keeps(e1, emptied)
  BY <1>4, <1>5, KeepsMap DEF Keeps
<1> HIDE DEF emptied
<1>7. Keeps(c, emptied)
  BY <1>3, <1>4, <1>6, KeepsTwice
<1>8. Keeps(gone, WriteDataCacheBlocks(gone, e, place))
  BY <1>3, WriteDataCacheBlocksKeeps DEF Keeps
<1>9. Keeps(c, WriteDataCacheBlocks(gone, e, place))
  BY <1>3, <1>8, KeepsTwice
<1>10. gone = [c EXCEPT !.map = DeleteStorage(@, record.data), !.entry[e].mRecord.data = {}]
  BY DEF gone, g1
<1>11. emptied = [gone EXCEPT !.entry[e].mBufDirty = FALSE,
                              !.map = IF c.entry[e].state = "doomed" THEN @
                                      ELSE UpdateRecord(@, gone.entry[e].mRecord)]
  BY DEF emptied, e1, n
<1>12. Flush(c, e) \in {c, emptied, gone, WriteDataCacheBlocks(gone, e, place)}
  BY <1>10, <1>11 DEF Flush
<1> QED
  BY <1>3, <1>7, <1>9, <1>12, KeepsSame

LEMMA WriteDiskCacheEntryKeeps ==
    ASSUME NEW c, IsCache(c), NEW e, NEW rank, NEW size
    PROVE  Keeps(c, WriteDiskCacheEntry(c, e, rank, size))
<1> DEFINE old == c.entry[e].mRecord
           gone == DeleteStorage(c.map, old.meta)
           place == AllocateBlocks(gone, size)
           record == [old EXCEPT !.rank = rank, !.meta = place]
           with == WithBlocks(gone, place)
           stored == [with EXCEPT !.mDataSize = @ + Cardinality(place)]
<1>1. Marked(c.map, gone)
  BY DeleteStorageMarks DEF IsCache
<1> HIDE DEF gone
<1>2. HasBits(gone)
  BY <1>1 DEF Marked
<1>3. CASE place = {}
  <2> DEFINE bare == DeleteStorage(gone, old.data)
             n == DeleteRecord(bare, old.hash)
             d1 == [c EXCEPT !.map = n]
             d2 == [d1 EXCEPT !.entry[e].mRecord = NewRecord(old.hash, rank)]
             d3 == [d2 EXCEPT !.entry[e].state = "doomed"]
  <2>1. Marked(gone, bare)
    BY <1>2, DeleteStorageMarks
  <2> HIDE DEF bare
  <2>2. Marked(bare, n)
    BY <2>1, DeleteRecordMarks DEF Marked
  <2> HIDE DEF n
  <2>3. Marked(c.map, n)
    BY <1>1, <2>1, <2>2, MarkedTwice
  <2>4. Keeps(c, d1)
    BY <2>3, KeepsMap
  <2> HIDE DEF d1
  <2>5. Keeps(d1, d2)
    BY <2>4, KeepsBeside DEF Keeps
  <2> HIDE DEF d2
  <2>6. Keeps(d2, d3)
    BY <2>5, KeepsBeside DEF Keeps
  <2> HIDE DEF d3
  <2>7. WriteDiskCacheEntry(c, e, rank, size) = d3
    BY <1>3 DEF WriteDiskCacheEntry, d3, d2, d1, n, bare, gone
  <2> QED
    BY <2>4, <2>5, <2>6, <2>7, KeepsTwice
<1>4. CASE place # {}
  <2> DEFINE n == UpdateRecord(stored, record)
             d1 == [c EXCEPT !.map = n]
             d2 == [d1 EXCEPT !.entry[e].mRecord = record]
  <2>1. Marked(gone, with)
    BY <1>2, WithBlocksMarks
  <2> HIDE DEF with
  <2>2. Marked(with, stored)
    BY <2>1 DEF Marked, HasBits
  <2> HIDE DEF stored
  <2>3. Marked(stored, n)
    BY <2>2, UpdateRecordMarks DEF Marked
  <2> HIDE DEF n
  <2>4. Marked(c.map, n)
    BY <1>1, <2>1, <2>2, <2>3, MarkedTwice
  <2>5. Keeps(c, d1)
    BY <2>4, KeepsMap
  <2> HIDE DEF d1
  <2>6. Keeps(d1, d2)
    BY <2>5, KeepsBeside DEF Keeps
  <2> HIDE DEF d2
  <2>7. WriteDiskCacheEntry(c, e, rank, size) = d2
    BY <1>4 DEF WriteDiskCacheEntry, d2, d1, n, stored, with, gone
  <2> QED
    BY <2>5, <2>6, <2>7, KeepsTwice
<1> QED
  BY <1>3, <1>4

LEMMA DeleteDoomedKeeps == ASSUME NEW c, IsCache(c), NEW e PROVE Keeps(c, DeleteDoomed(c, e))
<1> DEFINE d == [c EXCEPT !.map = DeleteAllStorage(c.map, c.entry[e].mRecord)]
           new == NewRecord(c.entry[e].key, d.entry[e].mRecord.rank)
<1>1. Keeps(c, d)
  BY DeleteAllStorageMarks, KeepsMap DEF IsCache
<1> HIDE DEF d
<1>2. \A record : Keeps(d, [d EXCEPT !.entry[e].mRecord = record])
  BY <1>1, KeepsBeside DEF Keeps
<1>3. Keeps(c, [d EXCEPT !.entry[e].mRecord = new])
  BY <1>1, <1>2, KeepsTwice
<1>4. DeleteDoomed(c, e) = [d EXCEPT !.entry[e].mRecord = new]
  BY DEF DeleteDoomed, d
<1> QED
  BY <1>3, <1>4

LEMMA ClearBindingKeeps == ASSUME NEW c, IsCache(c), NEW e PROVE Keeps(c, ClearBinding(c, e))
<1> DEFINE flushed == Flush(c, e)
           bad == ~HasRecord(flushed.map, c.entry[e].key) \/ flushed.entry[e].mBufDirty
           closed == IF c.entry[e].mOutStream
                     THEN Amiss(flushed, "severed", c.entry[e].mBufDirty /\ bad) ELSE c
<1>1. Keeps(c, flushed)
  BY FlushKeeps
<1> HIDE DEF flushed
<1>2. \A met : Keeps(flushed, Amiss(flushed, "severed", met))
  BY <1>1, AmissKeeps DEF Keeps
<1>3. Keeps(c, closed)
  BY <1>1, <1>2, KeepsTwice, KeepsSame
<1> HIDE DEF closed
<1>4. Keeps(closed, [closed EXCEPT !.entry[e] = Free])
  BY <1>3, KeepsBeside DEF Keeps
<1>5. ClearBinding(c, e) = [closed EXCEPT !.entry[e] = Free]
  BY DEF ClearBinding, closed, flushed
<1> QED
  BY <1>3, <1>4, <1>5, KeepsTwice

LEMMA DeactivateEntryKeeps ==
    ASSUME NEW c, IsCache(c), NEW e, NEW rank, NEW size
    PROVE  Keeps(c, DeactivateEntry(c, e, rank, size))
<1> DEFINE deleted == DeleteDoomed(c, e)
           written == WriteDiskCacheEntry(c, e, rank, size)
<1>1. Keeps(c, deleted) /\ Keeps(c, written)
  BY DeleteDoomedKeeps, WriteDiskCacheEntryKeeps
<1> HIDE DEF deleted, written
<1>2. Keeps(deleted, ClearBinding(deleted, e)) /\ Keeps(written, ClearBinding(written, e))
  BY <1>1, ClearBindingKeeps DEF Keeps
<1>3. Keeps(c, ClearBinding(deleted, e)) /\ Keeps(c, ClearBinding(written, e))
  BY <1>1, <1>2, KeepsTwice
<1>4. Keeps(c, [c EXCEPT !.entry[e] = Free])
  BY KeepsBeside
<1> QED
  BY <1>3, <1>4 DEF DeactivateEntry, deleted, written

LEMMA EvictOneKeeps == ASSUME NEW c, IsCache(c), NEW record PROVE Keeps(c, EvictOne(c, record))
<1>1. Keeps(c, [c EXCEPT !.map = DeleteAllStorage(c.map, record)])
  BY DeleteAllStorageMarks, KeepsMap DEF IsCache
<1> QED
  BY <1>1, MarkDoomedKeeps DEF EvictOne

-----------------------------------------------------------------------------
(* The inductive invariant.                                                 *)

InUse == phase \in {"up", "bitmap flushed", "buckets flushed"}

\* What is to be read again is not in use.
DirtyInv ==
    /\ InUse => disk.mIsDirty
    /\ phase = "wiping" => disk.map # "full" \/ disk.mIsDirty
    /\ phase \in {"down", "wiping"} \/ InUse

\* How much of the map the files have, from step to step of the closing.
FlushedInv ==
    /\ phase = "up" => map.mBitMapDirty \/ disk.mBitMap = map.mBitMap
    /\ phase \in {"bitmap flushed", "buckets flushed"} => disk.mBitMap = map.mBitMap
    /\ phase = "buckets flushed" => disk.map = "full" /\ disk.mBuckets = map.mBuckets

CacheInv ==
    /\ HasBits(map)
    /\ DOMAIN disk = DOMAIN NoFiles
    /\ evicting # Idle => phase = "up"
    /\ DirtyInv /\ FlushedInv

\* A map file that may be read again is not in use: it is marked dirty as long as there is
\* a map in memory, however far the closing has got.
CleanIsClosed == disk.map = "full" /\ ~disk.mIsDirty => phase = "down"

\* A call, and a visit, works on the map in memory and marks what it does to the bit map.
LEMMA CallKeepsInv ==
    ASSUME CacheInv, phase = "up", NEW c, Keeps(cache, c), Becomes(c),
           phase' = phase, disk' = disk
    PROVE  CacheInv'
<1>1. Marked(map, map')
  BY DEF Keeps, cache, Becomes
<1>2. HasBits(map)'
  BY <1>1 DEF Marked, HasBits
<1>3. map'.mBitMapDirty \/ disk'.mBitMap = map'.mBitMap
  BY <1>1 DEF Marked, CacheInv, FlushedInv
<1> QED
  BY <1>2, <1>3 DEF CacheInv, DirtyInv, FlushedInv, InUse

\* Where the map stays so does the invariant.
LEMMA SameKeepsInv ==
    ASSUME CacheInv, phase = "up", UNCHANGED <<map, phase, disk>>
    PROVE  CacheInv'
BY DEF CacheInv, DirtyInv, FlushedInv, InUse, HasBits

LEMMA CacheOfMap == ASSUME CacheInv PROVE IsCache(cache) /\ cache.map = map
BY DEF CacheInv, IsCache, cache

-----------------------------------------------------------------------------
(* Steps.                                                                   *)

LEMMA ClientStepKeepsInv ==
    ASSUME CacheInv, NEW e \in Entries, ClientStep(e)
    PROVE  CacheInv'
<1>1. IsCache(cache)
  BY CacheOfMap
<1>2. ASSUME NEW key \in HashNumbers, NEW valid \in {"yes", "no"}, OpenEntry(e, key, valid)
      PROVE  CacheInv'
  <2> DEFINE opened == [cache EXCEPT !.entry[e] = [Free EXCEPT !.key = key, !.state = "active",
                                                               !.valid = valid]]
             c == IF CanBeFound(map, key) THEN CreateBinding(opened, e, FindRecord(map, key))
                  ELSE opened
  <2>1. Keeps(cache, opened)
    BY <1>1, KeepsBeside
  <2>2. Becomes(c) /\ phase = "up" /\ UNCHANGED <<phase, disk>>
    BY <1>2 DEF OpenEntry, Ready, Same
  <2> HIDE DEF opened
  <2>3. Keeps(opened, CreateBinding(opened, e, FindRecord(map, key)))
    BY <2>1, CreateBindingKeeps DEF Keeps
  <2>4. Keeps(cache, c)
    BY <2>1, <2>3, KeepsTwice
  <2> HIDE DEF c
  <2> QED
    BY <2>2, <2>4, CallKeepsInv
<1>3. ASSUME WaitForValidation(e) PROVE CacheInv'
  BY <1>3, SameKeepsInv DEF WaitForValidation, Ready, Same
<1>4. ASSUME NEW rank \in Ranks, MarkValid(e, rank) PROVE CacheInv'
  <2> DEFINE d == EnsureEntryHasDevice(cache, e, rank)
             c == [d EXCEPT !.entry[e].valid = "yes"]
  <2>1. Becomes(c) /\ phase = "up" /\ UNCHANGED <<phase, disk>>
    BY <1>4 DEF MarkValid, Ready, Same
  <2>2. Keeps(cache, d)
    BY <1>1, EnsureEntryHasDeviceKeeps
  <2> HIDE DEF d
  <2>3. Keeps(d, c)
    BY <2>2, KeepsBeside DEF Keeps
  <2>4. Keeps(cache, c)
    BY <2>2, <2>3, KeepsTwice
  <2> HIDE DEF c
  <2> QED
    BY <2>1, <2>4, CallKeepsInv
<1>5. ASSUME NEW rank \in Ranks, GetOutputStream(e, rank) PROVE CacheInv'
  <2> DEFINE d == EnsureEntryHasDevice(cache, e, rank)
             o == [d EXCEPT !.entry[e].mOutStream = TRUE]
             p == [o EXCEPT !.entry[e].mStreamEnd = 0]
             c == IF d.entry[e].bound THEN p ELSE d
  <2>1. phase = "up" /\ UNCHANGED <<phase, disk>>
    BY <1>5 DEF GetOutputStream, Ready, Same
  <2>2. Becomes(c)
    BY <1>5 DEF GetOutputStream
  <2>3. Keeps(cache, d)
    BY <1>1, EnsureEntryHasDeviceKeeps
  <2> HIDE DEF d
  <2>4. Keeps(d, o)
    BY <2>3, KeepsBeside DEF Keeps
  <2> HIDE DEF o
  <2>5. Keeps(o, p)
    BY <2>4, KeepsBeside DEF Keeps
  <2> HIDE DEF p
  <2>6. Keeps(cache, c)
    BY <2>3, <2>4, <2>5, KeepsTwice
  <2> HIDE DEF c
  <2> QED
    BY <2>1, <2>2, <2>6, CallKeepsInv
<1>6. ASSUME NEW size \in DataSizes, Write(e, size) PROVE CacheInv'
  BY <1>6, SameKeepsInv DEF Write, Ready, Same
<1>7. ASSUME CloseOutputStream(e) PROVE CacheInv'
  <2> DEFINE d == Flush(cache, e)
             o == [d EXCEPT !.entry[e].mOutStream = FALSE]
             c == [o EXCEPT !.entry[e].mStreamEnd = 0]
  <2>1. phase = "up" /\ UNCHANGED <<phase, disk>>
    BY <1>7 DEF CloseOutputStream, Ready, Same
  <2>2. Becomes(c)
    BY <1>7 DEF CloseOutputStream
  <2>3. Keeps(cache, d)
    BY <1>1, FlushKeeps
  <2> HIDE DEF d
  <2>4. Keeps(d, o)
    BY <2>3, KeepsBeside DEF Keeps
  <2> HIDE DEF o
  <2>5. Keeps(o, c)
    BY <2>4, KeepsBeside DEF Keeps
  <2>6. Keeps(cache, c)
    BY <2>3, <2>4, <2>5, KeepsTwice
  <2> HIDE DEF c
  <2> QED
    BY <2>1, <2>2, <2>6, CallKeepsInv
<1>8. ASSUME Doom(e) PROVE CacheInv'
  <2>1. Becomes(DoomEntry(cache, e)) /\ phase = "up" /\ UNCHANGED <<phase, disk>>
    BY <1>8 DEF Doom, Ready, Same
  <2> QED
    BY <1>1, <2>1, DoomEntryKeeps, CallKeepsInv
<1>9. ASSUME NEW rank \in Ranks, NEW size \in MetaSizes, CloseDescriptor(e, rank, size)
      PROVE  CacheInv'
  <2> DEFINE d == IF entry[e].state = "active" THEN EnsureEntryHasDevice(cache, e, rank) ELSE cache
             w == [cache EXCEPT !.entry[e].valid = "no"]
             c == IF entry[e].valid = "awaited" THEN w ELSE DeactivateEntry(d, e, rank, size)
  <2>1. phase = "up" /\ UNCHANGED <<phase, disk>>
    BY <1>9 DEF CloseDescriptor, Ready, Same
  <2>2. Becomes(c)
    BY <1>9 DEF CloseDescriptor
  <2>3. Keeps(cache, d)
    BY <1>1, EnsureEntryHasDeviceKeeps, KeepsSame
  <2> HIDE DEF d
  <2>4. Keeps(d, DeactivateEntry(d, e, rank, size))
    BY <2>3, DeactivateEntryKeeps DEF Keeps
  <2>5. Keeps(cache, w)
    BY <1>1, KeepsBeside
  <2> HIDE DEF w
  <2>6. Keeps(cache, c)
    BY <2>3, <2>4, <2>5, KeepsTwice
  <2> HIDE DEF c
  <2> QED
    BY <2>1, <2>2, <2>6, CallKeepsInv
<1> QED
  BY <1>2, <1>3, <1>4, <1>5, <1>6, <1>7, <1>8, <1>9 DEF ClientStep

LEMMA EvictionStepKeepsInv == ASSUME CacheInv, EvictionStep PROVE CacheInv'
<1>1. ASSUME NEW target \in Targets, Evict(target) PROVE CacheInv'
  BY <1>1, SameKeepsInv DEF Evict, Ready
<1>2. ASSUME NEW keys \in Clients, EvictEntries(keys) PROVE CacheInv'
  BY <1>2, SameKeepsInv DEF EvictEntries, Ready
<1>3. ASSUME VisitRecord PROVE CacheInv'
  <2> DEFINE at == NextVisited
             d == EvictOne(cache, RecordAt(map, at))
             c == [d EXCEPT !.map = DeleteVisited(d.map, at[1], at[2])]
  <2>1. phase = "up" /\ UNCHANGED <<phase, disk>>
    BY <1>3 DEF VisitRecord, CacheInv
  <2>2. Becomes(c)
    BY <1>3 DEF VisitRecord
  <2> HIDE DEF at
  <2>3. Keeps(cache, d)
    BY CacheOfMap, EvictOneKeeps
  <2> HIDE DEF d
  <2>4. Keeps(d, c)
    BY <2>3, DeleteVisitedMarks, KeepsMap DEF Keeps, IsCache
  <2>5. Keeps(cache, c)
    BY <2>3, <2>4, KeepsTwice
  <2> HIDE DEF c
  <2> QED
    BY <2>1, <2>2, <2>5, CallKeepsInv
<1>4. ASSUME EvictionEnds PROVE CacheInv'
  BY <1>4, SameKeepsInv DEF EvictionEnds, CacheInv
<1> QED
  BY <1>1, <1>2, <1>3, <1>4 DEF EvictionStep

\* What is read, field by field.
LEMMA ReadFields ==
    /\ HasBits(ReadMap) /\ ReadMap.mBitMap = disk.mBitMap
    /\ disk.map # "none" => /\ ReadMap.mBuckets = disk.mBuckets
                            /\ ReadMap.mEntryCount = disk.header.mEntryCount
                            /\ ReadMap.mDataSize = disk.header.mDataSize
                            /\ ReadMap.mEvictionRank = disk.header.mEvictionRank
BY DEF ReadMap, NewMap, HasBits

LEMMA NewMapHasBits == HasBits(NewMap)
BY DEF NewMap, HasBits

LEMMA OpenMapKeepsInv == ASSUME CacheInv, OpenMap PROVE CacheInv'
<1> DEFINE c == [cache EXCEPT !.map = ReadMap]
<1>1. map' = ReadMap
  <2>1. c.map = ReadMap /\ \A x : [c EXCEPT !.amiss = x].map = ReadMap
    BY DEF cache
  <2>2. \E met : Becomes(Amiss(c, "halfwiped", met))
    BY DEF OpenMap
  <2> HIDE DEF c
  <2> QED
    BY <2>1, <2>2 DEF Becomes, Amiss
<1>2. /\ disk'.mIsDirty /\ disk'.mBitMap = disk.mBitMap /\ DOMAIN disk' = DOMAIN NoFiles
  BY DEF OpenMap, DirtyFiles, CacheInv, NoFiles
<1>3. phase = "down" /\ phase' = "up" /\ evicting' = evicting
  BY DEF OpenMap
<1>4. HasBits(map)' /\ map'.mBitMap = disk'.mBitMap
  BY <1>1, <1>2, ReadFields
<1> QED
  BY <1>2, <1>3, <1>4 DEF CacheInv, DirtyInv, FlushedInv, InUse

LEMMA WipingKeepsInv ==
    ASSUME CacheInv, InitializeCacheDirectory \/ RemoveMap \/ RemoveBlockFile
    PROVE  CacheInv'
<1>1. CASE InitializeCacheDirectory
  BY <1>1 DEF InitializeCacheDirectory, Readable, CacheInv, DirtyInv, FlushedInv, InUse, HasBits
<1>2. CASE RemoveMap
  <2>1. phase = "wiping" /\ phase' \in {"down", "wiping"} /\ UNCHANGED <<map, evicting>>
    BY <1>2 DEF RemoveMap
  <2>2. disk'.mIsDirty /\ DOMAIN disk' = DOMAIN NoFiles
    BY <1>2 DEF RemoveMap, NoFiles
  <2> QED
    BY <2>1, <2>2 DEF CacheInv, DirtyInv, FlushedInv, InUse, HasBits
<1>3. CASE RemoveBlockFile
  <2>1. phase = "wiping" /\ phase' \in {"down", "wiping"} /\ UNCHANGED <<map, evicting>>
    BY <1>3 DEF RemoveBlockFile
  <2>2. disk'.map = disk.map /\ disk'.mIsDirty = disk.mIsDirty /\ DOMAIN disk' = DOMAIN NoFiles
    BY <1>3 DEF RemoveBlockFile, CacheInv, NoFiles
  <2> QED
    BY <2>1, <2>2 DEF CacheInv, DirtyInv, FlushedInv, InUse, HasBits
<1> QED
  BY <1>1, <1>2, <1>3

LEMMA FlushingKeepsInv ==
    ASSUME CacheInv, FlushBitMap \/ FlushBuckets \/ FlushHeader
    PROVE  CacheInv'
<1>1. CASE FlushBitMap
  <2> DEFINE bits == IF map.mBitMapDirty THEN map.mBitMap ELSE disk.mBitMap
  <2>1. /\ phase = "up" /\ phase' = "bitmap flushed" /\ UNCHANGED map
        /\ evicting = Idle /\ evicting' = evicting
    BY <1>1 DEF FlushBitMap, Ready
  <2>2. bits = map.mBitMap
    BY <2>1 DEF CacheInv, FlushedInv
  <2>3. disk' = [disk EXCEPT !.mBitMap = bits]
    BY <1>1 DEF FlushBitMap
  <2> HIDE DEF bits
  <2>4. disk'.mBitMap = map.mBitMap /\ disk'.mIsDirty = disk.mIsDirty /\ DOMAIN disk' = DOMAIN NoFiles
    BY <2>2, <2>3 DEF CacheInv, NoFiles
  <2> QED
    BY <2>1, <2>4 DEF CacheInv, DirtyInv, FlushedInv, InUse, HasBits
<1>2. CASE FlushBuckets
  <2>1. /\ phase = "bitmap flushed" /\ phase' = "buckets flushed" /\ UNCHANGED map
        /\ evicting' = evicting
    BY <1>2 DEF FlushBuckets
  <2>2. /\ disk'.map = "full" /\ disk'.mBuckets = map.mBuckets /\ disk'.mBitMap = disk.mBitMap
        /\ disk'.mIsDirty = disk.mIsDirty /\ DOMAIN disk' = DOMAIN NoFiles
    BY <1>2 DEF FlushBuckets, CacheInv, NoFiles
  <2> QED
    BY <2>1, <2>2 DEF CacheInv, DirtyInv, FlushedInv, InUse, HasBits
<1>3. CASE FlushHeader
  <2>1. /\ phase = "buckets flushed" /\ phase' = "down" /\ map' = NewMap /\ evicting' = evicting
    BY <1>3 DEF FlushHeader
  <2>2. DOMAIN disk' = DOMAIN NoFiles
    BY <1>3 DEF FlushHeader, CacheInv, NoFiles
  <2>3. HasBits(map)'
    BY <2>1, NewMapHasBits
  <2> QED
    BY <2>1, <2>2, <2>3 DEF CacheInv, DirtyInv, FlushedInv, InUse
<1> QED
  BY <1>1, <1>2, <1>3

LEMMA CrashKeepsInv == ASSUME CacheInv, Crash PROVE CacheInv'
<1>1. phase' = "down" /\ evicting' = Idle /\ disk' = disk
  BY DEF Crash
<1>2. map' = NewMap
  BY DEF Crash, Becomes
<1>3. HasBits(map)'
  BY <1>2, NewMapHasBits
<1> QED
  BY <1>1, <1>3 DEF CacheInv, DirtyInv, FlushedInv, InUse

LEMMA InitCacheInv == Init => CacheInv
<1> SUFFICES ASSUME Init PROVE CacheInv
  OBVIOUS
<1>1. HasBits(map)
  BY NewMapHasBits DEF Init
<1> QED
  BY <1>1 DEF Init, NoFiles, CacheInv, DirtyInv, FlushedInv, InUse

LEMMA NextCacheInv == CacheInv /\ [Next]_vars => CacheInv'
<1> SUFFICES ASSUME CacheInv, [Next]_vars PROVE CacheInv'
  OBVIOUS
<1>1. CASE UNCHANGED vars
  BY <1>1 DEF vars, CacheInv, DirtyInv, FlushedInv, InUse, HasBits
<1>2. CASE Next
  BY <1>2, ClientStepKeepsInv, EvictionStepKeepsInv, OpenMapKeepsInv, WipingKeepsInv,
     FlushingKeepsInv, CrashKeepsInv DEF Next, DeviceStep
<1> QED
  BY <1>1, <1>2

\* Files and map go together from the opening to the end of the closing.
THEOREM CacheInvHolds == Spec => []CacheInv
BY InitCacheInv, NextCacheInv, PTL DEF Spec

-----------------------------------------------------------------------------
(* What is closed is read again.                                            *)

\* Whatever the program does and wherever it ends: a map that is not complete is not taken
\* for one that is.
THEOREM InUseIsDirty == Spec => []CleanIsClosed
<1>1. CacheInv => CleanIsClosed
  BY DEF CacheInv, DirtyInv, InUse, CleanIsClosed
<1> QED
  BY <1>1, CacheInvHolds, PTL

\* Clearing the dirty bit is the last step of the closing, and by then the files say what
\* the map says, field by field.
LEMMA FlushHeaderIsComplete ==
    ASSUME CacheInv, FlushHeader
    PROVE  \A field \in DOMAIN NewMap \ {"mBitMapDirty"} : ReadMap'[field] = map[field]
<1>1. /\ disk.mBitMap = map.mBitMap /\ disk.map = "full" /\ disk.mBuckets = map.mBuckets
  BY DEF CacheInv, FlushedInv, FlushHeader
<1>2. /\ disk'.mBitMap = disk.mBitMap /\ disk'.map = disk.map /\ disk'.mBuckets = disk.mBuckets
      /\ disk'.header = HeaderOf(map)
  BY DEF FlushHeader, CacheInv, NoFiles
<1>3. /\ HeaderOf(map).mEntryCount = map.mEntryCount
      /\ HeaderOf(map).mDataSize = map.mDataSize
      /\ HeaderOf(map).mEvictionRank = map.mEvictionRank
  BY DEF HeaderOf
<1>4. /\ HasBits(ReadMap') /\ ReadMap'.mBitMap = disk'.mBitMap
      /\ disk'.map # "none" => /\ ReadMap'.mBuckets = disk'.mBuckets
                               /\ ReadMap'.mEntryCount = disk'.header.mEntryCount
                               /\ ReadMap'.mDataSize = disk'.header.mDataSize
                               /\ ReadMap'.mEvictionRank = disk'.header.mEvictionRank
  BY DEF ReadMap, NewMap, HasBits
<1>5. DOMAIN NewMap \ {"mBitMapDirty"} =
          {"mBuckets", "mEntryCount", "mDataSize", "mEvictionRank", "mBitMap"}
  BY DEF NewMap
<1> QED
  BY <1>1, <1>2, <1>3, <1>4, <1>5

\* No other step clears it.
LEMMA OnlyFlushHeaderClears ==
    ASSUME CacheInv, [Next]_vars, disk.mIsDirty, ~disk'.mIsDirty
    PROVE  FlushHeader
<1>1. disk' # disk
  OBVIOUS
<1>2. ASSUME NEW e \in Entries, ClientStep(e) PROVE disk' = disk
  BY <1>2 DEF ClientStep, OpenEntry, WaitForValidation, MarkValid, GetOutputStream, Write,
     CloseOutputStream, Doom, CloseDescriptor, Same
<1>3. ASSUME EvictionStep PROVE disk' = disk
  BY <1>3 DEF EvictionStep, Evict, EvictEntries, VisitRecord, EvictionEnds
<1>4. ASSUME OpenMap PROVE disk'.mIsDirty
  BY <1>4 DEF OpenMap, DirtyFiles, CacheInv, NoFiles
<1>5. ASSUME InitializeCacheDirectory \/ Crash PROVE disk' = disk
  BY <1>5 DEF InitializeCacheDirectory, Crash
<1>6. ASSUME RemoveMap PROVE disk'.mIsDirty
  BY <1>6 DEF RemoveMap, NoFiles
<1>7. ASSUME RemoveBlockFile \/ FlushBitMap \/ FlushBuckets PROVE disk'.mIsDirty = disk.mIsDirty
  BY <1>7 DEF RemoveBlockFile, FlushBitMap, FlushBuckets, CacheInv, NoFiles
<1>8. Next
  BY <1>1 DEF vars
<1> QED
  BY <1>1, <1>2, <1>3, <1>4, <1>5, <1>6, <1>7, <1>8 DEF Next, DeviceStep

\* What was closed is what is read next, for any buckets, blocks, entries and sizes.
THEOREM ClosedIsReadAgain == Spec => ClosesComplete
<1> DEFINE Complete ==
        \A field \in DOMAIN NewMap \ {"mBitMapDirty"} : ReadMap'[field] = map[field]
<1>1. CacheInv /\ [Next]_vars => [disk.mIsDirty /\ ~disk'.mIsDirty => Complete]_vars
  BY OnlyFlushHeaderClears, FlushHeaderIsComplete
<1> QED
  BY <1>1, CacheInvHolds, PTL DEF Spec, ClosesComplete

-----------------------------------------------------------------------------
(* The first and the last of a set of numbers.                              *)

LEMMA MinIsFirst ==
    ASSUME NEW A, A \subseteq Nat, A # {}
    PROVE  Min(A) \in A /\ \A a \in A : Min(A) <= a
BY FirstExists DEF Min

\* By induction on the number of elements: of the sets without a last element, one of the
\* smallest is one too large.
LEMMA LastExists ==
    ASSUME NEW A, A \subseteq Nat, A # {}, IsFiniteSet(A)
    PROVE  \E i \in A : \A j \in A : j <= i
<1> DEFINE HasLast(B) == \E i \in B : \A j \in B : j <= i
           Sizes == {Cardinality(B) : B \in {C \in SUBSET A : C # {} /\ ~HasLast(C)}}
<1>1. \A B \in SUBSET A : IsFiniteSet(B) /\ Cardinality(B) \in Nat
  BY FS_Subset, FS_CardinalityType
<1>2. Sizes = {}
  <2> SUFFICES ASSUME Sizes # {} PROVE FALSE
    OBVIOUS
  <2>1. Sizes \subseteq Nat
    BY <1>1
  <2>2. PICK n \in Sizes : \A k \in Sizes : n <= k
    BY <2>1, FirstExists
  <2>3. PICK B \in SUBSET A : B # {} /\ ~HasLast(B) /\ n = Cardinality(B)
    BY <2>2
  <2>4. PICK b \in B : TRUE
    BY <2>3
  <2> DEFINE C == B \ {b}
  <2>5. Cardinality(C) = n - 1 /\ n \in Nat /\ C \in SUBSET A
    BY <1>1, <2>3, <2>4, FS_RemoveElement
  <2>6. HasLast(C)
    <3>1. C # {}
      <4> SUFFICES ASSUME B = {b} PROVE FALSE
        BY <2>4
      <4> QED
        BY <2>3, <2>4
    <3>2. CASE ~HasLast(C)
      <4>1. Cardinality(C) \in Sizes
        BY <2>5, <3>1, <3>2
      <4> HIDE DEF Sizes, HasLast, C
      <4>2. n <= n - 1
        BY <2>2, <2>5, <4>1
      <4> QED
        BY <2>5, <4>2
    <3> QED
      BY <3>2
  <2>7. PICK c \in C : \A j \in C : j <= c
    BY <2>6
  <2>8. b \in Nat /\ c \in Nat /\ \A j \in B : j \in Nat /\ (j = b \/ j \in C)
    BY <2>4, <2>5
  <2>9. CASE b <= c
    BY <2>3, <2>7, <2>8, <2>9
  <2>10. CASE ~(b <= c)
    <3>1. \A j \in B : j <= b
      BY <2>7, <2>8, <2>10
    <3> QED
      BY <2>3, <2>4, <3>1
  <2> QED
    BY <2>9, <2>10
<1>3. CASE ~HasLast(A)
  <2>1. Cardinality(A) \in Sizes
    BY <1>3
  <2> QED
    BY <1>2, <2>1
<1> QED
  BY <1>3

LEMMA MaxIsLast ==
    ASSUME NEW A, A \subseteq Nat, A # {}, IsFiniteSet(A)
    PROVE  Max(A) \in A /\ \A a \in A : a <= Max(A)
<1>1. \E i \in A : \A j \in A : i >= j
  <2>1. PICK i \in A : \A j \in A : j <= i
    BY LastExists
  <2> QED
    BY <2>1
<1>2. Max(A) \in A /\ \A a \in A : Max(A) >= a
  BY <1>1 DEF Max
<1>3. Max(A) \in Nat /\ \A a \in A : a \in Nat
  BY <1>2
<1> QED
  BY <1>2, <1>3

\* A set of numbers has one last element.
LEMMA MaxIsThis ==
    ASSUME NEW A, A \subseteq Nat, NEW n \in A, \A a \in A : a <= n
    PROVE  Max(A) = n
<1>1. \A a \in A : n >= a
  OBVIOUS
<1>2. Max(A) \in A /\ \A a \in A : Max(A) >= a
  BY <1>1 DEF Max
<1>3. Max(A) \in Nat /\ n \in Nat /\ n <= Max(A) /\ Max(A) <= n
  BY <1>2
<1> QED
  BY <1>3

-----------------------------------------------------------------------------
(* Buckets.                                                                 *)

Bucket == Seq(Record)

Records(b) == {b[p] : p \in 1..Len(b)}

\* Each hash number is there once.
Distinct(b) == \A p, q \in 1..Len(b) : b[p].hash = b[q].hash => p = q

LEMMA BucketFacts ==
    ASSUME NEW b \in Bucket
    PROVE  /\ Len(b) \in Nat /\ DOMAIN b = 1..Len(b)
           /\ \A p \in 1..Len(b) : /\ b[p] \in Record
                                   /\ b[p].rank \in Nat /\ b[p].rank > 0
<1>1. b \in Seq(Record)
  BY DEF Bucket
<1>2. Len(b) \in Nat /\ DOMAIN b = 1..Len(b)
  BY <1>1, LenProperties
<1>3. \A p \in 1..Len(b) : b[p] \in Record
  BY <1>1, ElementOfSeq
<1>4. \A r \in Record : r.rank \in Nat /\ r.rank > 0
  BY DEF Record
<1> QED
  BY <1>2, <1>3, <1>4

LEMMA RanksOf ==
    ASSUME NEW b \in Bucket
    PROVE  LET R == {0} \cup {b[p].rank : p \in DOMAIN b}
           IN  R \subseteq Nat /\ R # {} /\ IsFiniteSet(R)
<1> DEFINE S == {b[p].rank : p \in DOMAIN b}
           f == [p \in 1..Len(b) |-> b[p].rank]
<1>1. S \subseteq Nat
  BY BucketFacts
<1>2. f \in Surjection(1..Len(b), S)
  BY BucketFacts DEF Surjection
<1>a. Len(b) \in Int /\ 1 \in Int
  BY BucketFacts
<1>3. IsFiniteSet(1..Len(b))
  BY ONLY <1>a, FS_Interval
<1>4. IsFiniteSet(S)
  BY <1>2, <1>3, FS_Surjection
<1>5. IsFiniteSet(S \cup {0}) /\ S \cup {0} = {0} \cup S
  BY <1>4, FS_AddElement
<1>6. {0} \cup S \subseteq Nat /\ {0} \cup S # {}
  BY <1>1
<1> QED
  BY <1>5, <1>6

\* What the eviction rank of a bucket is.
IsHighest(b, r) ==
    /\ r \in Nat
    /\ \A p \in 1..Len(b) : b[p].rank <= r
    /\ r = 0 \/ \E p \in 1..Len(b) : b[p].rank = r

LEMMA RankIsHighest == ASSUME NEW b \in Bucket PROVE IsHighest(b, EvictionRank(b))
<1> DEFINE R == {0} \cup {b[p].rank : p \in DOMAIN b}
<1>1. R \subseteq Nat /\ R # {} /\ IsFiniteSet(R)
  BY RanksOf
<1>2. EvictionRank(b) = Max(R)
  BY DEF EvictionRank
<1>3. Max(R) \in R /\ \A a \in R : a <= Max(R)
  <2> HIDE DEF R
  <2> QED
    BY <1>1, MaxIsLast
<1>4. DOMAIN b = 1..Len(b)
  BY BucketFacts
<1> QED
  BY <1>1, <1>2, <1>3, <1>4 DEF IsHighest

LEMMA HighestIsRank ==
    ASSUME NEW b \in Bucket, NEW r, IsHighest(b, r)
    PROVE  EvictionRank(b) = r
<1> DEFINE R == {0} \cup {b[p].rank : p \in DOMAIN b}
<1>1. R \subseteq Nat
  BY RanksOf
<1>2. r \in R /\ \A a \in R : a <= r
  BY BucketFacts DEF IsHighest
<1>3. EvictionRank(b) = Max(R)
  BY DEF EvictionRank
<1> HIDE DEF R
<1> QED
  BY <1>1, <1>2, <1>3, MaxIsThis

\* A record more.
LEMMA Appended ==
    ASSUME NEW b \in Bucket, NEW r \in Record
    PROVE  /\ Append(b, r) \in Bucket /\ Len(Append(b, r)) = Len(b) + 1
           /\ Records(Append(b, r)) = Records(b) \cup {r}
           /\ (\A x \in Records(b) : x.hash # r.hash) /\ Distinct(b) => Distinct(Append(b, r))
           /\ \A n : IsHighest(b, n) => IsHighest(Append(b, r), IF n < r.rank THEN r.rank ELSE n)
<1> DEFINE a == Append(b, r)
<1>1. /\ a \in Bucket /\ Len(a) = Len(b) + 1 /\ a[Len(b) + 1] = r
      /\ \A p \in 1..Len(b) : a[p] = b[p]
  BY AppendProperties DEF Bucket
<1>2. Len(b) \in Nat /\ \A p \in 1..Len(b) : b[p].rank \in Nat
  BY BucketFacts
<1>3. \A p \in 1..Len(b) + 1 : p \in 1..Len(b) \/ p = Len(b) + 1
  BY <1>2
<1>4. 1..Len(b) \subseteq 1..Len(b) + 1 /\ Len(b) + 1 \in 1..Len(b) + 1 /\ Len(b) + 1 \notin 1..Len(b)
  BY <1>2
<1>5. r.rank \in Nat
  BY DEF Record
<1> HIDE DEF a
<1>6. Records(a) = Records(b) \cup {r}
  BY <1>1, <1>3, <1>4 DEF Records
<1>7. ASSUME \A x \in Records(b) : x.hash # r.hash, Distinct(b) PROVE Distinct(a)
  BY <1>1, <1>3, <1>4, <1>7 DEF Distinct, Records
<1>8. ASSUME NEW n, IsHighest(b, n) PROVE IsHighest(a, IF n < r.rank THEN r.rank ELSE n)
  <2>1. n \in Nat /\ \A p \in 1..Len(b) : a[p].rank <= n /\ a[p].rank \in Nat
    BY <1>1, <1>2, <1>8 DEF IsHighest
  <2>2. CASE n < r.rank
    <3>1. \A p \in 1..Len(a) : a[p].rank <= r.rank
      BY <1>1, <1>3, <1>5, <2>1, <2>2
    <3> QED
      BY <1>1, <1>4, <1>5, <2>2, <3>1 DEF IsHighest
  <2>3. CASE ~(n < r.rank)
    <3>1. \A p \in 1..Len(a) : a[p].rank <= n
      BY <1>1, <1>3, <1>5, <2>1, <2>3
    <3>2. n = 0 \/ \E p \in 1..Len(a) : a[p].rank = n
      BY <1>1, <1>4, <1>8 DEF IsHighest
    <3> QED
      BY <2>1, <2>3, <3>1, <3>2 DEF IsHighest
  <2> QED
    BY <2>2, <2>3
<1> QED
  BY <1>1, <1>6, <1>7, <1>8 DEF a

\* One record for another.
LEMMA Replaced ==
    ASSUME NEW b \in Bucket, NEW p \in 1..Len(b), NEW r \in Record
    PROVE  /\ [b EXCEPT ![p] = r] \in Bucket /\ Len([b EXCEPT ![p] = r]) = Len(b)
           /\ Distinct(b) => Records([b EXCEPT ![p] = r]) = (Records(b) \ {b[p]}) \cup {r}
           /\ Distinct(b) /\ (\A x \in Records(b) : x.hash = r.hash => x = b[p]) =>
                  Distinct([b EXCEPT ![p] = r])
           /\ \A n : IsHighest(b, n) /\ b[p].rank # n /\ ~(n < r.rank) => IsHighest([b EXCEPT ![p] = r], n)
           /\ \A n : IsHighest(b, n) /\ n < r.rank => IsHighest([b EXCEPT ![p] = r], r.rank)
<1> DEFINE a == [b EXCEPT ![p] = r]
<1>1. /\ a \in Bucket /\ Len(a) = Len(b) /\ a[p] = r
      /\ \A q \in 1..Len(b) : q # p => a[q] = b[q]
  BY ExceptSeq, BucketFacts DEF Bucket
<1>2. /\ Len(b) \in Nat /\ r.rank \in Nat
      /\ \A q \in 1..Len(b) : b[q].rank \in Nat
  BY BucketFacts DEF Record
<1> HIDE DEF a
<1>3. ASSUME Distinct(b) PROVE Records(a) = (Records(b) \ {b[p]}) \cup {r}
  BY <1>1, <1>3 DEF Records, Distinct
<1>4. ASSUME Distinct(b), \A x \in Records(b) : x.hash = r.hash => x = b[p] PROVE Distinct(a)
  <2>1. \A q \in 1..Len(b) : q # p => b[q].hash # r.hash
    <3> SUFFICES ASSUME NEW q \in 1..Len(b), q # p, b[q].hash = r.hash PROVE FALSE
      OBVIOUS
    <3>1. b[q] = b[p]
      BY <1>4 DEF Records
    <3> QED
      BY <1>4, <3>1 DEF Distinct
  <2> QED
    BY <1>1, <1>4, <2>1 DEF Distinct
<1>5. ASSUME NEW n, IsHighest(b, n), b[p].rank # n, ~(n < r.rank) PROVE IsHighest(a, n)
  <2>1. n \in Nat /\ \A q \in 1..Len(a) : a[q].rank <= n
    BY <1>1, <1>2, <1>5 DEF IsHighest
  <2>2. n = 0 \/ \E q \in 1..Len(a) : a[q].rank = n
    BY <1>1, <1>5 DEF IsHighest
  <2> QED
    BY <2>1, <2>2 DEF IsHighest
<1>6. ASSUME NEW n, IsHighest(b, n), n < r.rank PROVE IsHighest(a, r.rank)
  <2>1. \A q \in 1..Len(a) : a[q].rank <= r.rank
    BY <1>1, <1>2, <1>6 DEF IsHighest
  <2> QED
    BY <1>1, <1>2, <2>1 DEF IsHighest
<1> QED
  BY <1>1, <1>3, <1>4, <1>5, <1>6 DEF a

\* A record less.
LEMMA Shifted ==
    ASSUME NEW b \in Bucket, NEW p \in 1..Len(b)
    PROVE  /\ ShiftLast(b, p) \in Bucket /\ Len(ShiftLast(b, p)) = Len(b) - 1
           /\ Distinct(b) => /\ Records(ShiftLast(b, p)) = Records(b) \ {b[p]}
                             /\ Distinct(ShiftLast(b, p))
           /\ \A n : IsHighest(b, n) /\ b[p].rank < n => IsHighest(ShiftLast(b, p), n)
<1> DEFINE l == Len(b)
           a == [b EXCEPT ![p] = b[l]]
           s == ShiftLast(b, p)
<1>1. l \in Nat /\ l > 0 /\ \A q \in 1..l : b[q] \in Record /\ b[q].rank \in Nat
  BY BucketFacts
<1>12. l = 1 \/ l > 1
  <2> HIDE DEF l
  <2> QED
    BY <1>1
<1>2. a \in Bucket /\ Len(a) = l /\ a[p] = b[l] /\ \A q \in 1..l : q # p => a[q] = b[q]
  BY <1>1, ExceptSeq, BucketFacts DEF Bucket
<1>3. s = SubSeq(a, 1, Len(a) - 1)
  BY DEF ShiftLast, Front, Last
<1> HIDE DEF a
<1>4. s \in Bucket /\ Len(s) = l - 1 /\ \A q \in 1..l - 1 : s[q] = a[q]
  <2>1. a \in Seq(Record) /\ Len(a) = l
    BY <1>2 DEF Bucket
  <2>2. CASE l = 1
    <3>1. s = <<>>
      BY <1>3, <2>1, <2>2, SubSeqProperties
    <3> QED
      BY <2>2, <3>1 DEF Bucket
  <2>3. CASE l > 1
    BY <1>1, <1>3, <2>1, <2>3, SubSeqProperties DEF Bucket
  <2> QED
    BY <1>12, <2>2, <2>3
<1> HIDE DEF s
<1>5. \A q \in 1..l - 1 : q \in 1..l /\ q # l /\ s[q] = IF q = p THEN b[l] ELSE b[q]
  BY <1>1, <1>2, <1>4
<1>6. \A q \in 1..l : q # l => q \in 1..l - 1
  BY <1>1
<1>7. l \in 1..l
  BY <1>1
<1>8. \A q \in 1..l : q # p => \E t \in 1..l - 1 : s[t] = b[q]
  <2> SUFFICES ASSUME NEW q \in 1..l, q # p PROVE \E t \in 1..l - 1 : s[t] = b[q]
    OBVIOUS
  <2>1. CASE q = l
    BY <1>5, <1>6, <2>1
  <2>2. CASE q # l
    BY <1>5, <1>6, <2>2
  <2> QED
    BY <2>1, <2>2
<1>9. \A t \in 1..l - 1 : \E q \in 1..l : q # p /\ s[t] = b[q]
  BY <1>5, <1>7
<1> DEFINE L == 1..l
           S == 1..l - 1
<1>10. ASSUME Distinct(b) PROVE Records(s) = Records(b) \ {b[p]} /\ Distinct(s)
  <2>1. \A q, t \in L : b[q].hash = b[t].hash => q = t
    BY <1>10 DEF Distinct
  <2>2. Records(s) = {s[t] : t \in S} /\ Records(b) = {b[q] : q \in L}
    BY <1>4 DEF Records
  <2>3. Records(s) = Records(b) \ {b[p]}
    <3> HIDE DEF L, S
    <3>1. (\A q \in L : q # p => \E t \in S : s[t] = b[q]) /\ (\A t \in S : \E q \in L : q # p /\ s[t] = b[q])
      BY <1>8, <1>9 DEF L, S
    <3>2. \A q \in L : q # p => b[q] # b[p]
      BY <2>1 DEF L
    <3> QED
      BY <2>2, <3>1, <3>2
  <2>4. \A x, y \in S : s[x].hash = s[y].hash => x = y
    BY <1>5, <1>7, <2>1
  <2> QED
    BY <1>4, <2>3, <2>4 DEF Distinct
<1>11. ASSUME NEW n, IsHighest(b, n), b[p].rank < n PROVE IsHighest(s, n)
  <2>1. n \in Nat /\ \A q \in S : s[q].rank <= n
    BY <1>9, <1>11 DEF IsHighest
  <2>2. PICK q \in L : b[q].rank = n
    BY <1>1, <1>11 DEF IsHighest
  <2>3. q # p
    BY <1>1, <1>11, <2>1, <2>2
  <2>4. \E t \in S : s[t].rank = n
    BY <1>8, <2>2, <2>3
  <2> QED
    BY <1>4, <2>1, <2>4 DEF IsHighest
<1> QED
  BY <1>4, <1>10, <1>11 DEF s

-----------------------------------------------------------------------------
(* The map as a set of records.                                             *)

MapRecord == [mBuckets : [BucketIndexes -> Seq(Record)], mEntryCount : Int, mDataSize : Int,
              mEvictionRank : [BucketIndexes -> Nat], mBitMap : SUBSET Blocks, mBitMapDirty : BOOLEAN]

\* The types of a map, with the header.
MapOK(m) ==
    /\ m \in MapRecord
    /\ \A i \in BucketIndexes : Len(m.mBuckets[i]) <= kRecordsPerBucket
    /\ HeaderAgrees(m)

\* Records are in the bucket of their hash number, and each hash number is there once.
Shelved(m) ==
    \A i \in BucketIndexes : /\ \A r \in Records(m.mBuckets[i]) : GetBucketIndex[r.hash] = i
                             /\ Distinct(m.mBuckets[i])

Contents(m) == UNION {Records(m.mBuckets[i]) : i \in BucketIndexes}

LEMMA MapFields ==
    ASSUME NEW m \in MapRecord
    PROVE  /\ m.mBuckets \in [BucketIndexes -> Bucket] /\ m.mEntryCount \in Int /\ m.mDataSize \in Int
           /\ m.mEvictionRank \in [BucketIndexes -> Nat]
           /\ m.mBitMap \subseteq Blocks /\ m.mBitMapDirty \in BOOLEAN
           /\ DOMAIN m = {"mBuckets", "mEntryCount", "mDataSize", "mEvictionRank", "mBitMap", "mBitMapDirty"}
BY DEF MapRecord, Bucket

LEMMA MapIsTyped == ASSUME NEW m, MapOK(m) PROVE MapType(m)
BY DEF MapOK, MapRecord, MapType

\* Records of one map are one if their hash numbers are.
LEMMA OneRecord ==
    ASSUME NEW m, Shelved(m)
    PROVE  \A r, s \in Contents(m) : r.hash = s.hash => r = s
<1> SUFFICES ASSUME NEW r \in Contents(m), NEW s \in Contents(m), r.hash = s.hash PROVE r = s
  OBVIOUS
<1>1. PICK i \in BucketIndexes : r \in Records(m.mBuckets[i])
  BY DEF Contents
<1>2. PICK j \in BucketIndexes : s \in Records(m.mBuckets[j])
  BY DEF Contents
<1>3. i = j
  BY <1>1, <1>2 DEF Shelved
<1> QED
  BY <1>1, <1>2, <1>3 DEF Shelved, Records, Distinct

LEMMA PlacesAreFinite ==
    ASSUME NEW m
    PROVE  IsFiniteSet(Places(m)) /\ Cardinality(Places(m)) \in Nat
<1>1. IsFiniteSet(BucketIndexes) /\ IsFiniteSet(1..kRecordsPerBucket)
  BY DiskCacheMapAssumption, FS_Interval
<1>2. IsFiniteSet(BucketIndexes \X (1..kRecordsPerBucket))
  BY <1>1, FS_Product
<1>3. Places(m) \in SUBSET (BucketIndexes \X (1..kRecordsPerBucket))
  BY DEF Places
<1> QED
  BY <1>2, <1>3, FS_Subset, FS_CardinalityType

-----------------------------------------------------------------------------
(* One bucket changes.                                                      *)

WithBucket(m, i, b, count, rank) ==
    [m EXCEPT !.mBuckets[i] = b, !.mEntryCount = count, !.mEvictionRank[i] = rank]

LEMMA WithBucketFields ==
    ASSUME NEW m \in MapRecord, NEW i \in BucketIndexes, NEW b \in Bucket, NEW count \in Int, NEW rank \in Nat
    PROVE  LET n == WithBucket(m, i, b, count, rank)
           IN  /\ n \in MapRecord
               /\ n.mBuckets[i] = b /\ \A j \in BucketIndexes : j # i => n.mBuckets[j] = m.mBuckets[j]
               /\ n.mEntryCount = count
               /\ n.mEvictionRank[i] = rank
               /\ \A j \in BucketIndexes : j # i => n.mEvictionRank[j] = m.mEvictionRank[j]
               /\ n.mBitMap = m.mBitMap /\ n.mDataSize = m.mDataSize
BY DEF MapRecord, WithBucket, Bucket

\* The places of a bucket are as many as its records.
LEMMA PlacesCount ==
    ASSUME NEW m \in MapRecord, NEW n \in MapRecord, NEW i \in BucketIndexes,
           \A j \in BucketIndexes : j # i => n.mBuckets[j] = m.mBuckets[j],
           Len(m.mBuckets[i]) <= kRecordsPerBucket, Len(n.mBuckets[i]) <= kRecordsPerBucket,
           Len(n.mBuckets[i]) - Len(m.mBuckets[i]) \in {-1, 0, 1}
    PROVE  Cardinality(Places(n)) = Cardinality(Places(m)) + Len(n.mBuckets[i]) - Len(m.mBuckets[i])
<1> DEFINE k == Len(m.mBuckets[i])
           l == Len(n.mBuckets[i])
<1>1. k \in Nat /\ l \in Nat /\ kRecordsPerBucket \in Nat
  BY MapFields, BucketFacts, DiskCacheMapAssumption
<1>2. \A at \in BucketIndexes \X (1..kRecordsPerBucket) :
          /\ at \in Places(m) <=> at[2] <= Len(m.mBuckets[at[1]])
          /\ at \in Places(n) <=> at[2] <= Len(n.mBuckets[at[1]])
          /\ at = <<at[1], at[2]>> /\ at[1] \in BucketIndexes /\ at[2] \in Nat /\ at[2] >= 1
  BY <1>1 DEF Places
<1>3. Places(m) \subseteq BucketIndexes \X (1..kRecordsPerBucket) /\ Places(n) \subseteq BucketIndexes \X (1..kRecordsPerBucket)
  BY DEF Places
<1>4. \A at \in BucketIndexes \X (1..kRecordsPerBucket) : at[1] # i => (at \in Places(n) <=> at \in Places(m))
  BY <1>2
<1>5. \A at \in BucketIndexes \X (1..kRecordsPerBucket) :
          at[1] = i => (at \in Places(m) <=> at[2] <= k) /\ (at \in Places(n) <=> at[2] <= l)
  BY <1>2
<1> HIDE DEF k, l
<1>6. CASE l = k
  <2>1. Places(n) = Places(m)
    BY <1>3, <1>4, <1>5, <1>6
  <2> QED
    BY <1>1, <1>6, <2>1, PlacesAreFinite DEF k, l
<1>7. CASE l = k + 1
  <2>1. <<i, l>> \in BucketIndexes \X (1..kRecordsPerBucket) /\ <<i, l>>[1] = i /\ <<i, l>>[2] = l
    BY <1>1, <1>7 DEF l
  <2>2. <<i, l>> \notin Places(m) /\ <<i, l>> \in Places(n)
    BY <1>1, <1>5, <1>7, <2>1
  <2>3. Places(n) = Places(m) \cup {<<i, l>>}
    <3>1. ASSUME NEW at \in BucketIndexes \X (1..kRecordsPerBucket)
          PROVE  at \in Places(n) <=> at \in Places(m) \/ at = <<i, l>>
      <4>1. CASE at[1] # i
        BY <1>4, <2>1, <4>1
      <4>2. CASE at[1] = i
        <5>1. at = <<i, l>> <=> at[2] = l
          BY <1>2, <4>2
        <5>2. at[2] \in Nat
          BY <1>2
        <5> QED
          BY <1>1, <1>5, <1>7, <4>2, <5>1, <5>2
      <4> QED
        BY <4>1, <4>2
    <3> QED
      BY <1>3, <2>2, <3>1
  <2>4. Cardinality(Places(n)) = Cardinality(Places(m)) + 1
    BY <2>2, <2>3, PlacesAreFinite, FS_AddElement
  <2> QED
    BY <1>1, <1>7, <2>4, PlacesAreFinite DEF k, l
<1>8. CASE l = k - 1
  <2>1. <<i, k>> \in BucketIndexes \X (1..kRecordsPerBucket) /\ <<i, k>>[1] = i /\ <<i, k>>[2] = k
    BY <1>1, <1>8 DEF k
  <2>2. <<i, k>> \notin Places(n) /\ <<i, k>> \in Places(m)
    BY <1>1, <1>5, <1>8, <2>1
  <2>3. Places(m) = Places(n) \cup {<<i, k>>}
    <3>1. ASSUME NEW at \in BucketIndexes \X (1..kRecordsPerBucket)
          PROVE  at \in Places(m) <=> at \in Places(n) \/ at = <<i, k>>
      <4>1. CASE at[1] # i
        BY <1>4, <2>1, <4>1
      <4>2. CASE at[1] = i
        <5>1. at = <<i, k>> <=> at[2] = k
          BY <1>2, <4>2
        <5>2. at[2] \in Nat
          BY <1>2
        <5> QED
          BY <1>1, <1>5, <1>8, <4>2, <5>1, <5>2
      <4> QED
        BY <4>1, <4>2
    <3> QED
      BY <1>3, <2>2, <3>1
  <2>4. Cardinality(Places(m)) = Cardinality(Places(n)) + 1
    BY <2>2, <2>3, PlacesAreFinite, FS_AddElement
  <2> QED
    BY <1>1, <1>8, <2>4, PlacesAreFinite DEF k, l
<1>9. l = k \/ l = k + 1 \/ l = k - 1
  BY <1>1 DEF k, l
<1> QED
  BY <1>6, <1>7, <1>8, <1>9

LEMMA WithBucketIsOK ==
    ASSUME NEW m, MapOK(m), NEW i \in BucketIndexes, NEW b \in Bucket,
           Len(b) <= kRecordsPerBucket, Len(b) - Len(m.mBuckets[i]) \in {-1, 0, 1}
    PROVE  MapOK(WithBucket(m, i, b, m.mEntryCount + Len(b) - Len(m.mBuckets[i]), EvictionRank(b)))
<1> DEFINE count == m.mEntryCount + Len(b) - Len(m.mBuckets[i])
           n == WithBucket(m, i, b, count, EvictionRank(b))
<1>1. m \in MapRecord /\ m.mBuckets[i] \in Bucket /\ m.mEntryCount \in Int
  BY MapFields DEF MapOK
<1>2. count \in Int /\ EvictionRank(b) \in Nat
  BY <1>1, BucketFacts, RankIsHighest DEF IsHighest
<1> HIDE DEF count
<1>3. /\ n \in MapRecord
      /\ n.mBuckets[i] = b /\ \A j \in BucketIndexes : j # i => n.mBuckets[j] = m.mBuckets[j]
      /\ n.mEntryCount = count
      /\ n.mEvictionRank[i] = EvictionRank(b)
      /\ \A j \in BucketIndexes : j # i => n.mEvictionRank[j] = m.mEvictionRank[j]
  BY <1>1, <1>2, WithBucketFields
<1> HIDE DEF n
<1>4. Cardinality(Places(n)) = Cardinality(Places(m)) + Len(b) - Len(m.mBuckets[i])
  BY <1>1, <1>3, PlacesCount DEF MapOK
<1>5. n.mEntryCount = Cardinality(Places(n))
  BY <1>3, <1>4 DEF MapOK, HeaderAgrees, count
<1>6. \A j \in BucketIndexes : n.mEvictionRank[j] = EvictionRank(n.mBuckets[j])
  BY <1>3 DEF MapOK, HeaderAgrees
<1>7. \A j \in BucketIndexes : Len(n.mBuckets[j]) <= kRecordsPerBucket
  BY <1>3 DEF MapOK
<1> QED
  BY <1>3, <1>5, <1>6, <1>7 DEF MapOK, HeaderAgrees, n, count

LEMMA WithBucketContents ==
    ASSUME NEW m \in MapRecord, Shelved(m), NEW i \in BucketIndexes, NEW b \in Bucket, NEW count \in Int,
           NEW rank \in Nat, Distinct(b), \A r \in Records(b) : GetBucketIndex[r.hash] = i
    PROVE  /\ Shelved(WithBucket(m, i, b, count, rank))
           /\ Contents(WithBucket(m, i, b, count, rank)) =
                  (Contents(m) \ Records(m.mBuckets[i])) \cup Records(b)
<1> DEFINE n == WithBucket(m, i, b, count, rank)
<1>1. n.mBuckets[i] = b /\ \A j \in BucketIndexes : j # i => n.mBuckets[j] = m.mBuckets[j]
  BY WithBucketFields
<1> HIDE DEF n
<1>2. Shelved(n)
  BY <1>1 DEF Shelved
<1>3. ASSUME NEW r PROVE r \in Contents(n) <=> r \in (Contents(m) \ Records(m.mBuckets[i])) \cup Records(b)
  <2>1. \A j \in BucketIndexes : j # i /\ r \in Records(m.mBuckets[j]) => r \notin Records(m.mBuckets[i])
    BY DEF Shelved
  <2> QED
    BY <1>1, <2>1 DEF Contents
<1> QED
  BY <1>2, <1>3 DEF n

\* Freeing and allocating blocks leaves the records alone.
SameRecords(m, n) == n.mBuckets = m.mBuckets /\ n.mEntryCount = m.mEntryCount /\ n.mEvictionRank = m.mEvictionRank

LEMMA SameRecordsFacts ==
    ASSUME NEW m, MapOK(m), NEW n \in MapRecord, SameRecords(m, n)
    PROVE  /\ MapOK(n) /\ Contents(n) = Contents(m)
           /\ Shelved(m) => Shelved(n)
           /\ \A k : Positions(n, k) = Positions(m, k)
           /\ \A k : HasRecord(n, k) <=> HasRecord(m, k)
           /\ \A k : FindRecord(n, k) = FindRecord(m, k)
BY DEF SameRecords, MapOK, HeaderAgrees, Places, Contents, Shelved, Positions, HasRecord, FindRecord

-----------------------------------------------------------------------------
(* Operations on the records.                                               *)

BucketOf(m, key) == m.mBuckets[GetBucketIndex[key]]

LEMMA BucketOfFacts ==
    ASSUME NEW m, MapOK(m), NEW key \in HashNumbers
    PROVE  /\ GetBucketIndex[key] \in BucketIndexes
           /\ BucketOf(m, key) \in Bucket /\ Len(BucketOf(m, key)) \in Nat
           /\ Len(BucketOf(m, key)) <= kRecordsPerBucket
           /\ Positions(m, key) = {p \in 1..Len(BucketOf(m, key)) : BucketOf(m, key)[p].hash = key}
           /\ Records(BucketOf(m, key)) \subseteq Contents(m)
           /\ IsHighest(BucketOf(m, key), m.mEvictionRank[GetBucketIndex[key]])
<1>1. GetBucketIndex[key] \in BucketIndexes
  BY DiskCacheMapAssumption
<1>2. BucketOf(m, key) \in Bucket /\ m \in MapRecord
  BY <1>1, MapFields DEF MapOK, BucketOf
<1>3. Len(BucketOf(m, key)) \in Nat /\ DOMAIN BucketOf(m, key) = 1..Len(BucketOf(m, key))
  BY <1>2, BucketFacts
<1>4. m.mEvictionRank[GetBucketIndex[key]] = EvictionRank(BucketOf(m, key))
  BY <1>1 DEF MapOK, HeaderAgrees, BucketOf
<1>5. IsHighest(BucketOf(m, key), m.mEvictionRank[GetBucketIndex[key]])
  BY <1>2, <1>4, RankIsHighest
<1>6. Len(BucketOf(m, key)) <= kRecordsPerBucket /\ Records(BucketOf(m, key)) \subseteq Contents(m)
  BY <1>1 DEF MapOK, BucketOf, Contents
<1>7. Positions(m, key) = {p \in 1..Len(BucketOf(m, key)) : BucketOf(m, key)[p].hash = key}
  BY <1>3 DEF Positions, BucketOf
<1> QED
  BY <1>1, <1>2, <1>3, <1>5, <1>6, <1>7

LEMMA FoundFacts ==
    ASSUME NEW m, MapOK(m), NEW key \in HashNumbers, HasRecord(m, key)
    PROVE  /\ Min(Positions(m, key)) \in 1..Len(BucketOf(m, key))
           /\ FindRecord(m, key) = BucketOf(m, key)[Min(Positions(m, key))]
           /\ FindRecord(m, key).hash = key
           /\ FindRecord(m, key) \in Record /\ FindRecord(m, key) \in Records(BucketOf(m, key))
           /\ FindRecord(m, key) \in Contents(m)
<1> DEFINE P == Positions(m, key)
<1>1. P = {p \in 1..Len(BucketOf(m, key)) : BucketOf(m, key)[p].hash = key} /\ P # {}
  BY BucketOfFacts DEF HasRecord
<1>2. P \subseteq Nat
  BY <1>1, BucketOfFacts
<1>3. Min(P) \in P
  BY <1>1, <1>2, MinIsFirst
<1>4. FindRecord(m, key) = BucketOf(m, key)[Min(P)]
  BY DEF FindRecord, BucketOf
<1>5. Min(P) \in 1..Len(BucketOf(m, key)) /\ BucketOf(m, key)[Min(P)].hash = key
  BY <1>1, <1>3
<1>6. FindRecord(m, key) \in Records(BucketOf(m, key)) /\ FindRecord(m, key) \in Record
  BY <1>4, <1>5, BucketFacts, BucketOfFacts DEF Records
<1> QED
  BY <1>4, <1>5, <1>6, BucketOfFacts

\* To look a record up is to look for it in the contents.
LEMMA LookUp ==
    ASSUME NEW m, MapOK(m), Shelved(m)
    PROVE  /\ Contents(m) \subseteq Record
           /\ \A r \in Contents(m) : HasRecord(m, r.hash) /\ FindRecord(m, r.hash) = r
           /\ \A key \in HashNumbers : HasRecord(m, key) <=> \E r \in Contents(m) : r.hash = key
<1>1. ASSUME NEW r \in Contents(m)
      PROVE  r \in Record /\ r.hash \in HashNumbers /\ HasRecord(m, r.hash) /\ FindRecord(m, r.hash) = r
  <2>1. PICK i \in BucketIndexes : r \in Records(m.mBuckets[i])
    BY DEF Contents
  <2>2. m.mBuckets[i] \in Bucket
    BY MapFields DEF MapOK
  <2>3. r \in Record /\ r.hash \in HashNumbers
    BY <2>1, <2>2, BucketFacts DEF Records, Record
  <2>4. GetBucketIndex[r.hash] = i
    BY <2>1 DEF Shelved
  <2>5. BucketOf(m, r.hash) = m.mBuckets[i]
    BY <2>4 DEF BucketOf
  <2>6. HasRecord(m, r.hash)
    BY <2>1, <2>3, <2>5, BucketOfFacts DEF HasRecord, Records
  <2>7. FindRecord(m, r.hash) \in Contents(m) /\ FindRecord(m, r.hash).hash = r.hash
    BY <2>3, <2>6, FoundFacts
  <2> QED
    BY <2>3, <2>6, <2>7, OneRecord
<1>2. ASSUME NEW key \in HashNumbers, HasRecord(m, key) PROVE \E r \in Contents(m) : r.hash = key
  BY <1>2, FoundFacts
<1> QED
  BY <1>1, <1>2

\* What an operation on the records leaves alone.
SameStorage(m, n) == n.mBitMap = m.mBitMap /\ n.mDataSize = m.mDataSize

\* The map with bucket i made b.
Rebucketed(m, n, i, b) == n = WithBucket(m, i, b, m.mEntryCount + Len(b) - Len(m.mBuckets[i]), EvictionRank(b))

LEMMA RebucketedFacts ==
    ASSUME NEW m, MapOK(m), NEW i \in BucketIndexes, NEW b \in Bucket, NEW n, Rebucketed(m, n, i, b),
           Len(b) <= kRecordsPerBucket, Len(b) - Len(m.mBuckets[i]) \in {-1, 0, 1}
    PROVE  /\ MapOK(n) /\ SameStorage(m, n)
           /\ Shelved(m) /\ Distinct(b) /\ (\A r \in Records(b) : GetBucketIndex[r.hash] = i) =>
                  Shelved(n) /\ Contents(n) = (Contents(m) \ Records(m.mBuckets[i])) \cup Records(b)
<1> DEFINE count == m.mEntryCount + Len(b) - Len(m.mBuckets[i])
<1>1. m \in MapRecord /\ m.mBuckets[i] \in Bucket /\ m.mEntryCount \in Int
  BY MapFields DEF MapOK
<1>2. count \in Int /\ EvictionRank(b) \in Nat
  BY <1>1, BucketFacts, RankIsHighest DEF IsHighest
<1>3. n = WithBucket(m, i, b, count, EvictionRank(b))
  BY DEF Rebucketed
<1>4. MapOK(n)
  BY <1>3, WithBucketIsOK
<1> HIDE DEF count
<1>5. SameStorage(m, n)
  BY <1>1, <1>2, <1>3, WithBucketFields DEF SameStorage
<1> QED
  BY <1>1, <1>2, <1>3, <1>4, <1>5, WithBucketContents

\* A record replaces another one of its bucket, and the eviction rank follows.
WithRecordAt(m, r, p) ==
    LET a == [BucketOf(m, r.hash) EXCEPT ![p] = r]
    IN  [m EXCEPT !.mBuckets[GetBucketIndex[r.hash]] = a, !.mEvictionRank[GetBucketIndex[r.hash]] = EvictionRank(a)]

LEMMA ReplacedFacts ==
    ASSUME NEW m, MapOK(m), NEW r \in Record, NEW p \in 1..Len(BucketOf(m, r.hash)), NEW n,
           n = WithRecordAt(m, r, p)
    PROVE  /\ MapOK(n) /\ SameStorage(m, n)
           /\ Shelved(m) /\ (\A x \in Contents(m) : x.hash = r.hash => x = BucketOf(m, r.hash)[p]) =>
                  Shelved(n) /\ Contents(n) = (Contents(m) \ {BucketOf(m, r.hash)[p]}) \cup {r}
<1> DEFINE i == GetBucketIndex[r.hash]
           b == BucketOf(m, r.hash)
           a == [b EXCEPT ![p] = r]
<1>1. r.hash \in HashNumbers
  BY DEF Record
<1>2. /\ i \in BucketIndexes /\ b \in Bucket /\ Len(b) \in Nat /\ Len(b) <= kRecordsPerBucket
      /\ Records(b) \subseteq Contents(m) /\ b = m.mBuckets[i]
  BY <1>1, BucketOfFacts DEF BucketOf
<1>3. /\ a \in Bucket /\ Len(a) = Len(b)
      /\ Distinct(b) => Records(a) = (Records(b) \ {b[p]}) \cup {r}
      /\ Distinct(b) /\ (\A x \in Records(b) : x.hash = r.hash => x = b[p]) => Distinct(a)
  BY <1>2, Replaced
<1>4. EvictionRank(a) \in Nat
  BY <1>3, RankIsHighest DEF IsHighest
<1>5. m \in MapRecord /\ m.mEntryCount \in Int
  BY MapFields DEF MapOK
<1>6. n = [m EXCEPT !.mBuckets[i] = a, !.mEvictionRank[i] = EvictionRank(a)]
  BY DEF WithRecordAt
<1> HIDE DEF a, b, i
<1>7. Rebucketed(m, n, i, a)
  <2>1. m.mEntryCount + Len(a) - Len(m.mBuckets[i]) = m.mEntryCount
    BY <1>2, <1>3, <1>5
  <2> QED
    BY <1>5, <1>6, <2>1 DEF Rebucketed, WithBucket, MapRecord
<1>8. Len(a) <= kRecordsPerBucket /\ Len(a) - Len(m.mBuckets[i]) \in {-1, 0, 1}
  BY <1>2, <1>3
<1>9. MapOK(n) /\ SameStorage(m, n)
  BY <1>2, <1>3, <1>7, <1>8, RebucketedFacts
<1>10. ASSUME Shelved(m), \A x \in Contents(m) : x.hash = r.hash => x = b[p]
       PROVE  Shelved(n) /\ Contents(n) = (Contents(m) \ {b[p]}) \cup {r}
  <2>1. Distinct(b) /\ \A x \in Records(b) : GetBucketIndex[x.hash] = i
    BY <1>2, <1>10 DEF Shelved
  <2>2. Records(a) = (Records(b) \ {b[p]}) \cup {r} /\ Distinct(a)
    BY <1>2, <1>3, <1>10, <2>1
  <2>3. \A x \in Records(a) : GetBucketIndex[x.hash] = i
    BY <2>1, <2>2 DEF i
  <2>4. Shelved(n) /\ Contents(n) = (Contents(m) \ Records(b)) \cup Records(a)
    BY <1>2, <1>3, <1>7, <1>8, <1>10, <2>2, <2>3, RebucketedFacts
  <2>5. b[p] \in Records(b)
    BY DEF Records, b
  <2>6. (Contents(m) \ Records(b)) \cup Records(a) = (Contents(m) \ {b[p]}) \cup {r}
    BY <1>2, <2>2, <2>5
  <2> QED
    BY <2>4, <2>6
<1> QED
  BY <1>9, <1>10 DEF b

\* The record at p goes.
WithoutRecordAt(m, i, p) ==
    LET s == ShiftLast(m.mBuckets[i], p)
    IN  [m EXCEPT !.mBuckets[i] = s, !.mEntryCount = m.mEntryCount - 1, !.mEvictionRank[i] = EvictionRank(s)]

LEMMA ShiftedFacts ==
    ASSUME NEW m, MapOK(m), NEW i \in BucketIndexes, NEW p \in 1..Len(m.mBuckets[i]), NEW n,
           n = WithoutRecordAt(m, i, p)
    PROVE  /\ MapOK(n) /\ SameStorage(m, n)
           /\ Shelved(m) => Shelved(n) /\ Contents(n) = Contents(m) \ {m.mBuckets[i][p]}
<1> DEFINE b == m.mBuckets[i]
           s == ShiftLast(b, p)
<1>1. m \in MapRecord /\ b \in Bucket /\ m.mEntryCount \in Int
  BY MapFields DEF MapOK
<1>2. Len(b) \in Nat /\ Len(b) <= kRecordsPerBucket
  BY <1>1, BucketFacts DEF MapOK
<1>3. /\ s \in Bucket /\ Len(s) = Len(b) - 1
      /\ Distinct(b) => Records(s) = Records(b) \ {b[p]} /\ Distinct(s)
  BY <1>1, Shifted
<1>4. n = [m EXCEPT !.mBuckets[i] = s, !.mEntryCount = m.mEntryCount - 1, !.mEvictionRank[i] = EvictionRank(s)]
  BY DEF WithoutRecordAt
<1>5. b[p] \in Records(b) /\ Records(b) \subseteq Contents(m)
  BY DEF Records, Contents
<1> HIDE DEF s
<1>6. Rebucketed(m, n, i, s)
  <2>1. m.mEntryCount + Len(s) - Len(m.mBuckets[i]) = m.mEntryCount - 1
    BY <1>1, <1>2, <1>3
  <2> QED
    BY <1>4, <2>1 DEF Rebucketed, WithBucket
<1>7. Len(s) <= kRecordsPerBucket /\ Len(s) - Len(m.mBuckets[i]) \in {-1, 0, 1}
  BY <1>2, <1>3, DiskCacheMapAssumption
<1>8. MapOK(n) /\ SameStorage(m, n)
  BY <1>3, <1>6, <1>7, RebucketedFacts
<1>9. ASSUME Shelved(m) PROVE Shelved(n) /\ Contents(n) = Contents(m) \ {b[p]}
  <2>1. Distinct(b) /\ \A x \in Records(b) : GetBucketIndex[x.hash] = i
    BY <1>9 DEF Shelved
  <2>2. Records(s) = Records(b) \ {b[p]} /\ Distinct(s)
    BY <1>3, <2>1
  <2>3. \A x \in Records(s) : GetBucketIndex[x.hash] = i
    BY <2>1, <2>2
  <2>4. Shelved(n) /\ Contents(n) = (Contents(m) \ Records(m.mBuckets[i])) \cup Records(s)
    BY <1>3, <1>6, <1>7, <1>9, <2>2, <2>3, RebucketedFacts
  <2> QED
    BY <1>5, <2>2, <2>4
<1> QED
  BY <1>8, <1>9

\* UpdateRecord: the eviction rank is computed again only where it has to be.
LEMMA UpdateRecordFacts ==
    ASSUME NEW m, MapOK(m), NEW r \in Record
    PROVE  /\ MapOK(UpdateRecord(m, r)) /\ SameStorage(m, UpdateRecord(m, r))
           /\ ~HasRecord(m, r.hash) => UpdateRecord(m, r) = m
           /\ Shelved(m) => Shelved(UpdateRecord(m, r))
           /\ Shelved(m) /\ HasRecord(m, r.hash) =>
                  Contents(UpdateRecord(m, r)) = (Contents(m) \ {FindRecord(m, r.hash)}) \cup {r}
<1>1. CASE ~HasRecord(m, r.hash)
  <2>1. UpdateRecord(m, r) = m
    BY <1>1 DEF UpdateRecord
  <2> QED
    BY <1>1, <2>1 DEF SameStorage
<1>2. CASE HasRecord(m, r.hash)
  <2> DEFINE i == GetBucketIndex[r.hash]
             b == BucketOf(m, r.hash)
             p == Min(Positions(m, r.hash))
             a == [b EXCEPT ![p] = r]
             e == m.mEvictionRank[i]
             rank == IF e < r.rank THEN r.rank ELSE IF e = b[p].rank THEN EvictionRank(a) ELSE e
             n == UpdateRecord(m, r)
  <2>1. r.hash \in HashNumbers /\ r.rank \in Nat
    BY DEF Record
  <2>2. i \in BucketIndexes /\ b \in Bucket /\ IsHighest(b, e) /\ m \in MapRecord
    BY <2>1, BucketOfFacts DEF MapOK
  <2>3. p \in 1..Len(b) /\ FindRecord(m, r.hash) = b[p] /\ FindRecord(m, r.hash).hash = r.hash
    BY <1>2, <2>1, FoundFacts
  <2>4. a \in Bucket
    BY <2>2, <2>3, Replaced
  <2>5. rank = EvictionRank(a)
    <3>1. CASE e < r.rank
      <4>1. IsHighest(a, r.rank)
        BY <2>2, <2>3, <3>1, Replaced
      <4> QED
        BY <2>4, <3>1, <4>1, HighestIsRank
    <3>2. CASE ~(e < r.rank) /\ e # b[p].rank
      <4>1. IsHighest(a, e)
        BY <2>2, <2>3, <3>2, Replaced
      <4> QED
        BY <2>4, <3>2, <4>1, HighestIsRank
    <3> QED
      BY <3>1, <3>2
  <2>6. n = [m EXCEPT !.mBuckets[i] = a, !.mEvictionRank[i] = rank]
    BY <1>2, <2>2 DEF UpdateRecord, BucketOf, MapRecord
  <2> HIDE DEF rank, n
  <2>7. n = WithRecordAt(m, r, p)
    BY <2>5, <2>6 DEF WithRecordAt
  <2>8. /\ MapOK(n) /\ SameStorage(m, n)
        /\ Shelved(m) /\ (\A x \in Contents(m) : x.hash = r.hash => x = b[p]) =>
               Shelved(n) /\ Contents(n) = (Contents(m) \ {b[p]}) \cup {r}
    <3> HIDE DEF p
    <3> QED
      BY <2>3, <2>7, ReplacedFacts
  <2>9. Shelved(m) => \A x \in Contents(m) : x.hash = r.hash => x = b[p]
    BY <2>3, LookUp
  <2> QED
    BY <1>2, <2>3, <2>8, <2>9 DEF n
<1> QED
  BY <1>1, <1>2

\* DeleteRecord, with the same care.
LEMMA DeleteRecordFacts ==
    ASSUME NEW m, MapOK(m), NEW key \in HashNumbers
    PROVE  /\ MapOK(DeleteRecord(m, key)) /\ SameStorage(m, DeleteRecord(m, key))
           /\ ~HasRecord(m, key) => DeleteRecord(m, key) = m
           /\ Shelved(m) => Shelved(DeleteRecord(m, key))
           /\ Shelved(m) /\ HasRecord(m, key) =>
                  Contents(DeleteRecord(m, key)) = Contents(m) \ {FindRecord(m, key)}
<1>1. CASE ~HasRecord(m, key)
  <2>1. DeleteRecord(m, key) = m
    BY <1>1 DEF DeleteRecord
  <2> QED
    BY <1>1, <2>1 DEF SameStorage
<1>2. CASE HasRecord(m, key)
  <2> DEFINE i == GetBucketIndex[key]
             b == BucketOf(m, key)
             p == Min(Positions(m, key))
             s == ShiftLast(b, p)
             e == m.mEvictionRank[i]
             rank == IF e <= b[p].rank THEN EvictionRank(s) ELSE e
             n == DeleteRecord(m, key)
  <2>1. i \in BucketIndexes /\ b \in Bucket /\ IsHighest(b, e) /\ m \in MapRecord /\ b = m.mBuckets[i]
    BY BucketOfFacts DEF MapOK, BucketOf
  <2>2. p \in 1..Len(b) /\ FindRecord(m, key) = b[p]
    BY <1>2, FoundFacts
  <2>3. rank = EvictionRank(s)
    <3>1. s \in Bucket
      BY <2>1, <2>2, Shifted
    <3>2. CASE ~(e <= b[p].rank)
      <4>1. b[p].rank < e
        BY <2>1, <2>2, <3>2, BucketFacts DEF IsHighest
      <4>2. IsHighest(s, e)
        BY <2>1, <2>2, <4>1, Shifted
      <4> QED
        BY <3>1, <3>2, <4>2, HighestIsRank
    <3> QED
      BY <3>2
  <2>4. n = [m EXCEPT !.mBuckets[i] = s, !.mEntryCount = m.mEntryCount - 1, !.mEvictionRank[i] = rank]
    BY <1>2, <2>1 DEF DeleteRecord, BucketOf, MapRecord
  <2> HIDE DEF rank, n
  <2>5. n = WithoutRecordAt(m, i, p)
    BY <2>1, <2>3, <2>4 DEF WithoutRecordAt
  <2>6. /\ MapOK(n) /\ SameStorage(m, n)
        /\ Shelved(m) => Shelved(n) /\ Contents(n) = Contents(m) \ {b[p]}
    <3> HIDE DEF i, p, b
    <3> QED
      BY <2>1, <2>2, <2>5, ShiftedFacts
  <2> QED
    BY <1>2, <2>2, <2>6 DEF n
<1> QED
  BY <1>1, <1>2

LEMMA DeleteVisitedFacts ==
    ASSUME NEW m, MapOK(m), NEW at \in Places(m)
    PROVE  LET n == DeleteVisited(m, at[1], at[2])
           IN  /\ MapOK(n) /\ SameStorage(m, n)
               /\ Shelved(m) => Shelved(n) /\ Contents(n) = Contents(m) \ {RecordAt(m, at)}
<1> DEFINE i == at[1]
           p == at[2]
           s == ShiftLast(m.mBuckets[i], p)
           n == DeleteVisited(m, i, p)
<1>1. i \in BucketIndexes /\ p \in 1..kRecordsPerBucket /\ p <= Len(m.mBuckets[i])
  BY DEF Places
<1>2. m \in MapRecord /\ m.mBuckets[i] \in Bucket
  BY <1>1, MapFields DEF MapOK
<1>3. p \in 1..Len(m.mBuckets[i])
  BY <1>1, <1>2, BucketFacts
<1>4. n = WithoutRecordAt(m, i, p)
  BY <1>1, <1>2 DEF DeleteVisited, WithoutRecordAt, MapRecord
<1>5. RecordAt(m, at) = m.mBuckets[i][p]
  BY DEF RecordAt
<1> HIDE DEF n, i, p
<1>6. /\ MapOK(n) /\ SameStorage(m, n)
      /\ Shelved(m) => Shelved(n) /\ Contents(n) = Contents(m) \ {m.mBuckets[i][p]}
  BY <1>1, <1>3, <1>4, ShiftedFacts
<1> QED
  BY <1>5, <1>6 DEF n, i, p

\* The one that is replaced is the first of the highest rank.
LEMMA MostEvictableIsThere ==
    ASSUME NEW b \in Bucket, Len(b) > 0
    PROVE  MostEvictable(b) \in 1..Len(b)
<1> DEFINE R == EvictionRank(b)
           T == {p \in 1..Len(b) : b[p].rank = R}
<1>1. IsHighest(b, R) /\ Len(b) \in Nat /\ DOMAIN b = 1..Len(b)
  BY RankIsHighest, BucketFacts
<1>2. \A p \in 1..Len(b) : b[p].rank \in Nat /\ b[p].rank > 0
  BY BucketFacts
<1>3. 1 \in 1..Len(b)
  BY <1>1
<1>4. T # {}
  BY <1>1, <1>2, <1>3 DEF IsHighest
<1>5. T \subseteq Nat
  BY <1>1
<1> HIDE DEF R
<1>6. PICK p \in T : \A q \in T : p <= q
  BY <1>4, <1>5, FirstExists
<1>7. \A q \in DOMAIN b : q < p => b[q].rank < b[p].rank
  <2> SUFFICES ASSUME NEW q \in 1..Len(b), q < p PROVE b[q].rank < b[p].rank
    BY <1>1
  <2>1. q \notin T
    BY <1>1, <1>5, <1>6
  <2> QED
    BY <1>1, <1>2, <2>1 DEF IsHighest
<1>8. p \in DOMAIN b /\ b[p].rank = EvictionRank(b)
  BY <1>1 DEF R
<1>9. MostEvictable(b) \in DOMAIN b
  BY <1>7, <1>8 DEF MostEvictable
<1> QED
  BY <1>1, <1>9

LEMMA OldRecordFacts ==
    ASSUME NEW m, MapOK(m), NEW key \in HashNumbers, IsFull(m, key)
    PROVE  /\ MostEvictable(BucketOf(m, key)) \in 1..Len(BucketOf(m, key))
           /\ OldRecord(m, key) = BucketOf(m, key)[MostEvictable(BucketOf(m, key))]
           /\ OldRecord(m, key) \in Contents(m) /\ OldRecord(m, key) \in Record
<1> DEFINE b == BucketOf(m, key)
<1>1. b \in Bucket /\ Records(b) \subseteq Contents(m)
  BY BucketOfFacts
<1>2. Len(b) > 0
  BY DiskCacheMapAssumption DEF IsFull, BucketOf
<1>3. MostEvictable(b) \in 1..Len(b)
  BY <1>1, <1>2, MostEvictableIsThere
<1>4. OldRecord(m, key) = b[MostEvictable(b)]
  BY DEF OldRecord, BucketOf
<1>5. b[MostEvictable(b)] \in Records(b) /\ b[MostEvictable(b)] \in Record
  BY <1>1, <1>3, BucketFacts DEF Records
<1> QED
  BY <1>1, <1>3, <1>4, <1>5

\* AddRecord, of a hash number that is not there.
LEMMA AddRecordFacts ==
    ASSUME NEW m, MapOK(m), NEW r \in Record
    PROVE  /\ MapOK(AddRecord(m, r)) /\ SameStorage(m, AddRecord(m, r))
           /\ Shelved(m) /\ ~HasRecord(m, r.hash) =>
                  /\ Shelved(AddRecord(m, r))
                  /\ Contents(AddRecord(m, r)) =
                         (IF IsFull(m, r.hash) THEN Contents(m) \ {OldRecord(m, r.hash)} ELSE Contents(m)) \cup {r}
<1> DEFINE i == GetBucketIndex[r.hash]
           b == BucketOf(m, r.hash)
           n == AddRecord(m, r)
<1>1. r.hash \in HashNumbers /\ r.rank \in Nat
  BY DEF Record
<1>2. /\ i \in BucketIndexes /\ b \in Bucket /\ Len(b) \in Nat /\ Len(b) <= kRecordsPerBucket
      /\ m \in MapRecord /\ b = m.mBuckets[i] /\ Records(b) \subseteq Contents(m)
      /\ IsHighest(b, m.mEvictionRank[i])
  BY <1>1, BucketOfFacts DEF MapOK, BucketOf
<1>3. ASSUME Shelved(m), ~HasRecord(m, r.hash) PROVE \A x \in Contents(m) : x.hash # r.hash
  BY <1>1, <1>3, LookUp
<1>4. CASE IsFull(m, r.hash)
  <2> DEFINE p == MostEvictable(b)
             a == [b EXCEPT ![p] = r]
  <2>1. p \in 1..Len(b) /\ OldRecord(m, r.hash) = b[p]
    BY <1>1, <1>4, OldRecordFacts
  <2>2. n = WithRecordAt(m, r, p)
    BY <1>4 DEF AddRecord, BucketOf, WithRecordAt
  <2>3. /\ MapOK(n) /\ SameStorage(m, n)
        /\ Shelved(m) /\ (\A x \in Contents(m) : x.hash = r.hash => x = b[p]) =>
               Shelved(n) /\ Contents(n) = (Contents(m) \ {b[p]}) \cup {r}
    <3> HIDE DEF n, p
    <3> QED
      BY <2>1, <2>2, ReplacedFacts
  <2> QED
    BY <1>3, <1>4, <2>1, <2>3
<1>5. CASE ~IsFull(m, r.hash)
  <2> DEFINE a == Append(b, r)
             e == m.mEvictionRank[i]
             rank == IF e < r.rank THEN r.rank ELSE e
  <2>1. /\ a \in Bucket /\ Len(a) = Len(b) + 1
        /\ Records(a) = Records(b) \cup {r}
        /\ (\A x \in Records(b) : x.hash # r.hash) /\ Distinct(b) => Distinct(a)
        /\ IsHighest(a, rank)
    BY <1>2, Appended
  <2>2. Len(b) # kRecordsPerBucket
    BY <1>5 DEF IsFull, BucketOf
  <2>3. Len(a) <= kRecordsPerBucket /\ Len(a) - Len(m.mBuckets[i]) \in {-1, 0, 1}
    BY <1>2, <2>1, <2>2, DiskCacheMapAssumption
  <2>4. rank = EvictionRank(a)
    BY <2>1, HighestIsRank
  <2>5. m.mEntryCount \in Int
    BY <1>2, MapFields
  <2>6. n = [m EXCEPT !.mBuckets[i] = a, !.mEntryCount = m.mEntryCount + 1, !.mEvictionRank[i] = rank]
    BY <1>2, <1>5 DEF AddRecord, BucketOf, MapRecord
  <2> HIDE DEF n, a, rank
  <2>7. m.mEntryCount + Len(a) - Len(m.mBuckets[i]) = m.mEntryCount + 1
    BY <1>2, <2>1, <2>5
  <2>8. Rebucketed(m, n, i, a)
    BY <2>4, <2>6, <2>7 DEF Rebucketed, WithBucket
  <2>9. MapOK(n) /\ SameStorage(m, n)
    BY <1>2, <2>1, <2>3, <2>8, RebucketedFacts
  <2>10. ASSUME Shelved(m), ~HasRecord(m, r.hash) PROVE Shelved(n) /\ Contents(n) = Contents(m) \cup {r}
    <3>1. Distinct(b) /\ \A x \in Records(b) : GetBucketIndex[x.hash] = i
      BY <1>2, <2>10 DEF Shelved
    <3>2. Distinct(a) /\ \A x \in Records(a) : GetBucketIndex[x.hash] = i
      BY <1>2, <1>3, <2>1, <2>10, <3>1
    <3>3. Shelved(n) /\ Contents(n) = (Contents(m) \ Records(b)) \cup Records(a)
      BY <1>2, <2>1, <2>3, <2>8, <2>10, <3>2, RebucketedFacts
    <3> QED
      BY <1>2, <2>1, <3>3
  <2> QED
    BY <1>5, <2>9, <2>10 DEF n
<1> QED
  BY <1>4, <1>5

-----------------------------------------------------------------------------
(* Blocks.                                                                  *)

LEMMA BlocksAreFinite == \A place \in SUBSET Blocks : IsFiniteSet(place) /\ Cardinality(place) \in Nat
<1>1. 8 * kBitMapBytes - 1 \in Int
  BY DiskCacheMapAssumption
<1>2. IsFiniteSet(Blocks)
  BY <1>1, FS_Interval DEF Blocks
<1> QED
  BY <1>2, FS_Subset, FS_CardinalityType

LEMMA GroupsAreBlocks ==
    ASSUME NEW n \in Nat \ {0}, NEW g \in Groups(n)
    PROVE  g \subseteq Blocks /\ g # {}
<1>1. PICK s \in Blocks : (s % 4) + n <= 4 /\ g = s..s + n - 1
  BY DEF Groups
<1> DEFINE q == s \div 4
           r == s % 4
           limit == 8 * kBitMapBytes - 1
<1>2. s \in Nat /\ kBitMapBytes \in Nat /\ s <= limit
  BY DiskCacheMapAssumption DEF Blocks
<1>3. q \in Int /\ r \in Nat /\ s = 4 * q + r /\ r < 4
  BY <1>2
<1> HIDE DEF q, r
<1>4. 4 * q + 3 <= limit
  BY <1>2, <1>3
<1>5. r + n <= 4
  BY <1>1 DEF r
<1>6. s + n - 1 <= limit
  BY <1>2, <1>3, <1>4, <1>5
<1>7. s \in g
  BY <1>1, <1>2
<1>8. \A b \in g : b \in 0..limit
  BY <1>1, <1>2, <1>6
<1> QED
  BY <1>7, <1>8 DEF Blocks

LEMMA AllocateBlocksFacts ==
    ASSUME NEW m, NEW n \in Nat \ {0}
    PROVE  /\ AllocateBlocks(m, n) \subseteq Blocks
           /\ AllocateBlocks(m, n) \cap m.mBitMap = {}
<1> DEFINE free == {g \in Groups(n) : g \cap m.mBitMap = {}}
           starts == {Min(g) : g \in free}
<1>1. CASE free = {}
  BY <1>1 DEF AllocateBlocks
<1>2. CASE free # {}
  <2>1. \A g \in free : g \subseteq Blocks /\ g # {}
    BY GroupsAreBlocks
  <2>2. Blocks \subseteq Nat
    BY DEF Blocks
  <2>3. \A g \in free : Min(g) \in Nat
    BY <2>1, <2>2, MinIsFirst
  <2>4. starts \subseteq Nat /\ starts # {}
    BY <1>2, <2>3
  <2> HIDE DEF free
  <2>5. PICK i \in starts : \A j \in starts : i <= j
    BY <2>4, FirstExists
  <2>6. PICK g \in free : i = Min(g)
    BY <2>5
  <2>7. \E x \in free : \A h \in free : Min(x) <= Min(h)
    BY <2>5, <2>6
  <2> DEFINE place == CHOOSE x \in free : \A h \in free : Min(x) <= Min(h)
  <2>8. place \in free
    BY <2>7
  <2>9. AllocateBlocks(m, n) = place
    BY <1>2 DEF AllocateBlocks, free
  <2> QED
    BY <2>1, <2>8, <2>9 DEF free
<1> QED
  BY <1>1, <1>2

LEMMA DeleteStorageFacts ==
    ASSUME NEW m \in MapRecord, NEW place \in SUBSET Blocks
    PROVE  /\ DeleteStorage(m, place) \in MapRecord
           /\ SameRecords(m, DeleteStorage(m, place))
           /\ DeleteStorage(m, place).mDataSize = m.mDataSize - Cardinality(place)
           /\ place \subseteq m.mBitMap => DeleteStorage(m, place).mBitMap = m.mBitMap \ place
<1> DEFINE n == DeallocateBlocks(m, place)
<1>1. /\ n \in MapRecord /\ SameRecords(m, n) /\ n.mDataSize = m.mDataSize
      /\ place \subseteq m.mBitMap => n.mBitMap = m.mBitMap \ place
  <2>1. CASE place = {} \/ ~(place \subseteq m.mBitMap)
    BY <2>1 DEF DeallocateBlocks, SameRecords
  <2>2. CASE ~(place = {} \/ ~(place \subseteq m.mBitMap))
    <3>1. n = [m EXCEPT !.mBitMap = m.mBitMap \ place, !.mBitMapDirty = TRUE]
      BY <2>2 DEF DeallocateBlocks
    <3> HIDE DEF n
    <3> QED
      BY <3>1 DEF MapRecord, SameRecords
  <2> QED
    BY <2>1, <2>2
<1>2. Cardinality(place) \in Nat
  BY BlocksAreFinite
<1>3. DeleteStorage(m, place) = [n EXCEPT !.mDataSize = n.mDataSize - Cardinality(place)]
  BY DEF DeleteStorage
<1> HIDE DEF n
<1> DEFINE size == n.mDataSize - Cardinality(place)
<1>4. size \in Int /\ size = m.mDataSize - Cardinality(place)
  BY <1>1, <1>2 DEF MapRecord
<1> HIDE DEF size
<1>5. DeleteStorage(m, place) = [n EXCEPT !.mDataSize = size]
  BY <1>3 DEF size
<1> QED
  BY <1>1, <1>4, <1>5 DEF MapRecord, SameRecords

\* The map with the blocks allocated and counted.
Storing(m, place) == [WithBlocks(m, place) EXCEPT !.mDataSize = @ + Cardinality(place)]

LEMMA StoringFacts ==
    ASSUME NEW m \in MapRecord, NEW place \in SUBSET Blocks
    PROVE  /\ Storing(m, place) \in MapRecord
           /\ SameRecords(m, Storing(m, place))
           /\ Storing(m, place).mDataSize = m.mDataSize + Cardinality(place)
           /\ Storing(m, place).mBitMap = m.mBitMap \cup place
<1> DEFINE size == m.mDataSize + Cardinality(place)
<1>1. size \in Int
  BY BlocksAreFinite DEF MapRecord
<1>2. Storing(m, place) = [m EXCEPT !.mBitMap = m.mBitMap \cup place, !.mBitMapDirty = TRUE, !.mDataSize = size]
  BY DEF Storing, WithBlocks, MapRecord
<1> HIDE DEF size
<1>3. Storing(m, place).mDataSize = size
  BY <1>2 DEF MapRecord
<1> QED
  BY <1>1, <1>2, <1>3 DEF MapRecord, SameRecords, size

-----------------------------------------------------------------------------
(* Who owns which blocks.                                                   *)

\* What can own blocks: data and meta data of entries and of records.
Parts == ({"entry"} \X Entries \X {"data", "meta"}) \cup ({"record"} \X HashNumbers \X {"data", "meta"})

\* No block has two owners, those in use have one, and the size is theirs.
Allotted(h, m) ==
    /\ \A x, y \in Parts : x # y => h[x] \cap h[y] = {}
    /\ m.mBitMap = UNION {h[x] : x \in Parts}
    /\ m.mDataSize = Cardinality(m.mBitMap)

LEMMA AllottedSame ==
    ASSUME NEW h, NEW g, NEW m, NEW n, Allotted(h, m), SameStorage(m, n),
           \A x \in Parts : g[x] = h[x]
    PROVE  Allotted(g, n)
BY DEF Allotted, SameStorage

\* Two parts change hands.
LEMMA AllottedSwap ==
    ASSUME NEW h, NEW g, NEW m, Allotted(h, m), NEW a \in Parts, NEW b \in Parts, a # b,
           g[a] = h[b], g[b] = h[a], \A x \in Parts \ {a, b} : g[x] = h[x]
    PROVE  Allotted(g, m)
<1>1. \A x, y \in Parts : x # y => g[x] \cap g[y] = {}
  <2> SUFFICES ASSUME NEW x \in Parts, NEW y \in Parts, x # y PROVE g[x] \cap g[y] = {}
    OBVIOUS
  <2> DEFINE other(z) == IF z = a THEN b ELSE IF z = b THEN a ELSE z
  <2>1. g[x] = h[other(x)] /\ g[y] = h[other(y)] /\ other(x) \in Parts /\ other(y) \in Parts
    OBVIOUS
  <2>2. other(x) # other(y)
    OBVIOUS
  <2> QED
    BY <2>1, <2>2 DEF Allotted
<1>2. UNION {g[x] : x \in Parts} = UNION {h[x] : x \in Parts}
  <2>1. \A x \in Parts : \E y \in Parts : g[x] = h[y]
    OBVIOUS
  <2>2. \A x \in Parts : \E y \in Parts : h[x] = g[y]
    OBVIOUS
  <2> QED
    BY <2>1, <2>2
<1> QED
  BY <1>1, <1>2 DEF Allotted

LEMMA AllottedFreed ==
    ASSUME NEW h, NEW g, NEW m \in MapRecord, Allotted(h, m), NEW a \in Parts,
           g[a] = {}, \A x \in Parts \ {a} : g[x] = h[x]
    PROVE  Allotted(g, DeleteStorage(m, h[a]))
<1> DEFINE n == DeleteStorage(m, h[a])
<1>1. h[a] \subseteq m.mBitMap /\ m.mBitMap \subseteq Blocks
  BY DEF Allotted, MapRecord
<1>2. n.mDataSize = m.mDataSize - Cardinality(h[a]) /\ n.mBitMap = m.mBitMap \ h[a]
  BY <1>1, DeleteStorageFacts
<1> HIDE DEF n
<1>3. /\ IsFiniteSet(m.mBitMap) /\ Cardinality(m.mBitMap) \in Nat
      /\ IsFiniteSet(h[a]) /\ Cardinality(h[a]) \in Nat
  BY <1>1, BlocksAreFinite
<1>4. Cardinality(m.mBitMap \ h[a]) = Cardinality(m.mBitMap) - Cardinality(h[a])
  <2> DEFINE S == m.mBitMap
             T == h[a]
  <2>1. S \cap T = T
    BY <1>1
  <2>2. IsFiniteSet(S) /\ IsFiniteSet(T)
    BY <1>3
  <2> HIDE DEF S, T
  <2>3. Cardinality(S \ T) = Cardinality(S) - Cardinality(S \cap T)
    BY <2>2, FS_Difference
  <2>4. Cardinality(S \ T) = Cardinality(S) - Cardinality(T)
    BY <2>1, <2>3
  <2> QED
    BY <2>4 DEF S, T
<1>5. m.mBitMap \ h[a] = UNION {g[x] : x \in Parts}
  BY DEF Allotted
<1>6. \A x, y \in Parts : x # y => g[x] \cap g[y] = {}
  BY DEF Allotted
<1> QED
  BY <1>2, <1>4, <1>5, <1>6 DEF Allotted, n

LEMMA AllottedTaken ==
    ASSUME NEW h, NEW g, NEW m \in MapRecord, Allotted(h, m), NEW a \in Parts, h[a] = {},
           NEW place \in SUBSET Blocks, place \cap m.mBitMap = {},
           g[a] = place, \A x \in Parts \ {a} : g[x] = h[x]
    PROVE  Allotted(g, Storing(m, place))
<1> DEFINE n == Storing(m, place)
<1>1. n.mDataSize = m.mDataSize + Cardinality(place) /\ n.mBitMap = m.mBitMap \cup place
  BY StoringFacts
<1> HIDE DEF n
<1>2. IsFiniteSet(m.mBitMap) /\ IsFiniteSet(place)
  BY BlocksAreFinite DEF MapRecord
<1>3. Cardinality(m.mBitMap \cup place) = Cardinality(m.mBitMap) + Cardinality(place)
  BY <1>2, DisjointUnion
<1>4. m.mBitMap \cup place = UNION {g[x] : x \in Parts}
  BY DEF Allotted
<1>5. \A x \in Parts : h[x] \subseteq m.mBitMap
  BY DEF Allotted
<1>6. \A x, y \in Parts : x # y => g[x] \cap g[y] = {}
  BY <1>5 DEF Allotted
<1> QED
  BY <1>1, <1>3, <1>4, <1>6 DEF Allotted, n

-----------------------------------------------------------------------------
(* A map as what it finds for a hash number.                                *)

\* n has no record of the hash number j, and those of m of all others.
Minus(m, n, j) ==
    /\ MapOK(n) /\ Shelved(n)
    /\ \A k \in HashNumbers : /\ HasRecord(n, k) <=> HasRecord(m, k) /\ k # j
                              /\ HasRecord(m, k) /\ k # j => FindRecord(n, k) = FindRecord(m, k)

\* n has the record r, and those of m of all other hash numbers.
Plus(m, n, r) ==
    /\ MapOK(n) /\ Shelved(n)
    /\ \A k \in HashNumbers : /\ HasRecord(n, k) <=> HasRecord(m, k) \/ k = r.hash
                              /\ HasRecord(m, k) /\ k # r.hash => FindRecord(n, k) = FindRecord(m, k)
                              /\ k = r.hash => FindRecord(n, k) = r

\* The two have the same records.
Even(m, n) ==
    /\ MapOK(n) /\ Shelved(n)
    /\ \A k \in HashNumbers : /\ HasRecord(n, k) <=> HasRecord(m, k)
                              /\ HasRecord(m, k) => FindRecord(n, k) = FindRecord(m, k)

LEMMA ContentsFound ==
    ASSUME NEW m, MapOK(m), Shelved(m), NEW k \in HashNumbers
    PROVE  /\ HasRecord(m, k) <=> \E r \in Contents(m) : r.hash = k
           /\ HasRecord(m, k) => /\ FindRecord(m, k) \in Contents(m) /\ FindRecord(m, k).hash = k
                                 /\ FindRecord(m, k) \in Record
                                 /\ FindRecord(m, k).data \in SUBSET Blocks
                                 /\ FindRecord(m, k).meta \in SUBSET Blocks
           /\ \A r \in Contents(m) : r.hash = k => FindRecord(m, k) = r
<1>1. HasRecord(m, k) => /\ FindRecord(m, k) \in Contents(m) /\ FindRecord(m, k).hash = k
                         /\ FindRecord(m, k) \in Record
  BY FoundFacts
<1>2. \A r \in Record : r.data \in SUBSET Blocks /\ r.meta \in SUBSET Blocks
  BY DEF Record
<1> QED
  BY <1>1, <1>2, LookUp

LEMMA MinusContents ==
    ASSUME NEW m, MapOK(m), Shelved(m), NEW n, MapOK(n), Shelved(n), NEW r \in Contents(m),
           Contents(n) = Contents(m) \ {r}
    PROVE  Minus(m, n, r.hash)
<1>1. \A x \in Contents(m) : x.hash = r.hash => x = r
  BY OneRecord
<1>2. ASSUME NEW k \in HashNumbers
      PROVE  /\ HasRecord(n, k) <=> HasRecord(m, k) /\ k # r.hash
             /\ HasRecord(m, k) /\ k # r.hash => FindRecord(n, k) = FindRecord(m, k)
  BY <1>1, ContentsFound
<1> QED
  BY <1>2 DEF Minus

LEMMA PlusContents ==
    ASSUME NEW m, MapOK(m), Shelved(m), NEW n, MapOK(n), Shelved(n), NEW r,
           r \in Contents(n),
           \A x : x \in Contents(n) /\ x.hash # r.hash <=> x \in Contents(m) /\ x.hash # r.hash
    PROVE  Plus(m, n, r)
<1>1. \A x \in Contents(n) : x.hash = r.hash => x = r
  BY OneRecord
<1>2. ASSUME NEW k \in HashNumbers
      PROVE  /\ HasRecord(n, k) <=> HasRecord(m, k) \/ k = r.hash
             /\ HasRecord(m, k) /\ k # r.hash => FindRecord(n, k) = FindRecord(m, k)
             /\ k = r.hash => FindRecord(n, k) = r
  BY <1>1, ContentsFound
<1> QED
  BY <1>2 DEF Plus

LEMMA EvenSame ==
    ASSUME NEW m, MapOK(m), Shelved(m), NEW n \in MapRecord, SameRecords(m, n)
    PROVE  Even(m, n)
BY SameRecordsFacts DEF Even

LEMMA UpdateFinds ==
    ASSUME NEW m, MapOK(m), Shelved(m), NEW r \in Record, HasRecord(m, r.hash)
    PROVE  Plus(m, UpdateRecord(m, r), r) /\ SameStorage(m, UpdateRecord(m, r))
<1> DEFINE n == UpdateRecord(m, r)
           old == FindRecord(m, r.hash)
<1>1. r.hash \in HashNumbers
  BY DEF Record
<1>2. /\ MapOK(n) /\ SameStorage(m, n) /\ Shelved(n)
      /\ Contents(n) = (Contents(m) \ {old}) \cup {r}
  BY UpdateRecordFacts
<1>3. old \in Contents(m) /\ old.hash = r.hash
  BY <1>1, FoundFacts
<1>4. \A x \in Contents(m) : x.hash = r.hash => x = old
  BY <1>3, OneRecord
<1> HIDE DEF n, old
<1>5. \A x : x \in Contents(n) /\ x.hash # r.hash <=> x \in Contents(m) /\ x.hash # r.hash
  BY <1>2, <1>3
<1>6. Plus(m, n, r)
  BY <1>2, <1>5, PlusContents
<1> QED
  BY <1>2, <1>6 DEF n

LEMMA DeleteFinds ==
    ASSUME NEW m, MapOK(m), Shelved(m), NEW key \in HashNumbers
    PROVE  Minus(m, DeleteRecord(m, key), key) /\ SameStorage(m, DeleteRecord(m, key))
<1> DEFINE n == DeleteRecord(m, key)
<1>1. SameStorage(m, n)
  BY DeleteRecordFacts
<1>2. CASE ~HasRecord(m, key)
  <2>1. n = m
    BY <1>2, DeleteRecordFacts
  <2>2. Minus(m, m, key)
    BY <1>2 DEF Minus
  <2> HIDE DEF n
  <2> QED
    BY <1>1, <2>1, <2>2 DEF n
<1>3. CASE HasRecord(m, key)
  <2>1. MapOK(n) /\ Shelved(n) /\ Contents(n) = Contents(m) \ {FindRecord(m, key)}
    BY <1>3, DeleteRecordFacts
  <2>2. FindRecord(m, key) \in Contents(m) /\ FindRecord(m, key).hash = key
    BY <1>3, FoundFacts
  <2> HIDE DEF n
  <2>3. Minus(m, n, FindRecord(m, key).hash)
    BY <2>1, <2>2, MinusContents
  <2> QED
    BY <1>1, <2>2, <2>3 DEF n
<1> QED
  BY <1>2, <1>3

LEMMA RecordAtFacts ==
    ASSUME NEW m, MapOK(m), Shelved(m), NEW at \in Places(m)
    PROVE  /\ RecordAt(m, at) \in Contents(m) /\ RecordAt(m, at) \in Record
           /\ RecordAt(m, at).hash \in HashNumbers
           /\ HasRecord(m, RecordAt(m, at).hash)
           /\ FindRecord(m, RecordAt(m, at).hash) = RecordAt(m, at)
<1>1. at[1] \in BucketIndexes /\ at[2] \in 1..Len(m.mBuckets[at[1]])
  <2>1. Len(m.mBuckets[at[1]]) \in Nat
    BY MapFields, BucketFacts DEF MapOK, Places
  <2> QED
    BY <2>1 DEF Places
<1>2. RecordAt(m, at) \in Contents(m)
  BY <1>1 DEF RecordAt, Contents, Records
<1>3. RecordAt(m, at) \in Record
  BY <1>2, LookUp
<1> QED
  BY <1>2, <1>3, LookUp DEF Record

LEMMA VisitedFinds ==
    ASSUME NEW m, MapOK(m), Shelved(m), NEW at \in Places(m)
    PROVE  /\ Minus(m, DeleteVisited(m, at[1], at[2]), RecordAt(m, at).hash)
           /\ SameStorage(m, DeleteVisited(m, at[1], at[2]))
<1> DEFINE n == DeleteVisited(m, at[1], at[2])
<1>1. MapOK(n) /\ SameStorage(m, n) /\ Shelved(n) /\ Contents(n) = Contents(m) \ {RecordAt(m, at)}
  BY DeleteVisitedFacts
<1>2. RecordAt(m, at) \in Contents(m)
  BY RecordAtFacts
<1> HIDE DEF n
<1>3. Minus(m, n, RecordAt(m, at).hash)
  BY <1>1, <1>2, MinusContents
<1> QED
  BY <1>1, <1>3 DEF n

LEMMA AddFinds ==
    ASSUME NEW m, MapOK(m), Shelved(m), NEW r \in Record, ~HasRecord(m, r.hash), ~IsFull(m, r.hash)
    PROVE  Plus(m, AddRecord(m, r), r) /\ SameStorage(m, AddRecord(m, r))
<1> DEFINE n == AddRecord(m, r)
<1>1. MapOK(n) /\ SameStorage(m, n) /\ Shelved(n) /\ Contents(n) = Contents(m) \cup {r}
  BY AddRecordFacts
<1> HIDE DEF n
<1>2. Plus(m, n, r)
  BY <1>1, PlusContents
<1> QED
  BY <1>1, <1>2 DEF n

\* In a full bucket it is as if the old record had been deleted before.
LEMMA AddInsteadFinds ==
    ASSUME NEW m, MapOK(m), Shelved(m), NEW r \in Record, ~HasRecord(m, r.hash), IsFull(m, r.hash)
    PROVE  LET old == OldRecord(m, r.hash)
               less == DeleteRecord(m, old.hash)
           IN  /\ old \in Record /\ old.hash \in HashNumbers /\ old.hash # r.hash
               /\ HasRecord(m, old.hash) /\ FindRecord(m, old.hash) = old
               /\ Minus(m, less, old.hash) /\ SameStorage(m, less)
               /\ Plus(less, AddRecord(m, r), r) /\ SameStorage(m, AddRecord(m, r))
<1> DEFINE n == AddRecord(m, r)
           old == OldRecord(m, r.hash)
           less == DeleteRecord(m, old.hash)
<1>1. r.hash \in HashNumbers
  BY DEF Record
<1>2. MapOK(n) /\ SameStorage(m, n) /\ Shelved(n) /\ Contents(n) = (Contents(m) \ {old}) \cup {r}
  BY AddRecordFacts
<1>3. old \in Contents(m) /\ old \in Record /\ old.hash \in HashNumbers
  BY <1>1, OldRecordFacts DEF Record
<1> HIDE DEF n, old
<1>4. HasRecord(m, old.hash) /\ FindRecord(m, old.hash) = old /\ old.hash # r.hash
  BY <1>3, LookUp
<1>5. Minus(m, less, old.hash) /\ SameStorage(m, less)
  BY <1>3, DeleteFinds
<1>6. MapOK(less) /\ Shelved(less) /\ Contents(less) = Contents(m) \ {old}
  BY <1>3, <1>4, DeleteRecordFacts
<1> HIDE DEF less
<1>7. Plus(less, n, r)
  BY <1>2, <1>6, PlusContents
<1> QED
  BY <1>2, <1>3, <1>4, <1>5, <1>7 DEF n, old, less

-----------------------------------------------------------------------------
(* Entries and records agree, and own what is allocated.                    *)

\* An active entry has a binding: the block of its key is its own.
BoundActive(en, key) ==
    \E e \in Entries : en[e].state = "active" /\ en[e].bound /\ en[e].key = key

Piece(record, field) == IF field = "data" THEN record.data ELSE record.meta

\* What an entry owns, and what is owned by the record of a key that no active entry has bound.
OfEntry(x, field) == IF x.bound THEN Piece(x.mRecord, field) ELSE {}
OfKey(m, en, key, field) ==
    IF HasRecord(m, key) /\ ~BoundActive(en, key) THEN Piece(FindRecord(m, key), field) ELSE {}

Holdings(m, en) ==
    [x \in Parts |-> IF x[1] = "entry" THEN OfEntry(en[x[2]], x[3]) ELSE OfKey(m, en, x[2], x[3])]

\* The record of an active entry.
InBook(m, x) ==
    IF x.bound THEN /\ HasRecord(m, x.key)
                    /\ FindRecord(m, x.key).meta = x.mRecord.meta
                    /\ x.mBufDirty \/ FindRecord(m, x.key) = x.mRecord
    ELSE ~HasRecord(m, x.key)

Booked(m, en) ==
    /\ Shelved(m)
    /\ \A e, f \in Entries : /\ en[e].state = "active" /\ en[f].state = "active"
                             /\ en[e].key = en[f].key
                             => e = f
    /\ \A e \in Entries : en[e].state = "active" => InBook(m, en[e])
    /\ \A key \in HashNumbers : HasRecord(m, key) /\ ~BoundActive(en, key) => FindRecord(m, key).meta # {}

InOrder(m, en) == Booked(m, en) /\ Allotted(Holdings(m, en), m)

Fields == {"data", "meta"}

LEMMA HoldingsAt ==
    ASSUME NEW m, NEW en
    PROVE  /\ \A e \in Entries, f \in Fields : <<"entry", e, f>> \in Parts
           /\ \A e \in Entries, f \in Fields : Holdings(m, en)[<<"entry", e, f>>] = OfEntry(en[e], f)
           /\ \A k \in HashNumbers, f \in Fields : <<"record", k, f>> \in Parts
           /\ \A k \in HashNumbers, f \in Fields : Holdings(m, en)[<<"record", k, f>>] = OfKey(m, en, k, f)
<1>1. \A e \in Entries, f \in Fields : <<"entry", e, f>> \in Parts
  BY DEF Parts, Fields
<1>2. \A k \in HashNumbers, f \in Fields : <<"record", k, f>> \in Parts
  BY DEF Parts, Fields
<1> QED
  BY <1>1, <1>2 DEF Holdings

LEMMA PartsAre ==
    ASSUME NEW x \in Parts
    PROVE  \/ \E e \in Entries, f \in Fields : x = <<"entry", e, f>>
           \/ \E k \in HashNumbers, f \in Fields : x = <<"record", k, f>>
BY DEF Parts, Fields

\* At most the entries E and the records of the keys K are others in n and ex than in m and en.
Touches(m, en, n, ex, E, K) ==
    /\ E \subseteq Entries /\ K \subseteq HashNumbers
    /\ \A f \in Entries : f \notin E => ex[f] = en[f] /\ ~(en[f].state = "active" /\ en[f].key \in K)
    /\ \A f \in E : /\ en[f].state = "active" => en[f].key \in K
                    /\ ex[f].state = "active" => ex[f].key \in K
    /\ MapOK(n) /\ Shelved(n)
    /\ \A k \in HashNumbers : k \notin K => /\ HasRecord(n, k) <=> HasRecord(m, k)
                                            /\ HasRecord(m, k) => FindRecord(n, k) = FindRecord(m, k)

LEMMA TouchedBindings ==
    ASSUME NEW m, NEW en, NEW n, NEW ex, NEW E, NEW K, Touches(m, en, n, ex, E, K)
    PROVE  /\ \A k : k \notin K => (BoundActive(ex, k) <=> BoundActive(en, k))
           /\ \A k \in K : BoundActive(ex, k) <=>
                  \E e \in E : ex[e].state = "active" /\ ex[e].bound /\ ex[e].key = k
           /\ \A k \in K : BoundActive(en, k) <=>
                  \E e \in E : en[e].state = "active" /\ en[e].bound /\ en[e].key = k
<1>1. ASSUME NEW k, k \notin K PROVE BoundActive(ex, k) <=> BoundActive(en, k)
  BY <1>1 DEF Touches, BoundActive
<1>2. ASSUME NEW k \in K
      PROVE  BoundActive(ex, k) <=> \E e \in E : ex[e].state = "active" /\ ex[e].bound /\ ex[e].key = k
  BY DEF Touches, BoundActive
<1>3. ASSUME NEW k \in K
      PROVE  BoundActive(en, k) <=> \E e \in E : en[e].state = "active" /\ en[e].bound /\ en[e].key = k
  BY DEF Touches, BoundActive
<1> QED
  BY <1>1, <1>2, <1>3

LEMMA TouchedHoldings ==
    ASSUME NEW m, NEW en, NEW n, NEW ex, NEW E, NEW K, Touches(m, en, n, ex, E, K),
           NEW x \in Parts,
           \A e \in E : x # <<"entry", e, "data">> /\ x # <<"entry", e, "meta">>,
           \A k \in K : x # <<"record", k, "data">> /\ x # <<"record", k, "meta">>
    PROVE  Holdings(n, ex)[x] = Holdings(m, en)[x]
<1>1. CASE \E e \in Entries, f \in Fields : x = <<"entry", e, f>>
  <2>1. PICK e \in Entries, f \in Fields : x = <<"entry", e, f>>
    BY <1>1
  <2>2. e \notin E
    BY <2>1 DEF Fields
  <2>3. ex[e] = en[e]
    BY <2>2 DEF Touches
  <2> QED
    BY <2>1, <2>3, HoldingsAt
<1>2. CASE \E k \in HashNumbers, f \in Fields : x = <<"record", k, f>>
  <2>1. PICK k \in HashNumbers, f \in Fields : x = <<"record", k, f>>
    BY <1>2
  <2>2. k \notin K
    BY <2>1 DEF Fields
  <2>3. OfKey(n, ex, k, f) = OfKey(m, en, k, f)
    <3>1. BoundActive(ex, k) <=> BoundActive(en, k)
      BY <2>2, TouchedBindings
    <3>2. /\ HasRecord(n, k) <=> HasRecord(m, k)
          /\ HasRecord(m, k) => FindRecord(n, k) = FindRecord(m, k)
      BY <2>2 DEF Touches
    <3> QED
      BY <3>1, <3>2 DEF OfKey
  <2> QED
    BY <2>1, <2>3, HoldingsAt
<1> QED
  BY <1>1, <1>2, PartsAre

LEMMA TouchedBook ==
    ASSUME NEW m, NEW en, NEW n, NEW ex, NEW E, NEW K, Touches(m, en, n, ex, E, K), Booked(m, en),
           \A e \in E : ex[e].state = "active" => InBook(n, ex[e]),
           \A e, f \in E : e = f,
           \A k \in K : HasRecord(n, k) /\ ~BoundActive(ex, k) => FindRecord(n, k).meta # {},
           \A f \in Entries : en[f].state = "active" => en[f].key \in HashNumbers
    PROVE  Booked(n, ex)
<1>1. Shelved(n)
  BY DEF Touches
<1>2. ASSUME NEW e \in Entries, NEW f \in Entries, ex[e].state = "active", ex[f].state = "active",
             ex[e].key = ex[f].key
      PROVE  e = f
  <2>1. CASE e \in E /\ f \in E
    BY <2>1
  <2>2. CASE e \notin E /\ f \notin E
    BY <1>2, <2>2 DEF Touches, Booked
  <2>3. CASE e \in E /\ f \notin E
    BY <1>2, <2>3 DEF Touches
  <2>4. CASE e \notin E /\ f \in E
    BY <1>2, <2>4 DEF Touches
  <2> QED
    BY <2>1, <2>2, <2>3, <2>4
<1>3. ASSUME NEW e \in Entries, ex[e].state = "active" PROVE InBook(n, ex[e])
  <2>1. CASE e \in E
    BY <1>3, <2>1
  <2>2. CASE e \notin E
    <3>1. ex[e] = en[e] /\ en[e].key \notin K /\ en[e].key \in HashNumbers
      BY <1>3, <2>2 DEF Touches
    <3>2. /\ HasRecord(n, en[e].key) <=> HasRecord(m, en[e].key)
          /\ HasRecord(m, en[e].key) => FindRecord(n, en[e].key) = FindRecord(m, en[e].key)
      BY <3>1 DEF Touches
    <3>3. InBook(m, en[e])
      BY <1>3, <3>1 DEF Booked
    <3> QED
      BY <3>1, <3>2, <3>3 DEF InBook
  <2> QED
    BY <2>1, <2>2
<1>4. ASSUME NEW k \in HashNumbers, HasRecord(n, k), ~BoundActive(ex, k) PROVE FindRecord(n, k).meta # {}
  <2>1. CASE k \in K
    BY <1>4, <2>1
  <2>2. CASE k \notin K
    <3>1. ~BoundActive(en, k)
      BY <1>4, <2>2, TouchedBindings
    <3>2. HasRecord(m, k) /\ FindRecord(n, k) = FindRecord(m, k)
      BY <1>4, <2>2 DEF Touches
    <3> QED
      BY <3>1, <3>2 DEF Booked
  <2> QED
    BY <2>1, <2>2
<1> QED
  BY <1>1, <1>2, <1>3, <1>4 DEF Booked

\* Entry e and key k exchange what they own.
LEMMA AllottedMoved ==
    ASSUME NEW h, NEW g, NEW m, Allotted(h, m), NEW e \in Entries, NEW k \in HashNumbers,
           \A f \in Fields : g[<<"entry", e, f>>] = h[<<"record", k, f>>],
           \A f \in Fields : g[<<"record", k, f>>] = h[<<"entry", e, f>>],
           \A x \in Parts : /\ x # <<"entry", e, "data">> /\ x # <<"entry", e, "meta">>
                            /\ x # <<"record", k, "data">> /\ x # <<"record", k, "meta">>
                            => g[x] = h[x]
    PROVE  Allotted(g, m)
<1> DEFINE ed == <<"entry", e, "data">>
           em == <<"entry", e, "meta">>
           kd == <<"record", k, "data">>
           km == <<"record", k, "meta">>
           mid == [x \in Parts |-> IF x = ed THEN h[kd] ELSE IF x = kd THEN h[ed] ELSE h[x]]
<1>1. ed \in Parts /\ em \in Parts /\ kd \in Parts /\ km \in Parts
  BY DEF Parts
<1>2. ed # em /\ ed # kd /\ ed # km /\ em # kd /\ em # km /\ kd # km
  OBVIOUS
<1>3. g[ed] = h[kd] /\ g[em] = h[km] /\ g[kd] = h[ed] /\ g[km] = h[em]
  BY DEF Fields
<1>4. \A x \in Parts : x # ed /\ x # em /\ x # kd /\ x # km => g[x] = h[x]
  OBVIOUS
<1> HIDE DEF ed, em, kd, km
<1>5. mid[ed] = h[kd] /\ mid[kd] = h[ed] /\ \A x \in Parts \ {ed, kd} : mid[x] = h[x]
  BY <1>1, <1>2
<1> HIDE DEF mid
<1>6. Allotted(mid, m)
  BY <1>1, <1>2, <1>5, AllottedSwap
<1>7. g[em] = mid[km] /\ g[km] = mid[em] /\ \A x \in Parts \ {em, km} : g[x] = mid[x]
  BY <1>1, <1>2, <1>3, <1>4, <1>5
<1> QED
  BY <1>1, <1>2, <1>6, <1>7, AllottedSwap

\* Two parts are freed one after the other.
LEMMA AllottedFreedTwo ==
    ASSUME NEW h, NEW g, NEW m \in MapRecord, Allotted(h, m), NEW a \in Parts, NEW b \in Parts, a # b,
           g[a] = {}, g[b] = {}, \A x \in Parts : x # a /\ x # b => g[x] = h[x]
    PROVE  /\ Allotted(g, DeleteStorage(DeleteStorage(m, h[a]), h[b]))
           /\ DeleteStorage(DeleteStorage(m, h[a]), h[b]) \in MapRecord
           /\ SameRecords(m, DeleteStorage(DeleteStorage(m, h[a]), h[b]))
<1> DEFINE mid == [x \in Parts |-> IF x = a THEN {} ELSE h[x]]
           n == DeleteStorage(m, h[a])
           p == DeleteStorage(n, h[b])
<1>1. mid[a] = {} /\ mid[b] = h[b] /\ \A x \in Parts \ {a} : mid[x] = h[x]
  OBVIOUS
<1>2. h[a] \in SUBSET Blocks /\ h[b] \in SUBSET Blocks
  BY DEF Allotted, MapRecord
<1> HIDE DEF mid
<1>3. Allotted(mid, n)
  BY <1>1, AllottedFreed
<1>4. n \in MapRecord /\ SameRecords(m, n)
  BY <1>2, DeleteStorageFacts
<1> HIDE DEF n
<1>5. \A x \in Parts \ {b} : g[x] = mid[x]
  BY <1>1
<1>6. Allotted(g, DeleteStorage(n, mid[b]))
  BY <1>3, <1>4, <1>5, AllottedFreed
<1>7. p \in MapRecord /\ SameRecords(n, p)
  BY <1>2, <1>4, DeleteStorageFacts
<1>8. Allotted(g, p)
  BY <1>1, <1>6
<1> HIDE DEF p
<1>9. SameRecords(m, p)
  BY <1>4, <1>7 DEF SameRecords
<1> QED
  BY <1>7, <1>8, <1>9 DEF n, p

-----------------------------------------------------------------------------
(* The cache of a call: its types, and one entry changes.                   *)

Cases == {"seen", "late", "empty", "severed", "halfwiped"}
Caches == [map : MapRecord, entry : [Entries -> Entry], amiss : SUBSET Cases]

\* What an entry is while it is free, in use, and bound.
EntryOK(x) ==
    /\ x \in Entry
    /\ x.state = "free" => x = Free
    /\ x.state # "free" => x.key \in HashNumbers
    /\ x.bound => x.state # "free" /\ x.mRecord \in Record /\ x.mRecord.hash = x.key
    /\ x.mOutStream \/ x.mBufDirty => x.bound

CacheOK(c) == c \in Caches /\ MapOK(c.map) /\ \A e \in Entries : EntryOK(c.entry[e])

\* All is in order until something goes amiss.
Good(c) == c.amiss = {} => InOrder(c.map, c.entry)

Changed(c, n, e, y, a) == [map |-> n, entry |-> [c.entry EXCEPT ![e] = y], amiss |-> a]

LEMMA CacheFields ==
    ASSUME NEW c, CacheOK(c)
    PROVE  /\ c.map \in MapRecord /\ MapOK(c.map) /\ c.entry \in [Entries -> Entry] /\ c.amiss \in SUBSET Cases
           /\ c = [map |-> c.map, entry |-> c.entry, amiss |-> c.amiss]
           /\ \A e \in Entries : EntryOK(c.entry[e]) /\ c.entry[e] \in Entry
BY DEF CacheOK, Caches, EntryOK

LEMMA ChangedFields ==
    ASSUME NEW c, CacheOK(c), NEW n, MapOK(n), NEW e \in Entries, NEW y, EntryOK(y), NEW a \in SUBSET Cases
    PROVE  LET d == Changed(c, n, e, y, a)
           IN  /\ d.map = n /\ d.amiss = a /\ d.entry[e] = y
               /\ \A f \in Entries : f # e => d.entry[f] = c.entry[f]
               /\ CacheOK(d)
<1> DEFINE d == Changed(c, n, e, y, a)
<1>1. d.map = n /\ d.amiss = a /\ d.entry = [c.entry EXCEPT ![e] = y]
  BY DEF Changed
<1>2. c.entry \in [Entries -> Entry] /\ y \in Entry /\ n \in MapRecord
  BY CacheFields DEF EntryOK, MapOK
<1>3. d.entry[e] = y /\ \A f \in Entries : f # e => d.entry[f] = c.entry[f]
  BY <1>1, <1>2
<1>4. d \in Caches
  BY <1>2 DEF Changed, Caches
<1>5. \A f \in Entries : EntryOK(d.entry[f])
  BY <1>3, CacheFields
<1> HIDE DEF d
<1>6. CacheOK(d)
  BY <1>1, <1>4, <1>5 DEF CacheOK
<1> QED
  BY <1>1, <1>3, <1>6 DEF d

LEMMA ActiveKeys ==
    ASSUME NEW c, CacheOK(c)
    PROVE  \A f \in Entries : c.entry[f].state = "active" => c.entry[f].key \in HashNumbers
BY CacheFields DEF EntryOK

\* One entry and one key are touched, or one entry that no key depends on.
TouchesOne(m, en, n, ex, e, k) == Touches(m, en, n, ex, {e}, {k})
TouchesAside(m, en, n, ex, e) == Touches(m, en, n, ex, {e}, {})

\* An entry that is not active changes, and no record does.
LEMMA AsideTouches ==
    ASSUME NEW c, CacheOK(c), NEW n, MapOK(n), NEW e \in Entries, NEW y, EntryOK(y), NEW a \in SUBSET Cases,
           Even(c.map, n), c.entry[e].state # "active", y.state # "active"
    PROVE  TouchesAside(c.map, c.entry, n, Changed(c, n, e, y, a).entry, e)
BY ChangedFields DEF TouchesAside, Touches, Even

\* The one entry that is active for a key changes, and the record of the key may.
LEMMA OwnTouches ==
    ASSUME NEW c, CacheOK(c), Booked(c.map, c.entry), NEW n, MapOK(n), Shelved(n), NEW e \in Entries,
           NEW y, EntryOK(y), NEW a \in SUBSET Cases, NEW k \in HashNumbers,
           c.entry[e].state = "active" => c.entry[e].key = k,
           c.entry[e].state = "active" \/ \A f \in Entries : ~(c.entry[f].state = "active" /\ c.entry[f].key = k),
           y.state = "active" => y.key = k,
           \A j \in HashNumbers : j # k => /\ HasRecord(n, j) <=> HasRecord(c.map, j)
                                           /\ HasRecord(c.map, j) => FindRecord(n, j) = FindRecord(c.map, j)
    PROVE  TouchesOne(c.map, c.entry, n, Changed(c, n, e, y, a).entry, e, k)
<1> DEFINE ex == Changed(c, n, e, y, a).entry
<1>1. ex[e] = y /\ \A f \in Entries : f # e => ex[f] = c.entry[f]
  BY ChangedFields
<1>2. \A f \in Entries : f # e => ~(c.entry[f].state = "active" /\ c.entry[f].key = k)
  BY DEF Booked
<1> HIDE DEF ex
<1>3. TouchesOne(c.map, c.entry, n, ex, e, k)
  BY <1>1, <1>2 DEF TouchesOne, Touches
<1> QED
  BY <1>3 DEF ex

LEMMA NoKeyBook ==
    ASSUME NEW m, NEW en, NEW n, NEW ex, NEW e, TouchesAside(m, en, n, ex, e), Booked(m, en),
           ex[e].state # "active",
           \A f \in Entries : en[f].state = "active" => en[f].key \in HashNumbers
    PROVE  Booked(n, ex)
<1> DEFINE E == {e}
           K == {}
<1>1. Touches(m, en, n, ex, E, K)
  BY DEF TouchesAside
<1>2. \A f \in E : ex[f].state = "active" => InBook(n, ex[f])
  OBVIOUS
<1>3. \A f, g \in E : f = g
  OBVIOUS
<1>4. \A k \in K : HasRecord(n, k) /\ ~BoundActive(ex, k) => FindRecord(n, k).meta # {}
  OBVIOUS
<1> HIDE DEF E, K
<1> QED
  BY <1>1, <1>2, <1>3, <1>4, TouchedBook

LEMMA OneKeyBook ==
    ASSUME NEW m, NEW en, NEW n, NEW ex, NEW e, NEW k, TouchesOne(m, en, n, ex, e, k), Booked(m, en),
           ex[e].state = "active" => InBook(n, ex[e]),
           HasRecord(n, k) /\ ~(ex[e].state = "active" /\ ex[e].bound /\ ex[e].key = k) => FindRecord(n, k).meta # {},
           \A f \in Entries : en[f].state = "active" => en[f].key \in HashNumbers
    PROVE  Booked(n, ex)
<1> DEFINE E == {e}
           K == {k}
<1>1. Touches(m, en, n, ex, E, K)
  BY DEF TouchesOne
<1>2. \A f \in E : ex[f].state = "active" => InBook(n, ex[f])
  OBVIOUS
<1>3. \A f, g \in E : f = g
  OBVIOUS
<1>4. \A j \in K : HasRecord(n, j) /\ ~BoundActive(ex, j) => FindRecord(n, j).meta # {}
  <2>1. k \in K /\ e \in E
    OBVIOUS
  <2>2. BoundActive(ex, k) <=> \E f \in E : ex[f].state = "active" /\ ex[f].bound /\ ex[f].key = k
    BY <1>1, <2>1, TouchedBindings
  <2> QED
    BY <2>2
<1> HIDE DEF E, K
<1> QED
  BY <1>1, <1>2, <1>3, <1>4, TouchedBook

\* What the record of a key owns beside the entry x that may have it bound.
Beside(m, x, k, field) ==
    IF HasRecord(m, k) /\ ~(x.state = "active" /\ x.bound /\ x.key = k)
    THEN Piece(FindRecord(m, k), field) ELSE {}

\* The parts of all but one entry and one key, or one entry, are the same.
SameElsewhere(h, g, e, k) ==
    \A x \in Parts : /\ x # <<"entry", e, "data">> /\ x # <<"entry", e, "meta">>
                     /\ x # <<"record", k, "data">> /\ x # <<"record", k, "meta">>
                     => g[x] = h[x]
SameAround(h, g, e) ==
    \A x \in Parts : x # <<"entry", e, "data">> /\ x # <<"entry", e, "meta">> => g[x] = h[x]

\* The parts of an entry and of a key.
EntryHolds(h, x, e) == \A f \in Fields : h[<<"entry", e, f>>] = OfEntry(x, f)
KeyHolds(h, m, x, k) == \A f \in Fields : h[<<"record", k, f>>] = Beside(m, x, k, f)

LEMMA OneKeyHoldings ==
    ASSUME NEW m, NEW en, NEW n, NEW ex, NEW e, NEW k, TouchesOne(m, en, n, ex, e, k),
           NEW h, NEW g, h = Holdings(m, en), g = Holdings(n, ex)
    PROVE  /\ SameElsewhere(h, g, e, k)
           /\ EntryHolds(h, en[e], e) /\ EntryHolds(g, ex[e], e)
           /\ KeyHolds(h, m, en[e], k) /\ KeyHolds(g, n, ex[e], k)
<1> DEFINE E == {e}
           K == {k}
<1>1. Touches(m, en, n, ex, E, K)
  BY DEF TouchesOne
<1>2. e \in E /\ k \in K /\ (\A f \in E : f = e) /\ (\A j \in K : j = k)
  OBVIOUS
<1> HIDE DEF E, K
<1>3. e \in Entries /\ k \in HashNumbers
  BY <1>1, <1>2 DEF Touches
<1>4. ASSUME NEW x \in Parts, x # <<"entry", e, "data">>, x # <<"entry", e, "meta">>,
             x # <<"record", k, "data">>, x # <<"record", k, "meta">>
      PROVE  g[x] = h[x]
  BY <1>1, <1>2, <1>4, TouchedHoldings
<1>5. BoundActive(ex, k) <=> ex[e].state = "active" /\ ex[e].bound /\ ex[e].key = k
  BY <1>1, <1>2, TouchedBindings
<1>6. BoundActive(en, k) <=> en[e].state = "active" /\ en[e].bound /\ en[e].key = k
  BY <1>1, <1>2, TouchedBindings
<1>7. \A f \in Fields : h[<<"entry", e, f>>] = OfEntry(en[e], f) /\ g[<<"entry", e, f>>] = OfEntry(ex[e], f)
  BY <1>3, HoldingsAt
<1>8. \A f \in Fields : h[<<"record", k, f>>] = OfKey(m, en, k, f) /\ g[<<"record", k, f>>] = OfKey(n, ex, k, f)
  BY <1>3, HoldingsAt
<1>9. \A f \in Fields : OfKey(m, en, k, f) = Beside(m, en[e], k, f) /\ OfKey(n, ex, k, f) = Beside(n, ex[e], k, f)
  BY <1>5, <1>6 DEF OfKey, Beside
<1>10. SameElsewhere(h, g, e, k)
  BY <1>4 DEF SameElsewhere
<1>11. EntryHolds(h, en[e], e) /\ EntryHolds(g, ex[e], e)
  BY <1>7 DEF EntryHolds
<1>12. KeyHolds(h, m, en[e], k) /\ KeyHolds(g, n, ex[e], k)
  BY <1>8, <1>9 DEF KeyHolds
<1> QED
  BY <1>10, <1>11, <1>12

LEMMA NoKeyHoldings ==
    ASSUME NEW m, NEW en, NEW n, NEW ex, NEW e, TouchesAside(m, en, n, ex, e),
           NEW h, NEW g, h = Holdings(m, en), g = Holdings(n, ex)
    PROVE  SameAround(h, g, e) /\ EntryHolds(h, en[e], e) /\ EntryHolds(g, ex[e], e)
<1> DEFINE E == {e}
           K == {}
<1>1. Touches(m, en, n, ex, E, K)
  BY DEF TouchesAside
<1>2. e \in E /\ (\A f \in E : f = e) /\ (\A j \in K : FALSE)
  OBVIOUS
<1> HIDE DEF E, K
<1>3. e \in Entries
  BY <1>1, <1>2 DEF Touches
<1>4. ASSUME NEW x \in Parts, x # <<"entry", e, "data">>, x # <<"entry", e, "meta">>
      PROVE  g[x] = h[x]
  BY <1>1, <1>2, <1>4, TouchedHoldings
<1>5. \A f \in Fields : h[<<"entry", e, f>>] = OfEntry(en[e], f) /\ g[<<"entry", e, f>>] = OfEntry(ex[e], f)
  BY <1>3, HoldingsAt
<1>6. SameAround(h, g, e)
  BY <1>4 DEF SameAround
<1> QED
  BY <1>5, <1>6 DEF EntryHolds

-----------------------------------------------------------------------------
(* Calls that allocate and free nothing.                                    *)

LEMMA KeptOrder ==
    ASSUME NEW m, NEW en, NEW n, NEW ex, NEW e, NEW k, TouchesOne(m, en, n, ex, e, k),
           InOrder(m, en), Booked(n, ex), SameStorage(m, n),
           \A f \in Fields : OfEntry(ex[e], f) = OfEntry(en[e], f),
           \A f \in Fields : Beside(n, ex[e], k, f) = Beside(m, en[e], k, f)
    PROVE  InOrder(n, ex)
<1>1. PICK h, g : h = Holdings(m, en) /\ g = Holdings(n, ex)
  OBVIOUS
<1>2. /\ SameElsewhere(h, g, e, k)
      /\ EntryHolds(h, en[e], e) /\ EntryHolds(g, ex[e], e)
      /\ KeyHolds(h, m, en[e], k) /\ KeyHolds(g, n, ex[e], k)
  BY <1>1, OneKeyHoldings
<1>3. \A f \in Fields : /\ g[<<"entry", e, f>>] = h[<<"entry", e, f>>]
                        /\ g[<<"record", k, f>>] = h[<<"record", k, f>>]
  BY <1>2 DEF EntryHolds, KeyHolds
<1>4. "data" \in Fields /\ "meta" \in Fields
  BY DEF Fields
<1>5. \A x \in Parts : g[x] = h[x]
  BY <1>2, <1>3, <1>4 DEF SameElsewhere
<1>6. Allotted(h, m)
  BY <1>1 DEF InOrder
<1>7. Allotted(g, n)
  BY <1>5, <1>6, AllottedSame
<1> QED
  BY <1>1, <1>7 DEF InOrder

LEMMA KeptAside ==
    ASSUME NEW m, NEW en, NEW n, NEW ex, NEW e, TouchesAside(m, en, n, ex, e),
           InOrder(m, en), Booked(n, ex), SameStorage(m, n),
           \A f \in Fields : OfEntry(ex[e], f) = OfEntry(en[e], f)
    PROVE  InOrder(n, ex)
<1>1. PICK h, g : h = Holdings(m, en) /\ g = Holdings(n, ex)
  OBVIOUS
<1>2. SameAround(h, g, e) /\ EntryHolds(h, en[e], e) /\ EntryHolds(g, ex[e], e)
  BY <1>1, NoKeyHoldings
<1>3. \A f \in Fields : g[<<"entry", e, f>>] = h[<<"entry", e, f>>]
  BY <1>2 DEF EntryHolds
<1>4. "data" \in Fields /\ "meta" \in Fields
  BY DEF Fields
<1>5. \A x \in Parts : g[x] = h[x]
  BY <1>2, <1>3, <1>4 DEF SameAround
<1>6. Allotted(h, m)
  BY <1>1 DEF InOrder
<1>7. Allotted(g, n)
  BY <1>5, <1>6, AllottedSame
<1> QED
  BY <1>1, <1>7 DEF InOrder

\* The map itself, for an entry that changes and the map does not.
LEMMA SameMap ==
    ASSUME NEW m, MapOK(m), Shelved(m)
    PROVE  Even(m, m) /\ SameStorage(m, m)
BY DEF Even, SameStorage

\* What an entry owns stays the same, and so does what it is to the others.
LEMMA EntryTweak ==
    ASSUME NEW c, CacheOK(c), InOrder(c.map, c.entry), NEW e \in Entries, NEW y, EntryOK(y),
           NEW a \in SUBSET Cases,
           y.state = c.entry[e].state, y.key = c.entry[e].key, y.bound = c.entry[e].bound,
           y.bound => y.mRecord = c.entry[e].mRecord,
           y.bound /\ y.state = "active" /\ ~y.mBufDirty =>
               ~c.entry[e].mBufDirty \/ FindRecord(c.map, y.key) = y.mRecord
    PROVE  InOrder(c.map, Changed(c, c.map, e, y, a).entry)
<1> DEFINE x == c.entry[e]
           m == c.map
           en == c.entry
           ex == Changed(c, c.map, e, y, a).entry
<1>1. MapOK(m) /\ EntryOK(x) /\ Booked(m, en) /\ Shelved(m)
  BY CacheFields DEF InOrder, Booked
<1>2. ex[e] = y
  BY <1>1, ChangedFields
<1>3. \A f \in Entries : en[f].state = "active" => en[f].key \in HashNumbers
  BY ActiveKeys
<1>4. \A f \in Fields : OfEntry(y, f) = OfEntry(x, f)
  BY DEF OfEntry
<1>5. Even(m, m) /\ SameStorage(m, m)
  BY <1>1, SameMap
<1>6. CASE x.state = "active"
  <2> DEFINE k == x.key
  <2>1. k \in HashNumbers
    BY <1>3, <1>6
  <2>2. TouchesOne(m, en, m, ex, e, k)
    BY <1>1, <1>6, <2>1, OwnTouches
  <2>3. InBook(m, x)
    BY <1>1, <1>6 DEF Booked
  <2>4. InBook(m, y)
    BY <1>6, <2>3 DEF InBook
  <2>5. HasRecord(m, k) => x.bound
    BY <2>3 DEF InBook
  <2> HIDE DEF ex
  <2>6. Booked(m, ex)
    BY <1>1, <1>2, <1>3, <1>6, <2>2, <2>4, <2>5, OneKeyBook
  <2>7. \A f \in Fields : Beside(m, ex[e], k, f) = Beside(m, en[e], k, f)
    BY <1>2 DEF Beside
  <2>8. \A f \in Fields : OfEntry(ex[e], f) = OfEntry(en[e], f)
    BY <1>2, <1>4
  <2> HIDE DEF k
  <2>9. InOrder(m, ex)
    BY <1>5, <2>2, <2>6, <2>7, <2>8, KeptOrder
  <2> QED
    BY <2>9 DEF ex
<1>7. CASE x.state # "active"
  <2>1. TouchesAside(m, en, m, ex, e)
    BY <1>1, <1>5, <1>7, AsideTouches
  <2> HIDE DEF ex
  <2>2. Booked(m, ex)
    BY <1>1, <1>2, <1>3, <1>7, <2>1, NoKeyBook
  <2>3. \A f \in Fields : OfEntry(ex[e], f) = OfEntry(en[e], f)
    BY <1>2, <1>4
  <2>4. InOrder(m, ex)
    BY <1>5, <2>1, <2>2, <2>3, KeptAside
  <2> QED
    BY <2>4 DEF ex
<1> QED
  BY <1>6, <1>7

\* An entry without a binding comes and goes; while it is active its key has no record.
LEMMA UnboundOrder ==
    ASSUME NEW c, CacheOK(c), InOrder(c.map, c.entry), NEW e \in Entries, NEW y, EntryOK(y),
           NEW a \in SUBSET Cases, ~c.entry[e].bound, ~y.bound,
           c.entry[e].state = "active" /\ y.state = "active" => y.key = c.entry[e].key,
           c.entry[e].state # "active" /\ y.state = "active" =>
               /\ ~HasRecord(c.map, y.key)
               /\ \A f \in Entries : ~(c.entry[f].state = "active" /\ c.entry[f].key = y.key)
    PROVE  InOrder(c.map, Changed(c, c.map, e, y, a).entry)
<1> DEFINE x == c.entry[e]
           m == c.map
           en == c.entry
           ex == Changed(c, c.map, e, y, a).entry
           k == IF x.state = "active" THEN x.key ELSE y.key
<1>1. MapOK(m) /\ EntryOK(x) /\ Booked(m, en) /\ Shelved(m)
  BY CacheFields DEF InOrder, Booked
<1>2. ex[e] = y
  BY <1>1, ChangedFields
<1>3. \A f \in Entries : en[f].state = "active" => en[f].key \in HashNumbers
  BY ActiveKeys
<1>4. \A f \in Fields : OfEntry(y, f) = OfEntry(x, f)
  BY DEF OfEntry
<1>5. Even(m, m) /\ SameStorage(m, m)
  BY <1>1, SameMap
<1>6. CASE x.state = "active" \/ y.state = "active"
  <2>1. k \in HashNumbers
    BY <1>3, <1>6 DEF EntryOK
  <2>2. TouchesOne(m, en, m, ex, e, k)
    BY <1>1, <1>6, <2>1, OwnTouches
  <2>3. x.state = "active" => InBook(m, x)
    BY <1>1 DEF Booked
  <2>4. ~HasRecord(m, k)
    BY <1>6, <2>3 DEF InBook
  <2>5. y.state = "active" => InBook(m, y)
    BY <2>4 DEF InBook
  <2> HIDE DEF ex, k
  <2>6. Booked(m, ex)
    BY <1>1, <1>2, <1>3, <2>2, <2>4, <2>5, OneKeyBook
  <2>7. \A f \in Fields : Beside(m, ex[e], k, f) = Beside(m, en[e], k, f)
    BY <2>4 DEF Beside
  <2>8. \A f \in Fields : OfEntry(ex[e], f) = OfEntry(en[e], f)
    BY <1>2, <1>4
  <2>9. InOrder(m, ex)
    BY <1>5, <2>2, <2>6, <2>7, <2>8, KeptOrder
  <2> QED
    BY <2>9 DEF ex
<1>7. CASE ~(x.state = "active" \/ y.state = "active")
  <2>1. TouchesAside(m, en, m, ex, e)
    BY <1>1, <1>5, <1>7, AsideTouches
  <2> HIDE DEF ex
  <2>2. Booked(m, ex)
    BY <1>1, <1>2, <1>3, <1>7, <2>1, NoKeyBook
  <2>3. \A f \in Fields : OfEntry(ex[e], f) = OfEntry(en[e], f)
    BY <1>2, <1>4
  <2>4. InOrder(m, ex)
    BY <1>5, <2>1, <2>2, <2>3, KeptAside
  <2> QED
    BY <2>4 DEF ex
<1> QED
  BY <1>6, <1>7

\* A doomed entry gets a binding that owns nothing, or gives up one that owns nothing.
LEMMA EmptyOrder ==
    ASSUME NEW c, CacheOK(c), InOrder(c.map, c.entry), NEW e \in Entries, NEW y, EntryOK(y),
           NEW a \in SUBSET Cases, c.entry[e].state # "active", y.state # "active",
           c.entry[e].bound => c.entry[e].mRecord.data = {} /\ c.entry[e].mRecord.meta = {},
           y.bound => y.mRecord.data = {} /\ y.mRecord.meta = {}
    PROVE  InOrder(c.map, Changed(c, c.map, e, y, a).entry)
<1> DEFINE m == c.map
           en == c.entry
           ex == Changed(c, c.map, e, y, a).entry
<1>1. MapOK(m) /\ Booked(m, en) /\ Shelved(m)
  BY CacheFields DEF InOrder, Booked
<1>2. ex[e] = y
  BY <1>1, ChangedFields
<1>3. \A f \in Entries : en[f].state = "active" => en[f].key \in HashNumbers
  BY ActiveKeys
<1>4. \A f \in Fields : OfEntry(y, f) = OfEntry(en[e], f)
  BY DEF OfEntry, Piece
<1>5. Even(m, m) /\ SameStorage(m, m)
  BY <1>1, SameMap
<1>6. TouchesAside(m, en, m, ex, e)
  BY <1>1, <1>5, AsideTouches
<1> HIDE DEF ex
<1>7. Booked(m, ex)
  BY <1>1, <1>2, <1>3, <1>6, NoKeyBook
<1>8. \A f \in Fields : OfEntry(ex[e], f) = OfEntry(en[e], f)
  BY <1>2, <1>4
<1>9. InOrder(m, ex)
  BY <1>5, <1>6, <1>7, <1>8, KeptAside
<1> QED
  BY <1>9 DEF ex

\* An active entry is doomed, and its record goes.
LEMMA DoomedOrder ==
    ASSUME NEW c, CacheOK(c), InOrder(c.map, c.entry), NEW e \in Entries, NEW y, EntryOK(y),
           NEW a \in SUBSET Cases, NEW n,
           c.entry[e].state = "active", y.state = "doomed", y.bound = c.entry[e].bound,
           y.mRecord = c.entry[e].mRecord, Minus(c.map, n, c.entry[e].key), SameStorage(c.map, n)
    PROVE  InOrder(n, Changed(c, n, e, y, a).entry)
<1> DEFINE x == c.entry[e]
           m == c.map
           en == c.entry
           ex == Changed(c, n, e, y, a).entry
           k == x.key
<1>1. MapOK(m) /\ EntryOK(x) /\ Booked(m, en) /\ MapOK(n) /\ Shelved(n)
  BY CacheFields DEF InOrder, Minus
<1>2. ex[e] = y
  BY <1>1, ChangedFields
<1>3. \A f \in Entries : en[f].state = "active" => en[f].key \in HashNumbers
  BY ActiveKeys
<1>4. \A f \in Fields : OfEntry(y, f) = OfEntry(x, f)
  BY DEF OfEntry
<1>5. k \in HashNumbers
  BY <1>3
<1>0. Minus(m, n, k)
  OBVIOUS
<1> HIDE DEF k
<1>6. /\ ~HasRecord(n, k)
      /\ \A j \in HashNumbers : j # k => /\ HasRecord(n, j) <=> HasRecord(m, j)
                                         /\ HasRecord(m, j) => FindRecord(n, j) = FindRecord(m, j)
  BY <1>0, <1>5 DEF Minus
<1>7. TouchesOne(m, en, n, ex, e, k)
  BY <1>1, <1>5, <1>6, OwnTouches DEF k
<1>8. InBook(m, x)
  BY <1>1 DEF Booked
<1>9. x.bound \/ ~HasRecord(m, k)
  BY <1>8 DEF InBook, k
<1> HIDE DEF ex
<1>10. Booked(n, ex)
  BY <1>1, <1>2, <1>3, <1>6, <1>7, OneKeyBook
<1>11. \A f \in Fields : Beside(n, ex[e], k, f) = Beside(m, en[e], k, f)
  BY <1>2, <1>6, <1>9 DEF Beside, k
<1>12. \A f \in Fields : OfEntry(ex[e], f) = OfEntry(en[e], f)
  BY <1>2, <1>4
<1>13. InOrder(n, ex)
  BY <1>7, <1>10, <1>11, <1>12, KeptOrder
<1> QED
  BY <1>13 DEF ex

\* An entry takes what the record of its key owns.
LEMMA TakenOrder ==
    ASSUME NEW c, CacheOK(c), InOrder(c.map, c.entry), NEW e \in Entries, NEW y, EntryOK(y),
           NEW a \in SUBSET Cases, c.entry[e].state = "free", y.state = "active", y.bound,
           \A f \in Entries : ~(c.entry[f].state = "active" /\ c.entry[f].key = y.key),
           HasRecord(c.map, y.key), y.mRecord = FindRecord(c.map, y.key)
    PROVE  InOrder(c.map, Changed(c, c.map, e, y, a).entry)
<1> DEFINE x == c.entry[e]
           m == c.map
           en == c.entry
           ex == Changed(c, c.map, e, y, a).entry
           k == y.key
<1>1. MapOK(m) /\ EntryOK(x) /\ Booked(m, en) /\ Shelved(m)
  BY CacheFields DEF InOrder, Booked
<1>2. ex[e] = y
  BY <1>1, ChangedFields
<1>3. \A f \in Entries : en[f].state = "active" => en[f].key \in HashNumbers
  BY ActiveKeys
<1>4. k \in HashNumbers
  BY DEF EntryOK
<1>5. TouchesOne(m, en, m, ex, e, k)
  BY <1>1, <1>4, OwnTouches
<1>6. InBook(m, y)
  BY DEF InBook
<1>7. ~x.bound
  BY <1>1 DEF EntryOK, Free
<1> HIDE DEF ex
<1>8. Booked(m, ex)
  BY <1>1, <1>2, <1>3, <1>5, <1>6, OneKeyBook
<1>9. HasRecord(m, k) /\ y.mRecord = FindRecord(m, k)
  OBVIOUS
<1> HIDE DEF k
<1>10. PICK h, g : h = Holdings(m, en) /\ g = Holdings(m, ex)
  OBVIOUS
<1>11. /\ SameElsewhere(h, g, e, k)
       /\ EntryHolds(h, x, e) /\ EntryHolds(g, y, e)
       /\ KeyHolds(h, m, x, k) /\ KeyHolds(g, m, y, k)
  BY <1>2, <1>5, <1>10, OneKeyHoldings
<1>12. \A f \in Fields : /\ OfEntry(x, f) = {} /\ Beside(m, x, k, f) = Piece(y.mRecord, f)
                         /\ OfEntry(y, f) = Piece(y.mRecord, f) /\ Beside(m, y, k, f) = {}
  BY <1>7, <1>9 DEF OfEntry, Beside, k
<1>13. \A f \in Fields : g[<<"entry", e, f>>] = h[<<"record", k, f>>] /\ g[<<"record", k, f>>] = h[<<"entry", e, f>>]
  BY <1>11, <1>12 DEF EntryHolds, KeyHolds
<1>14. Allotted(h, m)
  BY <1>10 DEF InOrder
<1>15. Allotted(g, m)
  BY <1>4, <1>11, <1>13, <1>14, AllottedMoved DEF SameElsewhere
<1>16. InOrder(m, ex)
  BY <1>8, <1>10, <1>15 DEF InOrder
<1> QED
  BY <1>16 DEF ex

\* And gives it back.
LEMMA GivenOrder ==
    ASSUME NEW c, CacheOK(c), InOrder(c.map, c.entry), NEW e \in Entries, NEW a \in SUBSET Cases,
           c.entry[e].state = "active", c.entry[e].bound,
           FindRecord(c.map, c.entry[e].key) = c.entry[e].mRecord, c.entry[e].mRecord.meta # {}, EntryOK(Free)
    PROVE  InOrder(c.map, Changed(c, c.map, e, Free, a).entry)
<1> DEFINE x == c.entry[e]
           m == c.map
           en == c.entry
           ex == Changed(c, c.map, e, Free, a).entry
           k == x.key
<1>1. MapOK(m) /\ EntryOK(x) /\ Booked(m, en) /\ Shelved(m)
  BY CacheFields DEF InOrder, Booked
<1>2. ex[e] = Free
  BY <1>1, ChangedFields
<1>3. \A f \in Entries : en[f].state = "active" => en[f].key \in HashNumbers
  BY ActiveKeys
<1>4. k \in HashNumbers
  BY <1>3
<1>5. Free.state # "active" /\ ~Free.bound
  BY DEF Free
<1>6. TouchesOne(m, en, m, ex, e, k)
  BY <1>1, <1>4, <1>5, OwnTouches
<1>7. InBook(m, x)
  BY <1>1 DEF Booked
<1>8. HasRecord(m, k)
  BY <1>7 DEF InBook
<1> HIDE DEF ex
<1>9. Booked(m, ex)
  BY <1>1, <1>2, <1>3, <1>5, <1>6, OneKeyBook
<1> HIDE DEF k
<1>10. PICK h, g : h = Holdings(m, en) /\ g = Holdings(m, ex)
  OBVIOUS
<1>11. /\ SameElsewhere(h, g, e, k)
       /\ EntryHolds(h, x, e) /\ EntryHolds(g, Free, e)
       /\ KeyHolds(h, m, x, k) /\ KeyHolds(g, m, Free, k)
  BY <1>2, <1>6, <1>10, OneKeyHoldings
<1>12. \A f \in Fields : /\ OfEntry(Free, f) = {} /\ Beside(m, Free, k, f) = Piece(x.mRecord, f)
                         /\ OfEntry(x, f) = Piece(x.mRecord, f) /\ Beside(m, x, k, f) = {}
  BY <1>5, <1>8 DEF OfEntry, Beside, k
<1>13. \A f \in Fields : g[<<"entry", e, f>>] = h[<<"record", k, f>>] /\ g[<<"record", k, f>>] = h[<<"entry", e, f>>]
  BY <1>11, <1>12 DEF EntryHolds, KeyHolds
<1>14. Allotted(h, m)
  BY <1>10 DEF InOrder
<1>15. Allotted(g, m)
  BY <1>4, <1>11, <1>13, <1>14, AllottedMoved DEF SameElsewhere
<1>16. InOrder(m, ex)
  BY <1>9, <1>10, <1>15 DEF InOrder
<1> QED
  BY <1>16 DEF ex

-----------------------------------------------------------------------------
(* Binding and dooming.                                                     *)

LEMMA FreeOK == EntryOK(Free)
BY DEF EntryOK, Free, Entry

LEMMA DeleteAllStorageFacts ==
    ASSUME NEW m, MapOK(m), NEW r \in Record
    PROVE  /\ MapOK(DeleteAllStorage(m, r)) /\ SameRecords(m, DeleteAllStorage(m, r))
           /\ Shelved(m) => Shelved(DeleteAllStorage(m, r)) /\ Even(m, DeleteAllStorage(m, r))
<1> DEFINE n == DeleteStorage(m, r.data)
           p == DeleteStorage(n, r.meta)
<1>1. r.data \in SUBSET Blocks /\ r.meta \in SUBSET Blocks /\ m \in MapRecord
  BY DEF Record, MapOK
<1>2. n \in MapRecord /\ SameRecords(m, n)
  BY <1>1, DeleteStorageFacts
<1> HIDE DEF n
<1>3. p \in MapRecord /\ SameRecords(n, p)
  BY <1>1, <1>2, DeleteStorageFacts
<1>4. DeleteAllStorage(m, r) = p
  BY DEF DeleteAllStorage, n
<1> HIDE DEF p
<1>5. SameRecords(m, p)
  BY <1>2, <1>3 DEF SameRecords
<1>6. MapOK(p)
  BY <1>3, <1>5, SameRecordsFacts
<1>7. Shelved(m) => Shelved(p) /\ Even(m, p)
  BY <1>3, <1>5, SameRecordsFacts, EvenSame
<1> QED
  BY <1>4, <1>5, <1>6, <1>7

LEMMA DeleteAllStorageSame ==
    ASSUME NEW m, MapOK(m), NEW n, MapOK(n), SameStorage(m, n), NEW r \in Record
    PROVE  SameStorage(DeleteAllStorage(m, r), DeleteAllStorage(n, r))
<1>1. ASSUME NEW p \in MapRecord, NEW q \in MapRecord, SameStorage(p, q), NEW s \in SUBSET Blocks
      PROVE  SameStorage(DeleteStorage(p, s), DeleteStorage(q, s))
  <2>1. SameStorage(DeallocateBlocks(p, s), DeallocateBlocks(q, s))
    BY <1>1 DEF SameStorage, DeallocateBlocks, MapRecord
  <2>2. DeleteStorage(p, s).mBitMap = DeallocateBlocks(p, s).mBitMap
    BY <1>1 DEF DeleteStorage, DeallocateBlocks, MapRecord
  <2>3. DeleteStorage(q, s).mBitMap = DeallocateBlocks(q, s).mBitMap
    BY <1>1 DEF DeleteStorage, DeallocateBlocks, MapRecord
  <2>4. /\ DeleteStorage(p, s).mDataSize = p.mDataSize - Cardinality(s)
        /\ DeleteStorage(q, s).mDataSize = q.mDataSize - Cardinality(s)
    BY DeleteStorageFacts
  <2> QED
    BY <1>1, <2>1, <2>2, <2>3, <2>4 DEF SameStorage
<1>2. r.data \in SUBSET Blocks /\ r.meta \in SUBSET Blocks /\ m \in MapRecord /\ n \in MapRecord
  BY DEF Record, MapOK
<1>3. /\ DeleteStorage(m, r.data) \in MapRecord /\ DeleteStorage(n, r.data) \in MapRecord
      /\ SameStorage(DeleteStorage(m, r.data), DeleteStorage(n, r.data))
  BY <1>1, <1>2, DeleteStorageFacts
<1> QED
  BY <1>1, <1>2, <1>3 DEF DeleteAllStorage

LEMMA StorageChain ==
    ASSUME NEW m, NEW n, NEW p, SameStorage(m, n), SameStorage(n, p)
    PROVE  SameStorage(m, p)
BY DEF SameStorage

\* A record that no active entry has bound goes with its storage.
LEMMA EvictedOrder ==
    ASSUME NEW c, CacheOK(c), InOrder(c.map, c.entry), NEW k \in HashNumbers, HasRecord(c.map, k),
           ~BoundActive(c.entry, k), NEW n, Minus(c.map, n, k),
           SameStorage(DeleteAllStorage(c.map, FindRecord(c.map, k)), n)
    PROVE  InOrder(n, c.entry)
<1>1. PICK m, en : m = c.map /\ en = c.entry
  OBVIOUS
<1>2. MapOK(m) /\ Booked(m, en) /\ Shelved(m) /\ MapOK(n) /\ Shelved(n) /\ m \in MapRecord
  BY <1>1, CacheFields DEF InOrder, Minus, Booked
<1>3. PICK E, K : E = {} /\ K = {k}
  OBVIOUS
<1>4. \A f \in Entries : ~(en[f].state = "active" /\ en[f].key \in K)
  <2> SUFFICES ASSUME NEW f \in Entries, en[f].state = "active", en[f].key = k PROVE FALSE
    BY <1>3
  <2>1. ~en[f].bound
    BY <1>1 DEF BoundActive
  <2>2. InBook(m, en[f])
    BY <1>2 DEF Booked
  <2> QED
    BY <1>1, <2>1, <2>2 DEF InBook
<1>5. Touches(m, en, n, en, E, K)
  BY <1>1, <1>2, <1>3, <1>4 DEF Touches, Minus
<1>6. \A f \in Entries : en[f].state = "active" => en[f].key \in HashNumbers
  BY <1>1, ActiveKeys
<1>7. \A j \in K : ~HasRecord(n, j)
  BY <1>3 DEF Minus
<1>8. (\A f \in E : FALSE) /\ k \in K /\ \A j \in K : j = k
  BY <1>3
<1>9. Booked(n, en)
  BY <1>2, <1>5, <1>6, <1>7, <1>8, TouchedBook
<1>10. PICK h, g : h = Holdings(m, en) /\ g = Holdings(n, en)
  OBVIOUS
<1>11. PICK a, b : a = <<"record", k, "data">> /\ b = <<"record", k, "meta">>
  OBVIOUS
<1>12. a # b /\ a \in Parts /\ b \in Parts
  BY <1>11, HoldingsAt DEF Fields
<1>13. h[a] = FindRecord(m, k).data /\ h[b] = FindRecord(m, k).meta
  BY <1>1, <1>10, <1>11, HoldingsAt DEF Fields, OfKey, Piece
<1>14. g[a] = {} /\ g[b] = {}
  BY <1>7, <1>8, <1>10, <1>11, HoldingsAt DEF Fields, OfKey
<1>15. \A x \in Parts : x # a /\ x # b => g[x] = h[x]
  BY <1>5, <1>8, <1>10, <1>11, TouchedHoldings
<1>16. Allotted(h, m)
  BY <1>1, <1>10 DEF InOrder
<1>17. Allotted(g, DeleteStorage(DeleteStorage(m, h[a]), h[b]))
  BY <1>2, <1>12, <1>14, <1>15, <1>16, AllottedFreedTwo
<1>18. DeleteStorage(DeleteStorage(m, h[a]), h[b]) = DeleteAllStorage(c.map, FindRecord(c.map, k))
  BY <1>1, <1>13 DEF DeleteAllStorage
<1>19. Allotted(g, n)
  BY <1>17, <1>18, AllottedSame
<1> QED
  BY <1>1, <1>9, <1>10, <1>19 DEF InOrder

\* An active entry without a binding gets one, with a new record.
LEMMA BoundOrder ==
    ASSUME NEW c, CacheOK(c), InOrder(c.map, c.entry), NEW e \in Entries, NEW y, EntryOK(y),
           NEW a \in SUBSET Cases, NEW n,
           c.entry[e].state = "active", ~c.entry[e].bound, y.state = "active", y.bound, y.key = c.entry[e].key,
           y.mRecord.data = {}, y.mRecord.meta = {},
           Plus(c.map, n, y.mRecord), SameStorage(c.map, n)
    PROVE  InOrder(n, Changed(c, n, e, y, a).entry)
<1>1. PICK m, en, x, k : m = c.map /\ en = c.entry /\ x = c.entry[e] /\ k = x.key
  OBVIOUS
<1>2. PICK ex : ex = Changed(c, n, e, y, a).entry
  OBVIOUS
<1>3. MapOK(m) /\ EntryOK(x) /\ Booked(m, en) /\ MapOK(n) /\ Shelved(n)
  BY <1>1, CacheFields DEF InOrder, Plus
<1>4. ex[e] = y
  BY <1>2, <1>3, ChangedFields
<1>5. \A f \in Entries : en[f].state = "active" => en[f].key \in HashNumbers
  BY <1>1, ActiveKeys
<1>6. k \in HashNumbers /\ y.mRecord.hash = k
  BY <1>1, <1>5 DEF EntryOK
<1>7. /\ HasRecord(n, k) /\ FindRecord(n, k) = y.mRecord
      /\ \A j \in HashNumbers : j # k => /\ HasRecord(n, j) <=> HasRecord(m, j)
                                         /\ HasRecord(m, j) => FindRecord(n, j) = FindRecord(m, j)
  BY <1>1, <1>6 DEF Plus
<1>8. TouchesOne(m, en, n, ex, e, k)
  BY <1>1, <1>2, <1>3, <1>6, <1>7, OwnTouches
<1>9. InBook(m, x)
  BY <1>1, <1>3 DEF Booked
<1>10. ~HasRecord(m, k)
  BY <1>1, <1>9 DEF InBook
<1>11. InBook(n, y)
  BY <1>1, <1>7 DEF InBook
<1>12. Booked(n, ex)
  BY <1>1, <1>3, <1>4, <1>5, <1>8, <1>11, OneKeyBook
<1>13. \A f \in Fields : Beside(n, ex[e], k, f) = Beside(m, en[e], k, f)
  BY <1>1, <1>4, <1>10 DEF Beside
<1>14. \A f \in Fields : OfEntry(ex[e], f) = OfEntry(en[e], f)
  BY <1>1, <1>4 DEF OfEntry, Piece
<1>15. InOrder(n, ex)
  BY <1>1, <1>8, <1>12, <1>13, <1>14, KeptOrder
<1> QED
  BY <1>2, <1>15

Doomed(x) == [x EXCEPT !.state = "doomed", !.valid = "yes"]

LEMMA DoomedIsOK ==
    ASSUME NEW x, EntryOK(x), x.state # "free"
    PROVE  /\ EntryOK(Doomed(x)) /\ Doomed(x).state = "doomed" /\ Doomed(x).bound = x.bound
           /\ Doomed(x).mRecord = x.mRecord /\ Doomed(x).key = x.key
BY DEF EntryOK, Doomed, Entry

LEMMA MarkDoomedShape ==
    ASSUME NEW c, CacheOK(c), NEW e \in Entries
    PROVE  \E a \in SUBSET Cases : c.amiss \subseteq a /\ MarkDoomed(c, e) = Changed(c, c.map, e, Doomed(c.entry[e]), a)
<1> DEFINE doomed == [c EXCEPT !.entry[e].state = "doomed", !.entry[e].valid = "yes"]
<1>1. doomed = [map |-> c.map, entry |-> [c.entry EXCEPT ![e] = Doomed(c.entry[e])], amiss |-> c.amiss]
  <2>1. PICK x, en, m, am : x = c.entry[e] /\ en = c.entry /\ m = c.map /\ am = c.amiss
    OBVIOUS
  <2>2. c = [map |-> m, entry |-> en, amiss |-> am] /\ en \in [Entries -> Entry] /\ x \in Entry
    BY <2>1, CacheFields
  <2> DEFINE half == [x EXCEPT !.state = "doomed"]
             mid == [map |-> m, entry |-> [en EXCEPT ![e] = half], amiss |-> am]
  <2>3. [c EXCEPT !.entry[e].state = "doomed"] = mid
    BY <2>1, <2>2
  <2>4. [half EXCEPT !.valid = "yes"] = Doomed(x)
    BY <2>2 DEF Doomed, Entry
  <2> HIDE DEF half
  <2>5. [[en EXCEPT ![e] = half] EXCEPT ![e] = Doomed(x)] = [en EXCEPT ![e] = Doomed(x)]
    BY <2>2
  <2>6. [mid EXCEPT !.entry[e].valid = "yes"] = [map |-> m, entry |-> [en EXCEPT ![e] = Doomed(x)], amiss |-> am]
    <3>1. mid.entry[e] = half /\ mid.entry = [en EXCEPT ![e] = half]
      BY <2>2
    <3>2. [mid EXCEPT !.entry[e].valid = "yes"]
              = [map |-> m, entry |-> [[en EXCEPT ![e] = half] EXCEPT ![e] = [half EXCEPT !.valid = "yes"]], amiss |-> am]
      BY <2>2, <3>1
    <3> QED
      BY <2>4, <2>5, <3>2
  <2>7. doomed = [[c EXCEPT !.entry[e].state = "doomed"] EXCEPT !.entry[e].valid = "yes"]
    OBVIOUS
  <2> QED
    BY <2>1, <2>3, <2>6, <2>7
<1> HIDE DEF doomed
<1>2. Amiss(doomed, "seen", TRUE) = Changed(c, c.map, e, Doomed(c.entry[e]), c.amiss \cup {"seen"})
  BY <1>1 DEF Amiss, Changed
<1>3. Amiss(doomed, "seen", FALSE) = Changed(c, c.map, e, Doomed(c.entry[e]), c.amiss)
  BY <1>1 DEF Amiss, Changed
<1>4. c.amiss \in SUBSET Cases /\ c.amiss \cup {"seen"} \in SUBSET Cases
  BY CacheFields DEF Cases
<1>5. \/ MarkDoomed(c, e) = Amiss(doomed, "seen", TRUE)
      \/ MarkDoomed(c, e) = Amiss(doomed, "seen", FALSE)
  BY DEF MarkDoomed, Amiss, doomed
<1> QED
  BY <1>2, <1>3, <1>4, <1>5

LEMMA ActiveBindingsAre ==
    ASSUME NEW c, NEW k
    PROVE  /\ ActiveBindings(c, k) # {} <=> BoundActive(c.entry, k)
           /\ ActiveBindings(c, k) # {} =>
                  LET f == CHOOSE e \in ActiveBindings(c, k) : TRUE
                  IN  f \in Entries /\ c.entry[f].state = "active" /\ c.entry[f].bound /\ c.entry[f].key = k
BY DEF ActiveBindings, BoundActive

LEMMA WithMap ==
    ASSUME NEW c, CacheOK(c), NEW n, MapOK(n)
    PROVE  LET d == [c EXCEPT !.map = n]
           IN  CacheOK(d) /\ d.map = n /\ d.entry = c.entry /\ d.amiss = c.amiss
BY CacheFields DEF CacheOK, Caches, MapOK

\* DoomEntry, with or without a record to delete.
LEMMA DoomEntryFacts ==
    ASSUME NEW c, CacheOK(c), NEW e \in Entries, c.entry[e].state = "active"
    PROVE  LET d == DoomEntry(c, e)
               n == IF c.entry[e].bound THEN DeleteRecord(c.map, c.entry[e].key) ELSE c.map
           IN  /\ CacheOK(d) /\ c.amiss \subseteq d.amiss
               /\ d = Changed(c, n, e, Doomed(c.entry[e]), d.amiss)
               /\ InOrder(c.map, c.entry) => InOrder(d.map, d.entry)
<1> DEFINE x == c.entry[e]
           n == IF x.bound THEN DeleteRecord(c.map, x.key) ELSE c.map
           b == [c EXCEPT !.map = n]
           d == DoomEntry(c, e)
<1>1. MapOK(c.map) /\ EntryOK(x) /\ x.key \in HashNumbers
  BY CacheFields, ActiveKeys
<1>2. MapOK(n)
  BY <1>1, DeleteRecordFacts
<1>3. CacheOK(b) /\ b.map = n /\ b.entry = c.entry /\ b.amiss = c.amiss
  BY <1>2, WithMap
<1>4. d = MarkDoomed(b, e)
  BY <1>1 DEF DoomEntry
<1> HIDE DEF b, d, n
<1>5. PICK a \in SUBSET Cases : b.amiss \subseteq a /\ d = Changed(b, b.map, e, Doomed(b.entry[e]), a)
  BY <1>3, <1>4, MarkDoomedShape
<1>6. d = Changed(c, n, e, Doomed(x), a)
  BY <1>3, <1>5 DEF Changed
<1>7. EntryOK(Doomed(x)) /\ Doomed(x).state = "doomed" /\ Doomed(x).bound = x.bound /\ Doomed(x).mRecord = x.mRecord
  BY <1>1, DoomedIsOK
<1>8. CacheOK(d) /\ d.map = n /\ d.amiss = a
  BY <1>2, <1>6, <1>7, ChangedFields
<1>9. ASSUME InOrder(c.map, c.entry) PROVE InOrder(d.map, d.entry)
  <2>1. Shelved(c.map) /\ InBook(c.map, x)
    BY <1>9 DEF InOrder, Booked
  <2>2. Minus(c.map, n, x.key) /\ SameStorage(c.map, n)
    <3>1. CASE x.bound
      BY <1>1, <2>1, <3>1, DeleteFinds DEF n
    <3>2. CASE ~x.bound
      <4>1. ~HasRecord(c.map, x.key)
        BY <2>1, <3>2 DEF InBook
      <4> QED
        BY <1>1, <2>1, <3>2, <4>1 DEF n, Minus, SameStorage
    <3> QED
      BY <3>1, <3>2
  <2>3. InOrder(n, Changed(c, n, e, Doomed(x), a).entry)
    BY <1>7, <1>9, <2>2, DoomedOrder
  <2> QED
    BY <1>6, <1>8, <2>3
<1> QED
  BY <1>3, <1>5, <1>6, <1>8, <1>9 DEF d, n

\* An entry with a new binding.
WithBinding(x, record) == [x EXCEPT !.bound = TRUE, !.mRecord = record]

LEMMA CreateBindingShape ==
    ASSUME NEW c, CacheOK(c), NEW e \in Entries, NEW record
    PROVE  CreateBinding(c, e, record) = Changed(c, c.map, e, WithBinding(c.entry[e], record), c.amiss)
<1>1. PICK x, en, m, am : x = c.entry[e] /\ en = c.entry /\ m = c.map /\ am = c.amiss
  OBVIOUS
<1>2. c = [map |-> m, entry |-> en, amiss |-> am] /\ en \in [Entries -> Entry] /\ x \in Entry
  BY <1>1, CacheFields
<1> DEFINE half == [x EXCEPT !.bound = TRUE]
           mid == [map |-> m, entry |-> [en EXCEPT ![e] = half], amiss |-> am]
<1>3. [c EXCEPT !.entry[e].bound = TRUE] = mid
  <2>1. [c EXCEPT !.entry[e].bound = TRUE] = [c EXCEPT !.entry = [c.entry EXCEPT ![e] = [c.entry[e] EXCEPT !.bound = TRUE]]]
    BY Zenon
  <2>2. [c EXCEPT !.entry[e].bound = TRUE] = [c EXCEPT !.entry = [en EXCEPT ![e] = half]]
    BY <1>1, <2>1
  <2> HIDE DEF half
  <2> QED
    BY <1>2, <2>2
<1>4. [half EXCEPT !.mRecord = record] = WithBinding(x, record)
  BY <1>2 DEF WithBinding, Entry
<1> HIDE DEF half
<1>5. [[en EXCEPT ![e] = half] EXCEPT ![e] = WithBinding(x, record)] = [en EXCEPT ![e] = WithBinding(x, record)]
  BY <1>2
<1>6. [mid EXCEPT !.entry[e].mRecord = record]
          = [map |-> m, entry |-> [en EXCEPT ![e] = WithBinding(x, record)], amiss |-> am]
  <2>1. mid.entry[e] = half /\ mid.entry = [en EXCEPT ![e] = half]
    BY <1>2
  <2>2. [mid EXCEPT !.entry[e].mRecord = record]
            = [map |-> m, entry |-> [[en EXCEPT ![e] = half] EXCEPT ![e] = [half EXCEPT !.mRecord = record]], amiss |-> am]
    BY <1>2, <2>1
  <2> QED
    BY <1>4, <1>5, <2>2
<1>7. CreateBinding(c, e, record) = [[c EXCEPT !.entry[e].bound = TRUE] EXCEPT !.entry[e].mRecord = record]
  BY DEF CreateBinding
<1> QED
  BY <1>1, <1>3, <1>6, <1>7 DEF Changed

LEMMA WithBindingIsOK ==
    ASSUME NEW x, EntryOK(x), x.state # "free", NEW record \in Record, record.hash = x.key
    PROVE  LET y == WithBinding(x, record)
           IN  /\ EntryOK(y) /\ y.state = x.state /\ y.key = x.key /\ y.bound /\ y.mRecord = record
               /\ y.valid = x.valid /\ y.mOutStream = x.mOutStream /\ y.mBufDirty = x.mBufDirty
BY DEF EntryOK, WithBinding, Entry

LEMMA NewRecordFacts ==
    ASSUME NEW key \in HashNumbers, NEW rank \in Ranks
    PROVE  LET record == NewRecord(key, rank)
           IN  record \in Record /\ record.hash = key /\ record.data = {} /\ record.meta = {}
BY DiskCacheAssumption DEF NewRecord, Record

\* What BindEntry makes of the cache when it makes room in a full bucket.
LEMMA MakeRoomFacts ==
    ASSUME NEW c, CacheOK(c), NEW old \in Record
    PROVE  CacheOK(MakeRoom(c, old)) /\ c.amiss \subseteq MakeRoom(c, old).amiss
<1>1. CASE ActiveBindings(c, old.hash) # {}
  <2> DEFINE f == CHOOSE e \in ActiveBindings(c, old.hash) : TRUE
  <2>1. f \in Entries /\ c.entry[f].state = "active"
    BY <1>1, ActiveBindingsAre
  <2>2. MakeRoom(c, old) = DoomEntry(c, f)
    BY <1>1 DEF MakeRoom
  <2> HIDE DEF f
  <2> QED
    BY <2>1, <2>2, DoomEntryFacts
<1>2. CASE ActiveBindings(c, old.hash) = {}
  <2> DEFINE n == DeleteAllStorage(c.map, old)
             b == [c EXCEPT !.map = n]
  <2>1. MapOK(n)
    BY CacheFields, DeleteAllStorageFacts
  <2> HIDE DEF n
  <2>2. CacheOK(b) /\ b.amiss = c.amiss
    BY <2>1, WithMap
  <2> HIDE DEF b
  <2>3. MakeRoom(c, old) = Amiss(b, "empty", old.data = {} \/ old.meta = {})
    BY <1>2 DEF MakeRoom, n, b
  <2>4. MakeRoom(c, old) = b \/ MakeRoom(c, old) = [b EXCEPT !.amiss = b.amiss \cup {"empty"}]
    BY <2>3 DEF Amiss
  <2>5. CacheOK([b EXCEPT !.amiss = b.amiss \cup {"empty"}])
    BY <2>2 DEF CacheOK, Caches, Cases
  <2>6. [b EXCEPT !.amiss = b.amiss \cup {"empty"}].amiss = b.amiss \cup {"empty"}
    BY <2>2 DEF CacheOK, Caches
  <2> QED
    BY <2>2, <2>4, <2>5, <2>6
<1> QED
  BY <1>1, <1>2

LEMMA MinusEven ==
    ASSUME NEW m, NEW n, NEW p, NEW k, Minus(m, n, k), Even(n, p)
    PROVE  Minus(m, p, k)
BY DEF Minus, Even

LEMMA PlusEven ==
    ASSUME NEW m, NEW n, NEW q, NEW p, NEW r, r.hash \in HashNumbers, Plus(m, n, r), Even(m, q), Even(n, p)
    PROVE  Plus(q, p, r)
BY DEF Plus, Even

\* The old record has been bound: its entry is doomed, and the new one has taken its place.
LEMMA BindBeside ==
    ASSUME NEW c, CacheOK(c), InOrder(c.map, c.entry), NEW e \in Entries, NEW y, EntryOK(y),
           c.entry[e].state = "active", ~c.entry[e].bound, y.state = "active", y.bound, y.key = c.entry[e].key,
           y.mRecord.data = {}, y.mRecord.meta = {},
           NEW f \in Entries, c.entry[f].state = "active", c.entry[f].bound,
           NEW less, NEW n, Minus(c.map, less, c.entry[f].key), SameStorage(c.map, less),
           Plus(less, n, y.mRecord), SameStorage(less, n),
           NEW room, CacheOK(room), room.map = n, room.entry = [c.entry EXCEPT ![f] = Doomed(c.entry[f])]
    PROVE  InOrder(n, Changed(room, n, e, y, {}).entry)
<1>1. PICK mid : mid = Changed(c, less, f, Doomed(c.entry[f]), {})
  OBVIOUS
<1>2. /\ EntryOK(Doomed(c.entry[f])) /\ Doomed(c.entry[f]).state = "doomed"
      /\ Doomed(c.entry[f]).bound = c.entry[f].bound /\ Doomed(c.entry[f]).mRecord = c.entry[f].mRecord
  BY CacheFields, DoomedIsOK
<1>3. MapOK(less) /\ {} \in SUBSET Cases
  BY DEF Minus
<1>4. CacheOK(mid) /\ mid.map = less /\ \A g \in Entries : g # f => mid.entry[g] = c.entry[g]
  BY <1>1, <1>2, <1>3, ChangedFields
<1>5. InOrder(less, mid.entry)
  BY <1>1, <1>2, <1>3, DoomedOrder
<1>6. e # f
  OBVIOUS
<1>7. mid.entry[e] = c.entry[e]
  BY <1>4, <1>6
<1>8. InOrder(n, Changed(mid, n, e, y, {}).entry)
  BY <1>3, <1>4, <1>5, <1>7, BoundOrder
<1>9. mid.entry = room.entry
  BY <1>1 DEF Changed
<1>10. Changed(mid, n, e, y, {}).entry = Changed(room, n, e, y, {}).entry
  BY <1>9 DEF Changed
<1> QED
  BY <1>8, <1>10

\* The old record was in no use: its storage is freed.
LEMMA BindInstead ==
    ASSUME NEW c, CacheOK(c), InOrder(c.map, c.entry), NEW e \in Entries, NEW y, EntryOK(y),
           c.entry[e].state = "active", ~c.entry[e].bound, y.state = "active", y.bound, y.key = c.entry[e].key,
           y.mRecord.data = {}, y.mRecord.meta = {},
           NEW old \in Record, HasRecord(c.map, old.hash), FindRecord(c.map, old.hash) = old,
           ~BoundActive(c.entry, old.hash),
           NEW less, NEW n, Minus(c.map, less, old.hash), SameStorage(c.map, less),
           Plus(less, n, y.mRecord), SameStorage(less, n),
           NEW room, CacheOK(room), room.map = DeleteAllStorage(n, old), room.entry = c.entry
    PROVE  InOrder(room.map, Changed(room, room.map, e, y, {}).entry)
<1>1. PICK q : q = DeleteAllStorage(less, old)
  OBVIOUS
<1>2. MapOK(less) /\ Shelved(less) /\ MapOK(n) /\ Shelved(n) /\ old.hash \in HashNumbers /\ MapOK(c.map)
  BY CacheFields DEF Minus, Plus, Record
<1>3. Even(less, q) /\ MapOK(q) /\ Even(n, room.map) /\ MapOK(room.map)
  BY <1>1, <1>2, DeleteAllStorageFacts
<1>4. Minus(c.map, q, old.hash)
  BY <1>3, MinusEven
<1>5. SameStorage(DeleteAllStorage(c.map, old), q)
  BY <1>1, <1>2, DeleteAllStorageSame
<1>6. InOrder(q, c.entry)
  BY <1>2, <1>4, <1>5, EvictedOrder
<1>7. SameStorage(q, room.map)
  BY <1>1, <1>2, DeleteAllStorageSame
<1>8. y.mRecord.hash \in HashNumbers
  BY DEF EntryOK, Record
<1>9. Plus(q, room.map, y.mRecord)
  BY <1>3, <1>8, PlusEven
<1>10. PICK mid : mid = [c EXCEPT !.map = q]
  OBVIOUS
<1>11. CacheOK(mid) /\ mid.map = q /\ mid.entry = c.entry
  BY <1>3, <1>10, WithMap
<1>12. InOrder(room.map, Changed(mid, room.map, e, y, {}).entry)
  BY <1>6, <1>7, <1>9, <1>11, BoundOrder
<1>13. Changed(mid, room.map, e, y, {}).entry = Changed(room, room.map, e, y, {}).entry
  BY <1>11 DEF Changed
<1> QED
  BY <1>12, <1>13

\* BindEntry: with room in the bucket, or in place of another record.
LEMMA BindEntryFacts ==
    ASSUME NEW c, CacheOK(c), NEW e \in Entries, NEW rank \in Ranks, c.entry[e].state # "free",
           ~c.entry[e].bound, NEW d, d = BindEntry(c, e, rank)
    PROVE  /\ CacheOK(d) /\ c.amiss \subseteq d.amiss
           /\ \/ d.entry[e] = c.entry[e]
              \/ d.entry[e] = WithBinding(c.entry[e], NewRecord(c.entry[e].key, rank))
           /\ Good(c) => Good(d)
<1>1. PICK x, key, record, y : /\ x = c.entry[e] /\ key = x.key /\ record = NewRecord(key, rank)
                               /\ y = WithBinding(x, record)
  OBVIOUS
<1>2. MapOK(c.map) /\ EntryOK(x) /\ key \in HashNumbers /\ c.amiss \in SUBSET Cases
  BY <1>1, CacheFields DEF EntryOK
<1>3. record \in Record /\ record.hash = key /\ record.data = {} /\ record.meta = {}
  BY <1>1, <1>2, NewRecordFacts
<1>4. EntryOK(y) /\ y.state = x.state /\ y.key = key /\ y.bound /\ y.mRecord = record
  BY <1>1, <1>2, <1>3, WithBindingIsOK
<1>5. CASE x.state = "doomed"
  <2>1. d = CreateBinding(c, e, record)
    BY <1>1, <1>5 DEF BindEntry
  <2>2. d = Changed(c, c.map, e, y, c.amiss)
    BY <1>1, <2>1, CreateBindingShape
  <2>3. CacheOK(d) /\ d.map = c.map /\ d.amiss = c.amiss /\ d.entry[e] = y
    BY <1>2, <1>4, <2>2, ChangedFields
  <2>4. ASSUME InOrder(c.map, c.entry) PROVE InOrder(d.map, d.entry)
    BY <1>1, <1>2, <1>3, <1>4, <1>5, <2>2, <2>3, <2>4, EmptyOrder
  <2> QED
    BY <1>1, <2>3, <2>4 DEF Good
<1>6. CASE x.state # "doomed"
  <2>1. x.state = "active"
    BY <1>1, <1>2, <1>6 DEF EntryOK, Entry
  <2>2. PICK n, added : n = AddRecord(c.map, record) /\ added = [c EXCEPT !.map = n]
    OBVIOUS
  <2>3. MapOK(n) /\ SameStorage(c.map, n)
    BY <1>2, <1>3, <2>2, AddRecordFacts
  <2>4. CacheOK(added) /\ added.map = n /\ added.entry = c.entry /\ added.amiss = c.amiss
    BY <2>2, <2>3, WithMap
  <2>5. PICK room : room = IF IsFull(c.map, key) THEN MakeRoom(added, OldRecord(c.map, key)) ELSE added
    OBVIOUS
  <2>6. d = IF "empty" \in room.amiss THEN room ELSE CreateBinding(room, e, record)
    BY <1>1, <1>6, <2>2, <2>5 DEF BindEntry
  <2>7. ASSUME InOrder(c.map, c.entry) PROVE Shelved(c.map) /\ ~HasRecord(c.map, key)
    <3>1. InBook(c.map, x)
      BY <1>1, <2>1, <2>7 DEF InOrder, Booked
    <3> QED
      BY <1>1, <2>7, <3>1 DEF InOrder, Booked, InBook
  \* With room, or with a case that has gone amiss.
  <2>8. ASSUME CacheOK(room), c.amiss \subseteq room.amiss, room.entry[e] = x,
               InOrder(c.map, c.entry) /\ room.amiss = {} => InOrder(room.map, Changed(room, room.map, e, y, {}).entry)
        PROVE  /\ CacheOK(d) /\ c.amiss \subseteq d.amiss /\ (d.entry[e] = x \/ d.entry[e] = y)
               /\ Good(c) => Good(d)
    <3>1. CASE "empty" \in room.amiss
      <4>1. d = room /\ d.amiss # {}
        BY <2>6, <3>1
      <4> QED
        BY <2>8, <4>1 DEF Good
    <3>2. CASE "empty" \notin room.amiss
      <4>1. CreateBinding(room, e, record) = Changed(room, room.map, e, y, room.amiss)
        BY <1>1, <2>8, CreateBindingShape
      <4>2. d = Changed(room, room.map, e, y, room.amiss)
        BY <2>6, <3>2, <4>1
      <4>3. MapOK(room.map) /\ room.amiss \in SUBSET Cases
        BY <2>8, CacheFields
      <4>4. CacheOK(d) /\ d.map = room.map /\ d.amiss = room.amiss /\ d.entry[e] = y
        BY <1>4, <2>8, <4>2, <4>3, ChangedFields
      <4>5. ASSUME Good(c), d.amiss = {} PROVE InOrder(d.map, d.entry)
        <5>1. room.amiss = {} /\ c.amiss = {}
          BY <2>8, <4>4, <4>5
        <5>2. InOrder(c.map, c.entry)
          BY <4>5, <5>1 DEF Good
        <5>3. InOrder(room.map, Changed(room, room.map, e, y, {}).entry)
          BY <2>8, <5>1, <5>2
        <5> QED
          BY <4>2, <4>4, <5>1, <5>3
      <4> QED
        BY <2>8, <4>4, <4>5 DEF Good
    <3> QED
      BY <3>1, <3>2
  <2>9. CASE ~IsFull(c.map, key)
    <3>1. room = added
      BY <2>5, <2>9
    <3>2. ASSUME InOrder(c.map, c.entry) PROVE InOrder(n, Changed(added, n, e, y, {}).entry)
      <4>1. Plus(c.map, n, record)
        BY <1>2, <1>3, <2>2, <2>7, <2>9, <3>2, AddFinds
      <4>2. InOrder(n, Changed(c, n, e, y, {}).entry)
        <5>1. {} \in SUBSET Cases
          OBVIOUS
        <5> QED
          BY <1>1, <1>3, <1>4, <2>1, <2>3, <3>2, <4>1, <5>1, BoundOrder
      <4>3. Changed(added, n, e, y, {}).entry = Changed(c, n, e, y, {}).entry
        BY <2>4 DEF Changed
      <4> QED
        BY <4>2, <4>3
    <3> QED
      BY <1>1, <2>4, <2>8, <3>1, <3>2
  <2>10. CASE IsFull(c.map, key)
    <3>1. PICK old : old = OldRecord(c.map, key)
      OBVIOUS
    <3>2. old \in Record /\ old.hash \in HashNumbers
      BY <1>2, <2>10, <3>1, OldRecordFacts DEF Record
    <3>3. room = MakeRoom(added, old)
      BY <2>5, <2>10, <3>1
    <3>4. CacheOK(room) /\ c.amiss \subseteq room.amiss
      BY <2>4, <3>2, <3>3, MakeRoomFacts
    <3>5. PICK less : less = DeleteRecord(c.map, old.hash)
      OBVIOUS
    <3>6. ASSUME InOrder(c.map, c.entry)
          PROVE  /\ old.hash # key /\ HasRecord(c.map, old.hash) /\ FindRecord(c.map, old.hash) = old
                 /\ Minus(c.map, less, old.hash) /\ SameStorage(c.map, less)
                 /\ Plus(less, n, record) /\ SameStorage(less, n)
      <4>1. /\ old.hash # key /\ HasRecord(c.map, old.hash) /\ FindRecord(c.map, old.hash) = old
            /\ Minus(c.map, less, old.hash) /\ SameStorage(c.map, less)
            /\ Plus(less, n, record)
        BY <1>2, <1>3, <2>2, <2>7, <2>10, <3>1, <3>5, <3>6, AddInsteadFinds
      <4>2. SameStorage(less, n)
        BY <2>3, <4>1 DEF SameStorage
      <4> QED
        BY <4>1, <4>2
    <3>7. CASE ActiveBindings(added, old.hash) # {}
      <4>1. PICK f : f = CHOOSE g \in ActiveBindings(added, old.hash) : TRUE
        OBVIOUS
      <4>2. f \in Entries /\ c.entry[f].state = "active" /\ c.entry[f].bound /\ c.entry[f].key = old.hash
        BY <2>4, <3>7, <4>1, ActiveBindingsAre
      <4>3. room = DoomEntry(added, f)
        BY <3>3, <3>7, <4>1 DEF MakeRoom
      <4>4. room = Changed(added, DeleteRecord(n, old.hash), f, Doomed(c.entry[f]), room.amiss)
        BY <2>4, <4>2, <4>3, DoomEntryFacts
      <4>5. room.map = DeleteRecord(n, old.hash) /\ room.entry = [c.entry EXCEPT ![f] = Doomed(c.entry[f])]
        BY <2>4, <4>4 DEF Changed
      <4>6. e # f
        BY <1>1, <4>2
      <4>7. room.entry[e] = x
        BY <1>1, <4>5, <4>6, CacheFields
      <4>8. ASSUME InOrder(c.map, c.entry) PROVE InOrder(room.map, Changed(room, room.map, e, y, {}).entry)
        <5>1. ~HasRecord(n, old.hash)
          BY <1>3, <3>2, <3>6, <4>8 DEF Minus, Plus
        <5>2. room.map = n
          BY <2>3, <3>2, <4>5, <5>1, DeleteRecordFacts
        <5>3. InOrder(n, Changed(room, n, e, y, {}).entry)
          BY <1>1, <1>3, <1>4, <2>1, <3>4, <3>6, <4>2, <4>5, <4>8, <5>2, BindBeside
        <5> QED
          BY <5>2, <5>3
      <4> QED
        BY <1>1, <2>8, <3>4, <4>7, <4>8
    <3>8. CASE ActiveBindings(added, old.hash) = {}
      <4>1. room = Amiss([added EXCEPT !.map = DeleteAllStorage(n, old)], "empty", old.data = {} \/ old.meta = {})
        BY <2>4, <3>3, <3>8 DEF MakeRoom
      <4>2. room.map = DeleteAllStorage(n, old) /\ room.entry = c.entry
        BY <2>4, <4>1, CacheFields DEF Amiss
      <4>3. ~BoundActive(c.entry, old.hash)
        BY <2>4, <3>8, ActiveBindingsAre
      <4>4. ASSUME InOrder(c.map, c.entry) PROVE InOrder(room.map, Changed(room, room.map, e, y, {}).entry)
        BY <1>1, <1>3, <1>4, <2>1, <3>2, <3>4, <3>6, <4>2, <4>3, <4>4, BindInstead
      <4> QED
        BY <1>1, <2>8, <3>4, <4>2, <4>4
    <3> QED
      BY <3>7, <3>8
  <2> QED
    BY <1>1, <2>9, <2>10
<1> QED
  BY <1>5, <1>6

-----------------------------------------------------------------------------
(* An entry with a binding stores something else.                           *)

\* What is allocated in m and n differs as what e owns as x and y.
Pays(m, n, e, x, y) ==
    \A h, g : Allotted(h, m) /\ EntryHolds(h, x, e) /\ EntryHolds(g, y, e) /\ SameAround(h, g, e)
              => Allotted(g, n)

LEMMA PaysSame ==
    ASSUME NEW m, NEW n, NEW e, NEW x, NEW y, SameStorage(m, n),
           \A f \in Fields : OfEntry(x, f) = OfEntry(y, f)
    PROVE  Pays(m, n, e, x, y)
<1> SUFFICES ASSUME NEW h, NEW g, Allotted(h, m), EntryHolds(h, x, e), EntryHolds(g, y, e), SameAround(h, g, e)
             PROVE  Allotted(g, n)
  BY DEF Pays
<1>1. \A z \in Parts : g[z] = h[z]
  BY DEF EntryHolds, SameAround, Fields
<1> QED
  BY <1>1, AllottedSame

LEMMA PaysFreed ==
    ASSUME NEW m, MapOK(m), NEW n, NEW e \in Entries, NEW x, NEW y, NEW field \in Fields,
           OfEntry(y, field) = {}, \A f \in Fields : f # field => OfEntry(y, f) = OfEntry(x, f),
           SameStorage(DeleteStorage(m, OfEntry(x, field)), n)
    PROVE  Pays(m, n, e, x, y)
<1> SUFFICES ASSUME NEW h, NEW g, Allotted(h, m), EntryHolds(h, x, e), EntryHolds(g, y, e), SameAround(h, g, e)
             PROVE  Allotted(g, n)
  BY DEF Pays
<1>1. PICK a : a = <<"entry", e, field>>
  OBVIOUS
<1>2. a \in Parts /\ h[a] = OfEntry(x, field) /\ g[a] = {}
  BY <1>1, HoldingsAt DEF EntryHolds
<1>3. \A z \in Parts \ {a} : g[z] = h[z]
  <2> SUFFICES ASSUME NEW z \in Parts, z # a PROVE g[z] = h[z]
    OBVIOUS
  <2>1. CASE \E f \in Fields : z = <<"entry", e, f>>
    <3>1. PICK f \in Fields : z = <<"entry", e, f>>
      BY <2>1
    <3>2. f # field
      BY <1>1, <3>1
    <3> QED
      BY <3>1, <3>2 DEF EntryHolds
  <2>2. CASE ~\E f \in Fields : z = <<"entry", e, f>>
    BY <2>2 DEF SameAround, Fields
  <2> QED
    BY <2>1, <2>2
<1>4. m \in MapRecord
  BY DEF MapOK
<1>5. Allotted(g, DeleteStorage(m, h[a]))
  BY <1>2, <1>3, <1>4, AllottedFreed
<1>6. Allotted(g, DeleteStorage(m, OfEntry(x, field)))
  BY <1>2, <1>5
<1> QED
  BY <1>6, AllottedSame

LEMMA PaysTaken ==
    ASSUME NEW m, MapOK(m), NEW n, NEW e \in Entries, NEW x, NEW y, NEW field \in Fields,
           OfEntry(x, field) = {}, \A f \in Fields : f # field => OfEntry(y, f) = OfEntry(x, f),
           OfEntry(y, field) \in SUBSET Blocks, OfEntry(y, field) \cap m.mBitMap = {},
           SameStorage(Storing(m, OfEntry(y, field)), n)
    PROVE  Pays(m, n, e, x, y)
<1> SUFFICES ASSUME NEW h, NEW g, Allotted(h, m), EntryHolds(h, x, e), EntryHolds(g, y, e), SameAround(h, g, e)
             PROVE  Allotted(g, n)
  BY DEF Pays
<1>1. PICK a : a = <<"entry", e, field>>
  OBVIOUS
<1>2. a \in Parts /\ h[a] = {} /\ g[a] = OfEntry(y, field)
  BY <1>1, HoldingsAt DEF EntryHolds
<1>3. \A z \in Parts \ {a} : g[z] = h[z]
  <2> SUFFICES ASSUME NEW z \in Parts, z # a PROVE g[z] = h[z]
    OBVIOUS
  <2>1. CASE \E f \in Fields : z = <<"entry", e, f>>
    <3>1. PICK f \in Fields : z = <<"entry", e, f>>
      BY <2>1
    <3>2. f # field
      BY <1>1, <3>1
    <3> QED
      BY <3>1, <3>2 DEF EntryHolds
  <2>2. CASE ~\E f \in Fields : z = <<"entry", e, f>>
    BY <2>2 DEF SameAround, Fields
  <2> QED
    BY <2>1, <2>2
<1>4. m \in MapRecord
  BY DEF MapOK
<1>5. Allotted(g, Storing(m, OfEntry(y, field)))
  BY <1>2, <1>3, <1>4, AllottedTaken
<1> QED
  BY <1>5, AllottedSame

LEMMA PaysBoth ==
    ASSUME NEW m, NEW n, NEW p, NEW e, NEW x, NEW y, NEW z, Pays(m, n, e, x, y), Pays(n, p, e, y, z)
    PROVE  Pays(m, p, e, x, z)
<1> SUFFICES ASSUME NEW h, NEW g, Allotted(h, m), EntryHolds(h, x, e), EntryHolds(g, z, e), SameAround(h, g, e)
             PROVE  Allotted(g, p)
  BY DEF Pays
<1> DEFINE ed == <<"entry", e, "data">>
           em == <<"entry", e, "meta">>
           All == Parts \cup {ed, em}
           mid == [w \in All |-> IF w = ed THEN OfEntry(y, "data") ELSE IF w = em THEN OfEntry(y, "meta") ELSE h[w]]
<1>1. EntryHolds(mid, y, e)
  BY DEF EntryHolds, Fields
<1>2. SameAround(h, mid, e) /\ SameAround(mid, g, e)
  BY DEF SameAround
<1> HIDE DEF mid
<1>3. Allotted(mid, n)
  BY <1>1, <1>2 DEF Pays
<1> QED
  BY <1>1, <1>2, <1>3 DEF Pays

\* The ways in which the record of an entry changes with the entry: it is updated with it if it
\* is active, goes if it is doomed by the way, and is that of another if it was doomed before.
Follows(m, n, x, y) ==
    \/ /\ x.state = "active" /\ y.state = "active"
       /\ \A j \in HashNumbers : j # x.key => /\ HasRecord(n, j) <=> HasRecord(m, j)
                                              /\ HasRecord(m, j) => FindRecord(n, j) = FindRecord(m, j)
       /\ InBook(n, y)
    \/ x.state = "active" /\ y.state = "doomed" /\ Minus(m, n, x.key)
    \/ x.state = "doomed" /\ y.state = "doomed" /\ Even(m, n)

LEMMA OwnedOrder ==
    ASSUME NEW c, CacheOK(c), InOrder(c.map, c.entry), NEW e \in Entries, NEW y, EntryOK(y),
           NEW a \in SUBSET Cases, NEW n, MapOK(n), Shelved(n), NEW x, x = c.entry[e],
           x.bound, y.bound, y.key = x.key, Follows(c.map, n, x, y), Pays(c.map, n, e, x, y)
    PROVE  InOrder(n, Changed(c, n, e, y, a).entry)
<1>1. PICK m, en, k : m = c.map /\ en = c.entry /\ k = x.key
  OBVIOUS
<1>2. PICK ex : ex = Changed(c, n, e, y, a).entry
  OBVIOUS
<1>3. MapOK(m) /\ EntryOK(x) /\ Booked(m, en) /\ Shelved(m)
  BY <1>1, CacheFields DEF InOrder, Booked
<1>4. ex[e] = y /\ en[e] = x
  BY <1>1, <1>2, <1>3, ChangedFields
<1>5. \A f \in Entries : en[f].state = "active" => en[f].key \in HashNumbers
  BY <1>1, ActiveKeys
<1>6. PICK h, g : h = Holdings(m, en) /\ g = Holdings(n, ex)
  OBVIOUS
<1>7. Allotted(h, m)
  BY <1>1, <1>6 DEF InOrder
<1>8. Booked(n, ex) /\ EntryHolds(h, x, e) /\ EntryHolds(g, y, e) /\ SameAround(h, g, e)
  <2>1. CASE x.state = "active"
    <3>1. k \in HashNumbers
      BY <1>1, <1>4, <1>5, <2>1
    <3>2. InBook(m, x)
      BY <1>1, <1>3, <2>1 DEF Booked
    <3>3. HasRecord(m, k)
      BY <1>1, <3>2 DEF InBook
    <3>4. y.state = "active" => InBook(n, y)
      BY <2>1 DEF Follows
    <3>5. y.state # "active" => ~HasRecord(n, k)
      BY <1>1, <2>1, <3>1 DEF Follows, Minus
    <3>6. \A j \in HashNumbers : j # k => /\ HasRecord(n, j) <=> HasRecord(m, j)
                                          /\ HasRecord(m, j) => FindRecord(n, j) = FindRecord(m, j)
      BY <1>1, <2>1 DEF Follows, Minus
    <3>7. TouchesOne(m, en, n, ex, e, k)
      BY <1>1, <1>2, <1>3, <2>1, <3>1, <3>6, OwnTouches
    <3>8. Booked(n, ex)
      BY <1>1, <1>3, <1>4, <1>5, <3>4, <3>5, <3>7, OneKeyBook
    <3>9. /\ SameElsewhere(h, g, e, k) /\ EntryHolds(h, x, e) /\ EntryHolds(g, y, e)
          /\ KeyHolds(h, m, x, k) /\ KeyHolds(g, n, y, k)
      BY <1>4, <1>6, <3>7, OneKeyHoldings
    <3>10. \A f \in Fields : Beside(m, x, k, f) = {} /\ Beside(n, y, k, f) = {}
      BY <1>1, <2>1, <3>5 DEF Beside
    <3>11. \A f \in Fields : g[<<"record", k, f>>] = h[<<"record", k, f>>]
      BY <3>9, <3>10 DEF KeyHolds
    <3>12. SameAround(h, g, e)
      BY <3>9, <3>11 DEF SameAround, SameElsewhere, Fields
    <3> QED
      BY <3>8, <3>9, <3>12
  <2>2. CASE x.state # "active"
    <3>1. y.state # "active" /\ Even(m, n)
      BY <1>1, <2>2 DEF Follows
    <3>2. TouchesAside(m, en, n, ex, e)
      BY <1>1, <1>2, <1>4, <2>2, <3>1, AsideTouches
    <3>3. Booked(n, ex)
      BY <1>3, <1>4, <1>5, <3>1, <3>2, NoKeyBook
    <3> QED
      BY <1>4, <1>6, <3>2, <3>3, NoKeyHoldings
  <2> QED
    BY <2>1, <2>2
<1>9. Allotted(g, n)
  BY <1>1, <1>7, <1>8 DEF Pays
<1> QED
  BY <1>2, <1>6, <1>8, <1>9 DEF InOrder

-----------------------------------------------------------------------------
(* Flushing the buffer of a stream.                                         *)

\* An entry whose data is at place, with the buffer dirty or not.
Stored(x, place, dirty) ==
    [x EXCEPT !.mRecord = [x.mRecord EXCEPT !.data = place], !.mBufDirty = dirty]

\* A record with its data at place.
WithData(record, place) == [record EXCEPT !.data = place]

IsStored(y, x, place, dirty) ==
    /\ EntryOK(x) /\ x.bound
    /\ place \in SUBSET Blocks /\ dirty \in BOOLEAN /\ y = Stored(x, place, dirty)

LEMMA StoredIsOK ==
    ASSUME NEW x, NEW place, NEW dirty, NEW y, IsStored(y, x, place, dirty)
    PROVE  /\ EntryOK(y) /\ y.state = x.state /\ y.key = x.key /\ y.valid = x.valid /\ y.bound
           /\ y.mOutStream = x.mOutStream /\ y.mStreamEnd = x.mStreamEnd /\ y.mBufDirty = dirty
           /\ y.mRecord = WithData(x.mRecord, place) /\ y.mRecord \in Record
           /\ y.mRecord.data = place /\ y.mRecord.meta = x.mRecord.meta /\ y.mRecord.hash = x.key
<1>1. x \in Entry /\ x.mRecord \in Record /\ place \in SUBSET Blocks /\ dirty \in BOOLEAN
  BY DEF IsStored, EntryOK
<1>2. PICK r : r = [x.mRecord EXCEPT !.data = place]
  OBVIOUS
<1>3. r \in Record /\ r.data = place /\ r.meta = x.mRecord.meta /\ r.hash = x.mRecord.hash
  BY <1>1, <1>2 DEF Record
<1>4. y = [x EXCEPT !.mRecord = r, !.mBufDirty = dirty]
  BY <1>2 DEF IsStored, Stored
<1>6. /\ y.state = x.state /\ y.key = x.key /\ y.valid = x.valid /\ y.bound = x.bound
      /\ y.mOutStream = x.mOutStream /\ y.mStreamEnd = x.mStreamEnd /\ y.mBufDirty = dirty
      /\ y.mRecord = r
  BY <1>1, <1>4 DEF Entry
<1>7. y \in Entry
  BY <1>1, <1>3, <1>4 DEF Entry
<1>8. x.state # "free" /\ x.bound /\ x.mRecord.hash = x.key /\ x.key \in HashNumbers
  BY DEF IsStored, EntryOK
<1>9. EntryOK(y)
  BY <1>3, <1>6, <1>7, <1>8 DEF EntryOK
<1> QED
  BY <1>2, <1>3, <1>6, <1>8, <1>9 DEF WithData

\* The caches on the way of a flush: without the old data, without a buffer to flush, and
\* with the new data stored.
DataGone(c, e, n) == [c EXCEPT !.map = n, !.entry[e].mRecord.data = {}]
Emptied(c, e, n) == [c EXCEPT !.entry[e].mBufDirty = FALSE, !.map = n]
Written(c, e, n, record, dirty) ==
    [c EXCEPT !.map = n, !.entry[e].mRecord = record, !.entry[e].mBufDirty = dirty]
Clean(x) == [x EXCEPT !.mBufDirty = FALSE]
WithRecord(x, record, dirty) == [x EXCEPT !.mRecord = record, !.mBufDirty = dirty]

LEMMA GoneShape ==
    ASSUME NEW c, CacheOK(c), NEW e \in Entries, NEW n
    PROVE  DataGone(c, e, n) =
               Changed(c, n, e, Stored(c.entry[e], {}, c.entry[e].mBufDirty), c.amiss)
<1>1. PICK x, en, m, am : x = c.entry[e] /\ en = c.entry /\ m = c.map /\ am = c.amiss
  OBVIOUS
<1>2. c = [map |-> m, entry |-> en, amiss |-> am] /\ en \in [Entries -> Entry] /\ x \in Entry
  BY <1>1, CacheFields
<1>3. PICK r, y : r = [x.mRecord EXCEPT !.data = {}] /\ y = [x EXCEPT !.mRecord = r]
  OBVIOUS
<1>4. [c EXCEPT !.map = n, !.entry[e].mRecord.data = {}] =
         [[c EXCEPT !.map = n] EXCEPT !.entry[e].mRecord.data = {}]
  BY Zenon
<1>5. [c EXCEPT !.map = n] = [map |-> n, entry |-> en, amiss |-> am]
  BY <1>2
<1>6. PICK b : b = [map |-> n, entry |-> en, amiss |-> am]
  OBVIOUS
<1>7. [b EXCEPT !.entry[e].mRecord.data = {}] =
          [b EXCEPT !.entry = [b.entry EXCEPT ![e] = [b.entry[e] EXCEPT !.mRecord = [b.entry[e].mRecord EXCEPT !.data = {}]]]]
  BY Zenon
<1>8. b.entry = en /\ b.entry[e] = x
  BY <1>1, <1>6
<1>9. [b EXCEPT !.entry[e].mRecord.data = {}] = [b EXCEPT !.entry = [en EXCEPT ![e] = y]]
  BY <1>3, <1>7, <1>8
<1>10. [b EXCEPT !.entry = [en EXCEPT ![e] = y]] = [map |-> n, entry |-> [en EXCEPT ![e] = y], amiss |-> am]
  BY <1>6
<1>11. y = Stored(x, {}, x.mBufDirty)
  BY <1>2, <1>3 DEF Stored, Entry
<1> QED
  BY <1>1, <1>4, <1>5, <1>6, <1>9, <1>10, <1>11 DEF Changed, DataGone

LEMMA EmptiedShape ==
    ASSUME NEW c, CacheOK(c), NEW e \in Entries, NEW n
    PROVE  Emptied(c, e, n) = Changed(c, n, e, Clean(c.entry[e]), c.amiss)
<1>1. PICK x, en, m, am : x = c.entry[e] /\ en = c.entry /\ m = c.map /\ am = c.amiss
  OBVIOUS
<1>2. c = [map |-> m, entry |-> en, amiss |-> am]
  BY <1>1, CacheFields
<1>3. PICK y : y = [x EXCEPT !.mBufDirty = FALSE]
  OBVIOUS
<1>4. [c EXCEPT !.entry[e].mBufDirty = FALSE, !.map = n] =
         [[c EXCEPT !.entry = [c.entry EXCEPT ![e] = [c.entry[e] EXCEPT !.mBufDirty = FALSE]]] EXCEPT !.map = n]
  BY Zenon
<1>5. [c EXCEPT !.entry = [c.entry EXCEPT ![e] = [c.entry[e] EXCEPT !.mBufDirty = FALSE]]] = [c EXCEPT !.entry = [en EXCEPT ![e] = y]]
  BY <1>1, <1>3
<1>6. [[c EXCEPT !.entry = [en EXCEPT ![e] = y]] EXCEPT !.map = n] = [map |-> n, entry |-> [en EXCEPT ![e] = y], amiss |-> am]
  <2>1. PICK v : v = [en EXCEPT ![e] = y]
    OBVIOUS
  <2>2. [c EXCEPT !.entry = v] = [map |-> m, entry |-> v, amiss |-> am]
    BY <1>2
  <2>3. [[map |-> m, entry |-> v, amiss |-> am] EXCEPT !.map = n] = [map |-> n, entry |-> v, amiss |-> am]
    OBVIOUS
  <2> QED
    BY <2>1, <2>2, <2>3
<1> QED
  BY <1>1, <1>3, <1>4, <1>5, <1>6 DEF Changed, Emptied, Clean

LEMMA WrittenShape ==
    ASSUME NEW c, CacheOK(c), NEW e \in Entries, NEW n, NEW record, NEW dirty
    PROVE  Written(c, e, n, record, dirty) =
               Changed(c, n, e, WithRecord(c.entry[e], record, dirty), c.amiss)
<1>1. PICK x, en, m, am : x = c.entry[e] /\ en = c.entry /\ m = c.map /\ am = c.amiss
  OBVIOUS
<1>2. c = [map |-> m, entry |-> en, amiss |-> am] /\ en \in [Entries -> Entry]
  BY <1>1, CacheFields
<1>3. PICK y, z : y = [x EXCEPT !.mRecord = record] /\ z = [y EXCEPT !.mBufDirty = dirty]
  OBVIOUS
<1>4. z = [x EXCEPT !.mRecord = record, !.mBufDirty = dirty]
  BY <1>3, Zenon
<1>5. PICK b, d : b = [c EXCEPT !.map = n] /\ d = [b EXCEPT !.entry[e].mRecord = record]
  OBVIOUS
<1>6. [c EXCEPT !.map = n, !.entry[e].mRecord = record, !.entry[e].mBufDirty = dirty] = [d EXCEPT !.entry[e].mBufDirty = dirty]
  BY <1>5, Zenon
<1>7. b = [map |-> n, entry |-> en, amiss |-> am]
  BY <1>2, <1>5
<1>8. d = [b EXCEPT !.entry = [b.entry EXCEPT ![e] = [b.entry[e] EXCEPT !.mRecord = record]]]
  BY <1>5, Zenon
<1>9. d = [map |-> n, entry |-> [en EXCEPT ![e] = y], amiss |-> am]
  <2>1. b.entry = en /\ b.entry[e] = x
    BY <1>1, <1>7
  <2>2. d = [b EXCEPT !.entry = [en EXCEPT ![e] = y]]
    BY <1>3, <1>8, <2>1
  <2> QED
    BY <1>7, <2>2
<1>10. d.entry = [en EXCEPT ![e] = y] /\ d.entry[e] = y
  BY <1>2, <1>9
<1>11. [d EXCEPT !.entry[e].mBufDirty = dirty] = [d EXCEPT !.entry = [d.entry EXCEPT ![e] = [d.entry[e] EXCEPT !.mBufDirty = dirty]]]
  BY Zenon
<1>12. [d EXCEPT !.entry[e].mBufDirty = dirty] = [d EXCEPT !.entry = [[en EXCEPT ![e] = y] EXCEPT ![e] = z]]
  BY <1>3, <1>10, <1>11
<1>13. [[en EXCEPT ![e] = y] EXCEPT ![e] = z] = [en EXCEPT ![e] = z]
  BY <1>2
<1>14. [d EXCEPT !.entry = [en EXCEPT ![e] = z]] = [map |-> n, entry |-> [en EXCEPT ![e] = z], amiss |-> am]
  BY <1>9
<1> QED
  BY <1>1, <1>4, <1>6, <1>12, <1>13, <1>14 DEF Changed, Written, WithRecord

\* Freeing and allocating leave the records alone.
LEMMA FreedMap ==
    ASSUME NEW m, MapOK(m), NEW place \in SUBSET Blocks
    PROVE  /\ MapOK(DeleteStorage(m, place)) /\ SameRecords(m, DeleteStorage(m, place))
           /\ Shelved(m) => Shelved(DeleteStorage(m, place)) /\ Even(m, DeleteStorage(m, place))
<1>1. m \in MapRecord
  BY DEF MapOK
<1>2. DeleteStorage(m, place) \in MapRecord /\ SameRecords(m, DeleteStorage(m, place))
  BY <1>1, DeleteStorageFacts
<1> QED
  BY <1>2, SameRecordsFacts, EvenSame

LEMMA StoringMap ==
    ASSUME NEW m, MapOK(m), NEW place \in SUBSET Blocks
    PROVE  /\ MapOK(Storing(m, place)) /\ SameRecords(m, Storing(m, place))
           /\ Shelved(m) => Shelved(Storing(m, place)) /\ Even(m, Storing(m, place))
<1>1. m \in MapRecord
  BY DEF MapOK
<1>2. Storing(m, place) \in MapRecord /\ SameRecords(m, Storing(m, place))
  BY <1>1, StoringFacts
<1> QED
  BY <1>2, SameRecordsFacts, EvenSame

\* An active entry updates its record with itself.
LEMMA UpdateFollows ==
    ASSUME NEW m, MapOK(m), Shelved(m), NEW n, Even(m, n), NEW x, NEW y,
           x.state = "active", y.state = "active", y.bound, y.key = x.key,
           y.mRecord \in Record, y.mRecord.hash = x.key, HasRecord(m, x.key)
    PROVE  LET p == UpdateRecord(n, y.mRecord)
           IN  MapOK(p) /\ Shelved(p) /\ SameStorage(n, p) /\ Follows(m, p, x, y)
<1>1. PICK p, k, r : p = UpdateRecord(n, y.mRecord) /\ k = x.key /\ r = y.mRecord
  OBVIOUS
<1>2. k \in HashNumbers /\ r.hash = k /\ r \in Record
  BY <1>1 DEF Record
<1>3. HasRecord(n, k) /\ MapOK(n) /\ Shelved(n)
  BY <1>1, <1>2 DEF Even
<1>4. Plus(n, p, r) /\ SameStorage(n, p)
  BY <1>1, <1>2, <1>3, UpdateFinds
<1>5. \A j \in HashNumbers : j # k => /\ HasRecord(p, j) <=> HasRecord(m, j)
                                      /\ HasRecord(m, j) => FindRecord(p, j) = FindRecord(m, j)
  BY <1>2, <1>4 DEF Plus, Even
<1>6. HasRecord(p, k) /\ FindRecord(p, k) = r /\ MapOK(p) /\ Shelved(p)
  BY <1>2, <1>4 DEF Plus
<1>7. InBook(p, y)
  BY <1>1, <1>6 DEF InBook
<1> QED
  BY <1>1, <1>4, <1>5, <1>6, <1>7 DEF Follows

\* The record of an entry stays while its buffer is dirty.
LEMMA StaysFollows ==
    ASSUME NEW m, MapOK(m), NEW n, Even(m, n), NEW x, NEW y, y.state = x.state, x.bound, y.bound, y.key = x.key,
           x.state \in {"active", "doomed"}, x.state = "active" => InBook(m, x) /\ x.key \in HashNumbers,
           y.mRecord.meta = x.mRecord.meta, y.mBufDirty
    PROVE  Follows(m, n, x, y)
<1>1. CASE x.state = "active"
  <2>1. HasRecord(n, x.key) /\ FindRecord(n, x.key).meta = y.mRecord.meta
    BY <1>1 DEF InBook, Even
  <2>2. InBook(n, y)
    BY <2>1 DEF InBook
  <2>3. \A j \in HashNumbers : /\ HasRecord(n, j) <=> HasRecord(m, j)
                               /\ HasRecord(m, j) => FindRecord(n, j) = FindRecord(m, j)
    BY DEF Even
  <2> QED
    BY <1>1, <2>2, <2>3 DEF Follows
<1>2. CASE x.state = "doomed"
  BY <1>2 DEF Follows
<1> QED
  BY <1>1, <1>2

LEMMA OfStored ==
    ASSUME NEW x, NEW place, NEW dirty, NEW y, IsStored(y, x, place, dirty)
    PROVE  OfEntry(y, "data") = place /\ OfEntry(y, "meta") = OfEntry(x, "meta")
<1>1. y.bound /\ y.mRecord.data = place /\ y.mRecord.meta = x.mRecord.meta
  BY StoredIsOK
<1>3. x.bound
  BY DEF IsStored
<1>2. Piece(y.mRecord, "data") = place /\ Piece(y.mRecord, "meta") = Piece(x.mRecord, "meta")
  BY <1>1 DEF Piece
<1> QED
  BY <1>1, <1>2, <1>3 DEF OfEntry

LEMMA StoredAgain ==
    ASSUME NEW x, NEW z, NEW y, NEW none, NEW yes, NEW place, NEW after,
           IsStored(z, x, none, yes), IsStored(y, x, place, after)
    PROVE  WithRecord(z, WithData(z.mRecord, place), after) = y
<1>1. x \in Entry /\ x.mRecord \in Record
  BY DEF IsStored, EntryOK
<1>2. PICK r, s : r = [x.mRecord EXCEPT !.data = none] /\ s = [x.mRecord EXCEPT !.data = place]
  OBVIOUS
<1>3. z = [x EXCEPT !.mRecord = r, !.mBufDirty = yes] /\ y = [x EXCEPT !.mRecord = s, !.mBufDirty = after]
  BY <1>2 DEF IsStored, Stored
<1>4. z.mRecord = r
  BY <1>1, <1>3 DEF Entry
<1>5. [z.mRecord EXCEPT !.data = place] = s
  BY <1>1, <1>2, <1>4 DEF Record
<1>7. [z EXCEPT !.mRecord = s, !.mBufDirty = after] = y
  BY <1>1, <1>3 DEF Entry
<1> QED
  BY <1>5, <1>7 DEF WithRecord, WithData

LEMMA CleanAgain ==
    ASSUME NEW x, NEW z, NEW y, NEW none, NEW yes, IsStored(z, x, none, yes), IsStored(y, x, none, FALSE)
    PROVE  Clean(z) = y
<1>1. x \in Entry /\ x.mRecord \in Record
  BY DEF IsStored, EntryOK
<1>2. PICK r : r = [x.mRecord EXCEPT !.data = none]
  OBVIOUS
<1>3. z = [x EXCEPT !.mRecord = r, !.mBufDirty = yes] /\ y = [x EXCEPT !.mRecord = r, !.mBufDirty = FALSE]
  BY <1>2 DEF IsStored, Stored
<1>6. [z EXCEPT !.mBufDirty = FALSE] = [x EXCEPT !.mRecord = r, !.mBufDirty = FALSE]
  BY <1>1, <1>3 DEF Entry
<1> QED
  BY <1>3, <1>6 DEF Clean

\* The old data of an entry with a dirty buffer is deleted.
LEMMA GoneFacts ==
    ASSUME NEW c, CacheOK(c), NEW e \in Entries, NEW x, x = c.entry[e], x.bound, x.mBufDirty,
           NEW n, n = DeleteStorage(c.map, x.mRecord.data), NEW g, g = Stored(x, {}, TRUE)
    PROVE  /\ DataGone(c, e, n) = Changed(c, n, e, g, c.amiss)
           /\ CacheOK(Changed(c, n, e, g, c.amiss)) /\ MapOK(n) /\ EntryOK(g)
           /\ Pays(c.map, n, e, x, g)
           /\ Shelved(c.map) => Shelved(n) /\ Even(c.map, n)
<1>1. MapOK(c.map) /\ EntryOK(x) /\ c.amiss \in SUBSET Cases
  BY CacheFields
<1>2. x.mRecord.data \in SUBSET Blocks
  BY <1>1 DEF EntryOK, Record
<1>3. MapOK(n) /\ (Shelved(c.map) => Shelved(n) /\ Even(c.map, n))
  BY <1>1, <1>2, FreedMap
<1>4. x.mBufDirty = TRUE
  BY <1>1 DEF EntryOK, Entry
<1>13. PICK place, dirty : place = {} /\ dirty = TRUE
  OBVIOUS
<1>14. IsStored(g, x, place, dirty)
  BY <1>1, <1>13 DEF IsStored
<1>5. EntryOK(g) /\ OfEntry(g, "data") = {} /\ OfEntry(g, "meta") = OfEntry(x, "meta")
  <2>1. EntryOK(g)
    BY ONLY <1>14, StoredIsOK
  <2>2. OfEntry(g, "data") = place /\ OfEntry(g, "meta") = OfEntry(x, "meta")
    BY ONLY <1>14, OfStored
  <2> QED
    BY <1>13, <2>1, <2>2
<1>6. DataGone(c, e, n) = Changed(c, n, e, Stored(c.entry[e], {}, c.entry[e].mBufDirty), c.amiss)
  BY GoneShape
<1>7. DataGone(c, e, n) = Changed(c, n, e, g, c.amiss)
  BY <1>4, <1>6
<1>8. CacheOK(Changed(c, n, e, g, c.amiss))
  BY <1>1, <1>3, <1>5, ChangedFields
<1>9. OfEntry(x, "data") = x.mRecord.data
  BY DEF OfEntry, Piece
<1>10. SameStorage(DeleteStorage(c.map, OfEntry(x, "data")), n)
  BY <1>9 DEF SameStorage
<1>11. "data" \in Fields /\ \A f \in Fields : f # "data" => f = "meta"
  BY DEF Fields
<1>12. Pays(c.map, n, e, x, g)
  BY <1>1, <1>5, <1>10, <1>11, PaysFreed
<1> QED
  BY <1>3, <1>5, <1>7, <1>8, <1>12

\* The entry x with a dirty buffer, and the cache without its old data.
Flushing(c, e, x, n, g, gone) ==
    /\ CacheOK(c) /\ e \in Entries /\ x = c.entry[e] /\ x.bound /\ x.mBufDirty
    /\ n = DeleteStorage(c.map, x.mRecord.data) /\ g = Stored(x, {}, TRUE)
    /\ gone = Changed(c, n, e, g, c.amiss)

\* The cache with nothing to store.
EmptiedOf(c, e, x, n, g) ==
    Changed(c, IF x.state = "doomed" THEN n ELSE UpdateRecord(n, g.mRecord), e, Stored(x, {}, FALSE), c.amiss)

\* The parts of Flush.
LEMMA FlushIs ==
    ASSUME NEW c, NEW e, NEW x, NEW n, NEW g, NEW gone, Flushing(c, e, x, n, g, gone)
    PROVE  /\ x.mStreamEnd = 0 =>
                  Flush(c, e) = EmptiedOf(c, e, x, n, g)
           /\ x.mStreamEnd # 0 /\ AllocateBlocks(n, x.mStreamEnd) = {} => Flush(c, e) = gone
           /\ x.mStreamEnd # 0 /\ AllocateBlocks(n, x.mStreamEnd) # {} =>
                  Flush(c, e) = WriteDataCacheBlocks(gone, e, AllocateBlocks(n, x.mStreamEnd))
<1> CacheOK(c) /\ e \in Entries /\ x = c.entry[e] /\ x.bound /\ x.mBufDirty
    /\ n = DeleteStorage(c.map, x.mRecord.data) /\ g = Stored(x, {}, TRUE)
    /\ gone = Changed(c, n, e, g, c.amiss)
  BY DEF Flushing
<1>1. PICK old : old = DataGone(c, e, n)
  OBVIOUS
<1>2. old = gone /\ CacheOK(gone) /\ MapOK(n) /\ EntryOK(g)
  BY <1>1, GoneFacts
<1>3. gone.map = n /\ gone.entry[e] = g /\ gone.amiss = c.amiss
  <2>1. c.entry \in [Entries -> Entry]
    BY CacheFields
  <2> QED
    BY <2>1 DEF Changed
<1>4. EntryOK(x)
  BY CacheFields
<1>5. ASSUME x.mStreamEnd = 0
      PROVE  Flush(c, e) = EmptiedOf(c, e, x, n, g)
  <2>1. Flush(c, e) = Emptied(old, e, IF c.entry[e].state = "doomed" THEN old.map
                                      ELSE UpdateRecord(old.map, old.entry[e].mRecord))
    BY <1>1, <1>5 DEF Flush, Emptied, DataGone
  <2>2. PICK p : p = IF x.state = "doomed" THEN n ELSE UpdateRecord(n, g.mRecord)
    OBVIOUS
  <2>3. Flush(c, e) = Emptied(gone, e, p)
    BY <1>2, <1>3, <2>1, <2>2
  <2>4. Flush(c, e) = Changed(gone, p, e, Clean(gone.entry[e]), gone.amiss)
    BY <1>2, <2>3, EmptiedShape
  <2>5. Clean(g) = Stored(x, {}, FALSE)
    <3>1. PICK none, yes, y : none = {} /\ yes = TRUE /\ y = Stored(x, {}, FALSE)
      OBVIOUS
    <3>2. IsStored(g, x, none, yes) /\ IsStored(y, x, none, FALSE)
      BY <1>4, <3>1 DEF IsStored
    <3>3. Clean(g) = y
      BY ONLY <3>2, CleanAgain
    <3> QED
      BY <3>1, <3>3
  <2>6. Flush(c, e) = Changed(gone, p, e, Stored(x, {}, FALSE), c.amiss)
    BY <1>3, <2>4, <2>5
  <2>7. Changed(gone, p, e, Stored(x, {}, FALSE), c.amiss) = Changed(c, p, e, Stored(x, {}, FALSE), c.amiss)
    <3>1. PICK s : s = Stored(x, {}, FALSE)
      OBVIOUS
    <3>2. Changed(Changed(c, n, e, g, c.amiss), p, e, s, c.amiss) = Changed(c, p, e, s, c.amiss)
      <4>1. PICK en : en = c.entry
        OBVIOUS
      <4>2. [[en EXCEPT ![e] = g] EXCEPT ![e] = s] = [en EXCEPT ![e] = s]
        BY <4>1, CacheFields
      <4> QED
        BY ONLY <4>1, <4>2 DEF Changed
    <3> QED
      BY <3>1, <3>2
  <2> QED
    BY <2>2, <2>6, <2>7 DEF EmptiedOf
<1>6. ASSUME x.mStreamEnd # 0, AllocateBlocks(n, x.mStreamEnd) = {} PROVE Flush(c, e) = gone
  <2>1. PICK size : size = x.mStreamEnd
    OBVIOUS
  <2>2. c.entry[e].mBufDirty /\ c.entry[e].mStreamEnd = size /\ size # 0 /\ AllocateBlocks(n, size) = {} /\ old.map = n
    BY <1>2, <1>3, <1>6, <2>1
  <2>3. Flush(c, e) = old
    BY <1>1, <2>2 DEF Flush, DataGone
  <2> QED
    BY <1>2, <2>3
<1>7. ASSUME x.mStreamEnd # 0, AllocateBlocks(n, x.mStreamEnd) # {}
      PROVE  Flush(c, e) = WriteDataCacheBlocks(gone, e, AllocateBlocks(n, x.mStreamEnd))
  BY <1>1, <1>2, <1>3, <1>7 DEF Flush, DataGone
<1> QED
  BY <1>5, <1>6, <1>7

LEMMA AmissShape ==
    ASSUME NEW c, NEW n, NEW e, NEW y, NEW a, NEW case, NEW met, NEW b, b = IF met THEN a \cup {case} ELSE a
    PROVE  Amiss(Changed(c, n, e, y, a), case, met) = Changed(c, n, e, y, b)
<1>1. PICK en : en = [c.entry EXCEPT ![e] = y]
  OBVIOUS
<1>2. Changed(c, n, e, y, a) = [map |-> n, entry |-> en, amiss |-> a]
  BY ONLY <1>1 DEF Changed
<1>3. [[map |-> n, entry |-> en, amiss |-> a] EXCEPT !.amiss = @ \cup {case}]
          = [map |-> n, entry |-> en, amiss |-> a \cup {case}]
  OBVIOUS
<1>4. CASE met
  <2>1. b = a \cup {case}
    BY <1>4
  <2>2. Amiss(Changed(c, n, e, y, a), case, met) = [map |-> n, entry |-> en, amiss |-> a \cup {case}]
    BY <1>2, <1>3, <1>4 DEF Amiss
  <2> QED
    BY <1>1, <2>1, <2>2 DEF Changed
<1>5. CASE ~met
  BY <1>1, <1>2, <1>5 DEF Amiss, Changed
<1> QED
  BY <1>4, <1>5

\* A dirty buffer is written to the new place.
LEMMA WriteDataIs ==
    ASSUME NEW c, NEW e, NEW x, NEW n, NEW g, NEW gone, Flushing(c, e, x, n, g, gone), NEW place, NEW dirty,
           NEW y, IsStored(y, x, place, dirty), dirty = ~HasRecord(n, x.key)
    PROVE  \E a \in SUBSET Cases :
               /\ WriteDataCacheBlocks(gone, e, place) =
                      Changed(c, UpdateRecord(Storing(n, place), y.mRecord), e, y, a)
               /\ c.amiss \subseteq a
               /\ x.state = "doomed" /\ ~dirty => "late" \in a
<1> CacheOK(c) /\ e \in Entries /\ x = c.entry[e] /\ x.bound /\ x.mBufDirty
    /\ n = DeleteStorage(c.map, x.mRecord.data) /\ g = Stored(x, {}, TRUE)
    /\ gone = Changed(c, n, e, g, c.amiss)
  BY DEF Flushing
<1> place \in SUBSET Blocks /\ dirty \in BOOLEAN /\ y = Stored(x, place, dirty)
  BY DEF IsStored
<1> PICK d : d = WriteDataCacheBlocks(gone, e, place)
  OBVIOUS
<1>1. CacheOK(gone) /\ MapOK(n) /\ EntryOK(g)
  BY GoneFacts
<1>2. gone.map = n /\ gone.entry[e] = g /\ gone.amiss = c.amiss /\ c.amiss \in SUBSET Cases /\ EntryOK(x)
      /\ c.entry \in [Entries -> Entry]
  <2>1. c.entry \in [Entries -> Entry] /\ c.amiss \in SUBSET Cases /\ EntryOK(x)
    BY CacheFields
  <2> QED
    BY <2>1 DEF Changed
<1>3. g.key = x.key /\ g.state = x.state
  <2>1. PICK none, yes : none = {} /\ yes = TRUE
    OBVIOUS
  <2>2. IsStored(g, x, none, yes)
    BY <1>2, <2>1 DEF IsStored
  <2> QED
    BY ONLY <2>2, StoredIsOK
<1>4. PICK record, p : record = WithData(g.mRecord, place) /\ p = UpdateRecord(Storing(n, place), record)
  OBVIOUS
<1>5. d = Amiss(Written(gone, e, p, record, dirty), "late", x.state = "doomed" /\ ~dirty)
  <2>1. gone.entry[e].key = x.key /\ gone.entry[e].state = x.state /\ gone.entry[e].mRecord = g.mRecord
    BY <1>2, <1>3
  <2>2. WriteDataCacheBlocks(gone, e, place) =
            Amiss(Written(gone, e, UpdateRecord(Storing(gone.map, place), WithData(gone.entry[e].mRecord, place)),
                          WithData(gone.entry[e].mRecord, place), ~HasRecord(gone.map, gone.entry[e].key)),
                  "late", gone.entry[e].state = "doomed" /\ HasRecord(gone.map, gone.entry[e].key))
    BY Zenon DEF WriteDataCacheBlocks, Written, Storing, WithData
  <2>3. Written(gone, e, UpdateRecord(Storing(gone.map, place), WithData(gone.entry[e].mRecord, place)),
                WithData(gone.entry[e].mRecord, place), ~HasRecord(gone.map, gone.entry[e].key))
            = Written(gone, e, p, record, dirty)
    BY <1>2, <1>4, <2>1, Zenon
  <2>4. (gone.entry[e].state = "doomed" /\ HasRecord(gone.map, gone.entry[e].key)) = (x.state = "doomed" /\ ~dirty)
    BY <1>2, <2>1
  <2> QED
    BY <2>2, <2>3, <2>4, Zenon
<1>6. y = WithRecord(g, record, dirty)
  <2>1. PICK none, yes : none = {} /\ yes = TRUE
    OBVIOUS
  <2>2. IsStored(g, x, none, yes) /\ IsStored(y, x, place, dirty)
    BY <1>2, <2>1 DEF IsStored
  <2>3. WithRecord(g, WithData(g.mRecord, place), dirty) = y
    BY ONLY <2>2, StoredAgain
  <2> QED
    BY <1>4, <2>3
<1>7. Written(gone, e, p, record, dirty) = Changed(gone, p, e, y, c.amiss)
  <2>1. Written(gone, e, p, record, dirty) = Changed(gone, p, e, WithRecord(gone.entry[e], record, dirty), gone.amiss)
    BY ONLY <1>1, e \in Entries, WrittenShape
  <2> QED
    BY <1>2, <1>6, <2>1
<1>8. Changed(gone, p, e, y, c.amiss) = Changed(c, p, e, y, c.amiss)
  <2>1. PICK en : en = c.entry
    OBVIOUS
  <2>2. [[en EXCEPT ![e] = g] EXCEPT ![e] = y] = [en EXCEPT ![e] = y]
    BY <1>2, <2>1
  <2>3. gone.entry = [en EXCEPT ![e] = g]
    BY <2>1 DEF Changed
  <2> QED
    BY ONLY <2>1, <2>2, <2>3 DEF Changed
<1>9. PICK met, a : met = (x.state = "doomed" /\ ~dirty) /\ a = IF met THEN c.amiss \cup {"late"} ELSE c.amiss
  OBVIOUS
<1>10. d = Changed(c, p, e, y, a)
  <2>1. d = Amiss(Changed(c, p, e, y, c.amiss), "late", met)
    BY <1>5, <1>7, <1>8, <1>9
  <2>2. Amiss(Changed(c, p, e, y, c.amiss), "late", met) = Changed(c, p, e, y, a)
    BY ONLY <1>9, AmissShape
  <2> QED
    BY <2>1, <2>2
<1>11. y.mRecord = record
  BY <1>1, <1>6 DEF WithRecord, EntryOK, Entry
<1>12. a \in SUBSET Cases /\ c.amiss \subseteq a /\ (x.state = "doomed" /\ ~dirty => "late" \in a)
  BY <1>2, <1>9 DEF Cases
<1> QED
  BY <1>4, <1>10, <1>11, <1>12

\* What a flush makes of the cache.
Flushed(c, e, d) ==
    /\ CacheOK(d) /\ c.amiss \subseteq d.amiss /\ (Good(c) => Good(d))
    /\ \A f \in Entries : f # e => d.entry[f] = c.entry[f]
    /\ LET x == c.entry[e]
           z == d.entry[e]
       IN  /\ z.state = x.state /\ z.key = x.key /\ z.valid = x.valid /\ z.bound = x.bound
           /\ z.mOutStream = x.mOutStream /\ z.mRecord.meta = x.mRecord.meta
           /\ z.mBufDirty => x.mBufDirty
           /\ x.state = "doomed" /\ x.mBufDirty /\ ~z.mBufDirty /\ "late" \notin d.amiss => z.mRecord.data = {}

\* A flush that makes the map p and the entry y.
FlushStep(c, e, d, p, y, a, place, dirty) ==
    /\ CacheOK(c) /\ e \in Entries
    /\ IsStored(y, c.entry[e], place, dirty)
    /\ MapOK(p) /\ a \in SUBSET Cases /\ c.amiss \subseteq a /\ d = Changed(c, p, e, y, a)
    /\ c.entry[e].mBufDirty
    /\ a = {} /\ InOrder(c.map, c.entry) =>
           Shelved(p) /\ Follows(c.map, p, c.entry[e], y) /\ Pays(c.map, p, e, c.entry[e], y)
    /\ c.entry[e].state = "doomed" /\ ~dirty /\ "late" \notin a => place = {}

LEMMA FlushStepFacts ==
    ASSUME NEW c, NEW e, NEW d, NEW p, NEW y, NEW a, NEW place, NEW dirty, FlushStep(c, e, d, p, y, a, place, dirty)
    PROVE  Flushed(c, e, d)
<1>1. PICK x : x = c.entry[e]
  OBVIOUS
<1>2. CacheOK(c) /\ e \in Entries /\ IsStored(y, x, place, dirty) /\ MapOK(p) /\ a \in SUBSET Cases
      /\ c.amiss \subseteq a /\ d = Changed(c, p, e, y, a) /\ x.mBufDirty
  BY <1>1 DEF FlushStep
<1>3. x.bound
  BY <1>2 DEF IsStored
<1>4. /\ EntryOK(y) /\ y.state = x.state /\ y.key = x.key /\ y.valid = x.valid /\ y.bound
      /\ y.mOutStream = x.mOutStream /\ y.mBufDirty = dirty
      /\ y.mRecord.data = place /\ y.mRecord.meta = x.mRecord.meta
  BY ONLY <1>2, StoredIsOK
<1>5. CacheOK(Changed(c, p, e, y, a))
  BY ONLY <1>2, <1>4, ChangedFields
<1>6. d.entry[e] = y /\ d.amiss = a /\ d.map = p /\ \A f \in Entries : f # e => d.entry[f] = c.entry[f]
  <2>1. c.entry \in [Entries -> Entry]
    BY <1>2, CacheFields
  <2> QED
    BY <1>2, <2>1 DEF Changed
<1>7. ASSUME Good(c) PROVE Good(d)
  <2>1. SUFFICES ASSUME a = {} PROVE InOrder(p, Changed(c, p, e, y, a).entry)
    BY <1>2, <1>6 DEF Good
  <2>2. InOrder(c.map, c.entry)
    BY <1>2, <1>7, <2>1 DEF Good
  <2>3. Shelved(p) /\ Follows(c.map, p, x, y) /\ Pays(c.map, p, e, x, y)
    BY <1>1, <2>1, <2>2 DEF FlushStep
  <2> QED
    BY <1>1, <1>2, <1>3, <1>4, <2>2, <2>3, OwnedOrder
<1>8. dirty \in BOOLEAN
  BY <1>2 DEF IsStored
<1>9. x.state = "doomed" /\ ~dirty /\ "late" \notin a => place = {}
  BY <1>1 DEF FlushStep
<1>10. CacheOK(d)
  BY <1>2, <1>5
<1>11. LET z == d.entry[e]
       IN  /\ z.state = x.state /\ z.key = x.key /\ z.valid = x.valid /\ z.bound = x.bound
           /\ z.mOutStream = x.mOutStream /\ z.mRecord.meta = x.mRecord.meta
           /\ z.mBufDirty => x.mBufDirty
           /\ x.state = "doomed" /\ x.mBufDirty /\ ~z.mBufDirty /\ "late" \notin d.amiss => z.mRecord.data = {}
  BY <1>2, <1>3, <1>4, <1>6, <1>8, <1>9
<1> QED
  BY <1>1, <1>2, <1>6, <1>7, <1>10, <1>11 DEF Flushed

\* A buffer that becomes empty, or stays dirty without the old data, or is written.
LEMMA EmptiedStep ==
    ASSUME NEW c, CacheOK(c), NEW e \in Entries, NEW x, x = c.entry[e], x.bound, x.mBufDirty,
           NEW n, n = DeleteStorage(c.map, x.mRecord.data), NEW none, none = {},
           NEW y, IsStored(y, x, none, FALSE), NEW p, p = IF x.state = "doomed" THEN n ELSE UpdateRecord(n, y.mRecord)
    PROVE  FlushStep(c, e, Changed(c, p, e, y, c.amiss), p, y, c.amiss, none, FALSE)
<1>1. MapOK(c.map) /\ EntryOK(x) /\ c.amiss \in SUBSET Cases
  BY CacheFields
<1>2. x.mRecord.data \in SUBSET Blocks /\ x.state \in {"active", "doomed"} /\ x.key \in HashNumbers
  BY <1>1 DEF EntryOK, Record, Entry
<1>3. MapOK(n) /\ (Shelved(c.map) => Shelved(n) /\ Even(c.map, n))
  BY <1>1, <1>2, FreedMap
<1>10. PICK no : no = FALSE
  OBVIOUS
<1>11. IsStored(y, x, none, no)
  BY <1>10
<1>4. y.state = x.state /\ y.key = x.key /\ y.bound /\ y.mRecord \in Record /\ y.mRecord.hash = x.key
  BY ONLY <1>11, StoredIsOK
<1>5. MapOK(p) /\ SameStorage(n, p)
  <2>1. MapOK(UpdateRecord(n, y.mRecord)) /\ SameStorage(n, UpdateRecord(n, y.mRecord))
    BY <1>3, <1>4, UpdateRecordFacts
  <2>2. SameStorage(n, n)
    BY DEF SameStorage
  <2> QED
    BY <1>3, <2>1, <2>2
<1>6. OfEntry(y, "data") = {} /\ OfEntry(y, "meta") = OfEntry(x, "meta")
  BY ONLY <1>11, none = {}, OfStored
<1>7. Pays(c.map, p, e, x, y)
  <2>1. OfEntry(x, "data") = x.mRecord.data
    BY DEF OfEntry, Piece
  <2>2. SameStorage(DeleteStorage(c.map, OfEntry(x, "data")), p)
    BY <1>5, <2>1
  <2>3. "data" \in Fields /\ \A f \in Fields : f # "data" => f = "meta"
    BY DEF Fields
  <2> QED
    BY <1>1, <1>6, <2>2, <2>3, PaysFreed
<1>8. ASSUME InOrder(c.map, c.entry) PROVE Shelved(p) /\ Follows(c.map, p, x, y)
  <2>1. Shelved(c.map) /\ (x.state = "active" => InBook(c.map, x))
    BY <1>8 DEF InOrder, Booked
  <2>2. CASE x.state = "doomed"
    BY <1>3, <1>4, <2>1, <2>2 DEF Follows
  <2>3. CASE x.state = "active"
    <3>1. HasRecord(c.map, x.key) /\ p = UpdateRecord(n, y.mRecord)
      BY <2>1, <2>3 DEF InBook
    <3> QED
      BY <1>1, <1>3, <1>4, <2>1, <2>3, <3>1, UpdateFollows
  <2> QED
    BY <1>2, <2>2, <2>3
<1>9. none = {} /\ (c.amiss = {} /\ InOrder(c.map, c.entry) =>
           Shelved(p) /\ Follows(c.map, p, c.entry[e], y) /\ Pays(c.map, p, e, c.entry[e], y))
  BY <1>7, <1>8
<1> QED
  BY <1>1, <1>5, <1>9 DEF FlushStep

LEMMA GoneStep ==
    ASSUME NEW c, CacheOK(c), NEW e \in Entries, NEW x, x = c.entry[e], x.bound, x.mBufDirty,
           NEW n, n = DeleteStorage(c.map, x.mRecord.data), NEW none, none = {},
           NEW g, IsStored(g, x, none, TRUE)
    PROVE  FlushStep(c, e, Changed(c, n, e, g, c.amiss), n, g, c.amiss, none, TRUE)
<1>1. MapOK(c.map) /\ EntryOK(x) /\ c.amiss \in SUBSET Cases
  BY CacheFields
<1>2. g = Stored(x, {}, TRUE)
  BY DEF IsStored
<1>3. MapOK(n) /\ Pays(c.map, n, e, x, g) /\ (Shelved(c.map) => Shelved(n) /\ Even(c.map, n))
  BY <1>2, GoneFacts
<1>4. g.state = x.state /\ g.key = x.key /\ g.bound /\ g.mRecord.meta = x.mRecord.meta /\ g.mBufDirty
  <2>1. PICK yes : yes = TRUE
    OBVIOUS
  <2>2. IsStored(g, x, none, yes)
    BY <2>1
  <2>3. g.state = x.state /\ g.key = x.key /\ g.bound /\ g.mRecord.meta = x.mRecord.meta /\ g.mBufDirty = yes
    BY ONLY <2>2, StoredIsOK
  <2> QED
    BY <2>1, <2>3
<1>5. x.state \in {"active", "doomed"} /\ x.key \in HashNumbers
  BY <1>1 DEF EntryOK, Entry
<1>6. ASSUME InOrder(c.map, c.entry) PROVE Shelved(n) /\ Follows(c.map, n, x, g)
  <2>1. Shelved(c.map) /\ (x.state = "active" => InBook(c.map, x))
    BY <1>6 DEF InOrder, Booked
  <2> QED
    BY <1>1, <1>3, <1>4, <1>5, <2>1, StaysFollows
<1>7. c.amiss = {} /\ InOrder(c.map, c.entry) =>
           Shelved(n) /\ Follows(c.map, n, c.entry[e], g) /\ Pays(c.map, n, e, c.entry[e], g)
  BY <1>3, <1>6
<1> QED
  BY <1>1, <1>3, <1>7 DEF FlushStep

\* A buffer that is written, to a record that is there or in vain.
Writing(c, e, x, n, g, place, dirty, y, p, a) ==
    /\ CacheOK(c) /\ e \in Entries /\ x = c.entry[e] /\ x.bound /\ x.mBufDirty
    /\ n = DeleteStorage(c.map, x.mRecord.data) /\ g = Stored(x, {}, TRUE)
    /\ place \cap n.mBitMap = {} /\ dirty = ~HasRecord(n, x.key)
    /\ IsStored(y, x, place, dirty) /\ p = UpdateRecord(Storing(n, place), y.mRecord)
    /\ a \in SUBSET Cases /\ c.amiss \subseteq a /\ (x.state = "doomed" /\ ~dirty => "late" \in a)

LEMMA WrittenStep ==
    ASSUME NEW c, NEW e, NEW x, NEW n, NEW g, NEW place, NEW dirty, NEW y, NEW p, NEW a,
           Writing(c, e, x, n, g, place, dirty, y, p, a)
    PROVE  FlushStep(c, e, Changed(c, p, e, y, a), p, y, a, place, dirty)
<1> /\ CacheOK(c) /\ e \in Entries /\ x = c.entry[e] /\ x.bound /\ x.mBufDirty
    /\ n = DeleteStorage(c.map, x.mRecord.data) /\ g = Stored(x, {}, TRUE)
    /\ place \cap n.mBitMap = {} /\ dirty = ~HasRecord(n, x.key)
    /\ IsStored(y, x, place, dirty) /\ p = UpdateRecord(Storing(n, place), y.mRecord)
    /\ a \in SUBSET Cases /\ c.amiss \subseteq a /\ (x.state = "doomed" /\ ~dirty => "late" \in a)
  BY DEF Writing
<1>1. MapOK(c.map) /\ EntryOK(x)
  BY CacheFields
<1>2. x.mRecord.data \in SUBSET Blocks /\ x.state \in {"active", "doomed"} /\ x.key \in HashNumbers
  BY <1>1 DEF EntryOK, Record, Entry
<1>3. MapOK(n) /\ Pays(c.map, n, e, x, g) /\ (Shelved(c.map) => Shelved(n) /\ Even(c.map, n))
  BY GoneFacts
<1>4. y.state = x.state /\ y.key = x.key /\ y.bound /\ y.mRecord \in Record /\ y.mRecord.hash = x.key
      /\ OfEntry(y, "data") = place /\ OfEntry(y, "meta") = OfEntry(x, "meta")
  BY ONLY IsStored(y, x, place, dirty), StoredIsOK, OfStored
<1>5. place \in SUBSET Blocks
  BY DEF IsStored
<1>6. PICK s : s = Storing(n, place)
  OBVIOUS
<1>7. MapOK(s) /\ SameRecords(n, s) /\ (Shelved(n) => Shelved(s) /\ Even(n, s))
  BY <1>3, <1>5, <1>6, StoringMap
<1>8. MapOK(p) /\ SameStorage(s, p) /\ (~HasRecord(s, x.key) => p = s)
  BY <1>4, <1>6, <1>7, UpdateRecordFacts
<1>9. Pays(c.map, p, e, x, y)
  <2>1. PICK none, yes : none = {} /\ yes = TRUE
    OBVIOUS
  <2>2. IsStored(g, x, none, yes)
    BY <1>1, <2>1 DEF IsStored
  <2>3. OfEntry(g, "data") = none /\ OfEntry(g, "meta") = OfEntry(x, "meta")
    BY ONLY <2>2, OfStored
  <2>4. "data" \in Fields /\ \A f \in Fields : f # "data" => f = "meta"
    BY DEF Fields
  <2>5. Pays(n, p, e, g, y)
    <3>1. SameStorage(Storing(n, OfEntry(y, "data")), p)
      BY <1>4, <1>6, <1>8
    <3>2. OfEntry(g, "data") = {} /\ \A f \in Fields : f # "data" => OfEntry(y, f) = OfEntry(g, f)
      BY <1>4, <2>1, <2>3, <2>4
    <3>3. OfEntry(y, "data") \in SUBSET Blocks /\ OfEntry(y, "data") \cap n.mBitMap = {}
      BY <1>4, <1>5
    <3> QED
      BY ONLY <1>3, e \in Entries, <2>4, <3>1, <3>2, <3>3, PaysTaken
  <2> QED
    BY ONLY <1>3, <2>5, PaysBoth
<1>10. ASSUME a = {}, InOrder(c.map, c.entry) PROVE Shelved(p) /\ Follows(c.map, p, x, y)
  <2>1. Shelved(c.map) /\ (x.state = "active" => InBook(c.map, x))
    BY <1>10 DEF InOrder, Booked
  <2>2. Even(c.map, s)
    BY <1>3, <1>7, <2>1 DEF Even
  <2>3. HasRecord(c.map, x.key) <=> HasRecord(n, x.key)
    BY <1>2, <1>3, <2>1 DEF Even
  <2>4. CASE x.state = "doomed"
    <3>1. ~HasRecord(c.map, x.key)
      BY <1>10, <2>3, <2>4
    <3>2. p = s
      BY <1>2, <1>8, <2>2, <3>1 DEF Even
    <3>3. Even(c.map, p) /\ Shelved(p)
      BY <2>2, <3>2 DEF Even
    <3> QED
      BY <1>4, <2>4, <3>3 DEF Follows
  <2>5. CASE x.state = "active"
    <3>1. HasRecord(c.map, x.key) /\ p = UpdateRecord(s, y.mRecord)
      BY <1>6, <2>1, <2>5 DEF InBook
    <3> QED
      BY <1>1, <1>4, <2>1, <2>2, <2>5, <3>1, UpdateFollows
  <2> QED
    BY <1>2, <2>4, <2>5
<1>11. a = {} /\ InOrder(c.map, c.entry) =>
           Shelved(p) /\ Follows(c.map, p, c.entry[e], y) /\ Pays(c.map, p, e, c.entry[e], y)
  BY <1>9, <1>10
<1> QED
  BY <1>8, <1>11 DEF FlushStep

\* All ways that Flush can go.
LEMMA FlushFacts ==
    ASSUME NEW c, CacheOK(c), NEW e \in Entries, c.entry[e].bound
    PROVE  Flushed(c, e, Flush(c, e)) /\ (~c.entry[e].mBufDirty => Flush(c, e) = c)
<1>1. CASE ~c.entry[e].mBufDirty
  <2>1. Flush(c, e) = c
    BY <1>1 DEF Flush
  <2>2. Flushed(c, e, c)
    BY <1>1 DEF Flushed
  <2> QED
    BY <2>1, <2>2
<1>2. CASE c.entry[e].mBufDirty
  <2>1. PICK x : x = c.entry[e]
    OBVIOUS
  <2>2. PICK n, g : n = DeleteStorage(c.map, x.mRecord.data) /\ g = Stored(x, {}, TRUE)
    OBVIOUS
  <2>3. PICK gone : gone = Changed(c, n, e, g, c.amiss)
    OBVIOUS
  <2>4. x.bound /\ x.mBufDirty
    BY <1>2, <2>1
  <2>5. EntryOK(x) /\ x.mStreamEnd \in Nat /\ x.mRecord \in Record
    <3>1. EntryOK(x) /\ x \in Entry
      BY <2>1, CacheFields
    <3>2. x.mStreamEnd \in {0} \cup DataSizes /\ x.mRecord \in Record
      BY <2>4, <3>1 DEF EntryOK, Entry
    <3>3. DataSizes \subseteq 1..4
      BY DiskCacheAssumption
    <3>4. x.mStreamEnd = 0 \/ x.mStreamEnd \in 1..4
      BY ONLY <3>2, <3>3
    <3> QED
      BY ONLY <3>1, <3>2, <3>4
  <2>11. Flushing(c, e, x, n, g, gone)
    BY <2>1, <2>2, <2>3, <2>4 DEF Flushing
  <2>6. /\ x.mStreamEnd = 0 =>
               Flush(c, e) = EmptiedOf(c, e, x, n, g)
        /\ x.mStreamEnd # 0 /\ AllocateBlocks(n, x.mStreamEnd) = {} => Flush(c, e) = gone
        /\ x.mStreamEnd # 0 /\ AllocateBlocks(n, x.mStreamEnd) # {} =>
               Flush(c, e) = WriteDataCacheBlocks(gone, e, AllocateBlocks(n, x.mStreamEnd))
    BY ONLY <2>11, FlushIs
  <2>7. PICK none : none = {}
    OBVIOUS
  <2>8. CASE x.mStreamEnd = 0
    <3>1. PICK y, p : y = Stored(x, {}, FALSE) /\ p = IF x.state = "doomed" THEN n ELSE UpdateRecord(n, y.mRecord)
      OBVIOUS
    <3>2. IsStored(y, x, none, FALSE)
      BY <2>4, <2>5, <2>7, <3>1 DEF IsStored
    <3>3. g.mRecord = y.mRecord
      BY <2>2, <2>5, <3>1 DEF Stored, EntryOK, Entry
    <3>4. Flush(c, e) = Changed(c, p, e, y, c.amiss)
      BY <2>6, <2>8, <3>1, <3>3 DEF EmptiedOf
    <3>5. FlushStep(c, e, Changed(c, p, e, y, c.amiss), p, y, c.amiss, none, FALSE)
      BY <2>1, <2>2, <2>4, <2>7, <3>1, <3>2, EmptiedStep
    <3>6. Flushed(c, e, Flush(c, e))
      BY <3>4, <3>5, FlushStepFacts
    <3> QED
      BY <1>2, <3>6
  <2>9. CASE x.mStreamEnd # 0 /\ AllocateBlocks(n, x.mStreamEnd) = {}
    <3>1. IsStored(g, x, none, TRUE)
      BY <2>2, <2>4, <2>5, <2>7 DEF IsStored
    <3>2. FlushStep(c, e, Changed(c, n, e, g, c.amiss), n, g, c.amiss, none, TRUE)
      BY <2>1, <2>2, <2>4, <2>7, <3>1, GoneStep
    <3>3. Flushed(c, e, Flush(c, e))
      BY <2>3, <2>6, <2>9, <3>2, FlushStepFacts
    <3> QED
      BY <1>2, <3>3
  <2>10. CASE x.mStreamEnd # 0 /\ AllocateBlocks(n, x.mStreamEnd) # {}
    <3>1. PICK place, dirty, y : place = AllocateBlocks(n, x.mStreamEnd) /\ dirty = (~HasRecord(n, x.key)) /\ y = Stored(x, place, dirty)
      OBVIOUS
    <3>2. place \in SUBSET Blocks /\ place \cap n.mBitMap = {}
      BY <2>5, <2>10, <3>1, AllocateBlocksFacts
    <3>3. Flush(c, e) = WriteDataCacheBlocks(gone, e, place)
      BY <2>6, <2>10, <3>1
    <3>4. IsStored(y, x, place, dirty)
      BY <2>4, <2>5, <3>1, <3>2 DEF IsStored
    <3>5. PICK p : p = UpdateRecord(Storing(n, place), y.mRecord)
      OBVIOUS
    <3>6. \E a \in SUBSET Cases : /\ Flush(c, e) = Changed(c, p, e, y, a)
                                  /\ c.amiss \subseteq a
                                  /\ x.state = "doomed" /\ ~dirty => "late" \in a
      <4>2. \E a \in SUBSET Cases : /\ WriteDataCacheBlocks(gone, e, place) = Changed(c, UpdateRecord(Storing(n, place), y.mRecord), e, y, a)
                                    /\ c.amiss \subseteq a
                                    /\ x.state = "doomed" /\ ~dirty => "late" \in a
        <5>1. dirty = ~HasRecord(n, x.key)
          BY <3>1
        <5> QED
          BY ONLY <2>11, <3>4, <5>1, WriteDataIs, Zenon
      <4> QED
        BY <3>3, <3>5, <4>2
    <3>7. PICK a \in SUBSET Cases : /\ Flush(c, e) = Changed(c, p, e, y, a)
                                    /\ c.amiss \subseteq a
                                    /\ x.state = "doomed" /\ ~dirty => "late" \in a
      BY <3>6
    <3>8. FlushStep(c, e, Changed(c, p, e, y, a), p, y, a, place, dirty)
      <4>1. CacheOK(c) /\ e \in Entries /\ x = c.entry[e] /\ x.bound /\ x.mBufDirty
        BY <2>1, <2>2, <2>4
      <4>2. n = DeleteStorage(c.map, x.mRecord.data) /\ g = Stored(x, {}, TRUE)
        BY <2>2
      <4> QED
        <5>1. dirty = ~HasRecord(n, x.key) /\ place \cap n.mBitMap = {}
          BY <3>1, <3>2
        <5>2. Writing(c, e, x, n, g, place, dirty, y, p, a)
          BY ONLY <3>4, <3>5, <3>7, <4>1, <4>2, <5>1, Zenon DEF Writing
        <5> QED
          BY ONLY <5>2, WrittenStep, Zenon
    <3>9. Flushed(c, e, Flush(c, e))
      BY <3>7, <3>8, FlushStepFacts
    <3> QED
      BY <1>2, <3>9
  <2> QED
    BY <2>8, <2>9, <2>10
<1> QED
  BY <1>1, <1>2

-----------------------------------------------------------------------------
(* What is stored of an entry itself.                                       *)
Placed(c, e, n, record) == [c EXCEPT !.map = n, !.entry[e].mRecord = record]
Failed(c, e, n, record) == [c EXCEPT !.map = n, !.entry[e].mRecord = record, !.entry[e].state = "doomed"]
PlacedEntry(x, record) == [x EXCEPT !.mRecord = record]
FailedEntry(x, record) == [x EXCEPT !.mRecord = record, !.state = "doomed"]

LEMMA PlacedShape ==
    ASSUME NEW c, CacheOK(c), NEW e \in Entries, NEW n, NEW record
    PROVE  Placed(c, e, n, record) = Changed(c, n, e, PlacedEntry(c.entry[e], record), c.amiss)
<1>1. PICK x, en, m, am : x = c.entry[e] /\ en = c.entry /\ m = c.map /\ am = c.amiss
  OBVIOUS
<1>2. c = [map |-> m, entry |-> en, amiss |-> am] /\ en \in [Entries -> Entry]
  BY <1>1, CacheFields
<1>3. PICK y : y = [x EXCEPT !.mRecord = record]
  OBVIOUS
<1>5. PICK b : b = [c EXCEPT !.map = n]
  OBVIOUS
<1>6. Placed(c, e, n, record) = [b EXCEPT !.entry = [b.entry EXCEPT ![e] = [b.entry[e] EXCEPT !.mRecord = record]]]
  BY <1>5, Zenon DEF Placed
<1>7. b = [map |-> n, entry |-> en, amiss |-> am]
  BY <1>2, <1>5
<1>8. b.entry = en /\ b.entry[e] = x
  BY <1>1, <1>7
<1>9. Placed(c, e, n, record) = [b EXCEPT !.entry = [en EXCEPT ![e] = y]]
  BY <1>3, <1>6, <1>8
<1>10. Placed(c, e, n, record) = [map |-> n, entry |-> [en EXCEPT ![e] = y], amiss |-> am]
  BY <1>7, <1>9
<1> QED
  BY <1>1, <1>3, <1>10 DEF Changed, PlacedEntry

LEMMA FailedShape ==
    ASSUME NEW c, CacheOK(c), NEW e \in Entries, NEW n, NEW record
    PROVE  Failed(c, e, n, record) = Changed(c, n, e, FailedEntry(c.entry[e], record), c.amiss)
<1>1. PICK x, en, m, am : x = c.entry[e] /\ en = c.entry /\ m = c.map /\ am = c.amiss
  OBVIOUS
<1>2. c = [map |-> m, entry |-> en, amiss |-> am] /\ en \in [Entries -> Entry]
  BY <1>1, CacheFields
<1>3. PICK y, z : y = [x EXCEPT !.mRecord = record] /\ z = [y EXCEPT !.state = "doomed"]
  OBVIOUS
<1>4. z = FailedEntry(x, record)
  BY <1>3, Zenon DEF FailedEntry
<1>5. PICK d : d = Placed(c, e, n, record)
  OBVIOUS
<1>6. Failed(c, e, n, record) = [d EXCEPT !.entry = [d.entry EXCEPT ![e] = [d.entry[e] EXCEPT !.state = "doomed"]]]
  BY <1>5, Zenon DEF Failed, Placed
<1>7. d = [map |-> n, entry |-> [en EXCEPT ![e] = y], amiss |-> am]
  BY <1>1, <1>3, <1>5, PlacedShape DEF Changed, PlacedEntry
<1>8. d.entry = [en EXCEPT ![e] = y] /\ d.entry[e] = y
  BY <1>2, <1>7
<1>9. Failed(c, e, n, record) = [d EXCEPT !.entry = [[en EXCEPT ![e] = y] EXCEPT ![e] = z]]
  BY <1>3, <1>6, <1>8
<1>10. [[en EXCEPT ![e] = y] EXCEPT ![e] = z] = [en EXCEPT ![e] = z]
  BY <1>2
<1>11. [d EXCEPT !.entry = [en EXCEPT ![e] = z]] = [map |-> n, entry |-> [en EXCEPT ![e] = z], amiss |-> am]
  BY <1>7
<1> QED
  BY <1>1, <1>4, <1>9, <1>10, <1>11 DEF Changed

\* An entry with another record is an entry.
IsPlaced(y, x, record) ==
    /\ EntryOK(x) /\ x.bound /\ record \in Record /\ record.hash = x.key /\ y = PlacedEntry(x, record)
IsFailed(y, x, record) ==
    /\ EntryOK(x) /\ x.bound /\ record \in Record /\ record.hash = x.key /\ y = FailedEntry(x, record)

LEMMA PlacedIsOK ==
    ASSUME NEW x, NEW y, NEW record, IsPlaced(y, x, record)
    PROVE  /\ EntryOK(y) /\ y.state = x.state /\ y.key = x.key /\ y.bound /\ y.mRecord = record
           /\ y.mOutStream = x.mOutStream /\ y.mBufDirty = x.mBufDirty
           /\ \A f \in Fields : OfEntry(y, f) = Piece(record, f)
<1>1. x \in Entry /\ record \in Record /\ x.bound /\ x.state # "free" /\ x.key \in HashNumbers /\ record.hash = x.key
  BY DEF IsPlaced, EntryOK
<1>2. y = [x EXCEPT !.mRecord = record]
  BY DEF IsPlaced, PlacedEntry
<1>3. /\ y.state = x.state /\ y.key = x.key /\ y.bound = x.bound /\ y.mRecord = record
      /\ y.mOutStream = x.mOutStream /\ y.mBufDirty = x.mBufDirty /\ y \in Entry
  BY <1>1, <1>2 DEF Entry
<1> QED
  BY <1>1, <1>3 DEF EntryOK, OfEntry

LEMMA FailedIsOK ==
    ASSUME NEW x, NEW y, NEW record, IsFailed(y, x, record)
    PROVE  /\ EntryOK(y) /\ y.state = "doomed" /\ y.key = x.key /\ y.bound /\ y.mRecord = record
           /\ y.mOutStream = x.mOutStream /\ y.mBufDirty = x.mBufDirty
           /\ \A f \in Fields : OfEntry(y, f) = Piece(record, f)
<1>1. x \in Entry /\ record \in Record /\ x.bound /\ x.state # "free" /\ x.key \in HashNumbers /\ record.hash = x.key
  BY DEF IsFailed, EntryOK
<1>2. y = [x EXCEPT !.mRecord = record, !.state = "doomed"]
  BY DEF IsFailed, FailedEntry
<1>3. /\ y.state = "doomed" /\ y.key = x.key /\ y.bound = x.bound /\ y.mRecord = record
      /\ y.mOutStream = x.mOutStream /\ y.mBufDirty = x.mBufDirty /\ y \in Entry
  BY <1>1, <1>2 DEF Entry
<1> QED
  BY <1>1, <1>3 DEF EntryOK, OfEntry

LEMMA EvenMinus ==
    ASSUME NEW m, NEW n, NEW p, NEW k, Even(m, n), Minus(n, p, k)
    PROVE  Minus(m, p, k)
BY DEF Even, Minus

LEMMA EvenTwice ==
    ASSUME NEW m, NEW n, NEW p, Even(m, n), Even(n, p)
    PROVE  Even(m, p)
BY DEF Even

\* An entry that gives up all its storage pays for it.
LEMMA PaysFreedTwo ==
    ASSUME NEW m, MapOK(m), NEW n, NEW e \in Entries, NEW x, NEW y, NEW first \in Fields, NEW second \in Fields,
           first # second, OfEntry(y, first) = {}, OfEntry(y, second) = {},
           SameStorage(DeleteStorage(DeleteStorage(m, OfEntry(x, first)), OfEntry(x, second)), n)
    PROVE  Pays(m, n, e, x, y)
<1>1. SUFFICES ASSUME NEW h, NEW g, Allotted(h, m), EntryHolds(h, x, e), EntryHolds(g, y, e), SameAround(h, g, e)
               PROVE  Allotted(g, n)
  BY DEF Pays
<1>2. PICK a, b : a = <<"entry", e, first>> /\ b = <<"entry", e, second>>
  OBVIOUS
<1>3. a \in Parts /\ b \in Parts /\ a # b
  BY <1>2 DEF Parts, Fields
<1>4. h[a] = OfEntry(x, first) /\ h[b] = OfEntry(x, second) /\ g[a] = {} /\ g[b] = {}
  BY <1>1, <1>2 DEF EntryHolds
<1>5. \A u \in Parts : u # a /\ u # b => g[u] = h[u]
  BY <1>1, <1>2 DEF SameAround, Fields
<1>6. m \in MapRecord
  BY DEF MapOK
<1>7. Allotted(g, DeleteStorage(DeleteStorage(m, h[a]), h[b]))
  BY <1>1, <1>3, <1>4, <1>5, <1>6, AllottedFreedTwo
<1>8. SameStorage(DeleteStorage(DeleteStorage(m, h[a]), h[b]), n)
  BY <1>4
<1>9. \A u \in Parts : g[u] = g[u]
  OBVIOUS
<1> QED
  BY <1>7, <1>8, <1>9, AllottedSame

\* What has become of an active entry that is stored: it is in the map as it is, or it is
\* doomed and owns nothing.
Stowed(c, e, d) ==
    /\ CacheOK(d) /\ d.amiss = c.amiss /\ (Good(c) => Good(d))
    /\ LET x == c.entry[e]
           z == d.entry[e]
       IN  /\ z.bound /\ z.key = x.key /\ z.mOutStream = x.mOutStream /\ z.mBufDirty = x.mBufDirty
           /\ \/ z.state = "doomed" /\ z.mRecord.data = {} /\ z.mRecord.meta = {}
              \/ /\ z.state = "active" /\ z.mRecord.meta # {}
                 /\ Good(c) /\ c.amiss = {} => FindRecord(d.map, z.key) = z.mRecord

\* A step that makes the map p and the entry y of it.
StowStep(c, e, d, p, y) ==
    /\ CacheOK(c) /\ e \in Entries /\ c.entry[e].bound
    /\ EntryOK(y) /\ y.key = c.entry[e].key /\ y.bound
    /\ y.mOutStream = c.entry[e].mOutStream /\ y.mBufDirty = c.entry[e].mBufDirty
    /\ MapOK(p) /\ d = Changed(c, p, e, y, c.amiss)
    /\ InOrder(c.map, c.entry) =>
           Shelved(p) /\ Follows(c.map, p, c.entry[e], y) /\ Pays(c.map, p, e, c.entry[e], y)
    /\ \/ y.state = "doomed" /\ y.mRecord.data = {} /\ y.mRecord.meta = {}
       \/ /\ y.state = "active" /\ y.mRecord.meta # {}
          /\ InOrder(c.map, c.entry) => FindRecord(p, y.key) = y.mRecord

LEMMA StowStepFacts ==
    ASSUME NEW c, NEW e, NEW d, NEW p, NEW y, StowStep(c, e, d, p, y)
    PROVE  Stowed(c, e, d)
<1>1. PICK x : x = c.entry[e]
  OBVIOUS
<1>2. /\ CacheOK(c) /\ e \in Entries /\ x.bound
      /\ EntryOK(y) /\ y.key = x.key /\ y.bound
      /\ y.mOutStream = x.mOutStream /\ y.mBufDirty = x.mBufDirty
      /\ MapOK(p) /\ d = Changed(c, p, e, y, c.amiss)
  BY <1>1 DEF StowStep
<1>3. c.entry \in [Entries -> Entry] /\ c.amiss \in SUBSET Cases
  BY <1>2, CacheFields
<1>4. CacheOK(Changed(c, p, e, y, c.amiss))
  BY ONLY <1>2, <1>3, ChangedFields
<1>5. d.entry[e] = y /\ d.amiss = c.amiss /\ d.map = p
  BY <1>2, <1>3 DEF Changed
<1>6. ASSUME Good(c) PROVE Good(d)
  <2>1. SUFFICES ASSUME c.amiss = {} PROVE InOrder(p, Changed(c, p, e, y, c.amiss).entry)
    BY <1>2, <1>5 DEF Good
  <2>2. InOrder(c.map, c.entry)
    BY <1>6, <2>1 DEF Good
  <2>3. Shelved(p) /\ Follows(c.map, p, x, y) /\ Pays(c.map, p, e, x, y)
    BY <1>1, <2>2 DEF StowStep
  <2> QED
    BY <1>1, <1>2, <1>3, <2>2, <2>3, OwnedOrder
<1>7. \/ y.state = "doomed" /\ y.mRecord.data = {} /\ y.mRecord.meta = {}
      \/ /\ y.state = "active" /\ y.mRecord.meta # {}
         /\ InOrder(c.map, c.entry) => FindRecord(p, y.key) = y.mRecord
  BY DEF StowStep
<1>8. Good(c) /\ c.amiss = {} => InOrder(c.map, c.entry)
  BY DEF Good
<1> QED
  BY <1>1, <1>2, <1>4, <1>5, <1>6, <1>7, <1>8 DEF Stowed

\* A record with its meta data at place.
WithMeta(record, rank, place) == [record EXCEPT !.rank = rank, !.meta = place]

LEMMA WithMetaFacts ==
    ASSUME NEW r \in Record, NEW rank \in Ranks, NEW place \in SUBSET Blocks
    PROVE  /\ WithMeta(r, rank, place) \in Record /\ WithMeta(r, rank, place).hash = r.hash
           /\ WithMeta(r, rank, place).data = r.data /\ WithMeta(r, rank, place).meta = place
<1>1. rank \in Nat \ {0}
  BY DiskCacheAssumption
<1> QED
  BY <1>1 DEF WithMeta, Record

\* The parts of WriteDiskCacheEntry.
Stowing(c, e, size, old, gone, place) ==
    old = c.entry[e].mRecord /\ gone = DeleteStorage(c.map, old.meta) /\ place = AllocateBlocks(gone, size)

LEMMA WriteDiskCacheEntryIs ==
    ASSUME NEW c, NEW e, NEW rank, NEW size, NEW old, NEW gone, NEW place, Stowing(c, e, size, old, gone, place)
    PROVE  /\ place = {} => WriteDiskCacheEntry(c, e, rank, size) =
                  Failed(c, e, DeleteRecord(DeleteStorage(gone, old.data), old.hash), NewRecord(old.hash, rank))
           /\ place # {} => WriteDiskCacheEntry(c, e, rank, size) =
                  Placed(c, e, UpdateRecord(Storing(gone, place), WithMeta(old, rank, place)), WithMeta(old, rank, place))
<1>1. ASSUME place = {}
      PROVE  WriteDiskCacheEntry(c, e, rank, size) =
                  Failed(c, e, DeleteRecord(DeleteStorage(gone, old.data), old.hash), NewRecord(old.hash, rank))
  BY <1>1, Zenon DEF WriteDiskCacheEntry, Failed, Stowing
<1>2. ASSUME place # {}
      PROVE  WriteDiskCacheEntry(c, e, rank, size) =
                  Placed(c, e, UpdateRecord(Storing(gone, place), WithMeta(old, rank, place)), WithMeta(old, rank, place))
  BY <1>2, Zenon DEF WriteDiskCacheEntry, Placed, Storing, WithMeta, Stowing
<1> QED
  BY <1>1, <1>2

\* There is no room: the entry is doomed, and its storage and its record go.
LEMMA FailedStep ==
    ASSUME NEW c, CacheOK(c), NEW e \in Entries, NEW x, x = c.entry[e], x.bound, x.state = "active",
           NEW old, old = x.mRecord, NEW n, n = DeleteStorage(DeleteStorage(c.map, old.meta), old.data),
           NEW rank \in Ranks, NEW record, record = NewRecord(x.key, rank), NEW p, p = DeleteRecord(n, x.key),
           NEW y, y = FailedEntry(x, record)
    PROVE  StowStep(c, e, Changed(c, p, e, y, c.amiss), p, y)
<1>1. MapOK(c.map) /\ EntryOK(x)
  BY CacheFields
<1>2. old \in Record /\ old.hash = x.key /\ x.key \in HashNumbers /\ old.meta \in SUBSET Blocks /\ old.data \in SUBSET Blocks
  BY <1>1 DEF EntryOK, Record
<1>3. record \in Record /\ record.hash = x.key /\ record.data = {} /\ record.meta = {}
  BY <1>2, NewRecordFacts
<1>4. IsFailed(y, x, record)
  BY <1>1, <1>3 DEF IsFailed
<1>5. /\ EntryOK(y) /\ y.state = "doomed" /\ y.key = x.key /\ y.bound /\ y.mRecord = record
      /\ y.mOutStream = x.mOutStream /\ y.mBufDirty = x.mBufDirty
      /\ \A f \in Fields : OfEntry(y, f) = Piece(record, f)
  BY ONLY <1>4, FailedIsOK
<1>6. PICK q : q = DeleteStorage(c.map, old.meta)
  OBVIOUS
<1>7. MapOK(q) /\ (Shelved(c.map) => Shelved(q) /\ Even(c.map, q))
  BY <1>1, <1>2, <1>6, FreedMap
<1>8. n = DeleteStorage(q, old.data)
  BY <1>6
<1>9. MapOK(n) /\ (Shelved(q) => Shelved(n) /\ Even(q, n))
  BY <1>2, <1>7, <1>8, FreedMap
<1>10. MapOK(p) /\ SameStorage(n, p)
  BY <1>2, <1>9, DeleteRecordFacts
<1>11. Pays(c.map, p, e, x, y)
  <2>1. "data" \in Fields /\ "meta" \in Fields /\ "data" # "meta"
    BY DEF Fields
  <2>2. OfEntry(y, "data") = {} /\ OfEntry(y, "meta") = {}
    BY <1>3, <1>5, <2>1 DEF Piece
  <2>3. OfEntry(x, "data") = old.data /\ OfEntry(x, "meta") = old.meta
    BY DEF OfEntry, Piece
  <2>4. SameStorage(DeleteStorage(DeleteStorage(c.map, OfEntry(x, "meta")), OfEntry(x, "data")), p)
    BY <1>10, <2>3
  <2> QED
    BY ONLY <1>1, e \in Entries, <2>1, <2>2, <2>4, PaysFreedTwo
<1>12. ASSUME InOrder(c.map, c.entry) PROVE Shelved(p) /\ Follows(c.map, p, x, y)
  <2>1. Shelved(c.map)
    BY <1>12 DEF InOrder, Booked
  <2>2. Even(c.map, n) /\ Shelved(n)
    BY <1>7, <1>9, <2>1, EvenTwice
  <2>3. Minus(n, p, x.key)
    BY <1>2, <1>9, <2>2, DeleteFinds
  <2>4. Minus(c.map, p, x.key)
    BY <2>2, <2>3, EvenMinus
  <2> QED
    BY <1>5, <2>4 DEF Follows, Minus
<1>13. InOrder(c.map, c.entry) =>
           Shelved(p) /\ Follows(c.map, p, c.entry[e], y) /\ Pays(c.map, p, e, c.entry[e], y)
  BY <1>11, <1>12
<1> QED
  BY <1>3, <1>5, <1>10, <1>13 DEF StowStep

\* The meta data is stored in a new place.
Placing(c, e, x, old, n, rank, place, record, p, y) ==
    /\ CacheOK(c) /\ e \in Entries /\ x = c.entry[e] /\ x.bound /\ x.state = "active"
    /\ old = x.mRecord /\ n = DeleteStorage(c.map, old.meta) /\ rank \in Ranks
    /\ place \in SUBSET Blocks /\ place \cap n.mBitMap = {} /\ place # {}
    /\ record = WithMeta(old, rank, place) /\ p = UpdateRecord(Storing(n, place), record)
    /\ y = PlacedEntry(x, record)

LEMMA PlacedStep ==
    ASSUME NEW c, NEW e, NEW x, NEW old, NEW n, NEW rank, NEW place, NEW record, NEW p, NEW y,
           Placing(c, e, x, old, n, rank, place, record, p, y)
    PROVE  StowStep(c, e, Changed(c, p, e, y, c.amiss), p, y)
<1> /\ CacheOK(c) /\ e \in Entries /\ x = c.entry[e] /\ x.bound /\ x.state = "active"
    /\ old = x.mRecord /\ n = DeleteStorage(c.map, old.meta) /\ rank \in Ranks
    /\ place \in SUBSET Blocks /\ place \cap n.mBitMap = {} /\ place # {}
    /\ record = WithMeta(old, rank, place) /\ p = UpdateRecord(Storing(n, place), record)
    /\ y = PlacedEntry(x, record)
  BY DEF Placing
<1>1. MapOK(c.map) /\ EntryOK(x)
  BY CacheFields
<1>2. old \in Record /\ old.hash = x.key /\ x.key \in HashNumbers /\ old.meta \in SUBSET Blocks
  BY <1>1 DEF EntryOK, Record
<1>3. record \in Record /\ record.hash = x.key /\ record.data = old.data /\ record.meta = place
  BY <1>2, WithMetaFacts
<1>4. IsPlaced(y, x, record)
  BY <1>1, <1>3 DEF IsPlaced
<1>5. /\ EntryOK(y) /\ y.state = x.state /\ y.key = x.key /\ y.bound /\ y.mRecord = record
      /\ y.mOutStream = x.mOutStream /\ y.mBufDirty = x.mBufDirty
      /\ \A f \in Fields : OfEntry(y, f) = Piece(record, f)
  BY ONLY <1>4, PlacedIsOK
<1>6. MapOK(n) /\ (Shelved(c.map) => Shelved(n) /\ Even(c.map, n))
  BY <1>1, <1>2, FreedMap
<1>7. PICK s : s = Storing(n, place)
  OBVIOUS
<1>8. MapOK(s) /\ SameRecords(n, s) /\ (Shelved(n) => Shelved(s) /\ Even(n, s))
  BY <1>6, <1>7, StoringMap
<1>9. MapOK(p) /\ SameStorage(s, p)
  BY <1>3, <1>7, <1>8, UpdateRecordFacts
<1>10. Pays(c.map, p, e, x, y)
  <2>1. "data" \in Fields /\ "meta" \in Fields /\ \A f \in Fields : f # "meta" => f = "data"
    BY DEF Fields
  <2>2. PICK w : w = [bound |-> TRUE, mRecord |-> [data |-> old.data, meta |-> {}]]
    OBVIOUS
  <2>3. OfEntry(w, "data") = old.data /\ OfEntry(w, "meta") = {}
    BY <2>2 DEF OfEntry, Piece
  <2>4. OfEntry(x, "data") = old.data /\ OfEntry(x, "meta") = old.meta
    BY DEF OfEntry, Piece
  <2>5. OfEntry(y, "data") = old.data /\ OfEntry(y, "meta") = place
    BY <1>3, <1>5, <2>1 DEF Piece
  <2>6. Pays(c.map, n, e, x, w)
    <3>1. SameStorage(DeleteStorage(c.map, OfEntry(x, "meta")), n)
      BY <2>4 DEF SameStorage
    <3>2. OfEntry(w, "meta") = {} /\ \A f \in Fields : f # "meta" => OfEntry(w, f) = OfEntry(x, f)
      BY <2>1, <2>3, <2>4
    <3> QED
      BY ONLY <1>1, e \in Entries, <2>1, <3>1, <3>2, PaysFreed
  <2>7. Pays(n, p, e, w, y)
    <3>1. SameStorage(Storing(n, OfEntry(y, "meta")), p)
      BY <1>7, <1>9, <2>5
    <3>2. OfEntry(w, "meta") = {} /\ \A f \in Fields : f # "meta" => OfEntry(y, f) = OfEntry(w, f)
      BY <2>1, <2>3, <2>5
    <3>3. OfEntry(y, "meta") \in SUBSET Blocks /\ OfEntry(y, "meta") \cap n.mBitMap = {}
      BY <2>5
    <3> QED
      BY ONLY <1>6, e \in Entries, <2>1, <3>1, <3>2, <3>3, PaysTaken
  <2> QED
    BY ONLY <2>6, <2>7, PaysBoth
<1>11. ASSUME InOrder(c.map, c.entry)
       PROVE  Shelved(p) /\ Follows(c.map, p, x, y) /\ FindRecord(p, y.key) = record
  <2>1. Shelved(c.map) /\ HasRecord(c.map, x.key)
    BY <1>11 DEF InOrder, Booked, InBook
  <2>2. Even(c.map, s)
    BY <1>6, <1>8, <2>1, EvenTwice
  <2>3. Shelved(p) /\ Follows(c.map, p, x, y)
    <3>1. p = UpdateRecord(s, y.mRecord)
      BY <1>5, <1>7
    <3> QED
      <4>1. /\ MapOK(c.map) /\ x.state = "active" /\ y.state = "active" /\ y.bound /\ y.key = x.key
            /\ y.mRecord \in Record /\ y.mRecord.hash = x.key /\ HasRecord(c.map, x.key)
        BY <1>1, <1>3, <1>5, <2>1
      <4> QED
        BY ONLY <2>1, <2>2, <3>1, <4>1, UpdateFollows
  <2>4. Plus(s, p, record)
    <3>1. HasRecord(s, record.hash) /\ Shelved(s) /\ MapOK(s)
      BY <1>2, <1>3, <2>1, <2>2 DEF Even
    <3> QED
      BY <1>3, <1>7, <3>1, UpdateFinds
  <2> QED
    <3>1. y.key = record.hash /\ record.hash \in HashNumbers /\ y.key = x.key
      BY <1>2, <1>3, <1>5 DEF Record
    <3>2. FindRecord(p, record.hash) = record
      BY ONLY <2>4, <3>1 DEF Plus
    <3> QED
      BY <2>3, <3>1, <3>2
<1>12. InOrder(c.map, c.entry) =>
           Shelved(p) /\ Follows(c.map, p, c.entry[e], y) /\ Pays(c.map, p, e, c.entry[e], y)
  BY <1>10, <1>11
<1>13. y.state = "active" /\ y.mRecord.meta # {} /\ (InOrder(c.map, c.entry) => FindRecord(p, y.key) = y.mRecord)
  BY <1>3, <1>5, <1>11
<1> QED
  BY <1>5, <1>9, <1>12, <1>13 DEF StowStep

\* WriteDiskCacheEntry, whether it fails or not.
LEMMA WriteDiskCacheEntryFacts ==
    ASSUME NEW c, CacheOK(c), NEW e \in Entries, c.entry[e].bound, c.entry[e].state = "active",
           NEW rank \in Ranks, NEW size \in MetaSizes
    PROVE  Stowed(c, e, WriteDiskCacheEntry(c, e, rank, size))
<1>1. PICK x, old : x = c.entry[e] /\ old = x.mRecord
  OBVIOUS
<1>2. PICK gone, place : gone = DeleteStorage(c.map, old.meta) /\ place = AllocateBlocks(gone, size)
  OBVIOUS
<1>3. EntryOK(x) /\ size \in Nat \ {0}
  BY <1>1, CacheFields, DiskCacheAssumption
<1>4. old.hash = x.key
  BY <1>1, <1>3 DEF EntryOK
<1>5. place \in SUBSET Blocks /\ place \cap gone.mBitMap = {}
  BY <1>2, <1>3, AllocateBlocksFacts
<1>6. /\ place = {} => WriteDiskCacheEntry(c, e, rank, size) =
                  Failed(c, e, DeleteRecord(DeleteStorage(gone, old.data), old.hash), NewRecord(old.hash, rank))
      /\ place # {} => WriteDiskCacheEntry(c, e, rank, size) =
                  Placed(c, e, UpdateRecord(Storing(gone, place), WithMeta(old, rank, place)), WithMeta(old, rank, place))
  <2>1. Stowing(c, e, size, old, gone, place)
    BY ONLY <1>1, <1>2 DEF Stowing
  <2> QED
    BY ONLY <2>1, WriteDiskCacheEntryIs
<1>7. CASE place = {}
  <2>1. PICK n, record, p, y : /\ n = DeleteStorage(DeleteStorage(c.map, old.meta), old.data)
                               /\ record = NewRecord(x.key, rank) /\ p = DeleteRecord(n, x.key)
                               /\ y = FailedEntry(x, record)
    OBVIOUS
  <2>2. WriteDiskCacheEntry(c, e, rank, size) = Failed(c, e, p, record)
    BY <1>2, <1>4, <1>6, <1>7, <2>1
  <2>3. Failed(c, e, p, record) = Changed(c, p, e, y, c.amiss)
    BY <1>1, <2>1, FailedShape
  <2>4. StowStep(c, e, Changed(c, p, e, y, c.amiss), p, y)
    BY <1>1, <2>1, FailedStep
  <2>5. Stowed(c, e, Changed(c, p, e, y, c.amiss))
    BY ONLY <2>4, StowStepFacts, Zenon
  <2> QED
    BY ONLY <2>2, <2>3, <2>5, Zenon
<1>8. CASE place # {}
  <2>1. PICK record, p, y : /\ record = WithMeta(old, rank, place) /\ p = UpdateRecord(Storing(gone, place), record)
                            /\ y = PlacedEntry(x, record)
    OBVIOUS
  <2>2. WriteDiskCacheEntry(c, e, rank, size) = Placed(c, e, p, record)
    <3>1. WriteDiskCacheEntry(c, e, rank, size) =
              Placed(c, e, UpdateRecord(Storing(gone, place), WithMeta(old, rank, place)), WithMeta(old, rank, place))
      BY ONLY <1>6, <1>8, Zenon
    <3> QED
      BY ONLY <2>1, <3>1, Zenon
  <2>3. Placed(c, e, p, record) = Changed(c, p, e, y, c.amiss)
    BY <1>1, <2>1, PlacedShape
  <2>4. StowStep(c, e, Changed(c, p, e, y, c.amiss), p, y)
    <3>1. Placing(c, e, x, old, gone, rank, place, record, p, y)
      BY <1>1, <1>2, <1>5, <1>8, <2>1 DEF Placing
    <3> QED
      BY ONLY <3>1, PlacedStep, Zenon
  <2>5. Stowed(c, e, Changed(c, p, e, y, c.amiss))
    BY ONLY <2>4, StowStepFacts, Zenon
  <2> QED
    BY ONLY <2>2, <2>3, <2>5, Zenon
<1> QED
  BY <1>7, <1>8

LEMMA DeleteDoomedIs ==
    ASSUME NEW c, CacheOK(c), NEW e \in Entries
    PROVE  DeleteDoomed(c, e) = Placed(c, e, DeleteAllStorage(c.map, c.entry[e].mRecord),
                                       NewRecord(c.entry[e].key, c.entry[e].mRecord.rank))
<1>1. PICK n, b : n = DeleteAllStorage(c.map, c.entry[e].mRecord) /\ b = [c EXCEPT !.map = n]
  OBVIOUS
<1>2. c = [map |-> c.map, entry |-> c.entry, amiss |-> c.amiss]
  BY CacheFields
<1>3. b.entry = c.entry
  BY <1>1, <1>2
<1>4. DeleteDoomed(c, e) = [b EXCEPT !.entry[e].mRecord = NewRecord(c.entry[e].key, b.entry[e].mRecord.rank)]
  BY <1>1, Zenon DEF DeleteDoomed
<1>5. Placed(c, e, n, NewRecord(c.entry[e].key, c.entry[e].mRecord.rank)) =
          [b EXCEPT !.entry[e].mRecord = NewRecord(c.entry[e].key, c.entry[e].mRecord.rank)]
  BY <1>1, Zenon DEF Placed
<1> QED
  BY <1>1, <1>3, <1>4, <1>5, Zenon

\* What a doomed entry has stored is deleted.
LEMMA DeleteDoomedFacts ==
    ASSUME NEW c, CacheOK(c), NEW e \in Entries, c.entry[e].bound, c.entry[e].state = "doomed"
    PROVE  Stowed(c, e, DeleteDoomed(c, e))
<1>1. PICK x, old : x = c.entry[e] /\ old = x.mRecord
  OBVIOUS
<1>2. PICK p, record, y : p = DeleteAllStorage(c.map, old) /\ record = NewRecord(x.key, old.rank) /\ y = PlacedEntry(x, record)
  OBVIOUS
<1>3. MapOK(c.map) /\ EntryOK(x)
  BY <1>1, CacheFields
<1>4. old \in Record /\ x.key \in HashNumbers /\ x.bound /\ x.state = "doomed"
  BY <1>1, <1>3 DEF EntryOK
<1>5. record \in Record /\ record.hash = x.key /\ record.data = {} /\ record.meta = {}
  BY <1>2, <1>4 DEF NewRecord, Record
<1>6. IsPlaced(y, x, record)
  BY <1>2, <1>3, <1>4, <1>5 DEF IsPlaced
<1>7. /\ EntryOK(y) /\ y.state = x.state /\ y.key = x.key /\ y.bound /\ y.mRecord = record
      /\ y.mOutStream = x.mOutStream /\ y.mBufDirty = x.mBufDirty
      /\ \A f \in Fields : OfEntry(y, f) = Piece(record, f)
  BY ONLY <1>6, PlacedIsOK
<1>8. MapOK(p) /\ (Shelved(c.map) => Shelved(p) /\ Even(c.map, p))
  BY <1>2, <1>3, <1>4, DeleteAllStorageFacts
<1>9. Pays(c.map, p, e, x, y)
  <2>1. "data" \in Fields /\ "meta" \in Fields /\ "data" # "meta"
    BY DEF Fields
  <2>2. OfEntry(y, "data") = {} /\ OfEntry(y, "meta") = {}
    BY <1>5, <1>7, <2>1 DEF Piece
  <2>3. OfEntry(x, "data") = old.data /\ OfEntry(x, "meta") = old.meta
    BY <1>1, <1>4 DEF OfEntry, Piece
  <2>4. SameStorage(DeleteStorage(DeleteStorage(c.map, OfEntry(x, "data")), OfEntry(x, "meta")), p)
    BY <1>2, <2>3 DEF SameStorage, DeleteAllStorage
  <2> QED
    BY ONLY <1>3, e \in Entries, <2>1, <2>2, <2>4, PaysFreedTwo
<1>10. ASSUME InOrder(c.map, c.entry) PROVE Shelved(p) /\ Follows(c.map, p, x, y)
  <2>1. Shelved(c.map)
    BY <1>10 DEF InOrder, Booked
  <2> QED
    BY <1>4, <1>7, <1>8, <2>1 DEF Follows
<1>11. InOrder(c.map, c.entry) =>
           Shelved(p) /\ Follows(c.map, p, c.entry[e], y) /\ Pays(c.map, p, e, c.entry[e], y)
  BY <1>1, <1>9, <1>10
<1>12. StowStep(c, e, Changed(c, p, e, y, c.amiss), p, y)
  BY <1>1, <1>4, <1>5, <1>7, <1>8, <1>11 DEF StowStep
<1>13. DeleteDoomed(c, e) = Changed(c, p, e, y, c.amiss)
  BY <1>1, <1>2, DeleteDoomedIs, PlacedShape
<1> QED
  BY <1>12, <1>13, StowStepFacts

LEMMA AmissFields ==
    ASSUME NEW c, CacheOK(c), NEW case \in Cases, NEW met, NEW d, d = Amiss(c, case, met)
    PROVE  /\ CacheOK(d) /\ d.map = c.map /\ d.entry = c.entry /\ c.amiss \subseteq d.amiss
           /\ met => case \in d.amiss
           /\ ~met => d = c
<1>1. PICK m, en, am : m = c.map /\ en = c.entry /\ am = c.amiss
  OBVIOUS
<1>2. c = [map |-> m, entry |-> en, amiss |-> am]
  BY <1>1, CacheFields
<1>3. CASE met
  <2>1. d = [c EXCEPT !.amiss = c.amiss \cup {case}]
    BY <1>3 DEF Amiss
  <2>2. d = [map |-> m, entry |-> en, amiss |-> am \cup {case}]
    BY <1>1, <1>2, <2>1
  <2>3. am \cup {case} \in SUBSET Cases
    BY <1>1, CacheFields
  <2>4. CacheOK(d)
    BY <1>1, <2>2, <2>3 DEF CacheOK, Caches
  <2>5. d.map = m /\ d.entry = en /\ d.amiss = am \cup {case}
    BY <2>2
  <2>6. c.amiss \subseteq d.amiss /\ case \in d.amiss
    BY <1>1, <2>5
  <2> QED
    BY <1>1, <1>3, <2>4, <2>5, <2>6
<1>4. CASE ~met
  BY <1>4 DEF Amiss
<1> QED
  BY <1>3, <1>4

LEMMA FreedShape ==
    ASSUME NEW c, CacheOK(c), NEW e \in Entries
    PROVE  [c EXCEPT !.entry[e] = Free] = Changed(c, c.map, e, Free, c.amiss)
<1>1. PICK m, en, am : m = c.map /\ en = c.entry /\ am = c.amiss
  OBVIOUS
<1>2. c = [map |-> m, entry |-> en, amiss |-> am]
  BY <1>1, CacheFields
<1>3. [c EXCEPT !.entry[e] = Free] = [c EXCEPT !.entry = [c.entry EXCEPT ![e] = Free]]
  BY Zenon
<1>4. [c EXCEPT !.entry = [en EXCEPT ![e] = Free]] = [map |-> m, entry |-> [en EXCEPT ![e] = Free], amiss |-> am]
  BY <1>2
<1> QED
  BY <1>1, <1>3, <1>4 DEF Changed

\* The entry can go: it owns nothing, or is in the map as it is.
Leaves(c, e) ==
    LET x == c.entry[e]
    IN  \/ x.state = "doomed" /\ x.mRecord.data = {} /\ x.mRecord.meta = {}
        \/ x.state = "active" /\ x.mRecord.meta # {} /\ (c.amiss = {} => FindRecord(c.map, x.key) = x.mRecord)

\* What the stream's buffer is flushed to, or not.
ClosedStream(c, e) ==
    LET flushed == Flush(c, e)
        bad == ~HasRecord(flushed.map, c.entry[e].key) \/ flushed.entry[e].mBufDirty
    IN  IF c.entry[e].mOutStream THEN Amiss(flushed, "severed", c.entry[e].mBufDirty /\ bad) ELSE c

LEMMA ClosedStreamFacts ==
    ASSUME NEW c, CacheOK(c), NEW e \in Entries, c.entry[e].bound, NEW d, d = ClosedStream(c, e)
    PROVE  /\ CacheOK(d) /\ c.amiss \subseteq d.amiss
           /\ Good(c) => Good(d)
           /\ d.entry[e].bound
           /\ Leaves(c, e) /\ Good(c) /\ d.amiss = {} => Leaves(d, e)
<1>1. PICK x, f, z : x = c.entry[e] /\ f = Flush(c, e) /\ z = f.entry[e]
  OBVIOUS
<1>2. Flushed(c, e, f) /\ (~x.mBufDirty => f = c)
  BY <1>1, FlushFacts
<1>3. /\ CacheOK(f) /\ c.amiss \subseteq f.amiss /\ (Good(c) => Good(f))
      /\ z.state = x.state /\ z.key = x.key /\ z.bound = x.bound
      /\ z.mRecord.meta = x.mRecord.meta
      /\ x.state = "doomed" /\ x.mBufDirty /\ ~z.mBufDirty /\ "late" \notin f.amiss => z.mRecord.data = {}
  BY <1>1, <1>2 DEF Flushed
<1>4. CASE ~x.mOutStream
  BY <1>1, <1>4 DEF ClosedStream
<1>5. CASE x.mOutStream
  <2>1. PICK bad, met : bad = (~HasRecord(f.map, x.key) \/ z.mBufDirty) /\ met = (x.mBufDirty /\ bad)
    OBVIOUS
  <2>2. d = Amiss(f, "severed", met)
    BY <1>1, <1>5, <2>1 DEF ClosedStream
  <2>3. /\ CacheOK(d) /\ d.map = f.map /\ d.entry = f.entry /\ f.amiss \subseteq d.amiss
        /\ met => "severed" \in d.amiss
    <3>1. "severed" \in Cases
      BY DEF Cases
    <3> QED
      BY ONLY <1>3, <2>2, <3>1, AmissFields
  <2>4. ASSUME Good(c) PROVE Good(d)
    BY <1>3, <2>3, <2>4 DEF Good
  <2>5. ASSUME Leaves(c, e), Good(c), d.amiss = {} PROVE Leaves(d, e)
    <3>1. f.amiss = {} /\ c.amiss = {} /\ ~met
      BY <1>3, <2>3, <2>5
    <3>2. CASE ~x.mBufDirty
      <4>1. d.map = c.map /\ d.entry = c.entry /\ d.amiss = c.amiss
        BY <1>2, <2>3, <2>5, <3>1, <3>2
      <4> QED
        BY <2>5, <4>1 DEF Leaves
    <3>3. CASE x.mBufDirty
      <4>1. HasRecord(f.map, x.key) /\ ~z.mBufDirty
        BY <2>1, <3>1, <3>3
      <4>2. InOrder(f.map, f.entry)
        BY <1>3, <2>5, <3>1 DEF Good
      <4>3. CASE x.state = "doomed"
        <5>1. x.mRecord.meta = {}
          BY <1>1, <2>5, <4>3 DEF Leaves
        <5>2. z.mRecord.data = {}
          BY <1>3, <3>1, <3>3, <4>1, <4>3
        <5> QED
          BY <1>1, <1>3, <2>3, <4>3, <5>1, <5>2 DEF Leaves
      <4>4. CASE x.state = "active"
        <5>1. x.mRecord.meta # {}
          BY <1>1, <2>5, <4>4 DEF Leaves
        <5>2. InBook(f.map, z) /\ z.bound
          BY <1>1, <1>3, <4>2, <4>4 DEF InOrder, Booked
        <5>3. FindRecord(f.map, z.key) = z.mRecord
          BY <4>1, <5>2 DEF InBook
        <5> QED
          BY <1>1, <1>3, <2>3, <4>4, <5>1, <5>3 DEF Leaves
      <4> QED
        BY <1>1, <2>5, <4>3, <4>4 DEF Leaves
    <3> QED
      BY <3>2, <3>3
  <2>6. d.entry[e].bound /\ c.amiss \subseteq d.amiss
    BY <1>1, <1>3, <2>3
  <2> QED
    BY <2>3, <2>4, <2>5, <2>6
<1> QED
  BY <1>1, <1>4, <1>5

\* An entry that can go leaves the cache in order.
LEMMA ClearBindingFacts ==
    ASSUME NEW c, CacheOK(c), NEW e \in Entries, c.entry[e].bound, NEW d, d = ClearBinding(c, e)
    PROVE  /\ CacheOK(d) /\ c.amiss \subseteq d.amiss
           /\ Good(c) /\ Leaves(c, e) => Good(d)
<1>1. PICK b : b = ClosedStream(c, e)
  OBVIOUS
<1>2. /\ CacheOK(b) /\ c.amiss \subseteq b.amiss /\ (Good(c) => Good(b)) /\ b.entry[e].bound
      /\ Leaves(c, e) /\ Good(c) /\ b.amiss = {} => Leaves(b, e)
  BY <1>1, ClosedStreamFacts
<1>3. d = [b EXCEPT !.entry[e] = Free]
  BY <1>1, Zenon DEF ClearBinding, ClosedStream
<1>4. d = Changed(b, b.map, e, Free, b.amiss)
  BY <1>2, <1>3, FreedShape
<1>5. b.entry \in [Entries -> Entry] /\ b.amiss \in SUBSET Cases /\ MapOK(b.map) /\ \A f \in Entries : EntryOK(b.entry[f])
  BY <1>2, CacheFields
<1>6. CacheOK(d) /\ d.map = b.map /\ d.amiss = b.amiss
  <2>1. CacheOK(Changed(b, b.map, e, Free, b.amiss))
    BY ONLY <1>2, <1>5, e \in Entries, FreeOK, ChangedFields
  <2> QED
    BY <1>4, <2>1 DEF Changed
<1>7. ASSUME Good(c), Leaves(c, e) PROVE Good(d)
  <2>1. SUFFICES ASSUME b.amiss = {} PROVE InOrder(b.map, Changed(b, b.map, e, Free, b.amiss).entry)
    BY <1>4, <1>6 DEF Good
  <2>2. InOrder(b.map, b.entry) /\ Leaves(b, e)
    BY <1>2, <1>7, <2>1 DEF Good
  <2>3. CASE b.entry[e].state = "doomed"
    <3>1. b.entry[e].mRecord.data = {} /\ b.entry[e].mRecord.meta = {}
      BY <2>2, <2>3 DEF Leaves
    <3>2. Free.state # "active" /\ ~Free.bound /\ b.entry[e].state # "active"
      BY <2>3 DEF Free
    <3> QED
      BY <1>2, <1>5, <2>2, <3>1, <3>2, FreeOK, EmptyOrder
  <2>4. CASE b.entry[e].state = "active"
    <3>1. b.entry[e].mRecord.meta # {} /\ FindRecord(b.map, b.entry[e].key) = b.entry[e].mRecord
      BY <2>1, <2>2, <2>4 DEF Leaves
    <3> QED
      BY <1>2, <1>5, <2>2, <2>4, <3>1, FreeOK, GivenOrder
  <2> QED
    BY <2>2, <2>3, <2>4 DEF Leaves
<1> QED
  BY <1>2, <1>6, <1>7

LEMMA StowedLeaves ==
    ASSUME NEW c, NEW e, NEW d, Stowed(c, e, d), Good(c)
    PROVE  CacheOK(d) /\ d.amiss = c.amiss /\ Good(d) /\ d.entry[e].bound /\ Leaves(d, e)
<1>1. PICK x, z : x = c.entry[e] /\ z = d.entry[e]
  OBVIOUS
<1>2. CacheOK(d) /\ d.amiss = c.amiss /\ Good(d) /\ z.bound
  BY <1>1 DEF Stowed
<1>3. \/ z.state = "doomed" /\ z.mRecord.data = {} /\ z.mRecord.meta = {}
      \/ /\ z.state = "active" /\ z.mRecord.meta # {}
         /\ c.amiss = {} => FindRecord(d.map, z.key) = z.mRecord
  BY <1>1 DEF Stowed
<1> QED
  BY <1>1, <1>2, <1>3 DEF Leaves

\* The last descriptor of an entry closes: its binding goes, and its entry.
LEMMA DeactivateEntryFacts ==
    ASSUME NEW c, CacheOK(c), NEW e \in Entries, c.entry[e].state # "free",
           NEW rank \in Ranks, NEW size \in MetaSizes, NEW d, d = DeactivateEntry(c, e, rank, size)
    PROVE  CacheOK(d) /\ c.amiss \subseteq d.amiss /\ (Good(c) => Good(d))
<1>1. EntryOK(c.entry[e]) /\ c.entry[e].state \in {"active", "doomed"} /\ c.amiss \in SUBSET Cases /\ MapOK(c.map)
  BY CacheFields DEF EntryOK, Entry
<1>2. CASE ~c.entry[e].bound
  <2>1. d = Changed(c, c.map, e, Free, c.amiss)
    BY <1>2, FreedShape DEF DeactivateEntry
  <2>2. CacheOK(d)
    <3>1. CacheOK(Changed(c, c.map, e, Free, c.amiss))
      BY ONLY <1>1, CacheOK(c), e \in Entries, FreeOK, ChangedFields
    <3> QED
      BY <2>1, <3>1
  <2>3. d.map = c.map /\ d.amiss = c.amiss /\ d.entry = Changed(c, c.map, e, Free, c.amiss).entry
    BY <2>1 DEF Changed
  <2>4. ASSUME Good(c), d.amiss = {} PROVE InOrder(c.map, Changed(c, c.map, e, Free, c.amiss).entry)
    <3>1. InOrder(c.map, c.entry)
      BY <2>3, <2>4 DEF Good
    <3>2. ~Free.bound /\ Free.state # "active"
      BY DEF Free
    <3> QED
      BY <1>1, <1>2, <3>1, <3>2, FreeOK, UnboundOrder
  <2> QED
    BY <2>2, <2>3, <2>4 DEF Good
<1>3. CASE c.entry[e].bound
  <2>1. PICK b : /\ b = IF c.entry[e].state = "doomed" THEN DeleteDoomed(c, e) ELSE WriteDiskCacheEntry(c, e, rank, size)
    OBVIOUS
  <2>2. d = ClearBinding(b, e)
    BY <1>3, <2>1 DEF DeactivateEntry
  <2>3. Stowed(c, e, b)
    BY <1>1, <1>3, <2>1, DeleteDoomedFacts, WriteDiskCacheEntryFacts
  <2>4. CacheOK(b) /\ b.amiss = c.amiss /\ b.entry[e].bound
    BY <2>3 DEF Stowed
  <2>5. /\ CacheOK(d) /\ b.amiss \subseteq d.amiss
        /\ Good(b) /\ Leaves(b, e) => Good(d)
    BY <2>2, <2>4, ClearBindingFacts
  <2>6. Good(c) => Good(b) /\ Leaves(b, e)
    BY ONLY <2>3, StowedLeaves
  <2> QED
    BY <2>4, <2>5, <2>6
<1> QED
  BY <1>2, <1>3

-----------------------------------------------------------------------------
(* What changes of an entry beside its record and its state.                *)
IsTweak(y, x) ==
    /\ EntryOK(x) /\ x.state # "free" /\ y \in Entry
    /\ y.state = x.state /\ y.key = x.key /\ y.bound = x.bound /\ y.mRecord = x.mRecord
    /\ y.mOutStream \/ y.mBufDirty => x.bound
    /\ x.mBufDirty => y.mBufDirty

\* Such a change keeps the cache in order.
LEMMA TweakFacts ==
    ASSUME NEW c, CacheOK(c), NEW e \in Entries, NEW y, IsTweak(y, c.entry[e]),
           NEW d, d = Changed(c, c.map, e, y, c.amiss)
    PROVE  CacheOK(d) /\ d.amiss = c.amiss /\ (Good(c) => Good(d))
<1>1. PICK x : x = c.entry[e]
  OBVIOUS
<1>2. /\ EntryOK(x) /\ x.state # "free" /\ y \in Entry
      /\ y.state = x.state /\ y.key = x.key /\ y.bound = x.bound /\ y.mRecord = x.mRecord
      /\ y.mOutStream \/ y.mBufDirty => x.bound
      /\ x.mBufDirty => y.mBufDirty
  BY <1>1 DEF IsTweak
<1>3. EntryOK(y)
  BY <1>2 DEF EntryOK
<1>4. MapOK(c.map) /\ c.amiss \in SUBSET Cases
  BY CacheFields
<1>5. CacheOK(Changed(c, c.map, e, y, c.amiss))
  BY ONLY CacheOK(c), e \in Entries, <1>3, <1>4, ChangedFields
<1>6. d.map = c.map /\ d.amiss = c.amiss /\ d.entry = Changed(c, c.map, e, y, c.amiss).entry
  BY DEF Changed
<1>7. ASSUME Good(c), c.amiss = {} PROVE InOrder(c.map, Changed(c, c.map, e, y, c.amiss).entry)
  <2>1. InOrder(c.map, c.entry)
    BY <1>7 DEF Good
  <2>2. y.bound /\ y.state = "active" /\ ~y.mBufDirty =>
               ~c.entry[e].mBufDirty \/ FindRecord(c.map, y.key) = y.mRecord
    BY <1>1, <1>2
  <2> QED
    BY <1>1, <1>2, <1>3, <1>4, <2>1, <2>2, EntryTweak
<1> QED
  BY <1>5, <1>6, <1>7 DEF Good

SetValid(c, e, v) == [c EXCEPT !.entry[e].valid = v]
SetStream(c, e, out) == [c EXCEPT !.entry[e].mOutStream = out, !.entry[e].mStreamEnd = 0]
WithValid(x, v) == [x EXCEPT !.valid = v]
WithStream(x, out) == [x EXCEPT !.mOutStream = out, !.mStreamEnd = 0]
WithBuffer(x, size) == [x EXCEPT !.mStreamEnd = size, !.mBufDirty = TRUE]

LEMMA SetValidIs ==
    ASSUME NEW c, CacheOK(c), NEW e \in Entries, NEW v
    PROVE  SetValid(c, e, v) = Changed(c, c.map, e, WithValid(c.entry[e], v), c.amiss)
<1>0. PICK x : x = c.entry[e]
  OBVIOUS
<1>1. PICK m, en, am : m = c.map /\ en = c.entry /\ am = c.amiss
  OBVIOUS
<1>2. c = [map |-> m, entry |-> en, amiss |-> am]
  BY <1>1, CacheFields
<1>3. PICK y : y = [x EXCEPT !.valid = v]
  OBVIOUS
<1>4. [c EXCEPT !.entry[e].valid = v] = [c EXCEPT !.entry = [c.entry EXCEPT ![e] = [c.entry[e] EXCEPT !.valid = v]]]
  BY Zenon
<1>5. [c EXCEPT !.entry = [en EXCEPT ![e] = y]] = [map |-> m, entry |-> [en EXCEPT ![e] = y], amiss |-> am]
  BY <1>2
<1> QED
  BY <1>0, <1>1, <1>3, <1>4, <1>5 DEF Changed, SetValid, WithValid

LEMMA SetStreamIs ==
    ASSUME NEW c, CacheOK(c), NEW e \in Entries, NEW out
    PROVE  SetStream(c, e, out) = Changed(c, c.map, e, WithStream(c.entry[e], out), c.amiss)
<1>0. PICK x, end : x = c.entry[e] /\ end = 0
  OBVIOUS
<1>1. PICK m, en, am : m = c.map /\ en = c.entry /\ am = c.amiss
  OBVIOUS
<1>2. c = [map |-> m, entry |-> en, amiss |-> am] /\ en \in [Entries -> Entry]
  BY <1>1, CacheFields
<1>3. PICK y, z : y = [x EXCEPT !.mOutStream = out] /\ z = [y EXCEPT !.mStreamEnd = end]
  OBVIOUS
<1>4. z = [x EXCEPT !.mOutStream = out, !.mStreamEnd = end]
  BY <1>3, Zenon
<1>5. PICK b : b = [c EXCEPT !.entry[e].mOutStream = out]
  OBVIOUS
<1>6. b = [c EXCEPT !.entry = [c.entry EXCEPT ![e] = [c.entry[e] EXCEPT !.mOutStream = out]]]
  BY <1>5, Zenon
<1>7. b = [c EXCEPT !.entry = [en EXCEPT ![e] = y]]
  BY <1>0, <1>1, <1>3, <1>6
<1>8. b = [map |-> m, entry |-> [en EXCEPT ![e] = y], amiss |-> am]
  BY <1>2, <1>7
<1>9. [c EXCEPT !.entry[e].mOutStream = out, !.entry[e].mStreamEnd = end] =
          [b EXCEPT !.entry = [b.entry EXCEPT ![e] = [b.entry[e] EXCEPT !.mStreamEnd = end]]]
  BY <1>5, Zenon
<1>10. b.entry = [en EXCEPT ![e] = y] /\ b.entry[e] = y
  BY <1>2, <1>8
<1>11. [b EXCEPT !.entry = [b.entry EXCEPT ![e] = [b.entry[e] EXCEPT !.mStreamEnd = end]]] =
           [b EXCEPT !.entry = [[en EXCEPT ![e] = y] EXCEPT ![e] = z]]
  BY <1>3, <1>10
<1>12. [[en EXCEPT ![e] = y] EXCEPT ![e] = z] = [en EXCEPT ![e] = z]
  BY <1>2
<1>13. [b EXCEPT !.entry = [en EXCEPT ![e] = z]] = [map |-> m, entry |-> [en EXCEPT ![e] = z], amiss |-> am]
  BY <1>8
<1> QED
  BY <1>0, <1>1, <1>4, <1>9, <1>11, <1>12, <1>13 DEF Changed, SetStream, WithStream

\* The changes that client steps make.
LEMMA ValidTweak ==
    ASSUME NEW x, EntryOK(x), x.state # "free", NEW v \in {"no", "awaited", "yes"}
    PROVE  IsTweak(WithValid(x, v), x)
<1>1. x \in Entry /\ (x.mOutStream \/ x.mBufDirty => x.bound)
  BY DEF EntryOK
<1> QED
  BY <1>1 DEF IsTweak, Entry, WithValid, WithStream, WithBuffer

LEMMA StreamTweak ==
    ASSUME NEW x, EntryOK(x), x.state # "free", x.bound, NEW out \in BOOLEAN
    PROVE  IsTweak(WithStream(x, out), x)
<1>1. x \in Entry
  BY DEF EntryOK
<1> QED
  BY <1>1 DEF IsTweak, Entry, WithValid, WithStream, WithBuffer

LEMMA WriteTweak ==
    ASSUME NEW x, EntryOK(x), x.mOutStream, NEW size \in DataSizes
    PROVE  IsTweak(WithBuffer(x, size), x)
<1>1. x \in Entry /\ x.bound /\ x.state # "free"
  BY DEF EntryOK
<1> QED
  BY <1>1 DEF IsTweak, Entry, WithValid, WithStream, WithBuffer

-----------------------------------------------------------------------------
(* Calls, one after the other.                                              *)

\* A call makes a cache of a cache, and keeps it in order unless something goes amiss.
Sound(c, d) == CacheOK(d) /\ (Good(c) => Good(d))

LEMMA SoundTwice ==
    ASSUME NEW c, NEW d, NEW x, Sound(c, d), Sound(d, x)
    PROVE  Sound(c, x)
BY DEF Sound

LEMMA SoundSame == ASSUME NEW c, CacheOK(c) PROVE Sound(c, c)
BY DEF Sound

LEMMA SetValidSound ==
    ASSUME NEW c, CacheOK(c), NEW e \in Entries, c.entry[e].state # "free", NEW v \in {"no", "awaited", "yes"}
    PROVE  Sound(c, SetValid(c, e, v))
<1>1. EntryOK(c.entry[e])
  BY CacheFields
<1>2. IsTweak(WithValid(c.entry[e], v), c.entry[e])
  BY <1>1, ValidTweak
<1>3. SetValid(c, e, v) = Changed(c, c.map, e, WithValid(c.entry[e], v), c.amiss)
  BY SetValidIs
<1> QED
  BY <1>2, <1>3, TweakFacts DEF Sound

LEMMA SetStreamSound ==
    ASSUME NEW c, CacheOK(c), NEW e \in Entries, c.entry[e].bound, NEW out \in BOOLEAN
    PROVE  Sound(c, SetStream(c, e, out))
<1>1. EntryOK(c.entry[e]) /\ c.entry[e].state # "free"
  BY CacheFields DEF EntryOK
<1>2. IsTweak(WithStream(c.entry[e], out), c.entry[e])
  BY <1>1, StreamTweak
<1>3. SetStream(c, e, out) = Changed(c, c.map, e, WithStream(c.entry[e], out), c.amiss)
  BY SetStreamIs
<1> QED
  BY <1>2, <1>3, TweakFacts DEF Sound

\* EnsureEntryHasDevice binds an entry that has no binding; if that fails it has none.
LEMMA EnsureSound ==
    ASSUME NEW c, CacheOK(c), NEW e \in Entries, c.entry[e].state # "free", NEW rank \in Ranks,
           NEW d, d = EnsureEntryHasDevice(c, e, rank)
    PROVE  Sound(c, d) /\ d.entry[e].state = c.entry[e].state
<1>1. CASE c.entry[e].bound
  BY <1>1, SoundSame DEF EnsureEntryHasDevice
<1>2. CASE ~c.entry[e].bound
  <2>1. PICK x, r : x = c.entry[e] /\ r = NewRecord(x.key, rank)
    OBVIOUS
  <2>2. x \in Entry
    BY <2>1, CacheFields
  <2>3. WithBinding(x, r).state = x.state
    BY <2>2 DEF WithBinding, Entry
  <2>4. d = BindEntry(c, e, rank)
    BY <1>2 DEF EnsureEntryHasDevice
  <2>5. /\ CacheOK(d) /\ (Good(c) => Good(d))
        /\ d.entry[e] = c.entry[e] \/ d.entry[e] = WithBinding(c.entry[e], NewRecord(c.entry[e].key, rank))
    BY <1>2, <2>4, BindEntryFacts
  <2> QED
    BY <2>1, <2>3, <2>5 DEF Sound
<1> QED
  BY <1>1, <1>2

LEMMA FlushSound ==
    ASSUME NEW c, CacheOK(c), NEW e \in Entries, c.entry[e].bound, NEW d, d = Flush(c, e)
    PROVE  Sound(c, d) /\ d.entry[e].bound
BY FlushFacts DEF Flushed, Sound

LEMMA DoomEntrySound ==
    ASSUME NEW c, CacheOK(c), NEW e \in Entries, c.entry[e].state = "active", NEW d, d = DoomEntry(c, e)
    PROVE  Sound(c, d)
<1>1. CacheOK(d) /\ c.amiss \subseteq d.amiss /\ (InOrder(c.map, c.entry) => InOrder(d.map, d.entry))
  BY DoomEntryFacts
<1> QED
  BY <1>1 DEF Sound, Good

-----------------------------------------------------------------------------
(* Entries are opened.                                                      *)

\* A record that no active entry has bound can be found.
LEMMA OthersCanBeFound ==
    ASSUME NEW m, NEW en, InOrder(m, en), NEW k \in HashNumbers, HasRecord(m, k), ~BoundActive(en, k)
    PROVE  CanBeFound(m, k)
<1>1. FindRecord(m, k).meta # {}
  BY DEF InOrder, Booked
<1>2. Holdings(m, en)[<<"record", k, "meta">>] = FindRecord(m, k).meta /\ <<"record", k, "meta">> \in Parts
  BY HoldingsAt DEF OfKey, Piece, Fields
<1>3. m.mBitMap = UNION {Holdings(m, en)[x] : x \in Parts}
  BY DEF InOrder, Allotted
<1>4. FindRecord(m, k).meta \subseteq m.mBitMap
  BY <1>2, <1>3
<1> QED
  BY <1>1, <1>4 DEF CanBeFound

\* A new entry for a key.
Opened(key, valid) == [Free EXCEPT !.key = key, !.state = "active", !.valid = valid]
SetEntry(c, e, y) == [c EXCEPT !.entry[e] = y]

LEMMA OpenedIs ==
    ASSUME NEW key \in HashNumbers, NEW valid \in {"no", "yes"}
    PROVE  /\ EntryOK(Opened(key, valid)) /\ Opened(key, valid).key = key
           /\ Opened(key, valid).state = "active" /\ ~Opened(key, valid).bound
BY DEF Opened, EntryOK, Entry, Free

LEMMA SetEntryIs ==
    ASSUME NEW c, CacheOK(c), NEW e \in Entries, NEW y
    PROVE  SetEntry(c, e, y) = Changed(c, c.map, e, y, c.amiss)
<1>1. PICK m, en, am : m = c.map /\ en = c.entry /\ am = c.amiss
  OBVIOUS
<1>2. c = [map |-> m, entry |-> en, amiss |-> am]
  BY <1>1, CacheFields
<1>3. SetEntry(c, e, y) = [c EXCEPT !.entry = [c.entry EXCEPT ![e] = y]]
  BY Zenon DEF SetEntry
<1>4. [c EXCEPT !.entry = [en EXCEPT ![e] = y]] = [map |-> m, entry |-> [en EXCEPT ![e] = y], amiss |-> am]
  BY <1>2
<1> QED
  BY <1>1, <1>3, <1>4 DEF Changed

\* A new entry for a key that cannot be found, which has no record then.
LEMMA OpenedSound ==
    ASSUME NEW c, CacheOK(c), InOrder(c.map, c.entry), NEW e \in Entries, c.entry[e].state = "free",
           NEW y, EntryOK(y), y.state = "active", ~y.bound, ~CanBeFound(c.map, y.key),
           \A f \in Entries : ~(c.entry[f].state = "active" /\ c.entry[f].key = y.key)
    PROVE  Sound(c, SetEntry(c, e, y))
<1>1. MapOK(c.map) /\ c.amiss \in SUBSET Cases /\ EntryOK(c.entry[e])
  BY CacheFields
<1>2. y.key \in HashNumbers /\ ~c.entry[e].bound /\ ~BoundActive(c.entry, y.key)
  BY <1>1 DEF EntryOK, BoundActive
<1>3. ~HasRecord(c.map, y.key)
  BY <1>2, OthersCanBeFound
<1>4. PICK d : d = Changed(c, c.map, e, y, c.amiss)
  OBVIOUS
<1>5. CacheOK(d) /\ d.map = c.map /\ d.amiss = c.amiss
  BY <1>1, <1>4, ChangedFields
<1>6. InOrder(c.map, d.entry)
  BY ONLY CacheOK(c), InOrder(c.map, c.entry), e \in Entries, EntryOK(y), <1>1, <1>2, <1>3, <1>4,
          c.entry[e].state = "free", ~y.bound,
          \A f \in Entries : ~(c.entry[f].state = "active" /\ c.entry[f].key = y.key), UnboundOrder
<1>7. SetEntry(c, e, y) = d
  BY <1>4, SetEntryIs
<1> QED
  BY <1>5, <1>6, <1>7 DEF Sound, Good

\* An entry for a record that was found.
LEMMA FoundSound ==
    ASSUME NEW c, CacheOK(c), InOrder(c.map, c.entry), NEW e \in Entries, c.entry[e].state = "free",
           NEW y, EntryOK(y), y.state = "active", ~y.bound, CanBeFound(c.map, y.key),
           \A f \in Entries : ~(c.entry[f].state = "active" /\ c.entry[f].key = y.key)
    PROVE  Sound(c, CreateBinding(SetEntry(c, e, y), e, FindRecord(c.map, y.key)))
<1>1. MapOK(c.map) /\ c.amiss \in SUBSET Cases /\ EntryOK(c.entry[e])
  BY CacheFields
<1>2. y.key \in HashNumbers /\ HasRecord(c.map, y.key)
  BY <1>1 DEF EntryOK, CanBeFound
<1>3. PICK r : r = FindRecord(c.map, y.key)
  OBVIOUS
<1>4. r \in Record /\ r.hash = y.key
  BY <1>1, <1>2, <1>3, FoundFacts
<1>5. PICK z : z = WithBinding(y, r)
  OBVIOUS
<1>6. EntryOK(z) /\ z.state = "active" /\ z.key = y.key /\ z.bound /\ z.mRecord = r
  BY <1>4, <1>5, WithBindingIsOK
<1>7. PICK o, d : o = Changed(c, c.map, e, y, c.amiss) /\ d = Changed(c, c.map, e, z, c.amiss)
  OBVIOUS
<1>8. CacheOK(d) /\ d.map = c.map /\ d.amiss = c.amiss
  BY <1>1, <1>6, <1>7, ChangedFields
<1>9. InOrder(c.map, d.entry)
  BY ONLY CacheOK(c), InOrder(c.map, c.entry), e \in Entries, <1>1, <1>2, <1>3, <1>6, <1>7,
          c.entry[e].state = "free",
          \A f \in Entries : ~(c.entry[f].state = "active" /\ c.entry[f].key = y.key), TakenOrder
<1>10. CacheOK(o) /\ o.map = c.map /\ o.amiss = c.amiss /\ o.entry[e] = y
  BY <1>1, <1>7, ChangedFields
<1>11. CreateBinding(o, e, r) = Changed(o, o.map, e, z, o.amiss)
  BY <1>5, <1>10, CreateBindingShape
<1>12. o.entry = [c.entry EXCEPT ![e] = y]
  BY <1>7 DEF Changed
<1>13. [[c.entry EXCEPT ![e] = y] EXCEPT ![e] = z] = [c.entry EXCEPT ![e] = z]
  OBVIOUS
<1>14. Changed(o, o.map, e, z, o.amiss) = d
  BY <1>7, <1>10, <1>12, <1>13 DEF Changed
<1>15. SetEntry(c, e, y) = o
  BY <1>7, SetEntryIs
<1> QED
  BY <1>3, <1>8, <1>9, <1>11, <1>14, <1>15 DEF Sound, Good

-----------------------------------------------------------------------------
(* Steps.                                                                   *)

LEMMA CacheIs == cache.map = map /\ cache.entry = entry /\ cache.amiss = amiss
BY DEF cache

Sane == CacheOK(cache) /\ Good(cache)

\* A step is a sound call.
IsCall == \E c : Sound(cache, c) /\ Becomes(c)

LEMMA SaneOrder == ASSUME Sane, Ready PROVE InOrder(map, entry)
BY CacheIs DEF Sane, Good, Ready

LEMMA OpenEntryIsCall ==
    ASSUME Sane, NEW e \in Entries, NEW key \in HashNumbers, NEW valid \in {"no", "yes"}, OpenEntry(e, key, valid)
    PROVE  IsCall
<1>1. PICK c, y : c = cache /\ y = Opened(key, valid)
  OBVIOUS
<1>2. EntryOK(y) /\ y.key = key /\ y.state = "active" /\ ~y.bound
  BY <1>1, OpenedIs
<1>3. c.map = map /\ c.entry = entry /\ CacheOK(c) /\ Sound(c, c) /\ InOrder(c.map, c.entry)
  BY <1>1, CacheIs, SaneOrder, SoundSame DEF Sane, OpenEntry
<1>4. c.entry[e].state = "free" /\ \A f \in Entries : ~(c.entry[f].state = "active" /\ c.entry[f].key = y.key)
  BY <1>2, <1>3 DEF OpenEntry, IsActive
<1>5. Becomes(IF CanBeFound(map, key) THEN CreateBinding(SetEntry(c, e, y), e, FindRecord(map, key))
              ELSE SetEntry(c, e, y))
  BY <1>1, Zenon DEF OpenEntry, SetEntry, Opened
<1>6. CASE CanBeFound(map, key)
  <2>1. Sound(c, CreateBinding(SetEntry(c, e, y), e, FindRecord(c.map, y.key)))
    BY ONLY <1>2, <1>3, <1>4, <1>6, e \in Entries, FoundSound
  <2>2. Sound(c, CreateBinding(SetEntry(c, e, y), e, FindRecord(map, key)))
    BY <1>2, <1>3, <2>1
  <2>3. Becomes(CreateBinding(SetEntry(c, e, y), e, FindRecord(map, key)))
    BY <1>5, <1>6
  <2> QED
    BY <1>1, <2>2, <2>3 DEF IsCall
<1>7. CASE ~CanBeFound(map, key)
  <2>1. Sound(c, SetEntry(c, e, y))
    BY ONLY <1>2, <1>3, <1>4, <1>7, e \in Entries, OpenedSound
  <2>2. Becomes(SetEntry(c, e, y))
    BY <1>5, <1>7
  <2> QED
    BY <1>1, <2>1, <2>2 DEF IsCall
<1> QED
  BY <1>6, <1>7

LEMMA ValidIsCall ==
    ASSUME Sane, NEW e \in Entries,
           WaitForValidation(e) \/ \E rank \in Ranks : MarkValid(e, rank)
    PROVE  IsCall
<1>1. PICK c : c = cache
  OBVIOUS
<1>2. CacheOK(c) /\ c.entry = entry /\ c.map = map /\ c.amiss = amiss
  BY <1>1, CacheIs DEF Sane
<1>3. CASE WaitForValidation(e)
  <2>1. PICK v : v = "awaited"
    OBVIOUS
  <2>2. PICK d : d = SetValid(c, e, v)
    OBVIOUS
  <2>3. entry[e].state # "free"
    BY <1>3 DEF WaitForValidation
  <2>4. Sound(c, d)
    BY <1>2, <2>1, <2>2, <2>3, SetValidSound
  <2>5. d = Changed(c, c.map, e, WithValid(entry[e], v), c.amiss)
    BY <1>2, <2>2, SetValidIs
  <2>6. d.map = map /\ d.amiss = amiss /\ d.entry = [entry EXCEPT ![e] = WithValid(entry[e], v)]
    BY <1>2, <2>5 DEF Changed
  <2>7. entry' = [entry EXCEPT ![e] = WithValid(entry[e], v)] /\ map' = map /\ amiss' = amiss
    BY <1>3, <2>1 DEF WaitForValidation, WithValid
  <2> QED
    BY <1>1, <2>4, <2>6, <2>7 DEF IsCall, Becomes
<1>4. ASSUME NEW rank \in Ranks, MarkValid(e, rank) PROVE IsCall
  <2>1. PICK d, v : d = EnsureEntryHasDevice(c, e, rank) /\ v = "yes"
    OBVIOUS
  <2>2. entry[e].state # "free"
    BY <1>4 DEF MarkValid
  <2>3. Sound(c, d) /\ d.entry[e].state # "free"
    BY <1>2, <2>1, <2>2, EnsureSound
  <2>4. Sound(d, SetValid(d, e, v))
    BY <2>1, <2>3, SetValidSound DEF Sound
  <2>5. Becomes(SetValid(d, e, v))
    BY <1>1, <1>4, <2>1, Zenon DEF MarkValid, SetValid
  <2> QED
    BY <1>1, <2>3, <2>4, <2>5, SoundTwice DEF IsCall
<1> QED
  BY <1>3, <1>4

LEMMA StreamIsCall ==
    ASSUME Sane, NEW e \in Entries,
           \/ \E rank \in Ranks : GetOutputStream(e, rank)
           \/ \E size \in DataSizes : Write(e, size)
           \/ CloseOutputStream(e)
    PROVE  IsCall
<1>1. PICK c : c = cache
  OBVIOUS
<1>2. CacheOK(c) /\ c.entry = entry /\ c.map = map /\ c.amiss = amiss
  BY <1>1, CacheIs DEF Sane
<1>3. EntryOK(entry[e])
  BY <1>2, CacheFields
<1>4. ASSUME NEW rank \in Ranks, GetOutputStream(e, rank) PROVE IsCall
  <2>1. PICK d, out : d = EnsureEntryHasDevice(c, e, rank) /\ out = TRUE
    OBVIOUS
  <2>2. entry[e].state # "free"
    BY <1>4 DEF GetOutputStream
  <2>3. Sound(c, d)
    BY <1>2, <2>1, <2>2, EnsureSound
  <2>4. d.entry[e].bound => Sound(d, SetStream(d, e, out))
    BY <2>1, <2>3, SetStreamSound DEF Sound
  <2>5. Becomes(IF d.entry[e].bound THEN SetStream(d, e, out) ELSE d)
    BY <1>1, <1>4, <2>1, Zenon DEF GetOutputStream, SetStream
  <2> QED
    BY <1>1, <2>3, <2>4, <2>5, SoundTwice DEF IsCall
<1>5. ASSUME NEW size \in DataSizes, Write(e, size) PROVE IsCall
  <2>1. PICK y : y = WithBuffer(entry[e], size)
    OBVIOUS
  <2>2. IsTweak(y, c.entry[e])
    BY <1>2, <1>3, <1>5, <2>1, WriteTweak DEF Write
  <2>3. PICK d : d = Changed(c, c.map, e, y, c.amiss)
    OBVIOUS
  <2>4. Sound(c, d)
    BY <1>2, <2>2, <2>3, TweakFacts DEF Sound
  <2>5. d.map = map /\ d.amiss = amiss /\ d.entry = [entry EXCEPT ![e] = y]
    BY <1>2, <2>3 DEF Changed
  <2>6. entry' = [entry EXCEPT ![e].mStreamEnd = size, ![e].mBufDirty = TRUE] /\ map' = map /\ amiss' = amiss
    BY <1>5 DEF Write
  <2>7. entry \in [Entries -> Entry]
    BY <1>2, CacheFields
  <2>8. [entry EXCEPT ![e].mStreamEnd = size, ![e].mBufDirty = TRUE] = [entry EXCEPT ![e] = y]
    BY <2>1, <2>7 DEF WithBuffer
  <2> QED
    BY <1>1, <2>4, <2>5, <2>6, <2>8 DEF IsCall, Becomes
<1>6. CASE CloseOutputStream(e)
  <2>1. PICK d, out : d = Flush(c, e) /\ out = FALSE
    OBVIOUS
  <2>2. entry[e].bound
    BY <1>3, <1>6 DEF CloseOutputStream, EntryOK
  <2>3. Sound(c, d) /\ d.entry[e].bound
    BY <1>2, <2>1, <2>2, FlushSound
  <2>4. Sound(d, SetStream(d, e, out))
    BY <2>1, <2>3, SetStreamSound DEF Sound
  <2>5. Becomes(SetStream(d, e, out))
    BY <1>1, <1>6, <2>1, Zenon DEF CloseOutputStream, SetStream
  <2> QED
    BY <1>1, <2>3, <2>4, <2>5, SoundTwice DEF IsCall
<1> QED
  BY <1>4, <1>5, <1>6

LEMMA DoomIsCall ==
    ASSUME Sane, NEW e \in Entries,
           Doom(e) \/ \E rank \in Ranks, size \in MetaSizes : CloseDescriptor(e, rank, size)
    PROVE  IsCall
<1>1. PICK c : c = cache
  OBVIOUS
<1>2. CacheOK(c) /\ c.entry = entry
  BY <1>1, CacheIs DEF Sane
<1>3. CASE Doom(e)
  BY <1>1, <1>2, <1>3, DoomEntrySound DEF Doom, IsCall
<1>4. ASSUME NEW rank \in Ranks, NEW size \in MetaSizes, CloseDescriptor(e, rank, size) PROVE IsCall
  <2>1. PICK d, v : d = (IF entry[e].state = "active" THEN EnsureEntryHasDevice(c, e, rank) ELSE c) /\ v = "no"
    OBVIOUS
  <2>2. entry[e].state # "free"
    BY <1>4 DEF CloseDescriptor
  <2>3. Sound(c, d) /\ d.entry[e].state # "free"
    BY <1>2, <2>1, <2>2, EnsureSound, SoundSame
  <2>4. Sound(d, DeactivateEntry(d, e, rank, size))
    BY <2>3, DeactivateEntryFacts DEF Sound
  <2>5. Sound(c, SetValid(c, e, v))
    BY <1>2, <2>1, <2>2, SetValidSound
  <2>6. Becomes(IF entry[e].valid = "awaited" THEN SetValid(c, e, v) ELSE DeactivateEntry(d, e, rank, size))
    BY <1>1, <1>4, <2>1, Zenon DEF CloseDescriptor, SetValid
  <2> QED
    BY <1>1, <2>3, <2>4, <2>5, <2>6, SoundTwice DEF IsCall
<1> QED
  BY <1>3, <1>4

\* All steps of clients are sound calls.
LEMMA ClientStepIsCall ==
    ASSUME Sane, NEW e \in Entries, ClientStep(e)
    PROVE  IsCall /\ Ready /\ Same
<1>1. IsCall
  BY OpenEntryIsCall, ValidIsCall, StreamIsCall, DoomIsCall DEF ClientStep
<1>2. Ready /\ Same
  BY DEF ClientStep, OpenEntry, WaitForValidation, MarkValid, GetOutputStream, Write, CloseOutputStream, Doom,
         CloseDescriptor
<1> QED
  BY <1>1, <1>2

-----------------------------------------------------------------------------
(* A record is visited.                                                     *)

\* A record is deleted whose entry is doomed with it.
LEMMA VisitedBound ==
    ASSUME NEW c, CacheOK(c), NEW at \in Places(c.map), NEW r, r = RecordAt(c.map, at),
           NEW f \in Entries, c.entry[f].state = "active", c.entry[f].bound, c.entry[f].key = r.hash,
           NEW n, n = DeleteVisited(c.map, at[1], at[2]), NEW a \in SUBSET Cases, c.amiss \subseteq a,
           NEW y, y = Doomed(c.entry[f]), NEW d, d = Changed(c, n, f, y, a)
    PROVE  Sound(c, d)
<1>1. MapOK(c.map) /\ EntryOK(c.entry[f])
  BY CacheFields
<1>2. /\ EntryOK(y) /\ y.state = "doomed" /\ y.bound = c.entry[f].bound
      /\ y.mRecord = c.entry[f].mRecord
  BY <1>1, DoomedIsOK
<1>3. MapOK(n)
  BY <1>1, DeleteVisitedFacts
<1>4. CacheOK(d) /\ d.map = n /\ d.amiss = a
  BY <1>2, <1>3, ChangedFields
<1>5. ASSUME InOrder(c.map, c.entry) PROVE InOrder(n, d.entry)
  <2>1. Shelved(c.map)
    BY <1>5 DEF InOrder, Booked
  <2>2. Minus(c.map, n, c.entry[f].key) /\ SameStorage(c.map, n)
    BY <1>1, <2>1, VisitedFinds
  <2> QED
    BY <1>2, <1>5, <2>2, DoomedOrder
<1> QED
  BY <1>4, <1>5 DEF Sound, Good

\* A record that no active entry has bound goes with its storage.
LEMMA VisitedAlone ==
    ASSUME NEW c, CacheOK(c), NEW at \in Places(c.map), NEW r, r = RecordAt(c.map, at), r \in Record,
           ~BoundActive(c.entry, r.hash),
           NEW m, m = DeleteAllStorage(c.map, r),
           NEW n, n = DeleteVisited(m, at[1], at[2]),
           NEW d, CacheOK(c) /\ MapOK(n) => CacheOK(d) /\ d.map = n /\ d.entry = c.entry /\ d.amiss = c.amiss
    PROVE  Sound(c, d)
<1>1. MapOK(c.map)
  BY CacheFields
<1>2. /\ MapOK(m) /\ SameRecords(c.map, m)
      /\ Shelved(c.map) => Shelved(m) /\ Even(c.map, m)
  BY <1>1, DeleteAllStorageFacts
<1>3. Places(m) = Places(c.map) /\ RecordAt(m, at) = r
  BY <1>2 DEF SameRecords, Places, RecordAt
<1>4. MapOK(n)
  BY <1>2, <1>3, DeleteVisitedFacts
<1>5. CacheOK(d) /\ d.map = n /\ d.entry = c.entry /\ d.amiss = c.amiss
  BY <1>4
<1>6. ASSUME InOrder(c.map, c.entry) PROVE InOrder(n, c.entry)
  <2>1. Shelved(c.map)
    BY <1>6 DEF InOrder, Booked
  <2>2. Even(c.map, m) /\ Shelved(m)
    BY <1>2, <2>1
  <2>3. Minus(m, n, r.hash) /\ SameStorage(m, n)
    BY <1>2, <1>3, <2>2, VisitedFinds
  <2>4. Minus(c.map, n, r.hash)
    BY <2>2, <2>3 DEF Minus, Even
  <2>5. r.hash \in HashNumbers /\ HasRecord(c.map, r.hash) /\ FindRecord(c.map, r.hash) = r
    BY <1>1, <2>1, RecordAtFacts
  <2> QED
    BY <1>6, <2>3, <2>4, <2>5, EvictedOrder
<1> QED
  BY <1>5, <1>6 DEF Sound, Good

\* The bucket with the highest rank has a record, and one of that rank.
LEMMA NextEvictedIsThere ==
    ASSUME NEW m, MapOK(m), Places(m) # {}
    PROVE  NextEvicted(m) \in Places(m)
<1> DEFINE R == {m.mEvictionRank[i] : i \in BucketIndexes}
           highest == Max(R)
           J == {j \in BucketIndexes : m.mEvictionRank[j] = highest}
           i == Min(J)
           P == {p \in DOMAIN m.mBuckets[i] : m.mBuckets[i][p].rank >= highest}
<1>1. m \in MapRecord /\ HeaderAgrees(m)
  BY DEF MapOK
<1>2. m.mBuckets \in [BucketIndexes -> Bucket] /\ m.mEvictionRank \in [BucketIndexes -> Nat]
  BY <1>1, MapFields
<1>3. \A j \in BucketIndexes : IsHighest(m.mBuckets[j], m.mEvictionRank[j])
  BY <1>1, <1>2, RankIsHighest DEF HeaderAgrees
<1>4. PICK at \in Places(m) : TRUE
  OBVIOUS
<1>5. at[1] \in BucketIndexes /\ at[2] \in Nat /\ 1 <= at[2] /\ at[2] <= Len(m.mBuckets[at[1]])
  BY DiskCacheMapAssumption DEF Places
<1>6. at[2] \in 1..Len(m.mBuckets[at[1]])
  BY <1>2, <1>5, BucketFacts
<1>7. m.mEvictionRank[at[1]] > 0
  <2>1. m.mBuckets[at[1]][at[2]].rank \in Nat /\ m.mBuckets[at[1]][at[2]].rank > 0
    BY <1>2, <1>5, <1>6, BucketFacts
  <2>2. m.mBuckets[at[1]][at[2]].rank <= m.mEvictionRank[at[1]] /\ m.mEvictionRank[at[1]] \in Nat
    BY <1>3, <1>5, <1>6 DEF IsHighest
  <2> QED
    BY <2>1, <2>2
<1>8. R \subseteq Nat /\ R # {} /\ IsFiniteSet(R)
  <2>1. R \subseteq Nat /\ R # {}
    BY <1>2, <1>5
  <2>2. m.mEvictionRank \in Surjection(BucketIndexes, R)
    BY <1>2 DEF Surjection
  <2> QED
    BY <2>1, <2>2, FS_Surjection, DiskCacheMapAssumption
<1>9. highest \in R /\ \A r \in R : r <= highest
  BY <1>8, MaxIsLast
<1> HIDE DEF highest
<1>10. highest \in Nat /\ highest > 0
  <2>1. m.mEvictionRank[at[1]] \in R
    BY <1>5
  <2>2. m.mEvictionRank[at[1]] \in Nat /\ m.mEvictionRank[at[1]] <= highest /\ highest \in Nat
    BY <1>8, <1>9, <2>1
  <2> QED
    BY <1>7, <2>2
<1>11. J # {} /\ J \subseteq Nat
  BY <1>9, DiskCacheMapAssumption
<1>12. i \in J
  BY <1>11, MinIsFirst
<1> HIDE DEF i
<1>13. i \in BucketIndexes /\ m.mEvictionRank[i] = highest
  BY <1>12
<1>14. m.mBuckets[i] \in Bucket
  BY <1>2, <1>13
<1>15. Len(m.mBuckets[i]) \in Nat /\ DOMAIN m.mBuckets[i] = 1..Len(m.mBuckets[i])
  BY <1>14, BucketFacts
<1>16. PICK q \in 1..Len(m.mBuckets[i]) : m.mBuckets[i][q].rank = highest
  BY <1>3, <1>10, <1>13 DEF IsHighest
<1>17. P # {} /\ P \subseteq 1..Len(m.mBuckets[i])
  BY <1>10, <1>15, <1>16
<1>18. IsFiniteSet(P) /\ P \subseteq Nat
  <2>1. IsFiniteSet(1..Len(m.mBuckets[i])) /\ 1..Len(m.mBuckets[i]) \subseteq Nat
    BY <1>15, FS_Interval
  <2> QED
    BY <1>17, <2>1, FS_Subset
<1>19. Max(P) \in P
  BY <1>17, <1>18, MaxIsLast
<1> HIDE DEF P
<1>20. Max(P) \in 1..kRecordsPerBucket /\ Max(P) <= Len(m.mBuckets[i])
  <2>1. Max(P) \in 1..Len(m.mBuckets[i]) /\ Len(m.mBuckets[i]) <= kRecordsPerBucket
    BY <1>13, <1>17, <1>19 DEF MapOK
  <2> QED
    BY <1>15, <2>1, DiskCacheMapAssumption
<1>21. NextEvicted(m) = <<i, Max(P)>>
  BY Zenon DEF NextEvicted, P, i, highest
<1> QED
  BY <1>13, <1>20, <1>21 DEF Places

\* So is a visit.
LEMMA VisitRecordIsCall ==
    ASSUME Sane, VisitRecord
    PROVE  IsCall /\ UNCHANGED <<evicting, phase, disk>>
<1>1. PICK c, at : c = cache /\ at = NextVisited
  OBVIOUS
<1>2. CacheOK(c) /\ c.map = map /\ c.entry = entry /\ MapOK(map)
  BY <1>1, CacheIs, CacheFields DEF Sane
<1>3. at \in Places(map)
  <2>1. ToVisit # {} /\ ToVisit \subseteq Places(map)
    BY DEF VisitRecord, ToVisit
  <2>2. CASE evicting.keys = HashNumbers
    BY <1>1, <1>2, <2>1, <2>2, NextEvictedIsThere DEF NextVisited
  <2>3. CASE evicting.keys # HashNumbers
    BY <1>1, <2>1, <2>3 DEF NextVisited
  <2> QED
    BY <2>2, <2>3
<1>4. PICK r, d : r = RecordAt(map, at) /\ d = EvictOne(c, r)
  OBVIOUS
<1>5. PICK x : x = [d EXCEPT !.map = DeleteVisited(d.map, at[1], at[2])]
  OBVIOUS
<1>6. Becomes(x)
  BY <1>1, <1>4, <1>5, Zenon DEF VisitRecord
<1>7. r \in Record
  <2>1. map.mBuckets \in [BucketIndexes -> Seq(Record)] /\ at[1] \in BucketIndexes
    BY <1>2, <1>3 DEF MapOK, MapRecord, Places
  <2>2. map.mBuckets[at[1]] \in Bucket
    BY <2>1 DEF Bucket
  <2>3. at[2] \in Nat /\ 1 <= at[2] /\ at[2] <= Len(map.mBuckets[at[1]])
    BY <1>3, DiskCacheMapAssumption DEF Places
  <2> QED
    BY <1>4, <2>2, <2>3, BucketFacts DEF RecordAt
<1>8. Sound(c, x)
  <2>1. CASE ActiveBindings(c, r.hash) # {}
    <3>1. PICK f : /\ f = CHOOSE e \in ActiveBindings(c, r.hash) : TRUE
                   /\ f \in Entries /\ c.entry[f].state = "active" /\ c.entry[f].bound
                   /\ c.entry[f].key = r.hash
      BY <2>1, ActiveBindingsAre
    <3>2. d = MarkDoomed(c, f)
      BY <1>4, <2>1, <3>1 DEF EvictOne
    <3>3. PICK a \in SUBSET Cases : c.amiss \subseteq a /\ d = Changed(c, c.map, f, Doomed(c.entry[f]), a)
      BY <1>2, <3>1, <3>2, MarkDoomedShape
    <3>4. PICK y, n : y = Doomed(c.entry[f]) /\ n = DeleteVisited(c.map, at[1], at[2])
      OBVIOUS
    <3>5. x = Changed(c, n, f, y, a)
      BY <1>5, <3>3, <3>4 DEF Changed
    <3> QED
      BY ONLY <1>2, <1>3, <1>4, <3>1, <3>3, <3>4, <3>5, VisitedBound
  <2>2. CASE ActiveBindings(c, r.hash) = {}
    <3>1. PICK m : m = DeleteAllStorage(c.map, r)
      OBVIOUS
    <3>2. PICK n : n = DeleteVisited(m, at[1], at[2])
      OBVIOUS
    <3>3. d = [c EXCEPT !.map = m]
      BY <1>4, <2>2, <3>1 DEF EvictOne
    <3>4. c = [map |-> c.map, entry |-> c.entry, amiss |-> c.amiss]
      BY <1>2, CacheFields
    <3>5. d.map = m /\ x = [c EXCEPT !.map = n]
      BY <1>5, <3>2, <3>3, <3>4
    <3>6. CacheOK(c) /\ MapOK(n) => CacheOK(x) /\ x.map = n /\ x.entry = c.entry /\ x.amiss = c.amiss
      BY <3>5, WithMap
    <3>7. ~BoundActive(c.entry, r.hash)
      BY <2>2, ActiveBindingsAre
    <3> QED
      BY ONLY <1>2, <1>3, <1>4, <1>7, <3>1, <3>2, <3>6, <3>7, VisitedAlone
  <2> QED
    BY <2>1, <2>2
<1> QED
  BY <1>1, <1>6, <1>8 DEF IsCall, VisitRecord

-----------------------------------------------------------------------------
(* The device starts and stops.                                             *)

NoEntries == [e \in Entries |-> Free]

LEMMA NewMapFacts ==
    /\ MapOK(NewMap) /\ Shelved(NewMap)
    /\ \A k \in HashNumbers : ~HasRecord(NewMap, k)
    /\ NewMap.mBitMap = {} /\ NewMap.mDataSize = 0
<1>1. NewMap \in MapRecord
  BY DEF NewMap, MapRecord
<1>2. \A i \in BucketIndexes : NewMap.mBuckets[i] = <<>> /\ NewMap.mEvictionRank[i] = 0
  BY DEF NewMap
<1>3. NewMap.mEntryCount = 0 /\ NewMap.mBitMap = {} /\ NewMap.mDataSize = 0
  BY DEF NewMap
<1>4. PICK b : b = <<>>
  OBVIOUS
<1>5. b \in Bucket /\ Len(b) = 0 /\ DOMAIN b = {}
  BY <1>4 DEF Bucket
<1>6. EvictionRank(b) = 0
  <2>1. IsHighest(b, 0)
    BY ONLY <1>5 DEF IsHighest
  <2> QED
    BY ONLY <1>5, <2>1, HighestIsRank
<1>7. Places(NewMap) = {}
  <2> SUFFICES ASSUME NEW at \in Places(NewMap) PROVE FALSE
    OBVIOUS
  <2>1. at[1] \in BucketIndexes /\ at[2] \in Nat /\ 1 <= at[2] /\ at[2] <= Len(NewMap.mBuckets[at[1]])
    BY DiskCacheMapAssumption DEF Places
  <2> QED
    BY <1>2, <1>4, <1>5, <2>1
<1>8. HeaderAgrees(NewMap)
  BY <1>2, <1>3, <1>4, <1>6, <1>7, FS_EmptySet DEF HeaderAgrees
<1>9. \A i \in BucketIndexes : Len(NewMap.mBuckets[i]) <= kRecordsPerBucket
  BY <1>2, <1>4, <1>5, DiskCacheMapAssumption
<1>10. Shelved(NewMap)
  BY <1>2, <1>4, <1>5 DEF Shelved, Records, Distinct
<1>11. \A k \in HashNumbers : ~HasRecord(NewMap, k)
  BY <1>2, <1>4, <1>5, DiskCacheMapAssumption DEF HasRecord, Positions
<1> QED
  BY <1>1, <1>3, <1>8, <1>9, <1>10, <1>11 DEF MapOK

\* Without entries nothing is owned but by records.
LEMMA NoEntriesOwn ==
    /\ \A e \in Entries : NoEntries[e] = Free /\ ~NoEntries[e].bound /\ NoEntries[e].state = "free"
    /\ \A k : ~BoundActive(NoEntries, k)
BY DEF NoEntries, Free, BoundActive

LEMMA NewMapOrder == InOrder(NewMap, NoEntries)
<1>1. PICK m, en, h : m = NewMap /\ en = NoEntries /\ h = Holdings(NewMap, NoEntries)
  OBVIOUS
<1>2. Booked(m, en)
  BY <1>1, NewMapFacts, NoEntriesOwn DEF Booked
<1>3. ASSUME NEW x \in Parts PROVE h[x] = {}
  BY <1>1, <1>3, PartsAre, HoldingsAt, NewMapFacts, NoEntriesOwn DEF OfEntry, OfKey
<1>4. UNION {h[x] : x \in Parts} = {}
  BY <1>3
<1>5. Allotted(h, m)
  BY <1>1, <1>3, <1>4, NewMapFacts, FS_EmptySet DEF Allotted
<1> QED
  BY <1>1, <1>2, <1>5 DEF InOrder

\* Two maps with the same records and blocks are in order alike.
LEMMA SameOrder ==
    ASSUME NEW m, MapOK(m), NEW n \in MapRecord, SameRecords(m, n), SameStorage(m, n), NEW en, InOrder(m, en)
    PROVE  MapOK(n) /\ InOrder(n, en)
<1>1. /\ MapOK(n) /\ Shelved(n)
      /\ \A k : HasRecord(n, k) <=> HasRecord(m, k)
      /\ \A k : FindRecord(n, k) = FindRecord(m, k)
  BY SameRecordsFacts DEF InOrder, Booked
<1>2. Booked(n, en)
  BY <1>1 DEF InOrder, Booked, InBook
<1>3. PICK h, g : h = Holdings(m, en) /\ g = Holdings(n, en)
  OBVIOUS
<1>4. ASSUME NEW x \in Parts PROVE g[x] = h[x]
  BY <1>1, <1>3, <1>4, PartsAre, HoldingsAt DEF OfKey
<1>5. Allotted(g, n)
  BY <1>3, <1>4, AllottedSame DEF InOrder
<1> QED
  BY <1>1, <1>2, <1>3, <1>5 DEF InOrder

\* A cache of a map without entries.
LEMMA NoEntriesCache ==
    ASSUME NEW m, MapOK(m), NEW a \in SUBSET Cases, NEW c, c = [map |-> m, entry |-> NoEntries, amiss |-> a]
    PROVE  /\ CacheOK(c) /\ c.map = m /\ c.entry = NoEntries /\ c.amiss = a
           /\ InOrder(m, NoEntries) => Good(c)
<1>1. EntryOK(Free) /\ Free \in Entry
  BY FreeOK DEF EntryOK
<1>2. NoEntries \in [Entries -> Entry] /\ \A e \in Entries : EntryOK(NoEntries[e])
  BY <1>1, NoEntriesOwn DEF NoEntries
<1>3. m \in MapRecord
  BY DEF MapOK
<1>4. c \in Caches
  BY <1>2, <1>3 DEF Caches
<1> QED
  BY <1>2, <1>4 DEF CacheOK, Good

-----------------------------------------------------------------------------
(* The invariant of the storage.                                            *)

\* What will be read again can be used as it is.
FilesInv ==
    /\ disk.map \in File /\ disk.mIsDirty \in BOOLEAN /\ disk.mBitMap \subseteq Blocks
    /\ disk.map = "full" /\ ~disk.mIsDirty => MapOK(ReadMap) /\ InOrder(ReadMap, NoEntries)

\* Entries are there while the device is up, and a map until it is closed.
StorageInv ==
    /\ Sane
    /\ phase # "up" => amiss = {} /\ entry = NoEntries
    /\ phase \in {"down", "wiping"} => map = NewMap
    /\ evicting \in [target : {0} \cup Targets, keys : SUBSET HashNumbers]
    /\ FilesInv

LEMMA IdleIs == Idle \in [target : {0} \cup Targets, keys : SUBSET HashNumbers]
BY DEF Idle

\* What is not written is not read.
LEMMA SameFiles ==
    ASSUME FilesInv, disk' = disk
    PROVE  FilesInv'
<1>1. ReadMap' = ReadMap
  BY DEF ReadMap
<1> QED
  BY <1>1 DEF FilesInv

LEMMA DirtyFilesAre ==
    ASSUME disk'.map \in File, disk'.mIsDirty \in BOOLEAN, disk'.mBitMap \subseteq Blocks,
           disk'.map # "full" \/ disk'.mIsDirty
    PROVE  FilesInv'
BY DEF FilesInv

\* The cache after a step is the one that the call made.
LEMMA BecomesIt ==
    ASSUME NEW c, CacheOK(c), Becomes(c)
    PROVE  cache' = c
<1>1. c = [map |-> c.map, entry |-> c.entry, amiss |-> c.amiss]
  BY CacheFields
<1> QED
  BY <1>1 DEF Becomes, cache

LEMMA BecomesSane ==
    ASSUME NEW c, CacheOK(c), Good(c), Becomes(c)
    PROVE  Sane'
BY BecomesIt DEF Sane

LEMMA CallKeepsStorage ==
    ASSUME StorageInv, IsCall, phase = "up", phase' = phase, disk' = disk,
           evicting' \in [target : {0} \cup Targets, keys : SUBSET HashNumbers]
    PROVE  StorageInv'
<1>1. Sane'
  BY BecomesSane DEF StorageInv, IsCall, Sound, Sane
<1>2. FilesInv'
  BY SameFiles DEF StorageInv
<1> QED
  BY <1>1, <1>2 DEF StorageInv

\* Nor does it matter when an eviction begins and ends.
LEMMA SameKeepsStorage ==
    ASSUME StorageInv, UNCHANGED <<map, entry, amiss, disk, phase>>,
           evicting' \in [target : {0} \cup Targets, keys : SUBSET HashNumbers]
    PROVE  StorageInv'
<1>1. cache' = cache
  BY DEF cache
<1>2. Sane'
  BY <1>1 DEF StorageInv, Sane
<1>3. FilesInv'
  BY SameFiles DEF StorageInv
<1> QED
  BY <1>2, <1>3 DEF StorageInv

LEMMA ClientKeepsStorage ==
    ASSUME StorageInv, NEW e \in Entries, ClientStep(e)
    PROVE  StorageInv'
<1>1. IsCall /\ Ready /\ Same
  BY ClientStepIsCall DEF StorageInv
<1> QED
  BY <1>1, CallKeepsStorage DEF Ready, Same, StorageInv

LEMMA EvictionKeepsStorage ==
    ASSUME StorageInv, CacheInv, EvictionStep
    PROVE  StorageInv'
<1>1. ASSUME NEW target \in Targets, Evict(target) PROVE StorageInv'
  <2>1. evicting' \in [target : {0} \cup Targets, keys : SUBSET HashNumbers]
    BY <1>1 DEF Evict
  <2> QED
    BY <1>1, <2>1, SameKeepsStorage DEF Evict
<1>2. ASSUME NEW keys \in Clients, EvictEntries(keys) PROVE StorageInv'
  <2>1. keys \subseteq HashNumbers
    BY DiskCacheAssumption
  <2>2. evicting' \in [target : {0} \cup Targets, keys : SUBSET HashNumbers]
    BY <1>2, <2>1 DEF EvictEntries
  <2> QED
    BY <1>2, <2>2, SameKeepsStorage DEF EvictEntries
<1>3. CASE VisitRecord
  <2>1. IsCall /\ UNCHANGED <<evicting, phase, disk>>
    BY <1>3, VisitRecordIsCall DEF StorageInv
  <2>2. phase = "up"
    BY <1>3 DEF VisitRecord, CacheInv
  <2> QED
    BY <2>1, <2>2, CallKeepsStorage DEF StorageInv
<1>4. CASE EvictionEnds
  BY <1>4, IdleIs, SameKeepsStorage DEF EvictionEnds
<1> QED
  BY <1>1, <1>2, <1>3, <1>4 DEF EvictionStep

\* What is opened is a new map, or one that was closed.
LEMMA ReadIsOK ==
    ASSUME StorageInv, Readable
    PROVE  /\ MapOK(ReadMap)
           /\ disk.map # "none" \/ disk.mBitMap = {} => InOrder(ReadMap, NoEntries)
<1>1. CASE disk.map = "none"
  <2>1. PICK b : b = disk.mBitMap
    OBVIOUS
  <2>2. b \subseteq Blocks
    BY <2>1 DEF StorageInv, FilesInv
  <2>3. PICK m, n : m = NewMap /\ n = ReadMap
    OBVIOUS
  <2>4. n = [m EXCEPT !.mBitMap = b]
    BY <1>1, <2>1, <2>3 DEF ReadMap
  <2>5. m \in MapRecord /\ MapOK(m) /\ m.mBitMap = {}
    BY <2>3, NewMapFacts DEF MapOK
  <2>6. n \in MapRecord /\ SameRecords(m, n)
    BY <2>2, <2>4, <2>5 DEF MapRecord, SameRecords
  <2>7. MapOK(n)
    BY <2>5, <2>6, SameRecordsFacts
  <2>8. ASSUME b = {} PROVE n = m
    BY <2>4, <2>5, <2>8 DEF MapRecord
  <2> QED
    BY <1>1, <2>1, <2>3, <2>7, <2>8, NewMapOrder
<1>2. CASE disk.map # "none"
  BY <1>2 DEF Readable, StorageInv, FilesInv
<1> QED
  BY <1>1, <1>2

LEMMA OpenMapKeepsStorage ==
    ASSUME StorageInv, CacheInv, OpenMap
    PROVE  StorageInv'
<1>1. phase = "down" /\ phase' = "up" /\ evicting' = evicting /\ Readable /\ amiss = {} /\ entry = NoEntries
  BY DEF OpenMap, StorageInv
<1>2. PICK c, m : c = [cache EXCEPT !.map = ReadMap] /\ m = ReadMap
  OBVIOUS
<1>3. PICK none \in SUBSET Cases : none = {}
  OBVIOUS
<1>4. c = [map |-> m, entry |-> NoEntries, amiss |-> none]
  BY <1>1, <1>2, <1>3 DEF cache
<1>5. MapOK(m) /\ (disk.map # "none" \/ disk.mBitMap = {} => InOrder(m, NoEntries))
  BY <1>1, <1>2, ReadIsOK
<1>6. CacheOK(c) /\ (InOrder(m, NoEntries) => Good(c))
  BY <1>4, <1>5, NoEntriesCache
<1>7. PICK case, met : case = "halfwiped" /\ met = (disk.map = "none" /\ disk.mBitMap # {})
  OBVIOUS
<1>8. PICK d : d = Amiss(c, case, met)
  OBVIOUS
<1>9. case \in Cases
  BY <1>7 DEF Cases
<1>10. CacheOK(d) /\ (met => case \in d.amiss) /\ (~met => d = c)
  BY <1>6, <1>8, <1>9, AmissFields
<1>11. Good(d)
  <2>1. CASE met
    BY <1>10, <2>1 DEF Good
  <2>2. CASE ~met
    BY <1>5, <1>6, <1>7, <1>10, <2>2
  <2> QED
    BY <2>1, <2>2
<1>12. Becomes(d)
  BY <1>2, <1>7, <1>8 DEF OpenMap
<1>13. Sane'
  BY <1>10, <1>11, <1>12, BecomesSane
<1>14. /\ disk'.mIsDirty = TRUE /\ disk'.mBitMap = disk.mBitMap
       /\ disk'.map = IF disk.map = "none" THEN "header" ELSE disk.map
  BY DEF OpenMap, DirtyFiles, CacheInv, NoFiles
<1>15. FilesInv'
  BY <1>14, DirtyFilesAre DEF StorageInv, FilesInv, File
<1> QED
  BY <1>1, <1>13, <1>15 DEF StorageInv

\* The map and the entries stay.
LEMMA CacheStays ==
    ASSUME StorageInv, UNCHANGED <<map, entry, amiss, evicting>>, FilesInv',
           phase = "up" => phase' = "up" \/ (amiss = {} /\ entry = NoEntries),
           phase' \in {"down", "wiping"} => phase \in {"down", "wiping"}
    PROVE  StorageInv'
<1>1. cache' = cache
  BY DEF cache
<1>2. Sane'
  BY <1>1 DEF StorageInv, Sane
<1> QED
  BY <1>2 DEF StorageInv

LEMMA WipingKeepsStorage ==
    ASSUME StorageInv, CacheInv, InitializeCacheDirectory \/ RemoveMap \/ RemoveBlockFile
    PROVE  StorageInv'
<1>1. CASE InitializeCacheDirectory
  <2>1. disk' = disk /\ phase = "down" /\ phase' = "wiping" /\ UNCHANGED <<map, entry, amiss, evicting>>
    BY <1>1 DEF InitializeCacheDirectory
  <2> QED
    BY <2>1, SameFiles, CacheStays DEF StorageInv
<1>2. CASE RemoveMap
  <2>1. phase = "wiping" /\ phase' \in {"down", "wiping"} /\ UNCHANGED <<map, entry, amiss, evicting>>
    BY <1>2 DEF RemoveMap
  <2>2. disk'.map = "none" /\ disk'.mIsDirty = TRUE /\ disk'.mBitMap = disk.mBitMap
    BY <1>2 DEF RemoveMap, NoFiles
  <2>3. FilesInv'
    BY <2>2, DirtyFilesAre DEF StorageInv, FilesInv, File
  <2> QED
    BY <2>1, <2>3, CacheStays
<1>3. CASE RemoveBlockFile
  <2>1. phase = "wiping" /\ phase' \in {"down", "wiping"} /\ UNCHANGED <<map, entry, amiss, evicting>>
    BY <1>3 DEF RemoveBlockFile
  <2>2. disk'.map = disk.map /\ disk'.mIsDirty = disk.mIsDirty /\ disk'.mBitMap = {}
    BY <1>3 DEF RemoveBlockFile, CacheInv, NoFiles
  <2>3. FilesInv'
    BY <2>1, <2>2, DirtyFilesAre DEF StorageInv, FilesInv, CacheInv, DirtyInv
  <2> QED
    BY <2>1, <2>3, CacheStays
<1> QED
  BY <1>1, <1>2, <1>3

\* Entries that are free are as new.
LEMMA AllFree ==
    ASSUME StorageInv, \A e \in Entries : entry[e].state = "free"
    PROVE  entry = NoEntries
<1>1. entry \in [Entries -> Entry] /\ \A e \in Entries : EntryOK(entry[e])
  BY CacheIs, CacheFields DEF StorageInv, Sane
<1>2. \A e \in Entries : entry[e] = Free
  BY <1>1 DEF EntryOK
<1> QED
  BY <1>1, <1>2 DEF NoEntries

LEMMA FlushingKeepsStorage ==
    ASSUME StorageInv, CacheInv, FlushBitMap \/ FlushBuckets
    PROVE  StorageInv'
<1>1. CASE FlushBitMap
  <2>1. /\ phase = "up" /\ phase' = "bitmap flushed" /\ UNCHANGED <<map, entry, amiss, evicting>>
        /\ amiss = {} /\ entry = NoEntries
    BY <1>1, AllFree DEF FlushBitMap, Ready
  <2>2. PICK bits : bits = IF map.mBitMapDirty THEN map.mBitMap ELSE disk.mBitMap
    OBVIOUS
  <2>3. map.mBitMap \subseteq Blocks
    BY CacheIs, CacheFields DEF StorageInv, Sane, MapRecord
  <2>4. bits \subseteq Blocks
    BY <2>2, <2>3 DEF StorageInv, FilesInv
  <2>5. disk'.mBitMap = bits /\ disk'.mIsDirty = disk.mIsDirty /\ disk'.map = disk.map
    BY <1>1, <2>2 DEF FlushBitMap, CacheInv, NoFiles
  <2>6. disk.mIsDirty
    BY <2>1 DEF CacheInv, DirtyInv, InUse
  <2>7. FilesInv'
    BY <2>4, <2>5, <2>6, DirtyFilesAre DEF StorageInv, FilesInv
  <2> QED
    BY <2>1, <2>7, CacheStays
<1>2. CASE FlushBuckets
  <2>1. /\ phase = "bitmap flushed" /\ phase' = "buckets flushed" /\ UNCHANGED <<map, entry, amiss, evicting>>
    BY <1>2 DEF FlushBuckets
  <2>2. disk'.mBitMap = disk.mBitMap /\ disk'.mIsDirty = disk.mIsDirty /\ disk'.map = "full"
    BY <1>2 DEF FlushBuckets, CacheInv, NoFiles
  <2>3. disk.mIsDirty
    BY <2>1 DEF CacheInv, DirtyInv, InUse
  <2>4. FilesInv'
    BY <2>2, <2>3, DirtyFilesAre DEF StorageInv, FilesInv, File
  <2> QED
    BY <2>1, <2>4, CacheStays
<1> QED
  BY <1>1, <1>2

\* A new map is in memory when the old one is gone.
LEMMA NewMapIsSane ==
    ASSUME map' = NewMap, entry' = NoEntries, amiss' = {}
    PROVE  Sane'
<1>1. PICK none \in SUBSET Cases : none = {}
  OBVIOUS
<1>2. PICK c : c = [map |-> NewMap, entry |-> NoEntries, amiss |-> none]
  OBVIOUS
<1>3. CacheOK(c) /\ Good(c)
  BY <1>2, NewMapFacts, NewMapOrder, NoEntriesCache
<1>4. cache' = c
  BY <1>1, <1>2 DEF cache
<1> QED
  BY <1>3, <1>4 DEF Sane

\* With the header the files are complete: they will be read as the map that was in order.
LEMMA FlushHeaderKeepsStorage ==
    ASSUME StorageInv, CacheInv, FlushHeader
    PROVE  StorageInv'
<1>1. /\ phase = "buckets flushed" /\ phase' = "down" /\ map' = NewMap
      /\ UNCHANGED <<entry, amiss, evicting>> /\ amiss = {} /\ entry = NoEntries
  BY DEF FlushHeader, StorageInv
<1>2. Sane'
  BY <1>1, NewMapIsSane
<1>3. \A field \in DOMAIN NewMap \ {"mBitMapDirty"} : ReadMap'[field] = map[field]
  BY FlushHeaderIsComplete
<1>4. DOMAIN NewMap \ {"mBitMapDirty"} =
          {"mBuckets", "mEntryCount", "mDataSize", "mEvictionRank", "mBitMap"}
  BY DEF NewMap
<1>5. PICK n : n = ReadMap'
  OBVIOUS
<1>6. SameRecords(map, n) /\ SameStorage(map, n)
  BY <1>3, <1>4, <1>5 DEF SameRecords, SameStorage
<1>7. MapOK(map) /\ map \in MapRecord /\ InOrder(map, NoEntries)
  BY <1>1, CacheIs, CacheFields DEF StorageInv, Sane, Good
<1>8. n \in MapRecord
  <2>2. disk'.map = "full"
    BY DEF FlushHeader, CacheInv, FlushedInv, NoFiles
  <2>3. n = [mBuckets |-> n.mBuckets, mEntryCount |-> n.mEntryCount, mDataSize |-> n.mDataSize,
             mEvictionRank |-> n.mEvictionRank, mBitMap |-> n.mBitMap, mBitMapDirty |-> FALSE]
    BY <1>5, <2>2 DEF ReadMap, NewMap
  <2>4. /\ n.mBuckets \in [BucketIndexes -> Seq(Record)] /\ n.mEntryCount \in Int /\ n.mDataSize \in Int
        /\ n.mEvictionRank \in [BucketIndexes -> Nat] /\ n.mBitMap \in SUBSET Blocks
    BY <1>6, <1>7 DEF SameRecords, SameStorage, MapRecord
  <2>5. PICK no \in BOOLEAN : no = FALSE
    OBVIOUS
  <2>6. PICK b, count, size, rank, bits :
            /\ b = n.mBuckets /\ count = n.mEntryCount /\ size = n.mDataSize
            /\ rank = n.mEvictionRank /\ bits = n.mBitMap
    OBVIOUS
  <2>7. n = [mBuckets |-> b, mEntryCount |-> count, mDataSize |-> size,
             mEvictionRank |-> rank, mBitMap |-> bits, mBitMapDirty |-> no]
    BY <2>3, <2>5, <2>6
  <2>8. /\ b \in [BucketIndexes -> Seq(Record)] /\ count \in Int /\ size \in Int
        /\ rank \in [BucketIndexes -> Nat] /\ bits \in SUBSET Blocks
    BY <2>4, <2>6
  <2> QED
    BY ONLY <2>7, <2>8, no \in BOOLEAN DEF MapRecord
<1>9. MapOK(n) /\ InOrder(n, NoEntries)
  BY <1>6, <1>7, <1>8, SameOrder
<1>10. disk'.map = disk.map /\ disk'.mIsDirty = FALSE /\ disk'.mBitMap = disk.mBitMap
  BY DEF FlushHeader, CacheInv, NoFiles
<1>11. FilesInv'
  BY <1>5, <1>9, <1>10 DEF StorageInv, FilesInv
<1> QED
  BY <1>1, <1>2, <1>11 DEF StorageInv

LEMMA CrashKeepsStorage ==
    ASSUME StorageInv, Crash
    PROVE  StorageInv'
<1>1. phase' = "down" /\ evicting' = Idle /\ disk' = disk
  BY DEF Crash
<1>2. map' = NewMap /\ entry' = NoEntries /\ amiss' = {}
  BY DEF Crash, Becomes, NoEntries
<1>3. Sane'
  BY <1>2, NewMapIsSane
<1>4. FilesInv'
  BY <1>1, SameFiles DEF StorageInv
<1> QED
  BY <1>1, <1>2, <1>3, <1>4, IdleIs DEF StorageInv

LEMMA InitStorageInv == Init => StorageInv
<1> SUFFICES ASSUME Init PROVE StorageInv
  OBVIOUS
<1>1. map = NewMap /\ entry = NoEntries /\ amiss = {} /\ evicting = Idle /\ phase = "down" /\ disk = NoFiles
  BY DEF Init, NoEntries
<1>2. PICK none \in SUBSET Cases : none = {}
  OBVIOUS
<1>3. PICK c : c = [map |-> NewMap, entry |-> NoEntries, amiss |-> none]
  OBVIOUS
<1>4. CacheOK(c) /\ Good(c)
  BY <1>3, NewMapFacts, NewMapOrder, NoEntriesCache
<1>5. cache = c
  BY <1>1, <1>2, <1>3 DEF cache
<1>6. Sane
  BY <1>4, <1>5 DEF Sane
<1>7. FilesInv
  BY <1>1 DEF FilesInv, NoFiles, File
<1> QED
  BY <1>1, <1>6, <1>7, IdleIs DEF StorageInv

LEMMA NextStorageInv == StorageInv /\ CacheInv /\ [Next]_vars => StorageInv'
<1> SUFFICES ASSUME StorageInv, CacheInv, [Next]_vars PROVE StorageInv'
  OBVIOUS
<1>1. CASE UNCHANGED vars
  BY <1>1, SameFiles, CacheStays DEF vars, StorageInv
<1>2. CASE Next
  BY <1>2, ClientKeepsStorage, EvictionKeepsStorage, OpenMapKeepsStorage, WipingKeepsStorage,
     FlushingKeepsStorage, FlushHeaderKeepsStorage, CrashKeepsStorage DEF Next, DeviceStep
<1> QED
  BY <1>1, <1>2

\* The cache is in order unless something went amiss, and what will be read again is.
THEOREM StorageInvHolds == Spec => []StorageInv
BY CacheInvHolds, InitStorageInv, NextStorageInv, PTL DEF Spec

-----------------------------------------------------------------------------
(* What the order of a cache says of owners and of records.                 *)

\* The owners of a map and of entries.
Alone(m, en) == {at \in Places(m) : ~BoundActive(en, RecordAt(m, at).hash)}
EntryOwners(en) == {<<e, en[e].mRecord>> : e \in {f \in Entries : en[f].bound}}
OwnersOf(m, en) == EntryOwners(en) \cup {<<at, RecordAt(m, at)>> : at \in Alone(m, en)}

\* A hash number is in one place.
LEMMA OnePlace ==
    ASSUME NEW m, MapOK(m), Shelved(m), NEW a \in Places(m), NEW b \in Places(m),
           RecordAt(m, a).hash = RecordAt(m, b).hash
    PROVE  a = b
<1>1. /\ a[1] \in BucketIndexes /\ a[2] \in Nat /\ 1 <= a[2] /\ a[2] <= Len(m.mBuckets[a[1]]) /\ a = <<a[1], a[2]>>
      /\ b[1] \in BucketIndexes /\ b[2] \in Nat /\ 1 <= b[2] /\ b[2] <= Len(m.mBuckets[b[1]]) /\ b = <<b[1], b[2]>>
  BY DiskCacheMapAssumption DEF Places
<1>2. m.mBuckets \in [BucketIndexes -> Bucket]
  BY MapFields DEF MapOK
<1>3. Len(m.mBuckets[a[1]]) \in Nat /\ Len(m.mBuckets[b[1]]) \in Nat
  BY <1>1, <1>2, BucketFacts
<1>4. a[2] \in 1..Len(m.mBuckets[a[1]]) /\ b[2] \in 1..Len(m.mBuckets[b[1]])
  BY <1>1, <1>3
<1>5. RecordAt(m, a) \in Records(m.mBuckets[a[1]]) /\ RecordAt(m, b) \in Records(m.mBuckets[b[1]])
  BY <1>4 DEF Records, RecordAt
<1>6. a[1] = b[1]
  BY <1>1, <1>5 DEF Shelved
<1>7. a[2] = b[2]
  BY <1>1, <1>4, <1>6 DEF Shelved, Distinct, RecordAt
<1> QED
  BY <1>1, <1>6, <1>7

\* And a record is found where it is.
LEMMA FoundIsPlaced ==
    ASSUME NEW m, MapOK(m), NEW k \in HashNumbers, HasRecord(m, k)
    PROVE  \E at \in Places(m) : RecordAt(m, at) = FindRecord(m, k)
<1>1. PICK p : p = Min(Positions(m, k))
  OBVIOUS
<1>2. PICK i : i = GetBucketIndex[k]
  OBVIOUS
<1>3. p \in 1..Len(m.mBuckets[i]) /\ FindRecord(m, k) = m.mBuckets[i][p]
  BY <1>1, <1>2, FoundFacts DEF BucketOf
<1>4. i \in BucketIndexes /\ Len(m.mBuckets[i]) \in Nat /\ Len(m.mBuckets[i]) <= kRecordsPerBucket
  BY <1>2, BucketOfFacts DEF BucketOf
<1>5. <<i, p>> \in Places(m)
  BY <1>3, <1>4, DiskCacheMapAssumption DEF Places
<1>6. RecordAt(m, <<i, p>>) = FindRecord(m, k)
  BY <1>3 DEF RecordAt
<1> QED
  BY <1>5, <1>6

\* An owner is an entry or a key, and owns two parts.
Owns(h, x, kind, z) ==
    /\ <<kind, z, "data">> \in Parts /\ <<kind, z, "meta">> \in Parts
    /\ h[<<kind, z, "data">>] = x[2].data /\ h[<<kind, z, "meta">>] = x[2].meta

LEMMA EntryOwns ==
    ASSUME NEW m, NEW en, NEW h, h = Holdings(m, en), NEW e \in Entries, en[e].bound,
           NEW x, x = <<e, en[e].mRecord>>
    PROVE  Owns(h, x, "entry", e)
BY HoldingsAt DEF Owns, OfEntry, Piece, Fields

LEMMA RecordOwns ==
    ASSUME NEW m, MapOK(m), NEW en, Shelved(m), NEW h, h = Holdings(m, en), NEW at \in Alone(m, en),
           NEW x, x = <<at, RecordAt(m, at)>>
    PROVE  x[2].hash \in HashNumbers /\ Owns(h, x, "record", x[2].hash)
<1>1. PICK k, r : r = RecordAt(m, at) /\ k = r.hash
  OBVIOUS
<1>2. k \in HashNumbers /\ HasRecord(m, k) /\ FindRecord(m, k) = r /\ ~BoundActive(en, k)
  BY <1>1, RecordAtFacts DEF Alone
<1>3. x[2] = r
  BY <1>1
<1> QED
  BY <1>1, <1>2, <1>3, HoldingsAt DEF Owns, OfKey, Piece, Fields

\* Different owners own different parts.
LEMMA OwnersDiffer ==
    ASSUME NEW m, MapOK(m), NEW en, Shelved(m), NEW h, h = Holdings(m, en),
           NEW x \in OwnersOf(m, en), NEW y \in OwnersOf(m, en), x # y
    PROVE  \E jx, jy, zx, zy : /\ Owns(h, x, jx, zx) /\ Owns(h, y, jy, zy)
                               /\ jx # jy \/ zx # zy
<1>1. CASE x \in EntryOwners(en) /\ y \in EntryOwners(en)
  <2>1. PICK e, f \in Entries : en[e].bound /\ en[f].bound /\ x = <<e, en[e].mRecord>> /\ y = <<f, en[f].mRecord>>
    BY <1>1 DEF EntryOwners
  <2>2. Owns(h, x, "entry", e) /\ Owns(h, y, "entry", f)
    BY <2>1, EntryOwns
  <2> QED
    BY <2>1, <2>2
<1>2. CASE x \in EntryOwners(en) /\ y \notin EntryOwners(en)
  <2>1. PICK e \in Entries : en[e].bound /\ x = <<e, en[e].mRecord>>
    BY <1>2 DEF EntryOwners
  <2>2. PICK at \in Alone(m, en) : y = <<at, RecordAt(m, at)>>
    BY <1>2 DEF OwnersOf
  <2>3. Owns(h, x, "entry", e) /\ Owns(h, y, "record", y[2].hash)
    BY <2>1, <2>2, EntryOwns, RecordOwns
  <2> QED
    BY <2>3
<1>3. CASE x \notin EntryOwners(en) /\ y \in EntryOwners(en)
  <2>1. PICK e \in Entries : en[e].bound /\ y = <<e, en[e].mRecord>>
    BY <1>3 DEF EntryOwners
  <2>2. PICK at \in Alone(m, en) : x = <<at, RecordAt(m, at)>>
    BY <1>3 DEF OwnersOf
  <2>3. Owns(h, y, "entry", e) /\ Owns(h, x, "record", x[2].hash)
    BY <2>1, <2>2, EntryOwns, RecordOwns
  <2> QED
    BY <2>3
<1>4. CASE x \notin EntryOwners(en) /\ y \notin EntryOwners(en)
  <2>1. PICK a, b \in Alone(m, en) : x = <<a, RecordAt(m, a)>> /\ y = <<b, RecordAt(m, b)>>
    BY <1>4 DEF OwnersOf
  <2>2. Owns(h, x, "record", x[2].hash) /\ Owns(h, y, "record", y[2].hash)
    BY <2>1, RecordOwns
  <2>3. x[2].hash # y[2].hash
    BY <2>1, OnePlace DEF Alone
  <2> QED
    BY <2>2, <2>3
<1> QED
  BY <1>1, <1>2, <1>3, <1>4

LEMMA OwnersInOrder ==
    ASSUME NEW m, MapOK(m), NEW en, InOrder(m, en), NEW owners, owners = OwnersOf(m, en)
    PROVE  /\ m.mBitMap = UNION {BlocksOf(x[2]) : x \in owners}
           /\ OwnedOnce(owners)
           /\ m.mDataSize = Cardinality(m.mBitMap)
<1>1. PICK h : h = Holdings(m, en)
  OBVIOUS
<1>2. /\ Shelved(m) /\ m.mDataSize = Cardinality(m.mBitMap)
      /\ m.mBitMap = UNION {h[p] : p \in Parts}
      /\ \A p, q \in Parts : p # q => h[p] \cap h[q] = {}
  BY <1>1 DEF InOrder, Booked, Allotted
<1>3. ASSUME NEW x \in owners PROVE \E j, z : Owns(h, x, j, z)
  BY <1>1, <1>2, <1>3, EntryOwns, RecordOwns DEF OwnersOf, EntryOwners
<1>4. ASSUME NEW x \in owners PROVE BlocksOf(x[2]) \subseteq m.mBitMap /\ x[2].data \cap x[2].meta = {}
  <2>1. PICK j, z : Owns(h, x, j, z)
    BY <1>3, <1>4
  <2>2. PICK p, q \in Parts : p # q /\ h[p] = x[2].data /\ h[q] = x[2].meta
    BY <2>1 DEF Owns
  <2> QED
    BY <1>2, <2>2 DEF BlocksOf
<1>5. ASSUME NEW x \in owners, NEW y \in owners, x # y PROVE BlocksOf(x[2]) \cap BlocksOf(y[2]) = {}
  <2>1. PICK jx, jy, zx, zy : /\ Owns(h, x, jx, zx) /\ Owns(h, y, jy, zy)
                              /\ jx # jy \/ zx # zy
    BY <1>1, <1>2, <1>5, OwnersDiffer
  <2>2. PICK p, q \in Parts : p = <<jx, zx, "data">> /\ q = <<jx, zx, "meta">> /\ h[p] = x[2].data /\ h[q] = x[2].meta
    BY <2>1 DEF Owns
  <2>3. PICK r, s \in Parts : r = <<jy, zy, "data">> /\ s = <<jy, zy, "meta">> /\ h[r] = y[2].data /\ h[s] = y[2].meta
    BY <2>1 DEF Owns
  <2>4. p # r /\ p # s /\ q # r /\ q # s
    BY <2>1, <2>2, <2>3
  <2>5. h[p] \cap h[r] = {} /\ h[p] \cap h[s] = {} /\ h[q] \cap h[r] = {} /\ h[q] \cap h[s] = {}
    BY <1>2, <2>4
  <2> QED
    BY <2>2, <2>3, <2>5 DEF BlocksOf
<1>6. ASSUME NEW p \in Parts PROVE h[p] \subseteq UNION {BlocksOf(x[2]) : x \in owners}
  <2>1. CASE \E e \in Entries, f \in Fields : p = <<"entry", e, f>>
    <3>1. PICK e \in Entries, f \in Fields : p = <<"entry", e, f>>
      BY <2>1
    <3>2. h[p] = OfEntry(en[e], f)
      BY <1>1, <3>1, HoldingsAt
    <3>3. CASE en[e].bound
      <4>1. PICK x : x = <<e, en[e].mRecord>>
        OBVIOUS
      <4>2. x \in owners
        BY <3>3, <4>1 DEF OwnersOf, EntryOwners
      <4>3. h[p] \subseteq BlocksOf(x[2])
        BY <3>2, <3>3, <4>1 DEF OfEntry, Piece, BlocksOf
      <4> QED
        BY <4>2, <4>3
    <3>4. CASE ~en[e].bound
      BY <3>2, <3>4 DEF OfEntry
    <3> QED
      BY <3>3, <3>4
  <2>2. CASE \E k \in HashNumbers, f \in Fields : p = <<"record", k, f>>
    <3>1. PICK k \in HashNumbers, f \in Fields : p = <<"record", k, f>>
      BY <2>2
    <3>2. h[p] = OfKey(m, en, k, f)
      BY <1>1, <3>1, HoldingsAt
    <3>3. CASE HasRecord(m, k) /\ ~BoundActive(en, k)
      <4>1. PICK at \in Places(m) : RecordAt(m, at) = FindRecord(m, k)
        BY <3>3, FoundIsPlaced
      <4>2. at \in Alone(m, en)
        BY <3>3, <4>1, FoundFacts DEF Alone
      <4>3. PICK x : x = <<at, RecordAt(m, at)>>
        OBVIOUS
      <4>4. x \in owners
        BY <4>2, <4>3 DEF OwnersOf
      <4>5. h[p] \subseteq BlocksOf(x[2])
        BY <3>2, <3>3, <4>1, <4>3 DEF OfKey, Piece, BlocksOf
      <4> QED
        BY <4>4, <4>5
    <3>4. CASE ~(HasRecord(m, k) /\ ~BoundActive(en, k))
      BY <3>2, <3>4 DEF OfKey
    <3> QED
      BY <3>3, <3>4
  <2> QED
    BY <2>1, <2>2, PartsAre
<1>7. m.mBitMap = UNION {BlocksOf(x[2]) : x \in owners}
  BY <1>2, <1>4, <1>6
<1> QED
  BY <1>2, <1>4, <1>5, <1>7 DEF OwnedOnce

LEMMA ActiveAre ==
    /\ \A k : ActiveBindings(cache, k) # {} <=> BoundActive(entry, k)
    /\ Inactive = Alone(map, entry)
    /\ Owners = OwnersOf(map, entry)
<1>1. \A k : ActiveBindings(cache, k) # {} <=> BoundActive(entry, k)
  BY ActiveBindingsAre, CacheIs
<1>2. Inactive = Alone(map, entry)
  BY <1>1 DEF Inactive, Alone
<1>3. Owners = OwnersOf(map, entry)
  BY <1>2, Zenon DEF Owners, OwnersOf, EntryOwners
<1> QED
  BY <1>1, <1>2, <1>3

\* A hash number is in one position of its bucket.
LEMMA OnePosition ==
    ASSUME NEW m, MapOK(m), Shelved(m), NEW k \in HashNumbers
    PROVE  Cardinality(Positions(m, k)) <= 1
<1>1. PICK b : b = BucketOf(m, k)
  OBVIOUS
<1>2. GetBucketIndex[k] \in BucketIndexes /\ Positions(m, k) = {p \in 1..Len(b) : b[p].hash = k}
  BY <1>1, BucketOfFacts
<1>3. Distinct(b)
  BY <1>1, <1>2 DEF Shelved, BucketOf
<1>4. \A p, q \in Positions(m, k) : p = q
  BY <1>2, <1>3 DEF Distinct
<1>5. Positions(m, k) = {} \/ \E p : Positions(m, k) = {p}
  BY <1>4
<1>6. Cardinality({}) = 0 /\ \A p : Cardinality({p}) = 1
  BY FS_EmptySet, FS_Singleton
<1> QED
  BY <1>5, <1>6

-----------------------------------------------------------------------------
(* Theorems.                                                                *)

\* Every variable has its type, whatever fails and goes amiss.
THEOREM TypesAreKept == Spec => []TypeOK
<1>1. StorageInv /\ CacheInv => TypeOK
  <2> SUFFICES ASSUME StorageInv, CacheInv PROVE TypeOK
    OBVIOUS
  <2>1. MapOK(map) /\ amiss \in SUBSET Cases /\ \A e \in Entries : entry[e] \in Entry
    BY CacheIs, CacheFields DEF StorageInv, Sane
  <2>2. MapType(map)
    BY <2>1, MapIsTyped
  <2>3. phase \in {"down", "wiping", "up", "bitmap flushed", "buckets flushed"}
    BY DEF CacheInv, DirtyInv, InUse
  <2> QED
    BY <2>1, <2>2, <2>3 DEF StorageInv, FilesInv, TypeOK, Cases
<1> QED
  BY <1>1, StorageInvHolds, CacheInvHolds, PTL

\* No block leaks and none is given away twice: after any calls, evictions and restarts, each
\* allocated block is of one entry or record.
THEOREM NoBlockIsLost == Spec => []StorageIsRight
<1>1. StorageInv => StorageIsRight
  <2> SUFFICES ASSUME StorageInv, Settled PROVE StorageIsRight
    BY DEF StorageIsRight
  <2>1. MapOK(map) /\ InOrder(map, entry)
    BY CacheIs, CacheFields DEF StorageInv, Sane, Good, Settled
  <2>2. PICK owners : owners = OwnersOf(map, entry)
    OBVIOUS
  <2>3. /\ map.mBitMap = UNION {BlocksOf(x[2]) : x \in owners}
        /\ OwnedOnce(owners)
        /\ map.mDataSize = Cardinality(map.mBitMap)
    BY <2>1, <2>2, OwnersInOrder
  <2> QED
    BY <2>2, <2>3, ActiveAre DEF StorageIsRight
<1> QED
  BY <1>1, StorageInvHolds, PTL

\* The map finds for each active entry its own record, and for all others one that can be
\* read; its header is right even when something went amiss.
THEOREM RecordsAreKept == Spec => []RecordsAreRight
<1>1. StorageInv => RecordsAreRight
  <2> SUFFICES ASSUME StorageInv PROVE RecordsAreRight
    OBVIOUS
  <2>1. MapOK(map) /\ HeaderAgrees(map) /\ \A e \in Entries : EntryOK(entry[e])
    BY CacheIs, CacheFields DEF StorageInv, Sane, MapOK
  <2>2. ASSUME Settled, NEW key \in HashNumbers
        PROVE  /\ Cardinality(Positions(map, key)) <= 1
               /\ \A e \in ActiveBindings(cache, key) :
                      /\ HasRecord(map, key)
                      /\ FindRecord(map, key).meta = entry[e].mRecord.meta
                      /\ entry[e].mBufDirty \/ FindRecord(map, key) = entry[e].mRecord
    <3>1. InOrder(map, entry)
      BY <2>2, CacheIs DEF StorageInv, Sane, Good, Settled
    <3>2. Cardinality(Positions(map, key)) <= 1
      BY <2>1, <3>1, OnePosition DEF InOrder, Booked
    <3>3. ASSUME NEW e \in ActiveBindings(cache, key)
          PROVE  /\ HasRecord(map, key)
                 /\ FindRecord(map, key).meta = entry[e].mRecord.meta
                 /\ entry[e].mBufDirty \/ FindRecord(map, key) = entry[e].mRecord
      <4>1. e \in Entries /\ entry[e].state = "active" /\ entry[e].bound /\ entry[e].key = key
        BY CacheIs DEF ActiveBindings
      <4>2. InBook(map, entry[e])
        BY <3>1, <4>1 DEF InOrder, Booked
      <4> QED
        BY <4>1, <4>2 DEF InBook
    <3> QED
      BY <3>2, <3>3
  <2>3. ASSUME Settled, NEW at \in Inactive
        PROVE  CanBeFound(map, RecordAt(map, at).hash)
    <3>1. InOrder(map, entry) /\ Shelved(map)
      BY <2>3, CacheIs DEF StorageInv, Sane, Good, Settled, InOrder, Booked
    <3>2. at \in Places(map) /\ ~BoundActive(entry, RecordAt(map, at).hash)
      BY <2>3, ActiveAre DEF Alone
    <3>3. RecordAt(map, at).hash \in HashNumbers /\ HasRecord(map, RecordAt(map, at).hash)
      BY <2>1, <3>1, <3>2, RecordAtFacts
    <3> QED
      BY <3>1, <3>2, <3>3, OthersCanBeFound
  <2> QED
    BY <2>1, <2>2, <2>3 DEF RecordsAreRight
<1> QED
  BY <1>1, StorageInvHolds, PTL

\* What is taken for a clean cache is one: its header, its records and its block file agree,
\* wherever the program ended.
THEOREM CleanFilesAreComplete == Spec => []CleanIsComplete
<1>1. StorageInv /\ CacheInv => CleanIsComplete
  <2> SUFFICES ASSUME StorageInv, CacheInv, disk.map = "full", ~disk.mIsDirty PROVE CleanIsComplete
    BY DEF CleanIsComplete
  <2>1. phase = "down"
    BY DEF CacheInv, DirtyInv, InUse
  <2>2. PICK found : found = ReadMap
    OBVIOUS
  <2>3. MapOK(found) /\ HeaderAgrees(found) /\ InOrder(found, NoEntries)
    BY <2>2 DEF StorageInv, FilesInv, MapOK
  <2>4. PICK owners : owners = OwnersOf(found, NoEntries)
    OBVIOUS
  <2>5. owners = {<<at, RecordAt(found, at)>> : at \in Places(found)}
    <3>1. EntryOwners(NoEntries) = {} /\ Alone(found, NoEntries) = Places(found)
      BY NoEntriesOwn DEF EntryOwners, Alone
    <3> QED
      BY <2>4, <3>1 DEF OwnersOf
  <2>6. /\ found.mBitMap = UNION {BlocksOf(x[2]) : x \in owners}
        /\ OwnedOnce(owners)
        /\ found.mDataSize = Cardinality(found.mBitMap)
    BY <2>3, <2>4, OwnersInOrder
  <2> QED
    BY <2>1, <2>2, <2>3, <2>5, <2>6 DEF CleanIsComplete
<1> QED
  BY <1>1, StorageInvHolds, CacheInvHolds, PTL
==============================================================================
