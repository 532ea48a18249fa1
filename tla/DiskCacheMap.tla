----------------------------- MODULE DiskCacheMap ------------------------------
(***************************************************************************)
(* nsDiskCacheMap and nsDiskCacheBlockFile (netwerk/cache/src): the table  *)
(* of records that says where the entries of the disk cache are stored,    *)
(* and the bit map of the blocks they are stored in.                       *)
(*                                                                         *)
(* A map object is a value and its operations are functions of it; module  *)
(* DiskCache gives it to the device and to the disk.  A record names the   *)
(* set of blocks of its data and of its meta data, {} where the location   *)
(* is not initialized.  The three block files, of 256, 1K and 4K, are one  *)
(* file here, and what is too large for them, a file of its own in the     *)
(* code, is not modelled.  mDataSize counts blocks.                        *)
(***************************************************************************)
EXTENDS Integers, Sequences, FiniteSets, SequencesExt, FiniteSetsExt

CONSTANTS
    HashNumbers,
    BucketIndexes,
    GetBucketIndex,     \* the bucket of a hash number
    kRecordsPerBucket,
    kBitMapBytes

ASSUME DiskCacheMapAssumption ==
    /\ IsFiniteSet(HashNumbers)
    /\ BucketIndexes \subseteq Nat /\ IsFiniteSet(BucketIndexes)
    /\ GetBucketIndex \in [HashNumbers -> BucketIndexes]
    /\ kRecordsPerBucket \in Nat \ {0}
    /\ kBitMapBytes \in Nat \ {0}

Blocks == 0 .. 8 * kBitMapBytes - 1

NewRecord(hash, rank) == [hash |-> hash, rank |-> rank, data |-> {}, meta |-> {}]

NewMap == [mBuckets |-> [i \in BucketIndexes |-> <<>>], mEntryCount |-> 0, mDataSize |-> 0,
           mEvictionRank |-> [i \in BucketIndexes |-> 0], mBitMap |-> {}, mBitMapDirty |-> FALSE]

-----------------------------------------------------------------------------
\* Blocks

\* A group of blocks does not span a quad boundary.
Groups(n) == {s .. s + n - 1 : s \in {b \in Blocks : (b % 4) + n <= 4}}

\* The first group of n blocks that fits, or {}.
AllocateBlocks(m, n) ==
    LET free == {g \in Groups(n) : g \cap m.mBitMap = {}}
    IN  IF free = {} THEN {} ELSE CHOOSE g \in free : \A h \in free : Min(g) <= Min(h)

WithBlocks(m, place) ==
    [m EXCEPT !.mBitMap = @ \cup place, !.mBitMapDirty = TRUE]

\* Mutant: the bit map is not marked.
DeallocateUnmarked(m, place) ==
    IF place \subseteq m.mBitMap THEN [m EXCEPT !.mBitMap = @ \ place] ELSE m

\* Fails, and changes nothing, unless all of them are allocated.
DeallocateBlocks(m, place) ==
    IF place = {} \/ ~(place \subseteq m.mBitMap) THEN m
    ELSE [m EXCEPT !.mBitMap = @ \ place, !.mBitMapDirty = TRUE]

\* The size goes down even if that fails.
DeleteStorage(m, place) == [DeallocateBlocks(m, place) EXCEPT !.mDataSize = @ - Cardinality(place)]

DeleteAllStorage(m, record) == DeleteStorage(DeleteStorage(m, record.data), record.meta)

-----------------------------------------------------------------------------
\* Records

EvictionRank(bucket) == Max({0} \cup {bucket[p].rank : p \in DOMAIN bucket})

Positions(m, hash) ==
    {p \in DOMAIN m.mBuckets[GetBucketIndex[hash]] : m.mBuckets[GetBucketIndex[hash]][p].hash = hash}

HasRecord(m, hash) == Positions(m, hash) # {}

FindRecord(m, hash) == m.mBuckets[GetBucketIndex[hash]][Min(Positions(m, hash))]

\* The record that a new one replaces in a full bucket: the first of the highest rank.
MostEvictable(bucket) ==
    CHOOSE p \in DOMAIN bucket :
        /\ bucket[p].rank = EvictionRank(bucket)
        /\ \A q \in DOMAIN bucket : q < p => bucket[q].rank < bucket[p].rank

IsFull(m, hash) == Len(m.mBuckets[GetBucketIndex[hash]]) = kRecordsPerBucket

OldRecord(m, hash) ==
    LET bucket == m.mBuckets[GetBucketIndex[hash]] IN bucket[MostEvictable(bucket)]

\* Mutant: a record is added to a full bucket.
AppendRecord(m, record) ==
    LET i == GetBucketIndex[record.hash]
    IN  [m EXCEPT !.mBuckets[i] = Append(@, record), !.mEntryCount = @ + 1,
                  !.mEvictionRank[i] = IF @ < record.rank THEN record.rank ELSE @]

AddRecord(m, record) ==
    LET i == GetBucketIndex[record.hash]
        replaced == [m.mBuckets[i] EXCEPT ![MostEvictable(m.mBuckets[i])] = record]
    IN  IF IsFull(m, record.hash)
        THEN [m EXCEPT !.mBuckets[i] = replaced, !.mEvictionRank[i] = EvictionRank(replaced)]
        ELSE [m EXCEPT !.mBuckets[i] = Append(@, record), !.mEntryCount = @ + 1,
                       !.mEvictionRank[i] = IF @ < record.rank THEN record.rank ELSE @]

\* Fails, and changes nothing, unless the map has a record of that hash number.
UpdateRecord(m, record) ==
    LET i == GetBucketIndex[record.hash]
        p == Min(Positions(m, record.hash))
        updated == [m.mBuckets[i] EXCEPT ![p] = record]
    IN  IF ~HasRecord(m, record.hash) THEN m
        ELSE [m EXCEPT !.mBuckets[i] = updated,
                       !.mEvictionRank[i] =
                           IF @ < record.rank THEN record.rank
                           ELSE IF @ = m.mBuckets[i][p].rank THEN EvictionRank(updated)
                           ELSE @]

\* A bucket without the record at p: the last one takes its place.
ShiftLast(bucket, p) == Front([bucket EXCEPT ![p] = Last(bucket)])

\* Mutant: the eviction rank of the bucket is not computed again.
DeleteUnranked(m, hash) ==
    LET i == GetBucketIndex[hash]
    IN  IF ~HasRecord(m, hash) THEN m
        ELSE [m EXCEPT !.mBuckets[i] = ShiftLast(@, Min(Positions(m, hash))), !.mEntryCount = @ - 1]

DeleteRecord(m, hash) ==
    LET i == GetBucketIndex[hash]
        p == Min(Positions(m, hash))
        shifted == ShiftLast(m.mBuckets[i], p)
    IN  IF ~HasRecord(m, hash) THEN m
        ELSE [m EXCEPT !.mBuckets[i] = shifted, !.mEntryCount = @ - 1,
                       !.mEvictionRank[i] = IF @ <= m.mBuckets[i][p].rank
                                            THEN EvictionRank(shifted) ELSE @]

\* A visitor had the record at p of bucket i deleted.  The code updates the header when it is
\* through with the bucket; the visits do not look at it.
DeleteVisited(m, i, p) ==
    LET shifted == ShiftLast(m.mBuckets[i], p)
    IN  [m EXCEPT !.mBuckets[i] = shifted, !.mEntryCount = @ - 1,
                  !.mEvictionRank[i] = EvictionRank(shifted)]

\* Where EvictRecords goes next: of the records of the highest rank in the first
\* bucket that has that rank, the last.
NextEvicted(m) ==
    LET highest == Max({m.mEvictionRank[i] : i \in BucketIndexes})
        i == Min({j \in BucketIndexes : m.mEvictionRank[j] = highest})
    IN  <<i, Max({p \in DOMAIN m.mBuckets[i] : m.mBuckets[i][p].rank >= highest})>>

IsEmpty(m) == \A i \in BucketIndexes : m.mBuckets[i] = <<>>

\* The records of all buckets, by bucket and position.
Places(m) ==
    {at \in BucketIndexes \X (1 .. kRecordsPerBucket) : at[2] <= Len(m.mBuckets[at[1]])}

RecordAt(m, at) == m.mBuckets[at[1]][at[2]]

-----------------------------------------------------------------------------
Record == [hash : HashNumbers, rank : Nat \ {0}, data : SUBSET Blocks, meta : SUBSET Blocks]

MapType(m) ==
    /\ m.mBuckets \in [BucketIndexes -> Seq(Record)]
    /\ \A i \in BucketIndexes : Len(m.mBuckets[i]) <= kRecordsPerBucket
    /\ m.mEntryCount \in Int /\ m.mDataSize \in Int
    /\ m.mEvictionRank \in [BucketIndexes -> Nat]
    /\ m.mBitMap \subseteq Blocks /\ m.mBitMapDirty \in BOOLEAN

\* The header says of the buckets what is so: the highest rank of each (asserted
\* wherever a bucket is changed) and the number of records of all of them.
HeaderAgrees(m) ==
    /\ \A i \in BucketIndexes : m.mEvictionRank[i] = EvictionRank(m.mBuckets[i])
    /\ m.mEntryCount = Cardinality(Places(m))
==============================================================================
