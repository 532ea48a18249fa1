------------------------------ MODULE MCDiskCache ------------------------------
\* One bucket for all keys, so that it gets full; eight blocks in two quads.
EXTENDS DiskCache, TLC

OneBucket == {0}
AllInOne == [key \in HashNumbers |-> 0]
OneClientPerKey == {{key} : key \in HashNumbers}
Alike == Permutations(HashNumbers) \cup Permutations(Entries)

\* Once the bit map is dirty, the one on disk will be written over or removed: it is no
\* matter what blocks it names, only whether it is there.
OldBitMap == IF map.mBitMapDirty /\ disk.mBitMap # {} THEN Blocks ELSE disk.mBitMap
WhatMatters == <<map, entry, evicting, phase, amiss, [disk EXCEPT !.mBitMap = OldBitMap]>>
==============================================================================
