--------------------------- MODULE MCChunkIndexes ---------------------------
EXTENDS ChunkIndexes, TLC
CONSTANTS v1, v2

\* With ORDER 3 a B+ tree node holds at most two keys: five keys inserted
\* in increasing order split a leaf three times and then the root's
\* internal node, so the tree reaches three levels.  Five inserts leave
\* room for an overwrite or a re-insert after an erase.
MCKeys == 1..5
MCOrder == 3
MCMaxInserts == 5

\* A hash table of two slots doubles at the third and the fourth insert.
\* Keys 1, 3 and 5 collide at every capacity; key 4 hashes to the last
\* slot at every capacity, so its chain wraps round to slot 0.
MCInitialCap == 2
MCHashOf == (1 :> 0 @@ 2 :> 4 @@ 3 :> 0 @@ 4 :> 7 @@ 5 :> 8)
=============================================================================
