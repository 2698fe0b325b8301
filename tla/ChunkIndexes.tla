---------------------------- MODULE ChunkIndexes ----------------------------
(***************************************************************************)
(* The two in-memory indexes of ChunkStore (src/chunk_store.h lines        *)
(* 236-237): chunk_index_, a BPlusTree from chunk hash to storage path,    *)
(* and dedup_index_, a HashMap from chunk hash to true.  store_file puts   *)
(* every newly written chunk into both, one after the other (lines         *)
(* 129-132), and restore_file looks a hash up in chunk_index_ first (line  *)
(* 164); the statistics screen shows both sizes.                           *)
(*                                                                         *)
(* Both containers are checked here against their whole public API:        *)
(* each step makes the same call, insert(k, v) or erase(k), on both.  The  *)
(* containers share no state, so the states each one reaches are exactly   *)
(* those it reaches on its own under every sequence of calls, and each is  *)
(* checked to implement the same abstract map, KVMap.                      *)
(***************************************************************************)
EXTENDS Naturals

CONSTANTS Keys, Vals, Order, MaxInserts, HashOf, InitialCap, None

VARIABLES tree, root, size, inserts, treeCall, hm, hmCall

BT == INSTANCE BPlusTree WITH call <- treeCall
HM == INSTANCE HashMap WITH call <- hmCall

vars == <<tree, root, size, inserts, treeCall, hm, hmCall>>

Init == BT!Init /\ HM!Init

\* store_file's insertion of a new chunk into both indexes.
InsertBoth(k, v) == BT!Insert(k, v) /\ HM!Insert(k, v)

EraseBoth(k) == BT!Erase(k) /\ HM!Erase(k)

Next == \E k \in Keys : EraseBoth(k) \/ \E v \in Vals : InsertBoth(k, v)

Spec == Init /\ [][Next]_vars

-----------------------------------------------------------------------------
(* Properties: those of each container.                                   *)

\* Every B+ tree node within MAX_KEYS keys, pointers to nodes.
TreeTypeOK == BT!TypeOK

\* B+ tree find agrees with the leaf chain, through splits, root growth,
\* stale separators and empty leaves.
TreeFindAgrees == BT!FindAgrees

\* B+ tree range(lo, hi) returns every binding in [lo, hi] once, in order.
TreeRangeAgrees == BT!RangeAgrees

\* B+ tree size() equals the number of entries for_each visits.
TreeSizeAgrees == BT!SizeAgrees

\* The B+ tree implements KVMap.
TreeRefinesKVMap == BT!RefinesKVMap

\* The hash table's capacity is a power of two and size_ fits in it.
TableTypeOK == HM!TypeOK

\* No key is held by two OCCUPIED slots of the hash table.
TableKeysUnique == HM!KeysUnique

\* Hash table find agrees with for_each, past tombstones.
TableFindAgrees == HM!FindAgrees

\* Hash table size() is the number of OCCUPIED slots, through rehashes.
TableSizeAgrees == HM!SizeAgrees

\* The hash table implements KVMap.
TableRefinesKVMap == HM!RefinesKVMap

=============================================================================
