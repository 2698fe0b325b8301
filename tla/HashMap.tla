------------------------------ MODULE HashMap ------------------------------
(***************************************************************************)
(* HashMap<K, V> of datastructures/hash_map.h (src/priority_queue.h lines  *)
(* 118-236), the chunk store's dedup_index_: open addressing with linear   *)
(* probing over a power-of-two number of slots, each EMPTY, OCCUPIED or    *)
(* DELETED (a tombstone left by erase).  insert first doubles the table    *)
(* when size_ / capacity_ > 0.7, re-inserting every OCCUPIED entry.        *)
(*                                                                         *)
(* The table is one record hm = [buckets, states, size, cap]; slot i is    *)
(* buckets[i], 0-based as in the code.  std::hash<K> is the constant       *)
(* HashOf, chosen so that keys collide and probe chains wrap round; the    *)
(* mask & (capacity_ - 1) is % capacity_ for a power of two.  A bucket     *)
(* never written holds the default pair Blank.                             *)
(***************************************************************************)
EXTENDS Naturals, Sequences, FiniteSets

CONSTANTS
    Keys,        \* keys
    Vals,        \* values
    HashOf,      \* HashOf[k]: std::hash<K>{}(k)
    InitialCap,  \* the constructor's initial_cap (256 for dedup_index_)
    None         \* model value: the default-constructed key and value

ASSUME HashOf \in [Keys -> Nat] /\ InitialCap \in Nat \ {0}

Blank == [key |-> None, val |-> None]

VARIABLES
    hm,      \* [buckets, states, size, cap]: buckets_, states_, size_, capacity_
    call     \* the last call, [op, key], insert's value `val` and erase's return value `found`

vars == <<hm, call>>

\* next_pow2(n).
RECURSIVE Pow2From(_, _)
Pow2From(p, n) == IF p < n THEN Pow2From(2 * p, n) ELSE p

\* A table of c slots, all EMPTY.
EmptyTable(c) ==
    [buckets |-> [i \in 0..c - 1 |-> Blank], states |-> [i \in 0..c - 1 |-> "EMPTY"],
     size |-> 0, cap |-> c]

\* Mutant of LoadAbove: the table never grows.
LoadNever(st) == FALSE

\* load_factor() > 0.7.  size_ / capacity_ is exact in a double for a
\* power-of-two capacity and never equals 0.7, so this is the same test.
LoadAbove(st) == st.size * 10 > st.cap * 7

\* hash_key(key).
HashKey(st, k) == HashOf[k] % st.cap

\* Mutant of Probe: the search stops at the first tombstone.
ProbeStopAtDeleted(st, k) ==
    LET RECURSIVE loop(_, _)
        loop(i, fd) ==
            IF i = st.cap THEN (IF fd # st.cap THEN fd ELSE 0)
            ELSE LET pos == (HashKey(st, k) + i) % st.cap IN
                 IF st.states[pos] \in {"EMPTY", "DELETED"} THEN pos
                 ELSE IF st.buckets[pos].key = k THEN pos
                 ELSE loop(i + 1, fd)
    IN  loop(0, st.cap)

\* probe(key): walk the chain from hash_key; at an EMPTY slot return the
\* first tombstone seen, else that slot; the slot holding key is returned
\* as soon as it is met; after a full turn, the first tombstone or 0.
Probe(st, k) ==
    LET RECURSIVE loop(_, _)
        loop(i, fd) ==
            IF i = st.cap THEN (IF fd # st.cap THEN fd ELSE 0)
            ELSE LET pos == (HashKey(st, k) + i) % st.cap
                     fd2 == IF st.states[pos] = "DELETED" /\ fd = st.cap THEN pos ELSE fd
                 IN  IF st.states[pos] = "EMPTY" THEN (IF fd # st.cap THEN fd ELSE pos)
                     ELSE IF st.states[pos] = "OCCUPIED" /\ st.buckets[pos].key = k THEN pos
                     ELSE loop(i + 1, fd2)
    IN  loop(0, st.cap)

\* Mutant of FindIdx: a tombstone ends the search like an EMPTY slot.
FindIdxStopAtDeleted(st, k) ==
    LET RECURSIVE loop(_)
        loop(i) ==
            IF i = st.cap THEN st.cap
            ELSE LET pos == (HashKey(st, k) + i) % st.cap IN
                 IF st.states[pos] # "OCCUPIED" THEN st.cap
                 ELSE IF st.buckets[pos].key = k THEN pos
                 ELSE loop(i + 1)
    IN  loop(0)

\* find_idx(key): the slot holding key, or capacity_; an EMPTY slot ends
\* the search, a tombstone does not.
FindIdx(st, k) ==
    LET RECURSIVE loop(_)
        loop(i) ==
            IF i = st.cap THEN st.cap
            ELSE LET pos == (HashKey(st, k) + i) % st.cap IN
                 IF st.states[pos] = "EMPTY" THEN st.cap
                 ELSE IF st.states[pos] = "OCCUPIED" /\ st.buckets[pos].key = k THEN pos
                 ELSE loop(i + 1)
    IN  loop(0)

RECURSIVE HInsert(_, _, _), Rehash(_, _), Reinsert(_, _, _)

\* The entries of old from slot i on, inserted one by one into acc.
Reinsert(old, acc, i) ==
    IF i = old.cap THEN acc
    ELSE Reinsert(old, IF old.states[i] = "OCCUPIED"
                       THEN HInsert(acc, old.buckets[i].key, old.buckets[i].val)
                       ELSE acc, i + 1)

\* Mutant of Rehash: size_ is not reset before the entries are re-inserted.
RehashKeepSize(st, nc) ==
    Reinsert(st, [EmptyTable(nc) EXCEPT !.size = st.size], 0)

\* rehash(new_cap): a fresh table of new_cap slots, size_ = 0, and insert
\* of every OCCUPIED entry of the old one, in slot order.
Rehash(st, nc) == Reinsert(st, EmptyTable(nc), 0)

\* Mutant of HInsert: a present key keeps its old value.
HInsertNoOverwrite(st, k, v) ==
    LET s1  == IF LoadAbove(st) THEN Rehash(st, 2 * st.cap) ELSE st
        idx == Probe(s1, k)
    IN  IF s1.states[idx] = "OCCUPIED" /\ s1.buckets[idx].key = k THEN s1
        ELSE [s1 EXCEPT !.buckets[idx] = [key |-> k, val |-> v],
                        !.states[idx] = "OCCUPIED", !.size = @ + 1]

\* insert(key, value): rehash when over the load factor, probe, then
\* overwrite the value of a present key or fill the slot and ++size_.
HInsert(st, k, v) ==
    LET s1  == IF LoadAbove(st) THEN Rehash(st, 2 * st.cap) ELSE st
        idx == Probe(s1, k)
    IN  IF s1.states[idx] = "OCCUPIED" /\ s1.buckets[idx].key = k
        THEN [s1 EXCEPT !.buckets[idx].val = v]
        ELSE [s1 EXCEPT !.buckets[idx] = [key |-> k, val |-> v],
                        !.states[idx] = "OCCUPIED", !.size = @ + 1]

-----------------------------------------------------------------------------

\* HashMap(initial_cap).
Init ==
    /\ hm = EmptyTable(Pow2From(1, InitialCap))
    /\ call = [op |-> "none", key |-> 0]

Insert(k, v) ==
    /\ hm' = HInsert(hm, k, v)
    /\ call' = [op |-> "insert", key |-> k, val |-> v]

\* erase(key): the slot find_idx returns becomes a tombstone, --size_.
\* The code leaves the pair in the bucket; probe, find_idx, rehash and
\* for_each read the pair of OCCUPIED slots only, and insert overwrites it
\* before the slot is OCCUPIED again, so it is dead and dropped here.
Erase(k) ==
    LET idx == FindIdx(hm, k) IN
    /\ hm' = IF idx = hm.cap THEN hm
             ELSE [hm EXCEPT !.states[idx] = "DELETED", !.buckets[idx] = Blank, !.size = @ - 1]
    /\ call' = [op |-> "erase", key |-> k, found |-> idx # hm.cap]

Next == \E k \in Keys : Erase(k) \/ \E v \in Vals : Insert(k, v)

Spec == Init /\ [][Next]_vars

-----------------------------------------------------------------------------
(* Reading the table.                                                      *)

\* find(key).
Find(k) == LET idx == FindIdx(hm, k) IN IF idx = hm.cap THEN <<>> ELSE <<hm.buckets[idx].val>>

\* The OCCUPIED slots, which for_each visits in slot order.
Occupied == {i \in 0..hm.cap - 1 : hm.states[i] = "OCCUPIED"}

\* The map for_each visits: each OCCUPIED slot's key bound to its value.
Contents == [k \in {hm.buckets[i].key : i \in Occupied} |->
                hm.buckets[CHOOSE i \in Occupied : hm.buckets[i].key = k].val]

-----------------------------------------------------------------------------
(* Properties.                                                             *)

\* The table's shape: capacity_ a power of two, size_ within it, every
\* slot in one of the three states.
TypeOK ==
    /\ hm.cap \in {Pow2From(1, n) : n \in 1..hm.cap}
    /\ hm.states \in [0..hm.cap - 1 -> {"EMPTY", "OCCUPIED", "DELETED"}]
    /\ hm.buckets \in [0..hm.cap - 1 -> [key : Keys \cup {None}, val : Vals \cup {None}]]
    /\ hm.size \in 0..hm.cap

\* No key is held by two OCCUPIED slots: probe finds a present key even
\* past tombstones left earlier in its chain, and rehash re-inserts each
\* entry once.
KeysUnique ==
    \A i, j \in Occupied : i # j => hm.buckets[i].key # hm.buckets[j].key

\* find(k) sees exactly what for_each does: a key is found iff an
\* OCCUPIED slot holds it, whatever tombstones lie on its probe chain.
FindAgrees ==
    LET m == Contents IN
    \A k \in Keys : Find(k) = IF k \in DOMAIN m THEN <<m[k]>> ELSE <<>>

\* size() (the "Dedup Index" count of the statistics screen) is the number
\* of OCCUPIED slots, through rehashes and erases.
SizeAgrees == hm.size = Cardinality(Occupied)

KV == INSTANCE KVMap WITH map <- Contents, call <- call

\* The table implements a map: insert(k, v) binds k to v, erase(k) unbinds
\* exactly k and returns whether k was bound; rehash changes nothing.
RefinesKVMap == KV!Spec

=============================================================================
