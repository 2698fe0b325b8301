----------------------------- MODULE BPlusTree -----------------------------
(***************************************************************************)
(* BPlusTree<K, V, ORDER> of datastructures/bplus_tree.h                   *)
(* (src/restore_engine.h lines 165-377), the chunk store's chunk_index_    *)
(* from chunk hash to storage path.  Leaves hold sorted keys and values    *)
(* and are chained through `next` for scans; internal nodes hold           *)
(* separator keys and children.  insert splits an overfull node and        *)
(* pushes the split key up, growing a new root when the root splits.       *)
(* erase removes the key from its leaf and never merges or rebalances.     *)
(*                                                                         *)
(* The nodes are the sequence `tree`: a node's position is its address,    *)
(* make_unique appends, and 0 is nullptr.  Every node is the record        *)
(* [leaf, keys, vals, kids, next]; a leaf has no kids, an internal node    *)
(* no vals and next = 0.  The code's 0-based positions i are i + 1 here.   *)
(* Keys are naturals (std::string's operator< only orders them); ORDER is  *)
(* small so that the tree splits at every level with a handful of keys.    *)
(***************************************************************************)
EXTENDS Naturals, Sequences, FiniteSets, TLC

CONSTANTS
    Keys,        \* keys, a finite set of naturals
    Vals,        \* values
    Order,       \* the ORDER template argument (64 for chunk_index_)
    MaxInserts   \* bound on insert calls (each may allocate nodes)

ASSUME Keys \subseteq Nat /\ Order \in Nat /\ Order >= 3 /\ MaxInserts \in Nat

LOCAL SeqX == INSTANCE SequencesExt

MaxKeys == Order - 1

VARIABLES
    tree,      \* the nodes, by address
    root,      \* root_
    size,      \* size_
    inserts,   \* insert calls so far
    call       \* the last call, [op, key], insert's value `val` and erase's return value `found`

vars == <<tree, root, size, inserts, call>>

\* struct LeafNode and struct InternalNode.
Leaf(ks, vs, nxt) == [leaf |-> TRUE, keys |-> ks, vals |-> vs, kids |-> <<>>, next |-> nxt]
Internal(ks, cs) == [leaf |-> FALSE, keys |-> ks, vals |-> <<>>, kids |-> cs, next |-> 0]

-----------------------------------------------------------------------------
(* Searching inside a node.                                                *)

\* Mutant of UpperBoundIdx: a key equal to keys[mid] goes left.
RECURSIVE UpperBoundLt(_, _, _, _)
UpperBoundLt(ks, k, lo, hi) ==
    IF lo < hi
    THEN LET mid == (lo + hi) \div 2 IN
         IF ks[mid + 1] < k THEN UpperBoundLt(ks, k, mid + 1, hi)
         ELSE UpperBoundLt(ks, k, lo, mid)
    ELSE lo

\* upper_bound_idx(keys, key): the binary search for the first position
\* whose key is greater than key.
RECURSIVE UpperBound(_, _, _, _)
UpperBound(ks, k, lo, hi) ==
    IF lo < hi
    THEN LET mid == (lo + hi) \div 2 IN
         IF ks[mid + 1] <= k THEN UpperBound(ks, k, mid + 1, hi)
         ELSE UpperBound(ks, k, lo, mid)
    ELSE lo

UpperBoundIdx(ks, k) == UpperBound(ks, k, 0, Len(ks))

\* std::lower_bound over the sorted keys of a leaf: the number of keys
\* less than k.
LowerBound(ks, k) == Cardinality({i \in 1..Len(ks) : ks[i] < k})

\* The descent of find, range and erase: at every internal node take the
\* child upper_bound_idx points at, down to a leaf.
RECURSIVE FindLeaf(_, _, _)
FindLeaf(t, n, k) ==
    IF t[n].leaf THEN n ELSE FindLeaf(t, t[n].kids[UpperBoundIdx(t[n].keys, k) + 1], k)

-----------------------------------------------------------------------------
(* insert.  insert_internal returns the tree it leaves, the split it        *)
(* passes up (<<>> for std::nullopt, else <<[key, node]>>), and whether the *)
(* key was already there (the --size_ that the caller's ++size_ undoes).   *)

\* split_leaf: the upper half moves to a new leaf appended to the tree and
\* linked in after the old one; its first key goes up.
SplitLeaf(t, n, nd) ==
    LET mid == Len(nd.keys) \div 2
        m   == Len(t) + 1
        new == Leaf(SubSeq(nd.keys, mid + 1, Len(nd.keys)),
                    SubSeq(nd.vals, mid + 1, Len(nd.vals)), nd.next)
        old == Leaf(SubSeq(nd.keys, 1, mid), SubSeq(nd.vals, 1, mid), m)
    IN  [t |-> Append([t EXCEPT ![n] = old], new),
         split |-> <<[key |-> new.keys[1], node |-> m]>>, existed |-> FALSE]

\* split_internal: keys[mid] goes up, the keys and children right of it
\* move to a new internal node.
SplitInternal(t, n, nd) ==
    LET mid == Len(nd.keys) \div 2
        m   == Len(t) + 1
        new == Internal(SubSeq(nd.keys, mid + 2, Len(nd.keys)),
                        SubSeq(nd.kids, mid + 2, Len(nd.kids)))
        old == Internal(SubSeq(nd.keys, 1, mid), SubSeq(nd.kids, 1, mid + 1))
    IN  [t |-> Append([t EXCEPT ![n] = old], new),
         split |-> <<[key |-> nd.keys[mid + 1], node |-> m]>>, existed |-> FALSE]

\* The leaf case of insert_internal: overwrite the value of a present key,
\* else insert at the lower bound and split when over MAX_KEYS.
InsertLeaf(t, n, k, v) ==
    LET nd  == t[n]
        pos == LowerBound(nd.keys, k)
        nd2 == [nd EXCEPT !.keys = SeqX!InsertAt(@, pos + 1, k),
                          !.vals = SeqX!InsertAt(@, pos + 1, v)]
    IN  IF pos < Len(nd.keys) /\ nd.keys[pos + 1] = k
        THEN [t |-> [t EXCEPT ![n].vals[pos + 1] = v], split |-> <<>>, existed |-> TRUE]
        ELSE IF Len(nd2.keys) > MaxKeys THEN SplitLeaf(t, n, nd2)
        ELSE [t |-> [t EXCEPT ![n] = nd2], split |-> <<>>, existed |-> FALSE]

\* The internal case, given what the child returned: take in the child's
\* split key at idx and the new child right of it, and split when over
\* MAX_KEYS.
AbsorbSplit(r, n, idx) ==
    LET nd2 == [r.t[n] EXCEPT !.keys = SeqX!InsertAt(@, idx + 1, r.split[1].key),
                              !.kids = SeqX!InsertAt(@, idx + 2, r.split[1].node)]
    IN  IF Len(nd2.keys) > MaxKeys THEN SplitInternal(r.t, n, nd2)
        ELSE [r EXCEPT !.t = [r.t EXCEPT ![n] = nd2], !.split = <<>>]

\* Mutant of InsertRec: an overfull internal node is not split.
RECURSIVE InsertRecNoSplitInternal(_, _, _, _)
InsertRecNoSplitInternal(t, n, k, v) ==
    IF t[n].leaf THEN InsertLeaf(t, n, k, v)
    ELSE LET idx == UpperBoundIdx(t[n].keys, k)
             r   == InsertRecNoSplitInternal(t, t[n].kids[idx + 1], k, v)
         IN  IF r.split = <<>> THEN r
             ELSE [r EXCEPT !.t = [r.t EXCEPT ![n].keys = SeqX!InsertAt(@, idx + 1, r.split[1].key),
                                              ![n].kids = SeqX!InsertAt(@, idx + 2, r.split[1].node)],
                            !.split = <<>>]

\* insert_internal(node, key, value).
RECURSIVE InsertRec(_, _, _, _)
InsertRec(t, n, k, v) ==
    IF t[n].leaf THEN InsertLeaf(t, n, k, v)
    ELSE LET idx == UpperBoundIdx(t[n].keys, k)
             r   == InsertRec(t, t[n].kids[idx + 1], k, v)
         IN  IF r.split = <<>> THEN r ELSE AbsorbSplit(r, n, idx)

-----------------------------------------------------------------------------
(* erase.                                                                  *)

\* Mutant of EraseRec: the key found at the lower bound is not compared
\* with the one asked for.
RECURSIVE EraseRecNoMatch(_, _, _)
EraseRecNoMatch(t, n, k) ==
    IF t[n].leaf
    THEN LET pos == LowerBound(t[n].keys, k) IN
         IF pos = Len(t[n].keys) THEN [t |-> t, found |-> FALSE]
         ELSE [t |-> [t EXCEPT ![n].keys = SeqX!RemoveAt(@, pos + 1),
                               ![n].vals = SeqX!RemoveAt(@, pos + 1)], found |-> TRUE]
    ELSE EraseRecNoMatch(t, t[n].kids[UpperBoundIdx(t[n].keys, k) + 1], k)

\* erase_internal(node, key): descend as find does; in the leaf remove the
\* key and its value if present.
RECURSIVE EraseRec(_, _, _)
EraseRec(t, n, k) ==
    IF t[n].leaf
    THEN LET pos == LowerBound(t[n].keys, k) IN
         IF pos = Len(t[n].keys) \/ t[n].keys[pos + 1] # k THEN [t |-> t, found |-> FALSE]
         ELSE [t |-> [t EXCEPT ![n].keys = SeqX!RemoveAt(@, pos + 1),
                               ![n].vals = SeqX!RemoveAt(@, pos + 1)], found |-> TRUE]
    ELSE EraseRec(t, t[n].kids[UpperBoundIdx(t[n].keys, k) + 1], k)

-----------------------------------------------------------------------------
(* Reading the tree.                                                       *)

\* find(key): the value in the leaf the descent reaches, <<>> for nullopt.
Find(k) ==
    LET lf == tree[FindLeaf(tree, root, k)]
        at == {i \in 1..Len(lf.keys) : lf.keys[i] = k}
    IN  IF at = {} THEN <<>> ELSE <<lf.vals[CHOOSE i \in at : \A x \in at : i <= x]>>

\* The key-value pairs of the leaves from n on along the `next` chain, in
\* chain order (at most `fuel` leaves, the number of nodes, so that a
\* broken chain cannot make it loop).
RECURSIVE PairsFrom(_, _, _)
PairsFrom(t, n, fuel) ==
    IF n = 0 \/ fuel = 0 THEN <<>>
    ELSE [i \in 1..Len(t[n].keys) |-> [key |-> t[n].keys[i], val |-> t[n].vals[i]]]
         \o PairsFrom(t, t[n].next, fuel - 1)

\* The leftmost leaf: children[0] down from the root.
RECURSIVE Leftmost(_, _)
Leftmost(t, n) == IF t[n].leaf THEN n ELSE Leftmost(t, t[n].kids[1])

\* for_each(fn): every pair, leaf by leaf from the leftmost one.
ForEachOf(t, r) == PairsFrom(t, Leftmost(t, r), Len(t))

ForEach == ForEachOf(tree, root)

\* Mutant of Range: keys below lo in the first leaf are not skipped.
RangeNoLow(lo, hi) ==
    LET RECURSIVE scan(_)
        scan(ps) == IF ps = <<>> \/ Head(ps).key > hi THEN <<>>
                    ELSE <<Head(ps)>> \o scan(Tail(ps))
    IN  scan(PairsFrom(tree, FindLeaf(tree, root, lo), Len(tree)))

\* range(lo, hi): from the leaf the descent for lo reaches, walk the chain,
\* stop at the first key above hi, keep the keys from lo on.
Range(lo, hi) ==
    LET RECURSIVE scan(_)
        scan(ps) == IF ps = <<>> \/ Head(ps).key > hi THEN <<>>
                    ELSE (IF Head(ps).key >= lo THEN <<Head(ps)>> ELSE <<>>) \o scan(Tail(ps))
    IN  scan(PairsFrom(tree, FindLeaf(tree, root, lo), Len(tree)))

-----------------------------------------------------------------------------
(* The tree as its owner uses it.                                          *)

\* BPlusTree(): one empty leaf.
Init ==
    /\ tree = <<Leaf(<<>>, <<>>, 0)>>
    /\ root = 1
    /\ size = 0
    /\ inserts = 0
    /\ call = [op |-> "none", key |-> 0]

\* Mutant of Insert: size_ counts an overwrite of a present key as well.
InsertCountsAll(k, v) ==
    LET r == InsertRec(tree, root, k, v) IN
    /\ inserts < MaxInserts
    /\ IF r.split = <<>>
          THEN /\ tree' = r.t /\ UNCHANGED root
          ELSE /\ tree' = Append(r.t, Internal(<<r.split[1].key>>, <<root, r.split[1].node>>))
               /\ root' = Len(r.t) + 1
    /\ size' = size + 1
    /\ inserts' = inserts + 1
    /\ call' = [op |-> "insert", key |-> k, val |-> v]

\* insert(key, value): insert_internal from the root; a split of the root
\* makes a new root over the old one and the split-off node; ++size_.
Insert(k, v) ==
    LET r == InsertRec(tree, root, k, v) IN
    /\ inserts < MaxInserts
    /\ IF r.split = <<>>
          THEN /\ tree' = r.t /\ UNCHANGED root
          ELSE /\ tree' = Append(r.t, Internal(<<r.split[1].key>>, <<root, r.split[1].node>>))
               /\ root' = Len(r.t) + 1
    /\ size' = IF r.existed THEN size ELSE size + 1
    /\ inserts' = inserts + 1
    /\ call' = [op |-> "insert", key |-> k, val |-> v]

\* erase(key): erase_internal from the root, --size_ if found, and an
\* internal root left with one child is replaced by that child.
Erase(k) ==
    LET r == EraseRec(tree, root, k) IN
    /\ tree' = r.t
    /\ size' = IF r.found THEN size - 1 ELSE size
    /\ root' = IF ~r.t[root].leaf /\ Len(r.t[root].kids) = 1 THEN r.t[root].kids[1] ELSE root
    /\ UNCHANGED inserts
    /\ call' = [op |-> "erase", key |-> k, found |-> r.found]

Next == \E k \in Keys : Erase(k) \/ \E v \in Vals : Insert(k, v)

Spec == Init /\ [][Next]_vars

-----------------------------------------------------------------------------
(* Properties.                                                             *)

Nodes == [leaf : BOOLEAN, keys : Seq(Keys), vals : Seq(Vals), kids : Seq(Nat), next : Nat]

\* Every node stays within MAX_KEYS keys, every child and next pointer is
\* the address of a node, and size_ is a count.
TypeOK ==
    /\ tree \in Seq(Nodes)
    /\ root \in 1..Len(tree)
    /\ size \in Nat
    /\ \A n \in 1..Len(tree) :
          /\ Len(tree[n].keys) <= MaxKeys
          /\ \A i \in 1..Len(tree[n].kids) : tree[n].kids[i] \in 1..Len(tree)
          /\ tree[n].next \in 0..Len(tree)

\* The map the leaf chain holds: each key for_each visits, bound to the
\* value of a visit of it.
ContentsOf(ps) ==
    [k \in {ps[i].key : i \in DOMAIN ps} |-> ps[CHOOSE i \in DOMAIN ps : ps[i].key = k].val]

Contents == ContentsOf(ForEach)

\* The pairs of the map m with keys in lo..hi, in increasing key order.
Expected(m, lo, hi) ==
    LET ks == SeqX!SetToSortSeq({k \in DOMAIN m : lo <= k /\ k <= hi}, <)
    IN  [i \in 1..Len(ks) |-> [key |-> ks[i], val |-> m[ks[i]]]]

\* find(k), which descends through separator keys, finds exactly the
\* bindings the leaf chain holds, after any sequence of inserts (with leaf
\* and internal splits and root growth), overwrites and erases (which
\* leave stale separators and empty leaves behind).
FindAgrees ==
    LET m == Contents IN
    \A k \in Keys : Find(k) = IF k \in DOMAIN m THEN <<m[k]>> ELSE <<>>

\* range(lo, hi), which starts at the leaf the descent for lo reaches and
\* walks the chain, returns every binding in [lo, hi] once, in key order:
\* the chain is sorted and starts no later than lo's leaf.
RangeAgrees ==
    LET m == Contents IN
    \A lo, hi \in Keys : lo <= hi => Range(lo, hi) = Expected(m, lo, hi)

\* size() (the "Chunk Index" count of the statistics screen) equals the
\* number of entries for_each visits.
SizeAgrees == size = Len(ForEach)

KV == INSTANCE KVMap WITH map <- Contents, call <- call

\* The tree implements a map: insert(k, v) binds k to v, erase(k) unbinds
\* exactly k and returns whether k was bound, and nothing else changes
\* which keys are bound to what.
RefinesKVMap == KV!Spec

=============================================================================
