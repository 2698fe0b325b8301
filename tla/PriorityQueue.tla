---------------------------- MODULE PriorityQueue ----------------------------
(***************************************************************************)
(* The binary heap PriorityQueue<T, Compare> of datastructures/            *)
(* priority_queue.h (src/priority_queue.h lines 1-105), instantiated as    *)
(* the scheduler's pq_: T is JobScheduler::JobEntry {job_id, priority,     *)
(* created_at} and Compare is JobScheduler::JobCompare.  heap_ is a        *)
(* sequence; the code's 0-based index i is the sequence position i + 1.   *)
(* Job ids are handed out in increasing order; created_at is a millisecond *)
(* clock, so two entries may carry the same created_at.                    *)
(***************************************************************************)
EXTENDS Naturals, Sequences

CONSTANTS
    Priorities,  \* JobPriority values, 0..3 (LOW .. URGENT)
    MaxPush      \* bound on the number of push calls (job ids 1..MaxPush)

ASSUME Priorities \subseteq Nat /\ MaxPush \in Nat

LOCAL SeqX == INSTANCE SequencesExt

Entries == [job_id : 1..MaxPush, priority : Priorities, created_at : 1..MaxPush]

VARIABLES
    heap,    \* PriorityQueue::heap_
    pushed,  \* push calls so far (the last job id handed out)
    now,     \* now_epoch_ms() at the last push
    out      \* <<x>> for the item x the last pop() returned, <<>> before

vars == <<heap, pushed, now, out>>

\* JobScheduler::JobCompare: a is below b -- a lower priority, or the same
\* priority and created later.
JobCompare(a, b) ==
    IF a.priority # b.priority THEN a.priority < b.priority
    ELSE a.created_at > b.created_at

At(h, i) == h[i + 1]

Swap(h, i, j) == [h EXCEPT ![i + 1] = h[j + 1], ![j + 1] = h[i + 1]]

\* PriorityQueue::sift_up(idx).
RECURSIVE SiftUp(_, _)
SiftUp(h, idx) ==
    LET parent == (idx - 1) \div 2 IN
    IF idx > 0 /\ JobCompare(At(h, parent), At(h, idx))
    THEN SiftUp(Swap(h, parent, idx), parent)
    ELSE h

\* Mutant of SiftDown: only the left child is looked at.
RECURSIVE SiftDownLeftOnly(_, _)
SiftDownLeftOnly(h, idx) ==
    LET left == 2 * idx + 1 IN
    IF left < Len(h) /\ JobCompare(At(h, idx), At(h, left))
    THEN SiftDownLeftOnly(Swap(h, idx, left), left)
    ELSE h

\* PriorityQueue::sift_down(idx): swap with the greater child while it is
\* greater.
RECURSIVE SiftDown(_, _)
SiftDown(h, idx) ==
    LET n     == Len(h)
        left  == 2 * idx + 1
        right == 2 * idx + 2
        b1    == IF left < n /\ JobCompare(At(h, idx), At(h, left)) THEN left ELSE idx
        best  == IF right < n /\ JobCompare(At(h, b1), At(h, right)) THEN right ELSE b1
    IN  IF best = idx THEN h ELSE SiftDown(Swap(h, idx, best), best)

\* heap_[i] = heap_.back(); heap_.pop_back(): the item at i is replaced by
\* the last one.
Overwrite(h, i) == SubSeq([h EXCEPT ![i + 1] = h[Len(h)]], 1, Len(h) - 1)

-----------------------------------------------------------------------------

Init ==
    /\ heap = <<>>
    /\ pushed = 0
    /\ now = 1
    /\ out = <<>>

\* JobScheduler::submit_job: pq_.push({job_id, priority, now_epoch_ms()}).
\* The clock does not go back, and may not move between two pushes.  Only
\* the order of created_at values is ever compared, so a tick of one
\* stands for any advance.
Push(p, t) ==
    /\ pushed < MaxPush
    /\ t \in {now, now + 1}
    /\ now' = t
    /\ heap' = SiftUp(Append(heap, [job_id |-> pushed + 1, priority |-> p, created_at |-> t]),
                      Len(heap))
    /\ pushed' = pushed + 1
    /\ UNCHANGED out

\* PriorityQueue::pop().
Pop ==
    /\ heap # <<>>
    /\ out' = <<heap[1]>>
    /\ heap' = IF Len(heap) = 1 THEN <<>> ELSE SiftDown(Overwrite(heap, 0), 0)
    /\ UNCHANGED <<pushed, now>>

\* Mutant of RemoveIf: no sift_up after the sift_down.
RemoveIfNoSiftUp(id) ==
    \E i \in 0..Len(heap) - 1 :
        /\ At(heap, i).job_id = id
        /\ \A k \in 0..i - 1 : At(heap, k).job_id # id
        /\ heap' = IF i < Len(heap) - 1 THEN SiftDown(Overwrite(heap, i), i)
                   ELSE Overwrite(heap, i)
        /\ UNCHANGED <<pushed, now, out>>

\* PriorityQueue::remove_if(e.job_id == id), as mark_completed and
\* mark_failed call it: the first match is replaced by the last item, then
\* sift_down and sift_up at its index unless it was the last.
RemoveIf(id) ==
    \E i \in 0..Len(heap) - 1 :
        /\ At(heap, i).job_id = id
        /\ \A k \in 0..i - 1 : At(heap, k).job_id # id
        /\ heap' = IF i < Len(heap) - 1 THEN SiftUp(SiftDown(Overwrite(heap, i), i), i)
                   ELSE Overwrite(heap, i)
        /\ UNCHANGED <<pushed, now, out>>

Next ==
    \/ \E p \in Priorities, t \in 1..MaxPush : Push(p, t)
    \/ Pop
    \/ \E id \in 1..MaxPush : RemoveIf(id)

Spec == Init /\ [][Next]_vars

-----------------------------------------------------------------------------
(* Properties.                                                             *)

\* The heap property the code relies on for top() and pop(): no item is
\* below one of its children, after any sequence of pushes, pops and
\* removals from the middle of the heap.
HeapOrdered ==
    \A i \in 1..Len(heap) - 1 : ~JobCompare(At(heap, (i - 1) \div 2), At(heap, i))

Abstract == INSTANCE PriorityBag WITH
    Items <- Entries, Below <- JobCompare, bag <- SeqX!ToBag(heap), out <- out

\* The heap implements the priority bag: push adds exactly the item, pop
\* takes out and returns a greatest item, remove_if takes out exactly one
\* item.
RefinesPriorityBag == Abstract!Spec

=============================================================================
