----------------------------- MODULE PriorityBag -----------------------------
(***************************************************************************)
(* What PriorityQueue<T, Compare> (priority_queue.h) promises, with no     *)
(* heap in it: a bag of items; push adds one, remove_if takes out one     *)
(* item it holds (or nothing), pop takes out an item no other item is      *)
(* greater than under Compare and returns it.  Compare(a, b) means "a is  *)
(* below b".  out is <<x>> for the item x the last pop returned.        *)
(***************************************************************************)
EXTENDS Naturals, Sequences, Bags

CONSTANTS Items, Below(_, _)

VARIABLES bag, out

Init == bag = EmptyBag /\ out = <<>>

Push(x) == bag' = bag (+) SetToBag({x}) /\ UNCHANGED out

Take(x) ==
    /\ BagIn(x, bag)
    /\ bag' = bag (-) SetToBag({x})

\* pop(): some greatest item leaves.
PopMax ==
    \E x \in BagToSet(bag) :
        /\ \A y \in BagToSet(bag) : ~Below(x, y)
        /\ Take(x)
        /\ out' = <<x>>

\* remove_if(pred): the first item matching the predicate leaves; with no
\* match nothing changes (a stuttering step).
RemoveOne == \E x \in BagToSet(bag) : Take(x) /\ UNCHANGED out

Next ==
    \/ \E x \in Items : Push(x)
    \/ PopMax
    \/ RemoveOne

Spec == Init /\ [][Next]_<<bag, out>>
=============================================================================
