-------------------------------- MODULE KVMap --------------------------------
(***************************************************************************)
(* What an ordered index promises its callers: a finite map from keys to   *)
(* values.  insert(k, v) binds k to v, replacing any earlier value;        *)
(* erase(k) drops the binding of k, and does nothing when k is unbound;    *)
(* it returns whether k was bound.  `call` is the last call and its result.*)
(***************************************************************************)
EXTENDS Naturals, TLC

CONSTANTS Keys, Vals

VARIABLES
    map,    \* a function from the bound keys to their values
    call    \* the last call: [op, key], insert's `val`, erase's result `found`

\* The map with k bound to v (:> and @@ of the TLC module: the new binding
\* wins over the old one).
Bind(m, k, v) == (k :> v) @@ m

\* The map without a binding for k.
Unbind(m, k) == [x \in DOMAIN m \ {k} |-> m[x]]

Init == map = <<>> /\ call = [op |-> "none", key |-> 0]

Put(k, v) ==
    /\ call' = [op |-> "insert", key |-> k, val |-> v]
    /\ map' = Bind(map, k, v)

Drop(k) ==
    /\ call' = [op |-> "erase", key |-> k, found |-> k \in DOMAIN map]
    /\ map' = Unbind(map, k)

Next == \E k \in Keys : Drop(k) \/ \E v \in Vals : Put(k, v)

Spec == Init /\ [][Next]_<<map, call>>

=============================================================================
