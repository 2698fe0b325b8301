--------------------------- MODULE MCPriorityQueue ---------------------------
EXTENDS PriorityQueue

\* Two priorities with a clock that may or may not tick between pushes
\* give ties broken by created_at in both directions; six pushes give a
\* heap of depth three, where an item removed under one child of the root
\* is refilled from the other subtree and must be sifted up.
MCPriorities == {1, 2}
MCMaxPush == 6
=============================================================================
