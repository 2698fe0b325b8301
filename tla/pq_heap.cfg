CONSTANTS
    Priorities <- MCPriorities
    MaxPush <- MCMaxPush
SPECIFICATION Spec
INVARIANT HeapOrdered
PROPERTY RefinesPriorityBag
CHECK_DEADLOCK FALSE
