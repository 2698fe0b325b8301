CONSTANTS
    v1 = v1
    v2 = v2
    None = None
    Keys <- MCKeys
    Vals = {v1, v2}
    Order <- MCOrder
    MaxInserts <- MCMaxInserts
    HashOf <- MCHashOf
    InitialCap <- MCInitialCap
SPECIFICATION Spec
INVARIANT TreeTypeOK
INVARIANT TreeFindAgrees
INVARIANT TreeRangeAgrees
INVARIANT TreeSizeAgrees
INVARIANT TableTypeOK
INVARIANT TableKeysUnique
INVARIANT TableFindAgrees
INVARIANT TableSizeAgrees
PROPERTY TreeRefinesKVMap
PROPERTY TableRefinesKVMap
CHECK_DEADLOCK FALSE
