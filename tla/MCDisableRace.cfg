CONSTANTS
    p1 = p1
    p2 = p2
    p3 = p3
    f1 = f1
    f2 = f2
    k1 = k1
    k2 = k2
    NULL = NULL
    Ptrs <- MCPtrs
    FPtrs <- MCFPtrs
    Keys <- MCKeys
    Addrs <- MCAddrs
    TableSizes = {1, 3}
    AllocMayFail = FALSE
    DisableRaces = TRUE
SPECIFICATION Spec
INVARIANT
    NoUseAfterFree
SYMMETRY Symmetry
CHECK_DEADLOCK FALSE
