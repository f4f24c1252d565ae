CONSTANTS
    s1 = s1
    s2 = s2
    k1 = k1
    k2 = k2
    Srcs <- MCSrcs
    Keys <- MCKeys
    DatagramMax = 3
    MaxOffset = 2
    FragSizes = {1, 2}
    UnfragSizes = {1}
    IPv6HeaderSize = 0
    SourceSize = 1
    FlowSize = 1
    DefaultTimeout = 2
    DefaultPerSourceLimit = 5
    DefaultTotalLimit = 8
    Timeouts = {2}
    PerSourceLimits = {5}
    TotalLimits = {8}
    TimeWrap = 1024
    MaxTime = 3
    MaxSkew = 0
    AllocMayFail = FALSE
SPECIFICATION Spec
INVARIANT NoEmptySource
SYMMETRY Symmetry
