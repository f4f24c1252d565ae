CONSTANTS
    s1 = s1
    s2 = s2
    k1 = k1
    k2 = k2
    Srcs <- MCSrcs
    Keys <- MCOneKey
    DatagramMax = 3
    MaxOffset = 2
    FragSizes = {1, 2}
    UnfragSizes = {1}
    IPv6HeaderSize = 0
    SourceSize = 1
    FlowSize = 1
    DefaultTimeout = 1
    DefaultPerSourceLimit = 5
    DefaultTotalLimit = 8
    Timeouts = {1}
    PerSourceLimits = {5}
    TotalLimits = {8}
    TimeWrap = 1024
    MaxTime = 2
    MaxSkew = 0
    AllocMayFail = FALSE
SPECIFICATION FairSpec
PROPERTY
    ExpiredFlowsReaped
    ImplementsAbstract
