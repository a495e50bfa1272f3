SPECIFICATION FairSpec
CONSTANTS
    None = None
    a1 = a1
    a2 = a2
    a3 = a3
    p1 = p1
    p2 = p2
    o1 = o1
    o2 = o2
    Actors <- TwoActors
    Pids <- MCPids
    PidOf <- TwoPidOf
    OpIds = {o1, o2}
    OpOf <- TwoOpOf
    Inodes = {1, 2}
    Markers = TRUE
    Faults = {"SlowCreator", "LongHold", "SlowReaper", "ReaperCrash", "InodeReuse", "ReadFault"}
    MaxCalls = None
    MaxInc = 1
PROPERTIES
    EveryCallReturns
