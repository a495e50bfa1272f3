SPECIFICATION FairSpec
CONSTANTS
    None = None
    a1 = a1
    a2 = a2
    a3 = a3
    p1 = p1
    p2 = p2
    o1 = o1
    o2 = o2
    Actors <- MCActors
    Pids <- MCPids
    PidOf <- MCPidOf
    OpIds = {o1, o2}
    OpOf <- MCOpOf
    Inodes = {1, 2, 3}
    Markers = TRUE
    Faults = {}
    MaxCalls = 3
    MaxInc = 1
INVARIANTS
    TypeOK
    MutualExclusion
    HolderKeepsItsLock
PROPERTIES
    RemovesOnlyItsOwn
    DeadOwnerIsRecovered
    ImplementsPlanLock
