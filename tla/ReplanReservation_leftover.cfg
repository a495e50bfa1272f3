SPECIFICATION Spec
CONSTANTS
    None = None
    Replans = {r1, r2, r3}
    HardLinks = TRUE
    Faults = {"Crash"}
INVARIANTS
    RunningReplanIsAnnounced
