SPECIFICATION FairSpec
CONSTANTS
    None = None
    Replans = {r1, r2, r3, r4}
    HardLinks = FALSE
    Faults = {"Crash", "ReadFault"}
INVARIANTS
    TypeOK
    ReplanIsAnnounced
PROPERTIES
    OnlyItsOwnerRemovesIt
    DrainsGoOn
