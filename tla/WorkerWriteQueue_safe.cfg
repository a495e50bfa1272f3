SPECIFICATION Spec
CONSTANTS
    None = None
    s1 = s1
    c1 = c1
    Calls = {s1, c1}
    Act <- StartComplete
    Gen <- FirstGeneration
    QueueMax = 2
    MaxGen = 2
    MaxTries = 2
    MaxReplans = 1
    MaxCrashes = 1
INVARIANTS
    TypeOK
    AcceptedIsKept
    AppliedOnce
PROPERTIES
    OnlyItsGeneration
    CompleteNeedsStart
