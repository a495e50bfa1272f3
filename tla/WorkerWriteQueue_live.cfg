SPECIFICATION FairSpec
CONSTANTS
    None = None
    s1 = s1
    c1 = c1
    Calls = {s1, c1}
    Act <- StartComplete
    Gen <- FirstGeneration
    QueueMax = 2
    MaxGen = 1
    MaxTries = 1
    MaxReplans = 1
    MaxCrashes = 1
PROPERTIES
    TicketsSettle
