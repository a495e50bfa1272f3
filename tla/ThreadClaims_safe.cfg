SPECIFICATION Spec
CONSTANTS
    None = None
    Workers = {w1, w2}
    ClaimKeys = {k1, k2}
    UpdateKeys = {u1, u2}
    Kinds = {"start", "block", "complete", "scar"}
    Faults = {}
    MaxRev = 5
    MaxTokens = 2
SYMMETRY Symmetry
CHECK_DEADLOCK FALSE
INVARIANTS
    TypeOK
    RevokedStaysRevoked
    LiveClaimCanBeUsed
    ReceiptsTellTheTruth
    JournalKeepsUp
