SPECIFICATION Spec
CONSTANTS
    None = None
    Candidates = {c1, c2}
    Compiles = {t1, t2, t3}
    Faults = {"Write", "Apply", "Persist", "Crash"}
    MaxCrashes = 1
SYMMETRY Symmetry
CHECK_DEADLOCK FALSE
INVARIANTS
    TypeOK
    DecisionHasOneOwner
    NoSecondDraft
