SPECIFICATION Spec
CONSTANTS
    Texts = {x, y}
    Candidates = {c1, c2}
    Threads = {t1, t2}
    MaxLearnings = 2
    MaxUndone = 1
    Gone = Gone
    None = None
SYMMETRY Symmetry
CHECK_DEADLOCK FALSE
INVARIANTS
    AnsweredIsStored
