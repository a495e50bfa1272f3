SPECIFICATION Spec
CONSTANTS
    Texts = {x, y}
    Candidates = {c1}
    Threads = {t1}
    MaxLearnings = 3
    MaxUndone = 1
    Gone = Gone
    None = None
SYMMETRY Symmetry
CHECK_DEADLOCK FALSE
INVARIANTS
    TypeOK
    AnsweredIsKept
    AcceptedHasOneLearning
PROPERTIES
    SearchFollowsLearnings
    DuplicateHasReplacement
