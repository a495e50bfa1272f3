SPECIFICATION Spec
CONSTANTS
    None = None
    Acks = {a1, a2}
    Faults = {}
    MaxSends = 2
SYMMETRY Symmetry
INVARIANTS
    TypeOK
    OneOutcome
    FilesFollowTheRow
PROPERTIES
    NothingOwedIsHidden
    NoResurrection
CHECK_DEADLOCK FALSE
