SPECIFICATION Spec
CONSTANTS
    Documents = {a, b}
    None = None
    Similarity <- OneStrong
    Slots = 2
    Budget = 1
    MaxRevisions = 1
    MaxRequests = 0
SYMMETRY Symmetry
INVARIANTS
    DuplicatesMeet
CHECK_DEADLOCK FALSE
