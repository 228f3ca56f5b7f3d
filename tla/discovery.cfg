SPECIFICATION Spec
CONSTANTS
    Documents = {a, b}
    None = None
    Similarity <- TwoStrong
    Slots = 2
    Budget = 1
    MaxRevisions = 3
    MaxRequests = 4
SYMMETRY Symmetry
INVARIANTS
    DuplicatesMeet
    SealAccepted
    PointsMatchCatalog
    PreflightFailureRetryable
CHECK_DEADLOCK FALSE
