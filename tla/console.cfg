SPECIFICATION Spec
CONSTANTS
    Count = 5
    Selected = 3
    Limit = 2
    Candidates <- ThreeFiveFour
    None = None
    MaxOperations = 4
    MaxMoves = 5
INVARIANTS
    WalkExact
    EvidenceOfOneRevision
    DecisionSeesEvidence
    RetryNotSwallowed
CHECK_DEADLOCK FALSE
