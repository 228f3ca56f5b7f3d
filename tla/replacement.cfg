SPECIFICATION Spec
CONSTANTS
    Documents = {a, b}
    Chunks = {c}
    Slots = {s1, s2}
    None = None
    MaxRequests = 4
    MaxFaults = 1
    MaxInterruptions = 0
SYMMETRY Symmetry
INVARIANTS
    TypeOK
    OneOpenOperation
    WorkIsOwned
    NoReplacementOverlap
    NewestRevisionPublished
PROPERTIES
    ContractRespected
CHECK_DEADLOCK FALSE
