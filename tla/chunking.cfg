SPECIFICATION Spec
CONSTANTS
    TargetTokens = 9
    OverlapTokens = 5
    HardMaxTokens = 11
    Special = 2
    MaxChunks = 5
    LineSet <- SmallLines
    MaxLines = 5
    MaxPages = 2
INVARIANTS
    NothingLost
    RefusedForACause
    OverlapIsFresh
    Provenance
CHECK_DEADLOCK FALSE
