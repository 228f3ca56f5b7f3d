SPECIFICATION FairSpec
CONSTANTS
    Operations <- ThreeOperations
    Documents <- TwoDocuments
    Locks <- ReplacementAndTwo
    Slots = {s1, s2}
    None = None
    Lease = 1
    Cap = 2
    MaxFailures = 1
    MaxExits = 1
INVARIANTS
    ClaimUncontested
    ClaimsExact
PROPERTIES
    LeasesRecover
CHECK_DEADLOCK FALSE
