SPECIFICATION Spec
CONSTANTS
    Documents = {a}
    Chunks = {c1, c2}
    Slots = {s1, s2}
    None = None
    MaxRequests = 3
    MaxFaults = 2
    MaxInterruptions = 2
SYMMETRY Symmetry
INVARIANTS
    ReadyExact
    ProofsHold
    TerminalPurged
    RetryAccepted
    ChecksPass
    SlotsDisjoint
    RejectionReasonKept
PROPERTIES
    CheckpointsPermanent
CHECK_DEADLOCK FALSE
