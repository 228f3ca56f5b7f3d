SPECIFICATION FairSpec
CONSTANTS
    Documents = {a, b}
    Chunks = {c}
    Slots = {s1}
    None = None
    MaxRequests = 2
    MaxFaults = 1
    MaxInterruptions = 1
PROPERTIES
    WorkSettles
CHECK_DEADLOCK FALSE
