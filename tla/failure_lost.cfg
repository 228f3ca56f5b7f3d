SPECIFICATION FairSpec
CONSTANTS
    Operations <- OneOperation
    Documents <- OneDocument
    Locks <- Single
    Slots = {s1, s2}
    None = None
    Lease = 2
    Cap = 3
    MaxFailures = 1
    MaxExits = 0
PROPERTIES
    AbandonedRecovered
CHECK_DEADLOCK FALSE
