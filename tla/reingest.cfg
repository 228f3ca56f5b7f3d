SPECIFICATION FairSpec
CONSTANTS
    N = 3
    MaxOutstanding = 2
    AuthModes = {"anonymous-poc", "trusted-header"}
    None = None
    MaxErrors = 2
INVARIANTS
    OutstandingBounded
    OneUnknown
PROPERTIES
    ManifestCompletes
CHECK_DEADLOCK FALSE
