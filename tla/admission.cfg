SPECIFICATION Spec
CONSTANTS
    Calls = {c1, c2, c3}
    Keys = {k1, k2}
    Contents = {x, y}
    None = None
    MaxErrors = 1
    MaxCrashes = 1
SYMMETRY Symmetry
INVARIANTS
    SourceStored
    NoDuplicates
    OneEffectPerKey
    LeftoversExplained
CHECK_DEADLOCK FALSE
