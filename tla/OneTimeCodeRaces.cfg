SPECIFICATION Spec
CONSTANTS
    Keys = {k1}
    RowIds = {i1, i2}
    Requests = {r1, r2}
    MaxAttempts = 2
    Lifetime = 1
    Horizon = 2
SYMMETRY Symmetry
INVARIANTS
    TypeOK
    PassCeiling
    GuessCeiling
PROPERTIES
    LockedOutForGood
CHECK_DEADLOCK FALSE
