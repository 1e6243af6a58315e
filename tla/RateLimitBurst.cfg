SPECIFICATION Spec
CONSTANTS
    Requests = {r1, r2}
    Keys = {k1, k2}
    RowIds = {i1, i2, i3, i4}
    MaxRequests = 2
    Window = 1
    Horizon = 3
SYMMETRY Symmetry
INVARIANT BurstCeiling
CHECK_DEADLOCK FALSE
