SPECIFICATION Spec
CONSTANTS
    Requests = {r1, r2, r3, r4}
    Limit = 2
    Window = 3
    Margin = 1
    Lag = 1
    MaxTime = 6
    RedisFaults = TRUE
SYMMETRY RequestSymmetry
CHECK_DEADLOCK FALSE
INVARIANTS PassedBounded RefusedOnlyWhenBusy
