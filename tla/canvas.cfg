CONSTANTS
    Threads = {t1, t2}
    Ids = {a, b, c}
    Requests <- MCRequests
    MaxPages = 2
    MaxChanges = 3
    MaxCalls = 1
    MaxRefused = 1
    Unreadable = Unreadable
    None = None
SYMMETRY IdSymmetry
SPECIFICATION Spec
INVARIANTS
    TwoPagesAreSafe
    OtherPagesStay
    UploadsReleased
    CleanPagesShow
CHECK_DEADLOCK FALSE
