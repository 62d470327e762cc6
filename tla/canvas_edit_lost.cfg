CONSTANTS
    Threads = {t1, t2}
    Ids = {a, b, c}
    Requests <- MCRequests
    MaxPages = 2
    MaxChanges = 3
    MaxCalls = 1
    MaxRefused = 1
    Unreadable = Unreadable
    None = None
SYMMETRY IdSymmetry
SPECIFICATION Spec
INVARIANT ReplacedTextIsThere
CHECK_DEADLOCK FALSE
