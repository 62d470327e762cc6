SPECIFICATION Spec
CONSTANTS
    MaxPages = 5
    DoclingMaxPages = 2
    MaxOcrPages = 4
    ChunkThreshold = 2
    ChunkSize = 2
INVARIANT NothingIsLostSilently
CHECK_DEADLOCK FALSE
