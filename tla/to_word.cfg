SPECIFICATION FairSpec
CONSTANTS
    MaxPages = 5
    DoclingMaxPages = 2
    MaxOcrPages = 4
    ChunkThreshold = 2
    ChunkSize = 2
INVARIANTS
    NoSilentTruncation
    OwnPassesAreAtomic
    ScratchReleased
PROPERTIES
    SharedDocumentSavedOnce
    Returns
CHECK_DEADLOCK FALSE
