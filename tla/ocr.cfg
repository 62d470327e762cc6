CONSTANTS
    MaxTotal = 5
    MaxOcrPages = 4
    Workers = 2
    ChunkSize = 2
SPECIFICATION FairSpec
INVARIANTS
    EveryPageGetsItsOwnText
    OneChunkInFlight
    RasterOpenWhileRead
    NoThreadOutlivesCall
PROPERTIES
    Returns
CHECK_DEADLOCK FALSE
