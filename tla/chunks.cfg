SPECIFICATION FairSpec
CONSTANTS
    TotalPages = 7
    ChunkSize = 2
    MaxWorkers = 2
    ChunkRetry = 1
    RedisFaults = TRUE
    SoftLimits = TRUE
INVARIANTS ReadersFindTheirFiles 
PROPERTIES ActsAsSinglePass ProgressForward Returns
