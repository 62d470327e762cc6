\* A tick is five minutes, the values are those of config.py.
SPECIFICATION Spec
CONSTANTS
    Child = {c1, c2}
    SoftLimit = 6
    TaskLimit = 7
    UploadTTL = 12
    TmpTTL = 2
    TempTTL = 12
    FileTTL = 24
    JobTTL = 48
    Period = 12
    MaxDelay = 3
    MaxLoss = 1
CHECK_DEADLOCK FALSE
INVARIANTS OneRunAtATime FilesOfRunsKept HashOutlivesOutput
