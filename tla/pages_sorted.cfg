SPECIFICATION Spec
CONSTANTS
    Calls <- MCReorders
    Formats <- MCFormats
    StreamAbove = 2
    MaxBytes = 10
    MaxOps = 6
    MaxPassword = 127
    MaxSide = 100
    MinCrop = 8
    MaxPages = 5
    BatchSize = 2
    MaxParagraphs = 2
    MaxTables = 2
    RowLimit = 2
    ColLimit = 3
    MaxSlides = 2
    SlideRows = 2
    MaxKey = 128
    MaxLoadBytes = 5
    MaxLoadPages = 3
    MaxHtml = 5
INVARIANTS
    PromisesAreKept
CHECK_DEADLOCK FALSE
