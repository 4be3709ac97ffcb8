SPECIFICATION Spec
CONSTANTS
    MaxDefects = 2
    MaxLines = 4
    DoubleTiers = 2
    Pages <- MCPages
    Adverts <- MCAdverts
    Files <- MCFiles
    Widths <- MCWidths
INVARIANTS
    PrizePageRead
    DrawsFileRead
CHECK_DEADLOCK FALSE
