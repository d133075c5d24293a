SPECIFICATION SpecNoStarvation
CONSTANTS
    rsz = 3
    UINT = 16
    Dir = "tx"
    Lengths <- OneLength
    Foreign <- None
    Hangup = FALSE
    MaxPolls = 3
    Residue = 0
PROPERTY RefusalEnds
CHECK_DEADLOCK FALSE
