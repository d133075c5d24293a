SPECIFICATION Spec
CONSTANTS
    rsz = 3
    UINT = 16
    Dir = "tx"
    Lengths <- OneLength
    Foreign <- None
    Hangup = TRUE
    MaxPolls = 4
    Residue = 0
INVARIANT ReturnedLocked
CHECK_DEADLOCK FALSE
