SPECIFICATION SpecToReset
CONSTANTS
    rsz = 3
    UINT = 16
    Dir = "rx"
    Lengths <- RxLengths
    Foreign <- SecondIsForeign
    Hangup = TRUE
    MaxPolls = 4
    Residue = 1
INVARIANTS QueueMutex SlotOwnership ScanInBounds NoRepeat PeerOnly
PROPERTIES PushTerminates PopTerminates ImplementsQueue
CHECK_DEADLOCK FALSE
