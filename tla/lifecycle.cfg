SPECIFICATION Spec
CONSTANTS
    Peers <- InTwoOutOne
    NCPU = 1
    IdResidue <- Zero
    MaxTerms = 1
INVARIANTS TypeOK RingsDistinct RingReady PinsDistinct FreedOnlyAtEnd
PROPERTY TermExits
CHECK_DEADLOCK FALSE
