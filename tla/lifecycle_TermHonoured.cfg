SPECIFICATION Spec
CONSTANTS
    Peers <- AsSample
    NCPU = 2
    IdResidue <- Zero
    MaxTerms = 1
PROPERTY TermHonoured
CHECK_DEADLOCK FALSE
