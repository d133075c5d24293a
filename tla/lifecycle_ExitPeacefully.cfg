SPECIFICATION Spec
CONSTANTS
    Peers <- InTwo
    NCPU = 2
    IdResidue <- Zero
    MaxTerms = 1
INVARIANT ExitPeacefully
CHECK_DEADLOCK FALSE
