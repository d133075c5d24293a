SPECIFICATION Spec
CONSTANTS
    Files <- AnyFile
    Unresolvable <- Nowhere
INVARIANTS TypeOK LoadsPeers AllListed
PROPERTY LoadReturns
CHECK_DEADLOCK FALSE
