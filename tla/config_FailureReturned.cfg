SPECIFICATION Spec
CONSTANTS
    Files <- Departures
    Unresolvable <- Nowhere
PROPERTY FailureReturned
CHECK_DEADLOCK FALSE
