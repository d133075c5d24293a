SPECIFICATION Spec
CONSTANTS
    rsz = 2
    Mtus <- TwoMtus
    Sizes <- TapSizes
    Foreign <- ForeignSizes
    MinWire = 60
    MaxFrames = 2
    MaxForeign = 1
INVARIANTS TypeOK OnlyFromPeer AtMostOnce Intact
PROPERTY ImplementsLane
CHECK_DEADLOCK FALSE
