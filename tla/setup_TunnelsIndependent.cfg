SPECIFICATION Spec
CONSTANTS
    Frames <- WireFrames
    MyIp = "me"
    MyMac = "mymac"
    NextHops <- Gateways
    ZeroIp = "0"
    ZeroMac = "0mac"
    ARP_TIMEOUT = 1
    MaxTime = 3
    MaxSignals = 1
    PeerLists <- Remotes
    FdResidue <- Zero
    OldTaps <- NoTaps
    Layout <- RxMTx
INVARIANT TunnelsIndependent
CHECK_DEADLOCK FALSE
