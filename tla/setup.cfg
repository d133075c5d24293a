SPECIFICATION Spec
CONSTANTS
    Frames <- WireFrames
    MyIp = "me"
    MyMac = "mymac"
    NextHops <- Gateways
    ZeroIp = "0"
    ZeroMac = "0mac"
    ARP_TIMEOUT = 1
    MaxTime = 3
    MaxSignals = 1
    PeerLists <- PeersOfAllKinds
    FdResidue <- AnyFd
    OldTaps <- NoneOrTap0
    Layout <- RxMTx
INVARIANTS TypeOK DestIsNextHop NoLateAnswer HeadersOfOwnHop EgressTapReady SameTapSameFd
PROPERTY SetupEnds
CHECK_DEADLOCK FALSE
