------------------------------ MODULE MCSetup ------------------------------
(* A wire that carries frames of two next hops, each a stranger to the      *)
(* sessions of the other; pairs of peers.                                   *)
EXTENDS Setup

WireFrames == {[sip |-> "gw", smac |-> "gwmac"],
               [sip |-> "gw2", smac |-> "gw2mac"]}
Gateways == {"gw", "gw2"}

Peer(d, src, t, hop) == [dir |-> d, source |-> src, tap |-> t, next_hop |-> hop,
                             ifmap |-> d = "MAP"]

TapPeers == {Peer(d, "tap", t[1], t[2]) : d \in {"IN", "OUT"},
                                          t \in {<<"tap0", "gw2">>, <<"tap1", "gw">>}}
OtherPeers == {Peer("OUT", "pipe", "none", "gw"), Peer("IN", "socket", "none", "gw"),
               Peer("OUT", "none", "none", "gw"), Peer("MAP", "none", "none", "gw")}

Pairs == {<<Peer(d, "tap", "tap0", "gw"), p>> : d \in {"IN", "OUT"}, p \in TapPeers \cup OtherPeers}
         \cup {<<p, Peer(d, "tap", "tap0", "gw")>> : d \in {"IN", "OUT"}, p \in OtherPeers}

Remotes == {<<Peer("OUT", "tap", "tap0", "gw"), Peer("IN", "tap", "tap0", "gw"),
              Peer("IN", "tap", "tap1", "gw"), Peer("IN", "tap", "tap2", "gw2"),
              Peer("MAP", "none", "none", "gw")>>}

\* Two ingress sessions on one tap, the second behind an egress session's, in
\* the memory that was meant for the map peer.
Triple == <<Peer("IN", "tap", "tap0", "gw"), Peer("OUT", "tap", "tap1", "gw"),
            Peer("IN", "tap", "tap1", "gw2"), Peer("MAP", "none", "none", "gw")>>

\* An egress only tunnel that is fed by a pipe.
Single == {<<Peer("OUT", "pipe", "none", "gw")>>}

PeersOfAllKinds == Pairs \cup {Triple}

AnyFd == {0, 7}
Zero == {0}
NoneOrTap0 == {{}, {"tap0"}}
NoTaps == {{}}

\* What gcc -fcommon makes of the declarations of network.h.
RxMTx == <<"RX", "M", "TX">>
=============================================================================
