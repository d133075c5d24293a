-------------------------------- MODULE Setup --------------------------------
(***************************************************************************)
(* enumerate_interfaces(): how the supervisor sets up the peers, one after *)
(* the other.  A first loop counts them to size the arrays TX and RX, a    *)
(* second one calls tx_session or rx_session, which open the raw socket    *)
(* and the tap, give the tap its address and MTU, ask for the MAC of the   *)
(* next hop (module Arp) and start the threads (module Lifecycle).         *)
(*                                                                         *)
(* die(0, ...) only reports; die(1, ...) ends the process.                 *)
(***************************************************************************)
EXTENDS Arp, Sequences, FiniteSets

CONSTANTS
    PeerLists,  \* peers in configuration order: records [dir, source, tap, next_hop, ifmap]
    FdResidue,  \* what the uninitialized fd of tx_session, rx_session may hold
    OldTaps,    \* taps that exist before: a set of sets of names
    Layout      \* the order in which the linker puts the globals TX, RX and M

NoTap == "no tap"

ASSUME PeersAssumption ==
    \A ps \in PeerLists :
        /\ ps \in Seq([dir : {"IN", "OUT", "MAP"}, source : {"tap", "socket", "pipe", "none"},
                       tap : {ps[s].tap : s \in DOMAIN ps} \ {NoTap}, next_hop : NextHops,
                       ifmap : BOOLEAN])
ASSUME FdAssumption == FdResidue \subseteq Int
ASSUME LayoutAssumption ==
    /\ Layout \in Seq({"TX", "RX", "M"})
    /\ \E i, j \in DOMAIN Layout : Layout[i] = "TX" /\ Layout[j] = "RX"

VARIABLES
    Peers,          \* MPL, fixed
    supPc, cur,     \* where the supervisor is, and its peer
    up,             \* the peers whose interface ifup() found or brought up
    txc, rxc, mpc,  \* the counts of the first loop: how long TX, RX and M are
    block,          \* where the session of a peer is: "TX", "RX", "M", "wild"
    entry,          \* what a block holds: the fields fd and tifname
    taps, ready,    \* the taps that exist; those with our address and MTU
    hdr,            \* hdr.eh.h_dest of every session
    started         \* the sessions whose threads run

counts == <<up, txc, rxc, mpc>>
sess == <<block, entry, taps, ready, hdr, started>>
vars == <<Peers, supPc, cur, counts, sess, arp>>

Blocks == {"TX", "RX", "M", "wild"}
NoBlock == "none"

Init == /\ Peers \in PeerLists
        /\ supPc = "count" /\ cur = 1
        /\ up = {} /\ txc = 0 /\ rxc = 0 /\ mpc = 0
        /\ block = [s \in DOMAIN Peers |-> NoBlock]
        /\ entry = [b \in Blocks |-> [fd |-> 0, tap |-> NoTap]]
        /\ taps \in OldTaps /\ ready = {}
        /\ hdr = [s \in DOMAIN Peers |-> ZeroMac]
        /\ started = {}
        /\ Idle

Go(pc1) == supPc' = pc1 /\ UNCHANGED <<Peers, cur>>
NextPeer == supPc' = "session" /\ cur' = cur + 1 /\ UNCHANGED Peers
Dies == Go("exited") /\ UNCHANGED <<counts, sess, arp>>

-----------------------------------------------------------------------------
(* enumerate_interfaces                                                     *)

CountsAsTx(s) == Peers[s].source \in {"tap", "socket"}

\* Is it up?  No only if SIOCSIFFLAGS fails: the other failures, here and in
\* get_interface(), are reported and change nothing.
ifup == {TRUE, FALSE}

Count == /\ supPc = "count" /\ cur \in DOMAIN Peers
         /\ \E ok \in ifup : /\ up' = IF ok THEN up \cup {cur} ELSE up
                             /\ rxc' = IF ok THEN rxc + 1 ELSE rxc
         /\ \E ok \in ifup : mpc' = IF Peers[cur].ifmap /\ ok THEN mpc + 1 ELSE mpc
         /\ txc' = IF CountsAsTx(cur) THEN txc + 1 ELSE txc
         /\ cur' = cur + 1
         /\ UNCHANGED <<Peers, supPc, sess, arp>>

Allocate == /\ supPc = "count" /\ cur \notin DOMAIN Peers
            /\ supPc' = "session" /\ cur' = 1
            /\ UNCHANGED <<Peers, counts, sess, arp>>

\* The threads of a map peer do nothing.
MapPeer == /\ supPc = "session" /\ cur \in DOMAIN Peers
           /\ Peers[cur].dir = "MAP"
           /\ NextPeer /\ UNCHANGED <<counts, sess, arp>>

SetupDone == /\ supPc = "session" /\ cur \notin DOMAIN Peers
             /\ Go("done") /\ UNCHANGED <<counts, sess, arp>>

-----------------------------------------------------------------------------
(* tx_session and rx_session                                                *)

Array(s) == IF Peers[s].dir = "OUT" THEN "TX" ELSE "RX"

\* txc++ or rxc++ of the second loop: how many of its kind came before.
Index(s) == Cardinality({t \in 1..s-1 : Peers[t].dir = Peers[s].dir})

\* TX[txc] with TX the address of the global: its own value for the first
\* session of a direction, the words behind it for the later ones.
Words(s) == LET p == CHOOSE i \in DOMAIN Layout : Layout[i] = Array(s)
            IN  IF p + Index(s) \in DOMAIN Layout THEN {Layout[p + Index(s)]} ELSE {"wild"}

\* The raw socket is open; its descriptor, the MTU and the addresses have no
\* bearing on the rest.
Open == /\ supPc = "session" /\ cur \in DOMAIN Peers /\ Peers[cur].dir # "MAP"
        /\ \E w \in Words(cur) : block' = [block EXCEPT ![cur] = w]
        /\ Go("source")
        /\ UNCHANGED <<counts, entry, taps, ready, hdr, started, arp>>

\* No entry, no interface, no index or no raw socket, or a wild entry.
OpenDies == /\ supPc = "session" /\ cur \in DOMAIN Peers /\ Peers[cur].dir # "MAP"
            /\ Dies

\* The sessions of direction d on the tap of s that were set up before it.
Sharing(s, d) == {t \in 1..s-1 : /\ Peers[t].dir = d /\ block[t] # NoBlock
                                 /\ entry[block[t]].fd > 0
                                 /\ entry[block[t]].tap = Peers[s].tap}

Last(S) == CHOOSE t \in S : \A u \in S : u <= t

\* Fault: only the session's own direction is searched.
FoundOneWay(s) == IF Sharing(s, Peers[s].dir) # {} THEN {Last(Sharing(s, Peers[s].dir))} ELSE {}

\* The two searches: one's own direction, then the other; the last match wins.
Found(s) == LET other == IF Peers[s].dir = "OUT" THEN "IN" ELSE "OUT"
            IN  IF Sharing(s, other) # {} THEN {Last(Sharing(s, other))}
                ELSE IF Sharing(s, Peers[s].dir) # {} THEN {Last(Sharing(s, Peers[s].dir))}
                ELSE {}

Fill(b, f, t) == entry' = [entry EXCEPT ![b] = [fd |-> f, tap |-> t]]

AtSource(src) == supPc = "source" /\ Peers[cur].source = src

TapReady(f) == /\ Fill(block[cur], f, Peers[cur].tap)
               /\ Go(IF Peers[cur].dir = "OUT" THEN "address" ELSE "headers")
               /\ UNCHANGED <<counts, block, ready, hdr, started, arp>>

\* The descriptor of the session that was found, or else what fd happens to
\* hold, if that is positive.
TapShared == /\ AtSource("tap")
             /\ \E f \in IF Found(cur) # {} THEN {entry[block[t]].fd : t \in Found(cur)}
                                            ELSE {r \in FdResidue : r > 0} : TapReady(f)
             /\ UNCHANGED taps

NewFd(s) == 10 + s

TapNeeded == AtSource("tap") /\ Found(cur) = {} /\ \E r \in FdResidue : r < 1

tuntap == /\ TapNeeded /\ TapReady(NewFd(cur))
          /\ taps' = taps \cup {Peers[cur].tap}

\* Only reported: the peer gets no threads.
TapFails == TapNeeded /\ NextPeer /\ UNCHANGED <<counts, sess, arp>>

SocketPath == AtSource("socket") /\ NextPeer /\ UNCHANGED <<counts, sess, arp>>

\* open() of a FIFO that nobody writes to comes back late, or never.
PipePath == /\ AtSource("pipe")
            /\ Fill(block[cur], NewFd(cur), entry[block[cur]].tap)
            /\ NextPeer /\ UNCHANGED <<counts, block, taps, ready, hdr, started, arp>>

SourceDies == supPc = "source" /\ Peers[cur].source \in {"pipe", "none"} /\ Dies

\* Fault: the failure of the ioctls is only reported.
AddressAnyway == /\ supPc = "address"
                 /\ ready' = ready \cup ({Peers[cur].tap} \cap taps)
                 /\ Go("headers") /\ UNCHANGED <<counts, block, entry, taps, hdr, started, arp>>

\* set_ip() and set_mtu() of the tap, for which it has to exist.
Address == /\ supPc = "address" /\ Peers[cur].tap \in taps
           /\ ready' = ready \cup {Peers[cur].tap}
           /\ Go("headers") /\ UNCHANGED <<counts, block, entry, taps, hdr, started, arp>>

AddressDies == supPc = "address" /\ Dies

fill_headers == /\ supPc = "headers"
                /\ Ask(Peers[cur].next_hop)
                /\ Go("arp") /\ UNCHANGED <<counts, sess>>

Asks == supPc = "arp" /\ arp_request /\ UNCHANGED <<Peers, supPc, cur, counts, sess>>

Waits == supPc = "arp" /\ Tick /\ UNCHANGED <<Peers, supPc, cur, counts, sess>>

\* The rings get the headers, whatever arp_request returned, and the threads
\* are started.
Start == /\ supPc = "arp" /\ pc = "done"
         /\ hdr' = [hdr EXCEPT ![cur] = h_dest]
         /\ started' = started \cup {cur}
         /\ Leave
         /\ NextPeer /\ UNCHANGED <<counts, block, entry, taps, ready>>

\* No memory for a ring.
StartDies == supPc = "arp" /\ pc = "done" /\ Dies

enumerate_interfaces ==
    \/ Count \/ Allocate \/ MapPeer \/ Open \/ OpenDies
    \/ TapShared \/ tuntap \/ TapFails \/ SocketPath \/ PipePath \/ SourceDies
    \/ Address \/ AddressDies \/ fill_headers \/ Asks \/ Start \/ StartDies \/ SetupDone

Next == enumerate_interfaces \/ Waits

\* A wire that is never silent for good: recv() comes back (after at most
\* MaxSignals interruptions), and time passes.  Nothing makes the open() of a
\* pipe come back.
Spec == /\ Init /\ [][Next]_vars
        /\ WF_vars(~AtSource("pipe") /\ enumerate_interfaces) /\ WF_vars(Waits)

-----------------------------------------------------------------------------
\* The values that the variables range over.
TypeOK ==
    /\ ArpTypeOK /\ Peers \in PeerLists
    /\ supPc \in {"count", "session", "source", "address", "headers", "arp", "done", "exited"}
    /\ cur \in 1..Len(Peers)+1
    /\ up \subseteq DOMAIN Peers /\ txc \in 0..Len(Peers)
    /\ rxc \in 0..Len(Peers) /\ mpc \in 0..Len(Peers)
    /\ block \in [DOMAIN Peers -> Blocks \cup {NoBlock}]
    /\ \A b \in Blocks : entry[b].fd \in Int
    /\ ready \subseteq taps /\ started \subseteq DOMAIN Peers

\* Every session encapsulates with the address of a frame from its own next
\* hop, or with zeroes: what another session was answered, or what it left in
\* the buffers when its own request failed, never gets into its headers.
HeadersOfOwnHop == \A s \in started :
    \/ hdr[s] = ZeroMac
    \/ \E f \in Frames \cup {Request} : f.sip = Peers[s].next_hop /\ f.smac = hdr[s]

\* An egress session never starts on a tap that does not exist or has not got
\* its address and MTU, even if fd was taken from an uninitialized variable.
EgressTapReady == \A s \in started : Peers[s].dir = "OUT" => Peers[s].tap \in ready

\* The array in whose memory the session is has an element for it: malloc(0)
\* has not, nor has one struct txq (160 bytes) for a struct rxq (168, as has
\* struct mapq).
Room(s) == CASE block[s] = "TX" -> txc > IF Peers[s].dir = "IN" THEN 1 ELSE 0
             [] block[s] = "RX" -> rxc > 0
             [] block[s] = "M"  -> mpc > 0
             [] OTHER           -> FALSE

\* Every session has a block of memory of its own, with room for it.  Where it
\* has not, the heap is overrun, and what happens then is undefined.
Apart == \A s \in DOMAIN Peers : block[s] # NoBlock =>
            /\ Room(s)
            /\ \A t \in DOMAIN Peers : s # t => block[s] # block[t]

\* The sessions of a tap use one descriptor of it, in both directions, as long
\* as each is set up in memory of its own (TunnelsIndependent): what an
\* uninitialized fd held is taken for all of them or for none.
SameTapSameFd == Apart => \A s, t \in started :
    Peers[s].tap = Peers[t].tap => entry[block[s]].fd = entry[block[t]].fd

\* The set-up ends, one way or another, on a wire that keeps carrying frames,
\* although the clock is only looked at when one comes in; unless it waits for
\* ever for a writer to the pipe of a peer.
SetupEnds == []<>~AtSource("pipe") => <>(supPc \in {"done", "exited"} \/ pc = "exited")

-----------------------------------------------------------------------------
(* What the specification of the protocol says, and the code does not do.   *)

\* All interfaces could be brought up, so that the first loop left no peer out
\* on account of them.
AllUp == up = DOMAIN Peers /\ mpc = Cardinality({s \in DOMAIN Peers : Peers[s].ifmap})

\* "A tunnel must function in complete independence of all other tunnels'
\* state or property.  For example, A user should be able to configure a
\* dedicated machine for the establishment and forwarding of an egress only
\* tunnel." (specification.md:171): a session is set up in memory that there is
\* for it, whatever its data source, and not in that of a running tunnel, with
\* its descriptors, addresses and rings.
TunnelsIndependent == AllUp => \A s \in DOMAIN Peers : block[s] # NoBlock =>
    Room(s) /\ \A t \in started : t < s => block[s] # block[t]
=============================================================================
