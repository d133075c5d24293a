----------------------------- MODULE SetupProofs -----------------------------
(***************************************************************************)
(* What arp_request() leaves in the headers of a session, for every wire,  *)
(* every list of peers, every time-out and every pair of addresses.  The   *)
(* invariant carries to the return what the loop's two tests, of the clock *)
(* and then of the sender, establish one after the other while the clock   *)
(* goes on and signals come in; and from there to the rings of the         *)
(* session, while the next one asks for its own next hop.  Then: what the  *)
(* sessions have of the taps and the blocks of memory.                     *)
(***************************************************************************)
EXTENDS Setup, SequenceTheorems, WellFoundedInduction, TLAPS

\* In the buffer or in the headers: an address that the wire, or the request
\* itself, gives for the host asked.
Learnt(ip, mac) == \E f \in Frames \cup {Request} : f.sip = ip /\ f.smac = mac

\* The clock never runs backwards, and only the buffer and the wait depend on it.
TimeInv == /\ now \in Nat /\ clk \in Nat /\ at \in Nat
           /\ at <= now /\ clk <= now
           /\ pc \in {"resolve", "send"} => ~sentOk
           /\ pc \in {"wait", "timeout"} => sentOk

\* While it asks the result is zero, and a frame of the next hop that is in the
\* buffer came from the wire (or is the request) and came in time.
WaitInv == /\ pc \in {"resolve", "send", "wait", "timeout"} => h_dest = ZeroMac
           /\ pc \in {"resolve", "send"} => frame = Request
           /\ pc \in {"resolve", "send", "wait", "timeout"} /\ frame.sip = asking
                => Learnt(asking, frame.smac)
           /\ pc = "wait" /\ frame.sip = asking => at - clk <= ARP_TIMEOUT

\* During a request the supervisor asks for the next hop of its peer.
AskInv == /\ pc # "idle" => asking \in NextHops
          /\ supPc = "arp" => asking = Peers[cur].next_hop /\ cur \in DOMAIN Peers
          /\ supPc = "headers" => cur \in DOMAIN Peers
          /\ supPc \in {"source", "address"} => cur \in DOMAIN Peers
          /\ supPc \in {"count", "session", "source", "address", "headers"} => pc = "idle"
          /\ Peers \in PeerLists
          /\ started \subseteq DOMAIN Peers
          /\ DOMAIN hdr = DOMAIN Peers

ArpInv == TimeInv /\ WaitInv /\ DestIsNextHop /\ NoLateAnswer

USE TimeAssumption, ZeroAssumption

\* What the lists of peers are made of.
LEMMA PeerFacts ==
  ASSUME Peers \in PeerLists
  PROVE  /\ Len(Peers) \in Nat /\ DOMAIN Peers = 1..Len(Peers)
         /\ \A s \in DOMAIN Peers : /\ Peers[s].dir \in {"IN", "OUT", "MAP"}
                                   /\ Peers[s].tap # NoTap
                                   /\ Peers[s].next_hop \in NextHops
<1> DEFINE Rec == [dir : {"IN", "OUT", "MAP"}, source : {"tap", "socket", "pipe", "none"},
                   tap : {Peers[s].tap : s \in DOMAIN Peers} \ {NoTap}, next_hop : NextHops,
                   ifmap : BOOLEAN]
<1>1. Peers \in Seq(Rec)
  BY PeersAssumption
<1>2. \A s \in DOMAIN Peers : Peers[s] \in Rec
  <2> HIDE DEF Rec
  <2> QED
    BY <1>1
<1>3. Len(Peers) \in Nat /\ DOMAIN Peers = 1..Len(Peers)
  <2> HIDE DEF Rec
  <2> QED
    BY <1>1
<1>4. QED
  BY <1>2, <1>3

\* Nothing has been asked.
LEMMA InitInv == Init => ArpInv /\ AskInv /\ HeadersOfOwnHop
  BY DEF Init, Idle, ArpInv, AskInv, TimeInv, WaitInv, DestIsNextHop, NoLateAnswer, HeadersOfOwnHop

\* The steps of arp_request and of the clock keep what is known of the request.
LEMMA RequestInv == ArpInv /\ (arp_request \/ Tick) /\ asking \in NextHops => ArpInv'
<1> SUFFICES ASSUME ArpInv, arp_request \/ Tick, asking \in NextHops PROVE ArpInv'
  OBVIOUS
<1> USE DEF ArpInv, TimeInv, WaitInv, DestIsNextHop, NoLateAnswer, Return, Answered, Learnt
<1>1. CASE Resolve
  BY <1>1 DEF Resolve
<1>2. CASE Send
  BY <1>2 DEF Send
<1>3. CASE SendFails
  BY <1>3 DEF SendFails
<1>4. CASE Resolved
  BY <1>4 DEF Resolved
<1>5. CASE Recv
  BY <1>5 DEF Recv
<1>6. CASE RecvInterrupted
  <2>1. frame'.sip # asking'
    BY <1>6 DEF RecvInterrupted
  <2>2. QED
    BY <1>6, <2>1 DEF RecvInterrupted
<1>7. CASE RecvFails
  BY <1>7 DEF RecvFails
<1>8. CASE Timeout
  BY <1>8 DEF Timeout
<1>9. CASE Tick
  BY <1>9 DEF Tick
<1>10. QED
  BY <1>1, <1>2, <1>3, <1>4, <1>5, <1>6, <1>7, <1>8, <1>9 DEF arp_request

\* A step that leaves the request alone.
LEMMA ArpUnchanged == ArpInv /\ UNCHANGED arp => ArpInv'
  BY DEF ArpInv, TimeInv, WaitInv, DestIsNextHop, NoLateAnswer, Learnt, Answered, arp

\* Every step of the set-up keeps what is known of the request.
LEMMA NextArpInv == ArpInv /\ AskInv /\ [Next]_vars => ArpInv'
<1> SUFFICES ASSUME ArpInv, AskInv, [Next]_vars PROVE ArpInv'
  OBVIOUS
<1>1. CASE Asks \/ Waits
  <2>1. asking \in NextHops /\ (arp_request \/ Tick)
    BY <1>1 DEF Asks, Waits, AskInv, arp_request, Tick, Resolve, Send, SendFails, Resolved,
                Recv, RecvInterrupted, RecvFails, Timeout
  <2>2. QED
    BY <2>1, RequestInv
<1>2. CASE fill_headers
  <2>1. Request.sip = asking' => Learnt(asking', Request.smac)
    BY DEF Learnt
  <2>2. QED
    BY <1>2, <2>1 DEF fill_headers, Ask, ArpInv, TimeInv, WaitInv, DestIsNextHop, NoLateAnswer
<1>3. CASE Start
  BY <1>3 DEF Start, Leave, ArpInv, TimeInv, WaitInv, DestIsNextHop, NoLateAnswer
<1>4. CASE ~(Asks \/ Waits \/ fill_headers \/ Start)
  <2>1. UNCHANGED arp
    BY <1>4 DEF Next, enumerate_interfaces, vars, Count, Allocate, MapPeer, Open, OpenDies,
        TapShared, TapReady, tuntap, TapFails, SocketPath, PipePath, SourceDies, Address,
        AddressDies, StartDies, SetupDone, Dies
  <2>2. QED
    BY <2>1, ArpUnchanged
<1>5. QED
  BY <1>1, <1>2, <1>3, <1>4

\* Every step of the set-up keeps whom the supervisor asks for whom.
LEMMA NextAskInv == AskInv /\ [Next]_vars => AskInv'
<1> SUFFICES ASSUME AskInv, [Next]_vars PROVE AskInv'
  OBVIOUS
<1> USE DEF AskInv
<1>1. CASE Asks \/ Waits
  BY <1>1 DEF Asks, Waits, sess, counts, arp_request, Tick, Resolve, Send, SendFails, Resolved,
              Recv, RecvInterrupted, RecvFails, Timeout, Return
<1>2. CASE fill_headers
  <2>1. Peers[cur].next_hop \in NextHops
    BY <1>2, PeerFacts DEF fill_headers
  <2>2. QED
    BY <1>2, <2>1 DEF fill_headers, Ask, Go, sess, counts
<1>3. CASE Start
  BY <1>3 DEF Start, Leave, NextPeer, counts
<1>4. CASE Count \/ Allocate \/ MapPeer \/ SetupDone
  BY <1>4 DEF Count, Allocate, MapPeer, SetupDone, NextPeer, Go, sess, counts, arp
<1>5. CASE Open \/ OpenDies \/ SourceDies \/ AddressDies \/ StartDies
  BY <1>5 DEF Open, OpenDies, SourceDies, AddressDies, StartDies, Dies, Go, sess, counts, arp
<1>6. CASE TapShared \/ tuntap \/ TapFails
  BY <1>6 DEF TapShared, tuntap, TapFails, TapNeeded, AtSource, TapReady, NextPeer, Go, sess, counts, arp
<1>7. CASE SocketPath \/ PipePath \/ Address
  BY <1>7 DEF SocketPath, PipePath, Address, AtSource, NextPeer, Go, sess, counts, arp
<1>8. CASE UNCHANGED vars
  BY <1>8 DEF vars, sess, counts, arp
<1>9. QED
  BY <1>1, <1>2, <1>3, <1>4, <1>5, <1>6, <1>7, <1>8 DEF Next, enumerate_interfaces

\* Every step keeps the headers of the sessions that run; Start adds one.
LEMMA NextHeaders ==
  ArpInv /\ AskInv /\ HeadersOfOwnHop /\ [Next]_vars => HeadersOfOwnHop'
<1> SUFFICES ASSUME ArpInv, AskInv, HeadersOfOwnHop, [Next]_vars PROVE HeadersOfOwnHop'
  OBVIOUS
<1>1. CASE Start
  <2>1. h_dest = ZeroMac \/ Learnt(Peers[cur].next_hop, h_dest)
    BY <1>1 DEF Start, ArpInv, DestIsNextHop, AskInv, Learnt
  <2>2. SUFFICES ASSUME NEW s \in started'
                 PROVE  hdr'[s] = ZeroMac \/ Learnt(Peers[s].next_hop, hdr'[s])
    BY <1>1 DEF Start, NextPeer, HeadersOfOwnHop, Learnt
  <2>3. CASE s = cur
    BY <1>1, <2>1, <2>3 DEF Start, AskInv
  <2>4. CASE s # cur
    BY <1>1, <2>4 DEF Start, AskInv, HeadersOfOwnHop, Learnt
  <2>5. QED
    BY <2>3, <2>4
<1>2. CASE ~Start
  <2>1. UNCHANGED <<Peers, hdr, started>>
    BY <1>2 DEF Next, enumerate_interfaces, vars, sess, Count, Allocate, MapPeer, Open, OpenDies,
        TapShared, TapReady, tuntap, TapFails, SocketPath, PipePath, SourceDies, Address,
        AddressDies, StartDies, SetupDone, Dies, Go, NextPeer, fill_headers, Asks, Waits
  <2>2. QED
    BY <2>1 DEF HeadersOfOwnHop
<1>3. QED
  BY <1>1, <1>2

\* The inductive invariant holds throughout.
LEMMA Invariance == Spec => [](ArpInv /\ AskInv /\ HeadersOfOwnHop)
  BY InitInv, NextArpInv, NextAskInv, NextHeaders, PTL DEF Spec

\* arp_request() leaves the address of a frame from the next hop, or the zeroes
\* of fill_headers().
THEOREM HeadersFromNextHop == Spec => []DestIsNextHop
<1>1. ArpInv => DestIsNextHop
  BY DEF ArpInv
<1>2. QED
  BY Invariance, <1>1, PTL

\* An answer that it takes came in before the time-out.
THEOREM LateAnswersIgnored == Spec => []NoLateAnswer
<1>1. ArpInv => NoLateAnswer
  BY DEF ArpInv
<1>2. QED
  BY Invariance, <1>1, PTL

\* The rings of a session are given the address of its own next hop, or
\* zeroes, however many sessions are set up before and after.
THEOREM OwnNextHop == Spec => []HeadersOfOwnHop
  BY Invariance, PTL

-----------------------------------------------------------------------------
(* The tap of an egress session.                                            *)

\* Past set_ip() and set_mtu() the tap of the session has been addressed.
TapInv == supPc \in {"headers", "arp"} /\ Peers[cur].dir = "OUT" => Peers[cur].tap \in ready

\* No step takes an address back, and only Address leads an egress session on.
LEMMA NextTaps == TapInv /\ EgressTapReady /\ [Next]_vars => TapInv' /\ EgressTapReady'
<1> SUFFICES ASSUME TapInv, EgressTapReady, [Next]_vars PROVE TapInv' /\ EgressTapReady'
  OBVIOUS
<1> USE DEF TapInv, EgressTapReady
<1>1. CASE Start
  BY <1>1 DEF Start, NextPeer
<1>2. CASE Address
  BY <1>2 DEF Address, Go
<1>3. CASE TapShared \/ tuntap
  BY <1>3 DEF TapShared, tuntap, TapReady, Go
<1>4. CASE fill_headers \/ Asks \/ Waits
  BY <1>4 DEF fill_headers, Asks, Waits, Go, sess
<1>5. CASE Count \/ Allocate \/ MapPeer \/ SetupDone \/ Open
  BY <1>5 DEF Count, Allocate, MapPeer, SetupDone, Open, NextPeer, Go, sess
<1>6. CASE OpenDies \/ SourceDies \/ AddressDies \/ StartDies
  BY <1>6 DEF OpenDies, SourceDies, AddressDies, StartDies, Dies, Go, sess
<1>7. CASE TapFails \/ SocketPath \/ PipePath
  BY <1>7 DEF TapFails, SocketPath, PipePath, NextPeer, sess
<1>8. CASE UNCHANGED vars
  BY <1>8 DEF vars, sess
<1>9. QED
  BY <1>1, <1>2, <1>3, <1>4, <1>5, <1>6, <1>7, <1>8 DEF Next, enumerate_interfaces

\* An egress session runs on a tap that was given its address and MTU, whatever
\* the uninitialized fd held and whichever call failed before.
THEOREM EgressOnReadyTap == Spec => []EgressTapReady
<1>1. Init => TapInv /\ EgressTapReady
  BY DEF Init, TapInv, EgressTapReady
<1>2. QED
  BY <1>1, NextTaps, PTL DEF Spec

-----------------------------------------------------------------------------
(* Types.                                                                   *)

\* The wait begins within MaxTime of the request, and is no longer than that.
ClockInv == /\ clk \in 0..MaxTime /\ now \in clk..clk + MaxTime
            /\ pc \in {"idle", "resolve", "send"} => clk = 0

LEMMA NextArpTypeOK ==
  ArpTypeOK /\ ClockInv /\ AskInv /\ [Next]_vars => ArpTypeOK' /\ ClockInv'
<1> SUFFICES ASSUME ArpTypeOK, ClockInv, AskInv, [Next]_vars PROVE ArpTypeOK' /\ ClockInv'
  OBVIOUS
<1> USE DEF ArpTypeOK, ClockInv
<1>1. CASE Asks \/ Waits
  <2> USE DEF Return
  <2>1. CASE Resolve \/ SendFails
    BY <2>1 DEF Resolve, SendFails
  <2>8. CASE Send
    BY <2>8 DEF Send
  <2>2. CASE Resolved \/ RecvFails
    BY <2>2 DEF Resolved, RecvFails
  <2>3. CASE Recv
    BY <2>3 DEF Recv
  <2>4. CASE RecvInterrupted
    BY <2>4 DEF RecvInterrupted
  <2>5. CASE Timeout
    BY <2>5 DEF Timeout
  <2>6. CASE Tick
    BY <2>6 DEF Tick
  <2>7. QED
    BY <1>1, <2>1, <2>2, <2>3, <2>4, <2>5, <2>6, <2>8 DEF Asks, Waits, arp_request
<1>2. CASE fill_headers
  <2>1. Peers[cur].next_hop \in NextHops
    BY <1>2, PeerFacts DEF fill_headers, AskInv
  <2>2. frame' = Request /\ clk' = 0 /\ now' = 0 /\ at' = 0 /\ ret' = 0 /\ signals' = 0
    BY <1>2 DEF fill_headers, Ask
  <2>3. asking' \in NextHops /\ pc' = "resolve" /\ sentOk' \in BOOLEAN
    BY <1>2, <2>1 DEF fill_headers, Ask
  <2>4. (frame \in Frames \cup {Request, [sip |-> ZeroIp, smac |-> ZeroMac]})'
    BY <2>2 DEF Request
  <2>5. ClockInv'
    BY <2>2
  <2>6. now' \in 0..2 * MaxTime /\ clk' \in 0..now' /\ at' \in 0..now'
    BY <2>2
  <2>7. QED
    BY <2>2, <2>3, <2>4, <2>5, <2>6
<1>3. CASE Start
  <2>1. frame' = Request /\ clk' = 0 /\ now' = 0 /\ at' = 0 /\ ret' = 0 /\ signals' = 0
    BY <1>3 DEF Start, Leave
  <2>2. asking' = ZeroIp /\ pc' = "idle" /\ sentOk' \in BOOLEAN
    BY <1>3 DEF Start, Leave
  <2>3. (frame \in Frames \cup {Request, [sip |-> ZeroIp, smac |-> ZeroMac]})'
    BY <2>1 DEF Request
  <2>4. ClockInv'
    BY <2>1
  <2>5. now' \in 0..2 * MaxTime /\ clk' \in 0..now' /\ at' \in 0..now'
    BY <2>1
  <2>6. QED
    BY <2>1, <2>2, <2>3, <2>4, <2>5
<1>4. CASE ~(Asks \/ Waits \/ fill_headers \/ Start)
  <2>1. UNCHANGED arp
    BY <1>4 DEF Next, enumerate_interfaces, vars, Count, Allocate, MapPeer, Open, OpenDies,
        TapShared, TapReady, tuntap, TapFails, SocketPath, PipePath, SourceDies, Address,
        AddressDies, StartDies, SetupDone, Dies
  <2>2. QED
    BY <2>1 DEF arp
<1>5. QED
  BY <1>1, <1>2, <1>3, <1>4

\* The first loop has counted no more of any kind than it has seen peers.
CountInv ==
  /\ cur \in 1..Len(Peers) + 1
  /\ txc \in 0..Len(Peers) /\ rxc \in 0..Len(Peers) /\ mpc \in 0..Len(Peers)
  /\ up \subseteq DOMAIN Peers
  /\ supPc = "count" => txc < cur /\ rxc < cur /\ mpc < cur

LEMMA NextCountInv == CountInv /\ AskInv /\ [Next]_vars => CountInv'
<1> SUFFICES ASSUME CountInv, AskInv, [Next]_vars PROVE CountInv'
  OBVIOUS
<1>0. Len(Peers) \in Nat /\ DOMAIN Peers = 1..Len(Peers)
  BY PeerFacts DEF AskInv
<1> USE <1>0 DEF CountInv
<1>1. CASE Count
  <2>1. cur \in DOMAIN Peers /\ cur' = cur + 1 /\ UNCHANGED <<Peers, supPc>>
    BY <1>1 DEF Count
  <2>2. /\ txc' \in {txc, txc + 1} /\ rxc' \in {rxc, rxc + 1} /\ mpc' \in {mpc, mpc + 1}
        /\ up' \in {up, up \cup {cur}} /\ supPc = "count"
    BY <1>1 DEF Count
  <2>3. QED
    BY <2>1, <2>2
<1>2. CASE Allocate
  BY <1>2 DEF Allocate, counts
<1>3. CASE MapPeer \/ Start \/ TapFails \/ SocketPath \/ PipePath
  <2>1. cur \in DOMAIN Peers /\ supPc # "count"
    BY <1>3 DEF MapPeer, Start, TapFails, SocketPath, PipePath, TapNeeded, AtSource, AskInv
  <2>2. NextPeer /\ UNCHANGED counts
    BY <1>3 DEF MapPeer, Start, TapFails, SocketPath, PipePath
  <2>3. QED
    BY <2>1, <2>2 DEF NextPeer, counts
<1>4. CASE ~(Count \/ Allocate \/ MapPeer \/ Start \/ TapFails \/ SocketPath \/ PipePath)
  <2>1. UNCHANGED <<Peers, cur, counts>> /\ (supPc' = "count" <=> supPc = "count")
    BY <1>4 DEF Next, enumerate_interfaces, vars, Open, OpenDies, TapShared, TapReady, tuntap,
        TapNeeded, AtSource, SourceDies, Address, AddressDies, StartDies, SetupDone, Dies, Go,
        fill_headers, Asks, Waits
  <2>2. QED
    BY <2>1 DEF counts
<1>5. QED
  BY <1>1, <1>2, <1>3, <1>4

\* The sessions that have got past the opening of their tap.
Tapped == started \cup (IF supPc \in {"address", "headers", "arp"} THEN {cur} ELSE {})

\* Blocks are given out in the order of the peers, once for each session.
PlaceInv ==
  /\ block \in [DOMAIN Peers -> Blocks \cup {NoBlock}]
  /\ \A s \in DOMAIN Peers : supPc = "count" \/ s > cur \/ (supPc = "session" /\ s = cur)
                                => block[s] = NoBlock
  /\ \A s \in DOMAIN Peers : block[s] # NoBlock => Peers[s].dir # "MAP"
  /\ supPc \in {"source", "address", "headers", "arp"} => block[cur] # NoBlock
  /\ \A s \in Tapped : s \in DOMAIN Peers /\ block[s] # NoBlock /\ Peers[s].source = "tap"

EntryType == DOMAIN entry = Blocks /\ \A b \in Blocks : entry[b].fd \in Int

\* As long as no two sessions overlap, a block that is nobody's, or whose
\* session has not opened its tap, names no tap; and the blocks that name one
\* hold its descriptor, the same for all of them.
FdInv == Apart =>
  /\ \A s \in Tapped : entry[block[s]].tap = Peers[s].tap
  /\ \A b \in Blocks : entry[b].tap # NoTap => entry[b].fd > 0 /\ \E s \in DOMAIN Peers : block[s] = b
  /\ supPc = "source" => entry[block[cur]].tap = NoTap
  /\ \A b, c \in Blocks : entry[b].tap # NoTap /\ entry[b].tap = entry[c].tap
                            => entry[b].fd = entry[c].fd

\* A session gets some block.
LEMMA WordsFacts ==
  ASSUME NEW s, NEW w \in Words(s)
  PROVE  w \in Blocks
<1> DEFINE p == CHOOSE i \in DOMAIN Layout : Layout[i] = Array(s)
<1>1. /\ \A i \in DOMAIN Layout : Layout[i] \in {"TX", "RX", "M"} /\ i \in Int
      /\ \E i \in DOMAIN Layout : Layout[i] = Array(s)
  BY LayoutAssumption DEF Array
<1> HIDE DEF p
<1>2. w \in (IF p + Index(s) \in DOMAIN Layout THEN {Layout[p + Index(s)]} ELSE {"wild"})
  BY DEF Words, p
<1>3. QED
  BY <1>1, <1>2 DEF Blocks

\* Only the opening of a tap makes a session one that has got past it.
LEMMA TappedGrows ==
  ASSUME [Next]_vars, CountInv
  PROVE  /\ TapShared \/ tuntap => Tapped' \subseteq Tapped \cup {cur}
         /\ ~(TapShared \/ tuntap) => Tapped' \subseteq Tapped
         /\ supPc' = "source" /\ ~Open => supPc = "source" /\ cur' = cur
<1>0. cur + 1 # cur
  BY DEF CountInv
<1>1. CASE TapShared \/ tuntap
  BY <1>1 DEF TapShared, tuntap, TapNeeded, AtSource, TapReady, Go, Tapped
<1>2. CASE Start
  BY <1>2 DEF Start, NextPeer, TapShared, tuntap, TapNeeded, AtSource, Tapped, AskInv
<1>3. CASE ~(TapShared \/ tuntap \/ Start)
  <2>1. /\ started' = started
        /\ supPc' \in {"address", "headers", "arp"}
             => supPc \in {"address", "headers", "arp"} /\ cur' = cur
        /\ supPc' = "source" /\ ~Open => supPc = "source" /\ cur' = cur
    BY <1>3 DEF Next, enumerate_interfaces, vars, sess, Count, Allocate, MapPeer, Open,
        OpenDies, TapFails, SocketPath, PipePath, SourceDies, Address, AddressDies, StartDies,
        SetupDone, Dies, Go, NextPeer, fill_headers, Asks, Waits
  <2>2. QED
    BY <1>3, <2>1 DEF Tapped
<1>4. QED
  BY <1>1, <1>2, <1>3

\* Steps other than Open leave every block where it is.
LEMMA WhoPlaces ==
  ASSUME [Next]_vars PROVE Peers' = Peers /\ (~Open => block' = block)
  BY DEF Next, enumerate_interfaces, vars, sess, Count, Allocate, MapPeer, Open, OpenDies,
      TapShared, TapReady, tuntap, TapFails, SocketPath, PipePath, SourceDies, Address,
      AddressDies, StartDies, SetupDone, Dies, Go, NextPeer, fill_headers, Asks, Waits, Start

LEMMA NextPlaceInv ==
  PlaceInv /\ CountInv /\ AskInv /\ [Next]_vars => PlaceInv'
<1> SUFFICES ASSUME PlaceInv, CountInv, AskInv, [Next]_vars PROVE PlaceInv'
  OBVIOUS
<1>0. Len(Peers) \in Nat /\ DOMAIN Peers = 1..Len(Peers) /\ cur \in Int
  BY PeerFacts DEF AskInv, CountInv
<1>a. Peers' = Peers
  BY WhoPlaces
<1>1. CASE Open
  <2>1. PICK w \in Words(cur) : block' = [block EXCEPT ![cur] = w]
    BY <1>1 DEF Open
  <2>2. w \in Blocks /\ w # NoBlock
    BY <2>1, WordsFacts DEF Blocks, NoBlock
  <2>3. /\ supPc = "session" /\ supPc' = "source" /\ cur \in DOMAIN Peers
        /\ Peers[cur].dir # "MAP" /\ UNCHANGED <<cur, started>>
    BY <1>1 DEF Open, Go
  <2>4. /\ block \in [DOMAIN Peers -> Blocks \cup {NoBlock}]
        /\ block' \in [DOMAIN Peers -> Blocks \cup {NoBlock}]
        /\ block'[cur] = w /\ \A s \in DOMAIN Peers : s # cur => block'[s] = block[s]
    BY <2>1, <2>2, <2>3 DEF PlaceInv
  <2>5. \A s \in DOMAIN Peers : s > cur => block'[s] = NoBlock
    BY <2>4, <2>3, <1>0 DEF PlaceInv
  <2>6. \A s \in DOMAIN Peers : block'[s] # NoBlock => Peers[s].dir # "MAP"
    BY <2>3, <2>4 DEF PlaceInv
  <2>7. Tapped' = Tapped
    BY <2>3 DEF Tapped
  <2>8. \A s \in Tapped : s \in DOMAIN Peers /\ block'[s] # NoBlock /\ Peers[s].source = "tap"
    BY <2>2, <2>4 DEF PlaceInv
  <2>9. QED
    BY <1>a, <2>2, <2>3, <2>4, <2>5, <2>6, <2>7, <2>8 DEF PlaceInv
<1>2. CASE ~Open
  <2>1. block' = block
    BY <1>2, WhoPlaces
  <2>2. \A s \in DOMAIN Peers : supPc' = "count" \/ s > cur' \/ (supPc' = "session" /\ s = cur')
                                   => block[s] = NoBlock
    <3>1. CASE Count \/ Allocate
      BY <1>0, <3>1 DEF Count, Allocate, PlaceInv
    <3>2. CASE MapPeer \/ Start \/ TapFails \/ SocketPath \/ PipePath
      <4>1. NextPeer
        BY <3>2 DEF MapPeer, Start, TapFails, SocketPath, PipePath
      <4>2. QED
        BY <1>0, <4>1 DEF NextPeer, PlaceInv
    <3>3. CASE ~(Count \/ Allocate \/ MapPeer \/ Start \/ TapFails \/ SocketPath \/ PipePath)
      <4>1. /\ cur' = cur
            /\ supPc' = "count" => supPc = "count"
            /\ supPc' = "session" => supPc = "session"
        BY <1>2, <3>3 DEF Next, enumerate_interfaces, vars, OpenDies, TapShared, TapReady, tuntap,
            TapNeeded, AtSource, SourceDies, Address, AddressDies, StartDies, SetupDone, Dies, Go,
            fill_headers, Asks, Waits
      <4>2. QED
        BY <4>1 DEF PlaceInv
    <3>4. QED
      BY <3>1, <3>2, <3>3
  <2>3. /\ supPc' \in {"source", "address", "headers", "arp"} => block[cur'] # NoBlock
        /\ \A s \in Tapped' : s \in DOMAIN Peers /\ block[s] # NoBlock /\ Peers[s].source = "tap"
    <3>1. CASE TapShared \/ tuntap
      <4>1. supPc = "source" /\ Peers[cur].source = "tap" /\ cur' = cur
        BY <3>1 DEF TapShared, tuntap, TapNeeded, AtSource, TapReady, Go
      <4>2. cur \in DOMAIN Peers /\ block[cur] # NoBlock
        BY <4>1 DEF AskInv, PlaceInv
      <4>3. QED
        BY <3>1, <4>1, <4>2, TappedGrows DEF PlaceInv
    <3>2. CASE ~(TapShared \/ tuntap)
      <4>1. supPc' \in {"source", "address", "headers", "arp"}
              => supPc \in {"source", "address", "headers", "arp"} /\ cur' = cur
        BY <1>2, <3>2 DEF Next, enumerate_interfaces, vars, Count, Allocate, MapPeer, OpenDies,
            TapFails, SocketPath, PipePath, SourceDies, Address, AddressDies, StartDies, SetupDone,
            Dies, Go, NextPeer, fill_headers, Asks, Waits, Start
      <4>2. QED
        BY <3>2, <4>1, TappedGrows DEF PlaceInv
    <3>3. QED
      BY <3>1, <3>2
  <2>4. QED
    BY <1>a, <2>1, <2>2, <2>3 DEF PlaceInv
<1>3. QED
  BY <1>1, <1>2

\* A non-empty set of earlier peers has a last one.
LEMMA LastIn ==
  ASSUME NEW n \in Nat, NEW S, S \subseteq 1..n-1, S # {}
  PROVE  Last(S) \in S
<1> DEFINE Back == {n - t : t \in S}
<1>1. Back \subseteq Nat /\ Back # {}
  OBVIOUS
<1>2. PICK x \in Back : \A y \in Back : ~(<<y, x>> \in OpToRel(<, Nat))
  BY <1>1, NatLessThanWellFounded, WFMin
<1>3. \A y \in Back : ~(y < x)
  BY <1>1, <1>2 DEF OpToRel
<1>4. PICK t \in S : x = n - t
  OBVIOUS
<1>5. \A u \in S : u <= t
  <2>1. TAKE u \in S
  <2>2. n - u \in Back /\ t \in Int /\ u \in Int
    OBVIOUS
  <2>3. ~(n - u < n - t)
    BY <1>3, <1>4, <2>2
  <2>4. QED
    BY <2>2, <2>3
<1>6. QED
  BY <1>5 DEF Last

\* The session that the searches find has the tap, with a descriptor, ...
LEMMA FoundHasTap ==
  ASSUME PlaceInv, AskInv, cur \in DOMAIN Peers, NEW t \in Found(cur)
  PROVE  /\ t \in DOMAIN Peers /\ block[t] \in Blocks
         /\ entry[block[t]].fd > 0 /\ entry[block[t]].tap = Peers[cur].tap
<1>0. Len(Peers) \in Nat /\ DOMAIN Peers = 1..Len(Peers)
  BY PeerFacts DEF AskInv
<1>1. \A d : Sharing(cur, d) \subseteq 1..cur-1
  BY DEF Sharing
<1>2. \A d : Sharing(cur, d) # {} => Last(Sharing(cur, d)) \in Sharing(cur, d)
  BY <1>0, <1>1, LastIn
<1>3. \E d : t \in Sharing(cur, d)
  BY <1>2 DEF Found
<1>4. PICK d : t \in Sharing(cur, d)
  BY <1>3
<1>5. t \in 1..cur-1 /\ block[t] # NoBlock /\ entry[block[t]].fd > 0
                     /\ entry[block[t]].tap = Peers[cur].tap
  BY <1>4 DEF Sharing
<1>6. QED
  BY <1>0, <1>5 DEF PlaceInv

\* ... and if they find none, no session that was set up before has it.
LEMMA NoneHasTap ==
  ASSUME PlaceInv, AskInv, cur \in DOMAIN Peers, Peers[cur].dir # "MAP", Found(cur) = {},
         NEW t \in 1..cur-1, block[t] # NoBlock, entry[block[t]].fd > 0
  PROVE  entry[block[t]].tap # Peers[cur].tap
<1>0. Len(Peers) \in Nat /\ DOMAIN Peers = 1..Len(Peers)
  BY PeerFacts DEF AskInv
<1>1. Peers[t].dir \in {"IN", "OUT"} /\ Peers[cur].dir \in {"IN", "OUT"}
  BY <1>0, PeerFacts DEF AskInv, PlaceInv
<1>2. Sharing(cur, "IN") = {} /\ Sharing(cur, "OUT") = {}
  BY <1>1 DEF Found
<1>3. QED
  BY <1>1, <1>2 DEF Sharing

\* What TapShared or tuntap writes into the block of the session: a positive
\* descriptor, which the blocks that name the tap already hold, if there are any.
LEMMA TapFilled ==
  ASSUME PlaceInv, CountInv, AskInv, EntryType, TapShared \/ tuntap
  PROVE  \E f \in Int :
           /\ TapReady(f) /\ f > 0
           /\ FdInv /\ Apart
                => \A b \in Blocks : entry[b].tap = Peers[cur].tap => entry[b].fd = f
<1>1. cur \in DOMAIN Peers /\ supPc = "source" /\ block[cur] \in Blocks /\ Peers[cur].dir # "MAP"
  BY DEF AskInv, PlaceInv, TapShared, tuntap, TapNeeded, AtSource
<1>0. Len(Peers) \in Nat /\ DOMAIN Peers = 1..Len(Peers) /\ Peers[cur].tap # NoTap
  BY PeerFacts, <1>1 DEF AskInv
<1>2. ASSUME FdInv, Apart, Found(cur) = {}, NEW b \in Blocks
      PROVE  entry[b].tap # Peers[cur].tap
  <2>1. SUFFICES ASSUME entry[b].tap = Peers[cur].tap PROVE FALSE
    OBVIOUS
  <2>2. entry[b].fd > 0 /\ \E s \in DOMAIN Peers : block[s] = b
    BY <1>0, <1>2, <2>1 DEF FdInv
  <2>3. PICK s \in DOMAIN Peers : block[s] = b
    BY <2>2
  <2>4. s # cur
    BY <1>0, <1>1, <1>2, <2>1, <2>3 DEF FdInv
  <2>5. block[s] # NoBlock
    BY <2>3 DEF Blocks, NoBlock
  <2>6. s \in 1..cur-1
    BY <1>0, <1>1, <2>4, <2>5 DEF PlaceInv
  <2>7. QED
    BY <1>1, <1>2, <2>1, <2>2, <2>3, <2>5, <2>6, NoneHasTap
<1>3. CASE TapShared /\ Found(cur) = {}
  <2>1. PICK f \in FdResidue : f > 0 /\ TapReady(f)
    BY <1>3 DEF TapShared
  <2>2. f \in Int
    BY FdAssumption
  <2>3. QED
    BY <1>2, <1>3, <2>1, <2>2
<1>4. CASE TapShared /\ Found(cur) # {}
  <2>1. PICK t \in Found(cur) : TapReady(entry[block[t]].fd)
    BY <1>4 DEF TapShared
  <2>2. block[t] \in Blocks /\ entry[block[t]].fd > 0 /\ entry[block[t]].tap = Peers[cur].tap
    BY <1>1, FoundHasTap
  <2>3. entry[block[t]].fd \in Int
    BY <2>2 DEF EntryType
  <2>4. ASSUME FdInv, Apart, NEW b \in Blocks, entry[b].tap = Peers[cur].tap
        PROVE  entry[b].fd = entry[block[t]].fd
    BY <1>0, <2>2, <2>4 DEF FdInv
  <2>5. QED
    BY <2>1, <2>2, <2>3, <2>4
<1>5. CASE tuntap
  <2>1. TapReady(NewFd(cur)) /\ Found(cur) = {}
    BY <1>5 DEF tuntap, TapNeeded
  <2>2. NewFd(cur) \in Int /\ NewFd(cur) > 0
    BY <1>0, <1>1 DEF NewFd
  <2>3. QED
    BY <1>2, <2>1, <2>2
<1>6. QED
  BY <1>3, <1>4, <1>5

\* Only these steps write into a block.
LEMMA WhoFills ==
  ASSUME [Next]_vars, ~(TapShared \/ tuntap \/ PipePath)
  PROVE  entry' = entry
  BY DEF Next, enumerate_interfaces, vars, sess, Count, Allocate, MapPeer, Open, OpenDies,
      TapFails, SocketPath, SourceDies, Address, AddressDies, StartDies, SetupDone, Dies,
      fill_headers, Asks, Waits, Start

LEMMA NextEntryType ==
  PlaceInv /\ CountInv /\ AskInv /\ EntryType /\ [Next]_vars => EntryType'
<1> SUFFICES ASSUME PlaceInv, CountInv, AskInv, EntryType, [Next]_vars PROVE EntryType'
  OBVIOUS
<1>1. CASE TapShared \/ tuntap
  <2>1. PICK f \in Int : TapReady(f)
    BY <1>1, TapFilled
  <2>2. entry' = [entry EXCEPT ![block[cur]] = [fd |-> f, tap |-> Peers[cur].tap]]
    BY <2>1 DEF TapReady, Fill
  <2>3. QED
    BY <2>2 DEF EntryType
<1>2. CASE PipePath
  <2>1. /\ entry' = [entry EXCEPT ![block[cur]] = [fd |-> NewFd(cur), tap |-> entry[block[cur]].tap]]
        /\ NewFd(cur) \in Int
    BY <1>2 DEF PipePath, Fill, NewFd, CountInv
  <2>2. QED
    BY <2>1 DEF EntryType
<1>3. CASE ~(TapShared \/ tuntap \/ PipePath)
  BY <1>3, WhoFills DEF EntryType
<1>4. QED
  BY <1>1, <1>2, <1>3

\* Steps that count leave no session set up, the others leave the counts: a
\* session that has memory of its own after a step had it before.
LEMMA ApartBefore ==
  ASSUME PlaceInv, [Next]_vars, Apart' PROVE Apart
<1>1. Peers' = Peers /\ (~Open => block' = block)
  BY WhoPlaces
<1>2. CASE Count
  BY <1>2 DEF Count, PlaceInv, Apart
<1>3. CASE ~Count
  <2>1. UNCHANGED <<txc, rxc, mpc>>
    BY <1>3 DEF Next, enumerate_interfaces, vars, counts, Allocate, MapPeer, Open, OpenDies,
        TapShared, TapReady, tuntap, TapFails, SocketPath, PipePath, SourceDies, Address,
        AddressDies, StartDies, SetupDone, Dies, fill_headers, Asks, Waits, Start
  <2>2. \A s \in DOMAIN Peers : block[s] # NoBlock => block'[s] = block[s]
    <3>1. CASE Open
      <4>1. PICK w \in Words(cur) : block' = [block EXCEPT ![cur] = w]
        BY <3>1 DEF Open
      <4>2. block[cur] = NoBlock
        BY <3>1 DEF Open, PlaceInv
      <4>3. QED
        BY <4>1, <4>2 DEF PlaceInv
    <3>2. QED
      BY <1>1, <3>1
  <2>3. ASSUME NEW s \in DOMAIN Peers, block[s] # NoBlock
        PROVE  Room(s) /\ \A t \in DOMAIN Peers : s # t => block[s] # block[t]
    <3>1. block'[s] = block[s] /\ block'[s] # NoBlock
      BY <2>2, <2>3
    <3>2. Room(s)' /\ \A t \in DOMAIN Peers : s # t => block'[s] # block'[t]
      BY <1>1, <3>1 DEF Apart
    <3>3. Room(s)
      BY <1>1, <2>1, <3>1, <3>2 DEF Room
    <3>4. ASSUME NEW t \in DOMAIN Peers, s # t, block[s] = block[t] PROVE FALSE
      BY <2>2, <2>3, <3>1, <3>2, <3>4
    <3>5. QED
      BY <3>3, <3>4
  <2>4. QED
    BY <2>3 DEF Apart
<1>4. QED
  BY <1>2, <1>3

LEMMA NextFdInv ==
  PlaceInv /\ CountInv /\ AskInv /\ EntryType /\ FdInv /\ [Next]_vars => FdInv'
<1> SUFFICES ASSUME PlaceInv, CountInv, AskInv, EntryType, FdInv, [Next]_vars, Apart'
             PROVE  /\ \A s \in Tapped' : entry'[block'[s]].tap = Peers'[s].tap
                    /\ \A b \in Blocks : entry'[b].tap # NoTap
                         => entry'[b].fd > 0 /\ \E s \in DOMAIN Peers' : block'[s] = b
                    /\ supPc' = "source" => entry'[block'[cur']].tap = NoTap
                    /\ \A b, c \in Blocks : entry'[b].tap # NoTap /\ entry'[b].tap = entry'[c].tap
                         => entry'[b].fd = entry'[c].fd
  BY DEF FdInv
<1>1. Peers' = Peers /\ Apart
  BY WhoPlaces, ApartBefore
<1>2. CASE Open
  <2>1. PICK w : block' = [block EXCEPT ![cur] = w]
    BY <1>2 DEF Open
  <2>2. /\ cur \in DOMAIN Peers /\ block[cur] = NoBlock /\ UNCHANGED <<entry, cur>>
        /\ Tapped' \subseteq Tapped /\ w \in Blocks
    <3>1. cur \in DOMAIN Peers /\ block[cur] = NoBlock /\ UNCHANGED <<entry, cur>>
      BY <1>2 DEF Open, Go, PlaceInv
    <3>2. ~(TapShared \/ tuntap)
      BY <1>2 DEF Open, TapShared, tuntap, TapNeeded, AtSource
    <3>3. block'[cur] \in Blocks
      BY <1>2, <3>1, WordsFacts DEF Open, PlaceInv
    <3>4. QED
      BY <2>1, <3>1, <3>2, <3>3, TappedGrows DEF PlaceInv
  <2>3. \A s \in DOMAIN Peers : s # cur => block'[s] = block[s]
    BY <2>1 DEF PlaceInv
  <2>4. block'[cur] = w /\ w # NoBlock
    BY <2>1, <2>2 DEF PlaceInv, Blocks, NoBlock
  <2>5. Apart
    BY <1>1
  <2>6. \A s \in DOMAIN Peers : block[s] # w
    <3>1. \A s \in DOMAIN Peers : s # cur => block'[cur] # block'[s]
      BY <1>1, <2>2, <2>4 DEF Apart
    <3>2. QED
      BY <2>2, <2>3, <2>4, <3>1
  <2>7. entry[w].tap = NoTap
    BY <2>2, <2>5, <2>6 DEF FdInv
  <2>8. \A s \in Tapped' : entry[block'[s]].tap = Peers[s].tap
    BY <2>2, <2>3, <2>5 DEF FdInv, PlaceInv
  <2>9. \A b \in Blocks : entry[b].tap # NoTap
          => entry[b].fd > 0 /\ \E s \in DOMAIN Peers : block'[s] = b
    <3>1. SUFFICES ASSUME NEW b \in Blocks, entry[b].tap # NoTap
                   PROVE  entry[b].fd > 0 /\ \E s \in DOMAIN Peers : block'[s] = b
      OBVIOUS
    <3>2. PICK s \in DOMAIN Peers : block[s] = b
      BY <2>5, <3>1 DEF FdInv
    <3>3. s # cur
      BY <2>2, <3>2 DEF Blocks, NoBlock
    <3>4. QED
      BY <2>3, <2>5, <3>1, <3>2, <3>3 DEF FdInv
  <2>10. QED
    BY <1>1, <2>2, <2>4, <2>5, <2>7, <2>8, <2>9 DEF FdInv
<1>3. CASE TapShared \/ tuntap
  <2>1. /\ supPc = "source" /\ cur \in DOMAIN Peers /\ block[cur] \in Blocks
        /\ block' = block /\ Apart /\ Peers[cur].tap # NoTap
    <3>1. supPc = "source" /\ cur \in DOMAIN Peers /\ block[cur] \in Blocks
      BY <1>3 DEF AskInv, PlaceInv, TapShared, tuntap, TapNeeded, AtSource
    <3>2. block' = block
      BY <1>3, <3>1, WhoPlaces DEF Open
    <3>3. QED
      BY <1>1, <3>1, <3>2, PeerFacts DEF AskInv
  <2>2. PICK f \in Int :
          /\ TapReady(f) /\ f > 0
          /\ \A b \in Blocks : entry[b].tap = Peers[cur].tap => entry[b].fd = f
    BY <1>3, <2>1, TapFilled
  <2>3. /\ entry' = [entry EXCEPT ![block[cur]] = [fd |-> f, tap |-> Peers[cur].tap]]
        /\ supPc' # "source"
    BY <2>2 DEF TapReady, Fill, Go
  <2>4. /\ entry'[block[cur]].fd = f /\ entry'[block[cur]].tap = Peers[cur].tap
        /\ \A b \in Blocks : b # block[cur] => entry'[b] = entry[b]
    BY <2>1, <2>3 DEF EntryType
  <2>5. ASSUME NEW s \in Tapped' PROVE entry'[block[s]].tap = Peers[s].tap
    <3>1. CASE s = cur
      BY <2>4, <3>1
    <3>2. CASE s # cur
      <4>1. s \in Tapped /\ s \in DOMAIN Peers /\ block[s] # NoBlock
        BY <1>3, <2>5, <3>2, TappedGrows DEF PlaceInv
      <4>2. block[s] # block[cur] /\ block[s] \in Blocks
        BY <2>1, <3>2, <4>1 DEF Apart, PlaceInv
      <4>3. QED
        BY <2>1, <2>4, <4>1, <4>2 DEF FdInv
    <3>3. QED
      BY <3>1, <3>2
  <2>6. \A b \in Blocks : entry'[b].tap # NoTap
          => entry'[b].fd > 0 /\ \E s \in DOMAIN Peers : block[s] = b
    BY <2>1, <2>2, <2>4 DEF FdInv
  <2>7. ASSUME NEW b \in Blocks, NEW c \in Blocks,
               entry'[b].tap # NoTap, entry'[b].tap = entry'[c].tap
        PROVE  entry'[b].fd = entry'[c].fd
    <3>1. CASE b = block[cur] \/ c = block[cur]
      BY <2>2, <2>4, <2>7, <3>1
    <3>2. CASE b # block[cur] /\ c # block[cur]
      BY <2>1, <2>4, <2>7, <3>2 DEF FdInv
    <3>3. QED
      BY <3>1, <3>2
  <2>8. QED
    BY <1>1, <2>1, <2>3, <2>5, <2>6, <2>7
<1>4. CASE PipePath
  <2>1. /\ supPc = "source" /\ supPc' = "session" /\ cur \in DOMAIN Peers
        /\ block[cur] \in Blocks /\ block' = block /\ Apart /\ Tapped' \subseteq Tapped
    <3>1. /\ supPc = "source" /\ supPc' = "session" /\ cur \in DOMAIN Peers
          /\ block[cur] \in Blocks /\ block' = block
      BY <1>4 DEF PipePath, AtSource, NextPeer, AskInv, PlaceInv
    <3>2. ~(TapShared \/ tuntap)
      BY <1>4 DEF PipePath, AtSource, TapShared, tuntap, TapNeeded
    <3>3. QED
      BY <1>1, <3>1, <3>2, TappedGrows
  <2>2. entry' = [entry EXCEPT ![block[cur]] = [fd |-> NewFd(cur), tap |-> entry[block[cur]].tap]]
    BY <1>4 DEF PipePath, Fill
  <2>3. /\ \A b \in Blocks : entry'[b].tap = entry[b].tap
        /\ \A b \in Blocks : b # block[cur] => entry'[b] = entry[b]
        /\ entry[block[cur]].tap = NoTap
    BY <2>1, <2>2 DEF EntryType, FdInv
  <2>4. \A s \in Tapped' : entry'[block[s]].tap = Peers[s].tap
    BY <2>1, <2>3 DEF FdInv, PlaceInv
  <2>5. \A b \in Blocks : entry'[b].tap # NoTap => b # block[cur]
    BY <2>3
  <2>6. QED
    BY <1>1, <2>1, <2>3, <2>4, <2>5 DEF FdInv
<1>5. CASE ~(Open \/ TapShared \/ tuntap \/ PipePath)
  <2>1. UNCHANGED <<block, entry>> /\ Apart /\ Tapped' \subseteq Tapped
    BY <1>1, <1>5, WhoPlaces, WhoFills, TappedGrows
  <2>2. supPc' = "source" => supPc = "source" /\ cur' = cur
    BY <1>5, TappedGrows
  <2>3. QED
    BY <1>1, <2>1, <2>2 DEF FdInv
<1>6. QED
  BY <1>2, <1>3, <1>4, <1>5

-----------------------------------------------------------------------------
\* The rest of the types: the program counter, and no address without a tap.
PcInv == /\ supPc \in {"count", "session", "source", "address", "headers", "arp", "done", "exited"}
         /\ ready \subseteq taps

LEMMA NextPcInv == PcInv /\ [Next]_vars => PcInv'
<1> SUFFICES ASSUME PcInv, [Next]_vars PROVE PcInv'
  OBVIOUS
<1> USE DEF PcInv
<1>1. CASE Count \/ Allocate \/ MapPeer \/ SetupDone \/ Open
  BY <1>1 DEF Count, Allocate, MapPeer, SetupDone, Open, NextPeer, Go, sess
<1>2. CASE OpenDies \/ SourceDies \/ AddressDies \/ StartDies
  BY <1>2 DEF OpenDies, SourceDies, AddressDies, StartDies, Dies, Go, sess
<1>3. CASE TapShared \/ tuntap
  BY <1>3 DEF TapShared, tuntap, TapReady, Go
<1>4. CASE TapFails \/ SocketPath \/ PipePath
  BY <1>4 DEF TapFails, SocketPath, PipePath, NextPeer, sess
<1>5. CASE Address \/ Start
  BY <1>5 DEF Address, Start, Go, NextPeer
<1>6. CASE fill_headers \/ Asks \/ Waits
  BY <1>6 DEF fill_headers, Asks, Waits, Go, sess
<1>7. CASE UNCHANGED vars
  BY <1>7 DEF vars, sess
<1>8. QED
  BY <1>1, <1>2, <1>3, <1>4, <1>5, <1>6, <1>7 DEF Next, enumerate_interfaces

\* All that is known of the sessions.
SetupInv == /\ AskInv /\ ArpTypeOK /\ ClockInv /\ PcInv
            /\ CountInv /\ PlaceInv /\ EntryType /\ FdInv

\* Nothing is counted, no block is given out and no tap is open.
LEMMA InitSetup == Init => SetupInv
<1> SUFFICES ASSUME Init PROVE SetupInv
  OBVIOUS
<1>0. Len(Peers) \in Nat /\ DOMAIN Peers = 1..Len(Peers)
  BY PeerFacts DEF Init
<1>1. AskInv
  BY InitInv
<1>2. ArpTypeOK /\ ClockInv
  <2>1. sentOk \in BOOLEAN
    BY DEF Init, Idle
  <2>2. frame \in Frames \cup {Request, [sip |-> ZeroIp, smac |-> ZeroMac]}
    BY DEF Init, Idle
  <2>3. now = 0 /\ clk = 0 /\ at = 0 /\ ret = 0 /\ signals = 0 /\ pc = "idle" /\ asking = ZeroIp
    BY DEF Init, Idle
  <2>4. ClockInv
    BY <2>3 DEF ClockInv
  <2>5. now \in 0..2 * MaxTime /\ clk \in 0..now /\ at \in 0..now
    BY <2>3
  <2>6. QED
    BY <2>1, <2>2, <2>3, <2>4, <2>5 DEF ArpTypeOK
<1>3. PcInv
  BY DEF Init, PcInv
<1>4. CountInv
  BY <1>0 DEF Init, CountInv
<1>5. PlaceInv
  BY DEF Init, PlaceInv, Tapped, NoBlock
<1>6. EntryType
  BY DEF Init, EntryType
<1>7. FdInv
  BY DEF Init, FdInv, Tapped
<1>8. QED
  BY <1>1, <1>2, <1>3, <1>4, <1>5, <1>6, <1>7 DEF SetupInv

LEMMA SetupInvAlways == Spec => []SetupInv
<1>1. SetupInv /\ [Next]_vars => SetupInv'
  BY NextAskInv, NextArpTypeOK, NextPcInv, NextCountInv, NextPlaceInv, NextEntryType, NextFdInv
     DEF SetupInv
<1>2. QED
  BY InitSetup, <1>1, PTL DEF Spec

\* Every variable has its type: no counter, clock or index of the set-up leaves
\* its range, and no tap has an address before it exists.
THEOREM TypeCorrect == Spec => []TypeOK
<1>1. SetupInv => TypeOK
  BY DEF SetupInv, TypeOK, AskInv, PcInv, CountInv, PlaceInv, EntryType
<1>2. QED
  BY <1>1, SetupInvAlways, PTL

\* As long as every session has memory of its own, the sessions of a tap share
\* one descriptor, whatever fd held when no earlier session was found.
THEOREM OneFdPerTap == Spec => []SameTapSameFd
<1>1. SetupInv => SameTapSameFd
  <2> SUFFICES ASSUME SetupInv, Apart, NEW s \in started, NEW t \in started,
                      Peers[s].tap = Peers[t].tap
               PROVE  entry[block[s]].fd = entry[block[t]].fd
    BY DEF SameTapSameFd
  <2>1. s \in Tapped /\ t \in Tapped
    BY DEF Tapped
  <2>2. /\ s \in DOMAIN Peers /\ t \in DOMAIN Peers
        /\ block[s] \in Blocks /\ block[t] \in Blocks
    BY <2>1 DEF SetupInv, PlaceInv
  <2>3. Peers[s].tap # NoTap
    BY <2>2, PeerFacts DEF SetupInv, AskInv
  <2>4. entry[block[s]].tap = Peers[s].tap /\ entry[block[t]].tap = Peers[s].tap
    BY <2>1 DEF SetupInv, FdInv
  <2>5. QED
    BY <2>2, <2>3, <2>4 DEF SetupInv, FdInv
<1>2. QED
  BY <1>1, SetupInvAlways, PTL

=============================================================================
