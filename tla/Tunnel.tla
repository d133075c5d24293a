------------------------------- MODULE Tunnel -------------------------------
(***************************************************************************)
(* One lane from end to end: tx_io and tx of host A, the wire, rx_io and   *)
(* rx of host B.  A frame is read from A's tap, put behind 34 bytes of     *)
(* headers, sent, received, stripped of 34 bytes and written to B's tap.   *)
(* The ring of each host is the queue of FrameQueue (module RingQueue      *)
(* shows that it implements it, up to a reset), one per host as in         *)
(* sample.yaml; the question here is what becomes of a frame, its sender   *)
(* and its length across both of them.                                     *)
(***************************************************************************)
EXTENDS Integers, Sequences, SequencesExt

CONSTANTS
    rsz,            \* slots of a ring
    Mtus,           \* what SIOCGIFMTU may say of the interfaces of A and B
    Sizes,          \* lengths of the frames on A's tap
    Foreign,        \* lengths of other frames on the wire
    MinWire,        \* the length to which the wire pads a frame
    MaxFrames, MaxForeign   \* bounds on both kinds of frames

ETHIP4 == 34        \* ETH_HDRLEN + IP4_HDRLEN
MinFrame == 14
AddrEnd == 30       \* where saddr ends: ETH_HDRLEN + 16

\* An Ethernet interface has an MTU of at least 68, and pads to 60.
ASSUME MtuAssumption == /\ Mtus \subseteq Nat
                        /\ \A m \in Mtus : m > ETHIP4 + MinFrame /\ m >= MinWire
ASSUME FrameAssumption == /\ Sizes \subseteq Nat /\ Foreign \subseteq Nat \ {0}
                          /\ MinWire \in Nat /\ MaxFrames \in Nat /\ MaxForeign \in Nat
                          /\ rsz \in Nat

VARIABLES
    mtuA, mtuB,     \* txs->mtu of A, rxs->mtu of B
    tap,            \* the frames A's tap has given so far: their lengths
    txLen,          \* data->len of A's n-th read
    txWaiting, txDone,      \* A's ring
    wire,           \* the packets under way: records [num, ofA, len], where num
                    \* is 0 if they are not of the lane
    foreign,        \* how many of those there were
    rxBuf,          \* what B's n-th read left in its slot: records
                    \* [num, ofA, len, again], len after the strip, again how
                    \* often it was stripped once more
    rxWaiting, rxDone,      \* B's ring
    out             \* the frames written to B's tap

txRing == <<txWaiting, txDone>>
rxRing == <<rxWaiting, rxDone>>
A == <<tap, txLen, txRing>>
B == <<rxBuf, rxRing, out>>
vars == <<mtuA, mtuB, A, wire, foreign, B>>

Tx == INSTANCE FrameQueue WITH
        Capacity <- rsz, Frames <- 1..MaxFrames, waiting <- txWaiting, delivered <- txDone
Rx == INSTANCE FrameQueue WITH
        Capacity <- rsz, Frames <- 1..MaxFrames + MaxForeign,
        waiting <- rxWaiting, delivered <- rxDone

Smaller(a, b) == IF a < b THEN a ELSE b
Larger(a, b) == IF a > b THEN a ELSE b

Init == /\ mtuA \in Mtus /\ mtuB \in Mtus
        /\ tap = <<>> /\ txLen = <<>> /\ Tx!Empty
        /\ wire = <<>> /\ foreign = 0
        /\ rxBuf = <<>> /\ Rx!Empty /\ out = <<>>

-----------------------------------------------------------------------------
(* Host A.                                                                  *)

\* read(h->fd, data->data, h->mtu - hdr_sz) in tx_io.
TapBytes(l) == Smaller(l, mtuA - ETHIP4)

\* Fault: the length is not looked at.
SendableAny(l) == TRUE

\* A worker sends nothing else: a shorter frame does not wait (see
\* RingQueue!Waiting).
Sendable(l) == l > MinFrame

tx_io == /\ Len(tap) < MaxFrames
         /\ \E l \in Sizes :
              /\ tap' = Append(tap, l)
              /\ txLen' = Append(txLen, TapBytes(l))
              /\ IF Sendable(TapBytes(l)) THEN Tx!Accept(Len(tap')) ELSE UNCHANGED txRing
         /\ UNCHANGED <<mtuA, mtuB, wire, foreign, B>>

\* Fault: sendto() is given the length of the payload only.
TxBytesBare(f) == Larger(txLen[f], MinWire)

\* sendto(af, ethernet_frame, data->len + 34), padded on the wire.
TxBytes(f) == Larger(txLen[f] + ETHIP4, MinWire)

\* An error of sendto() is only reported.
tx == /\ \E f \in txWaiting :
           /\ Tx!Deliver(f)
           /\ wire' \in {wire, Append(wire, [num |-> f, ofA |-> TRUE, len |-> TxBytes(f)])}
      /\ UNCHANGED <<mtuA, mtuB, tap, txLen, foreign, B>>

\* push grants the I/O thread a slot whose frame still waits, and it is read over.
TxRingLoses == /\ Tx!Lose /\ txWaiting' # txWaiting
               /\ UNCHANGED <<mtuA, mtuB, tap, txLen, wire, foreign, B>>

-----------------------------------------------------------------------------
(* The wire keeps the order and loses frames; B's raw socket, which is not  *)
(* bound to an interface, also sees frames that are not of this lane, those *)
(* of other programs on A's host among them.                                *)

WireForeign == /\ foreign < MaxForeign /\ foreign' = foreign + 1
               /\ \E l \in Foreign, a \in BOOLEAN :
                    wire' = Append(wire, [num |-> 0, ofA |-> a, len |-> l])
               /\ UNCHANGED <<mtuA, mtuB, A, B>>

WireLoses == /\ \E i \in 1..Len(wire) : wire' = RemoveAt(wire, i)
             /\ UNCHANGED <<mtuA, mtuB, A, foreign, B>>

-----------------------------------------------------------------------------
(* Host B.                                                                  *)

\* read(af, data->ethernet_frame, h->mtu) in rx_io.
RxBytes(p) == Smaller(p.len, mtuB)

\* Fault: the sender is not looked at.
MayPassAny(p) == {TRUE}

\* Can the test saddr == peer_ip succeed?  If the frame does not reach saddr,
\* the slot still has that of the frame before it, whoever sent that.
MayPass(p) == IF RxBytes(p) >= AddrEnd THEN {p.ofA} ELSE {TRUE, FALSE}

\* Fault: the headers are not counted off.
StripNot(l) == l

\* data->len -= ETHIP4
Strip(l) == l - ETHIP4

\* One turn of the loop of rx_io: a frame of another sender is overwritten by
\* the next one.
rx_io == /\ wire # <<>> /\ wire' = Tail(wire)
         /\ LET p == Head(wire) IN
              /\ rxBuf' = Append(rxBuf, [num |-> p.num, ofA |-> p.ofA,
                                         len |-> Strip(RxBytes(p)), again |-> 0])
              /\ \E passes \in MayPass(p) :
                   IF passes /\ Sendable(Strip(RxBytes(p))) THEN Rx!Accept(Len(rxBuf'))
                                                  ELSE UNCHANGED rxRing
         /\ UNCHANGED <<mtuA, mtuB, A, foreign, out>>

\* The same when push has granted a slot whose frame f still waits and poll()
\* comes back without POLLIN (interrupted by a signal, or on a hang-up): length
\* and sender are those of f, which pass, and f is stripped once more.
rx_io_again == /\ \E f \in rxWaiting :
                    /\ rxBuf' = [rxBuf EXCEPT ![f].len = Strip(@), ![f].again = @ + 1]
                    /\ IF Sendable(rxBuf'[f].len) THEN UNCHANGED rxRing ELSE Rx!Drop(f)
               /\ UNCHANGED <<mtuA, mtuB, A, wire, foreign, out>>

\* An error of write() is only reported.
rx == /\ \E f \in rxWaiting : Rx!Deliver(f) /\ out' \in {out, Append(out, rxBuf[f])}
      /\ UNCHANGED <<mtuA, mtuB, A, wire, foreign, rxBuf>>

RxRingLoses == /\ Rx!Lose /\ rxWaiting' # rxWaiting
               /\ UNCHANGED <<mtuA, mtuB, A, wire, foreign, rxBuf, out>>

Next == \/ tx_io \/ tx \/ TxRingLoses
        \/ WireForeign \/ WireLoses
        \/ rx_io \/ rx_io_again \/ rx \/ RxRingLoses

Spec == Init /\ [][Next]_vars

-----------------------------------------------------------------------------
\* The values that the variables range over.
TypeOK ==
    /\ mtuA \in Mtus /\ mtuB \in Mtus
    /\ tap \in Seq(Sizes) /\ txLen \in Seq(Nat) /\ Len(txLen) = Len(tap)
    /\ txWaiting \subseteq 1..MaxFrames /\ txDone \in Seq(1..MaxFrames)
    /\ wire \in Seq([num : 0..MaxFrames, ofA : BOOLEAN, len : Nat]) /\ foreign \in 0..MaxForeign
    /\ rxBuf \in Seq([num : 0..MaxFrames, ofA : BOOLEAN, len : Int, again : Nat])
    /\ rxWaiting \subseteq 1..MaxFrames+MaxForeign /\ rxDone \in Seq(1..MaxFrames+MaxForeign)
    /\ out \in Seq([num : 0..MaxFrames, ofA : BOOLEAN, len : Nat, again : Nat])

\* Where the frames of A's tap are among those written to B's tap.
Lane == {i \in 1..Len(out) : out[i].num # 0}

\* Nothing but what A's host sent is written to B's tap, although a frame that
\* is too short to carry a sender passes as the peer's if the slot still holds
\* the address of one.
OnlyFromPeer == \A i \in 1..Len(out) : out[i].ofA

\* A frame of A's tap comes out at most once, and nothing else passes for one,
\* through two rings and a wire that all lose frames.
AtMostOnce == \A i, j \in Lane :
    out[i].num \in 1..Len(tap) /\ (i # j => out[i].num # out[j].num)

\* A frame arrives whole if it fits behind the headers at both ends, and is
\* otherwise cut exactly where the smaller MTU cuts it; only the padding of
\* the wire makes a frame longer, and never past the shortest packet.  From
\* then on it loses 34 bytes each time that rx_io strips it again, and nothing
\* else.
Intact == \A i \in Lane :
    LET l == tap[out[i].num]
        fits == Smaller(mtuA, mtuB) - ETHIP4
        arrived == out[i].len + ETHIP4 * out[i].again
    IN  \/ arrived = Smaller(l, fits)
        \/ l < arrived /\ arrived = Smaller(MinWire - ETHIP4, fits)

-----------------------------------------------------------------------------
(* The lane implements LossyLane.                                           *)

\* The MTU of B bounds what other programs of A's host get through.
Promise == INSTANCE LossyLane WITH
             Lengths <- Sizes, Strays <- UNION {1..m : m \in Mtus}, Padded <- MinWire - ETHIP4,
             Header <- ETHIP4,
             offered <- tap, brought <- out, room <- Smaller(mtuA, mtuB) - ETHIP4

\* From tap to tap, tx_io, tx, the wire, rx_io and rx are one lossy lane: every
\* step takes a frame in, brings out one that is not out yet, at its length or
\* one that an MTU, the padding or a repeated stripping explains, or shows at
\* neither tap.
ImplementsLane == Promise!Lossy
=============================================================================
