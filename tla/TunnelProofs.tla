---------------------------- MODULE TunnelProofs ----------------------------
(***************************************************************************)
(* The lane from A's tap to B's tap, for every MTU and frame length, every *)
(* number of frames and every ring size, with any losses in the two rings  *)
(* and on the wire.                                                        *)
(*                                                                         *)
(* A frame is in one of five places on its way: A's ring, the wire, B's    *)
(* slots, B's ring and B's tap.  It is in each at most once, and in none   *)
(* of those behind the one it has reached.  Length and sender are carried  *)
(* from place to place, each in terms of what A's tap gave.                *)
(***************************************************************************)
EXTENDS Tunnel, SequenceTheorems, TLAPS

\* Every frame of the lane is in s at most once.
Distinct(s) == \A i, j \in 1..Len(s) : i < j /\ s[i].num # 0 /\ s[j].num # 0 => s[i].num # s[j].num

\* Frame n of the lane is not in s.
Lacks(s, n) == \A i \in 1..Len(s) : s[i].num # 0 => s[i].num # n

\* No frame of the lane is in both.
Apart(s, t) == \A j \in 1..Len(t) : t[j].num # 0 => Lacks(s, t[j].num)

\* A frame of the lane on the wire, and one in a slot or on the tap of B.
Sent(p) == p.num # 0 => p.num \in 1..Len(tap) /\ p.ofA /\ p.len = TxBytes(p.num)
Received(p) == p.num # 0 =>
    /\ p.num \in 1..Len(tap) /\ p.ofA
    /\ p.len + ETHIP4 * p.again = Smaller(TxBytes(p.num), mtuB) - ETHIP4

\* What each place holds, and from whom.
PlacesInv ==
    /\ \A n \in 1..Len(tap) : txLen[n] = TapBytes(tap[n])
    /\ txWaiting \subseteq 1..Len(tap)
    /\ \A i \in 1..Len(wire) : Sent(wire[i])
    /\ \A i \in 1..Len(rxBuf) : Received(rxBuf[i])
    /\ \A f \in rxWaiting : f \in 1..Len(rxBuf) /\ rxBuf[f].ofA /\ rxBuf[f].len > MinFrame
    /\ \A i \in 1..Len(out) : Received(out[i]) /\ out[i].ofA

\* Each frame is in one place, and there once.
OnceInv ==
    /\ Distinct(wire) /\ Distinct(rxBuf) /\ Distinct(out)
    /\ Apart(rxBuf, wire) /\ Apart(out, wire)
    /\ \A f \in txWaiting : Lacks(wire, f) /\ Lacks(rxBuf, f) /\ Lacks(out, f)
    /\ \A f \in rxWaiting : rxBuf[f].num # 0 => Lacks(out, rxBuf[f].num)
-----------------------------------------------------------------------------
(* Sequences: one element more, or some elements fewer.                     *)

\* t is s without some of its elements, in the order they have in s.
Thins(s, t) ==
    /\ \A k \in 1..Len(t) : \E m \in 1..Len(s) : t[k] = s[m]
    /\ \A k, l \in 1..Len(t) : k < l => \E m, n \in 1..Len(s) : m < n /\ t[k] = s[m] /\ t[l] = s[n]

\* What Append does.
LEMMA AppendFacts ==
  ASSUME NEW T, NEW s \in Seq(T), NEW e \in T
  PROVE  /\ Append(s, e) \in Seq(T)
         /\ Len(s) \in Nat /\ Len(Append(s, e)) = Len(s) + 1
         /\ \A i \in 1..Len(s) : Append(s, e)[i] = s[i]
         /\ Append(s, e)[Len(s) + 1] = e
  BY AppendProperties, LenProperties

\* A place to which a frame comes.
LEMMA AppendOnce ==
  ASSUME NEW T, NEW s \in Seq(T), NEW e \in T
  PROVE  /\ Distinct(s) /\ (e.num # 0 => Lacks(s, e.num)) => Distinct(Append(s, e))
         /\ \A n : Lacks(s, n) /\ (e.num # 0 => e.num # n) => Lacks(Append(s, e), n)
         /\ \A r : Apart(r, s) /\ (e.num # 0 => Lacks(r, e.num)) => Apart(r, Append(s, e))
<1> DEFINE a == Append(s, e)
<1>1. /\ Len(s) \in Nat /\ Len(a) = Len(s) + 1
      /\ \A i \in 1..Len(s) : a[i] = s[i]
      /\ a[Len(s) + 1] = e
  BY AppendFacts
<1> HIDE DEF a
<1>2. \A i \in 1..Len(a) : (i \in 1..Len(s) /\ a[i] = s[i]) \/ (i = Len(s) + 1 /\ a[i] = e)
  BY <1>1
<1>3. Distinct(s) /\ (e.num # 0 => Lacks(s, e.num)) => Distinct(a)
  BY <1>1, <1>2 DEF Distinct, Lacks
<1>4. \A n : Lacks(s, n) /\ (e.num # 0 => e.num # n) => Lacks(a, n)
  BY <1>2 DEF Lacks
<1>5. \A r : Apart(r, s) /\ (e.num # 0 => Lacks(r, e.num)) => Apart(r, a)
  BY <1>2 DEF Apart
<1>6. QED
  BY <1>3, <1>4, <1>5 DEF a

\* A place from which a frame is lost or taken.
LEMMA ThinOnce ==
  ASSUME NEW s, NEW t, Thins(s, t)
  PROVE  /\ Distinct(s) => Distinct(t)
         /\ \A n : Lacks(s, n) => Lacks(t, n)
         /\ \A r : Apart(r, s) => Apart(r, t)
<1>1. Distinct(s) => Distinct(t)
  BY DEF Thins, Distinct
<1>2. \A n : Lacks(s, n) => Lacks(t, n)
  BY DEF Thins, Lacks
<1>3. \A r : Apart(r, s) => Apart(r, t)
  BY DEF Thins, Apart
<1>4. QED
  BY <1>1, <1>2, <1>3

\* What Tail does.
LEMMA TailFacts ==
  ASSUME NEW T, NEW s \in Seq(T), s # <<>>
  PROVE  /\ Tail(s) \in Seq(T) /\ Thins(s, Tail(s))
         /\ 1 \in 1..Len(s) /\ Head(s) = s[1] /\ s[1] \in T
         /\ \A k \in 1..Len(Tail(s)) : \E m \in 1..Len(s) : 1 < m /\ Tail(s)[k] = s[m]
<1> DEFINE t == Tail(s)
<1>1. /\ t \in Seq(T) /\ Len(s) \in Nat \ {0} /\ Len(t) = Len(s) - 1
      /\ \A k \in 1..Len(t) : t[k] = s[k + 1]
  BY HeadTailProperties, EmptySeq, LenProperties
<1> HIDE DEF t
<1>2. Head(s) = s[1] /\ s[1] \in T
  BY <1>1, ElementOfSeq
<1>3. \A k \in 1..Len(t) : k + 1 \in 1..Len(s) /\ 1 < k + 1 /\ t[k] = s[k + 1]
  BY <1>1
<1>4. \A k, l \in 1..Len(t) : k < l => k + 1 < l + 1
  BY <1>1
<1>5. Thins(s, t)
  BY <1>3, <1>4 DEF Thins
<1>6. QED
  BY <1>1, <1>2, <1>3, <1>5 DEF t

\* What RemoveAt does.
LEMMA RemoveFacts ==
  ASSUME NEW T, NEW s \in Seq(T), NEW i \in 1..Len(s)
  PROVE  RemoveAt(s, i) \in Seq(T) /\ Thins(s, RemoveAt(s, i))
<1> DEFINE a == SubSeq(s, 1, i - 1)
           b == SubSeq(s, i + 1, Len(s))
           t == RemoveAt(s, i)
           at(k) == IF k < i THEN k ELSE k + 1
<1>1. Len(s) \in Nat /\ i \in Nat /\ \A k \in 1..Len(s) : s[k] \in T
  BY ElementOfSeq, LenProperties
<1>2. a \in Seq(T) /\ Len(a) = i - 1 /\ \A k \in 1..i - 1 : a[k] = s[k]
  <2>1. \A k \in 1..i - 1 : s[k] \in T
    BY <1>1
  <2>2. /\ a \in Seq(T) /\ Len(a) = IF 1 <= i - 1 THEN (i - 1) - 1 + 1 ELSE 0
        /\ \A k \in 1..(i - 1) - 1 + 1 : a[k] = s[1 + k - 1]
    BY <1>1, <2>1, SubSeqProperties
  <2> HIDE DEF a
  <2>3. QED
    BY <1>1, <2>2
<1>3. b \in Seq(T) /\ Len(b) = Len(s) - i /\ \A k \in 1..Len(s) - i : b[k] = s[i + k]
  <2>1. \A k \in i + 1..Len(s) : s[k] \in T
    BY <1>1
  <2>2. /\ b \in Seq(T) /\ Len(b) = IF i + 1 <= Len(s) THEN Len(s) - (i + 1) + 1 ELSE 0
        /\ \A k \in 1..Len(s) - (i + 1) + 1 : b[k] = s[(i + 1) + k - 1]
    BY <1>1, <2>1, SubSeqProperties
  <2> HIDE DEF b
  <2>3. QED
    BY <1>1, <2>2
<1>4. /\ t \in Seq(T) /\ Len(t) = Len(a) + Len(b)
      /\ \A k \in 1..Len(a) + Len(b) : t[k] = IF k <= Len(a) THEN a[k] ELSE b[k - Len(a)]
  BY <1>2, <1>3, ConcatProperties DEF RemoveAt
<1> HIDE DEF a, b, t
<1>5. \A k \in 1..Len(t) : at(k) \in 1..Len(s) /\ t[k] = s[at(k)]
  <2> TAKE k \in 1..Len(t)
  <2>1. CASE k < i
    BY <1>1, <1>2, <1>3, <1>4, <2>1
  <2>2. CASE ~(k < i)
    <3>1. k - Len(a) \in 1..Len(s) - i /\ t[k] = b[k - Len(a)]
      BY <1>1, <1>2, <1>3, <1>4, <2>2
    <3>2. b[k - Len(a)] = s[i + (k - Len(a))]
      BY <1>3, <3>1
    <3>3. i + (k - Len(a)) = k + 1
      BY <1>1, <1>2
    <3>4. QED
      BY <1>1, <1>2, <2>2, <3>1, <3>2, <3>3
  <2>3. QED
    BY <2>1, <2>2
<1>6. \A k, l \in 1..Len(t) : k < l => at(k) < at(l)
  BY <1>1, <1>2, <1>3, <1>4
<1> HIDE DEF at
<1>7. Thins(s, t)
  BY <1>5, <1>6 DEF Thins
<1>8. QED
  BY <1>4, <1>7 DEF t
-----------------------------------------------------------------------------
\* What is on the wire, what B's slots hold, and what is written to B's tap.
Packet == [num : 0..MaxFrames, ofA : BOOLEAN, len : Nat]
Slot == [num : 0..MaxFrames, ofA : BOOLEAN, len : Int, again : Nat]
Written == [num : 0..MaxFrames, ofA : BOOLEAN, len : Nat, again : Nat]

USE MtuAssumption, FrameAssumption

\* The numbers that the steps compute.
LEMMA Lengths ==
  ASSUME TypeOK
  PROVE  /\ mtuA \in Nat /\ mtuB \in Nat /\ mtuA > 48 /\ mtuB > 48
         /\ \A l \in Sizes : TapBytes(l) \in Nat
         /\ \A n \in 1..Len(tap) : tap[n] \in Sizes /\ txLen[n] \in Nat /\ TxBytes(n) \in Nat
         /\ \A p \in Packet : /\ RxBytes(p) \in Nat /\ Strip(RxBytes(p)) \in Int
                              /\ [num |-> p.num, ofA |-> p.ofA, len |-> Strip(RxBytes(p)), again |-> 0] \in Slot
<1>1. mtuA \in Nat /\ mtuB \in Nat /\ mtuA > 48 /\ mtuB > 48
  BY DEF TypeOK, ETHIP4, MinFrame
<1>2. \A l \in Sizes : TapBytes(l) \in Nat
  BY <1>1 DEF TapBytes, Smaller, ETHIP4
<1>3. \A n \in 1..Len(tap) : tap[n] \in Sizes /\ txLen[n] \in Nat
  BY ElementOfSeq DEF TypeOK
<1>4. \A n \in 1..Len(tap) : TxBytes(n) \in Nat
  BY <1>3 DEF TxBytes, Larger, ETHIP4
<1>5. \A p \in Packet : RxBytes(p) \in Nat /\ Strip(RxBytes(p)) \in Int
  BY <1>1 DEF Packet, RxBytes, Strip, Smaller, ETHIP4
<1>6. \A p \in Packet : [num |-> p.num, ofA |-> p.ofA, len |-> Strip(RxBytes(p)), again |-> 0] \in Slot
  BY <1>5 DEF Packet, Slot
<1>7. QED
  BY <1>1, <1>2, <1>3, <1>4, <1>5, <1>6

\* A frame that B queues reached the sender's address: it is the peer's.
LEMMA QueuedIsOfA ==
  ASSUME TypeOK, NEW p \in Packet, NEW passes \in MayPass(p), passes, Sendable(Strip(RxBytes(p)))
  PROVE  p.ofA
<1>1. RxBytes(p) \in Nat /\ RxBytes(p) - ETHIP4 > MinFrame
  BY Lengths DEF Sendable, Strip
<1>2. RxBytes(p) >= AddrEnd
  BY <1>1 DEF AddrEnd, ETHIP4, MinFrame
<1>3. QED
  BY <1>2, Zenon DEF MayPass

\* What a repeated stripping does to the slot of f, and to nothing else.
LEMMA AgainFacts ==
  ASSUME TypeOK, PlacesInv, rx_io_again
  PROVE  /\ rxBuf' \in Seq(Slot) /\ Len(rxBuf') = Len(rxBuf)
         /\ \A i \in 1..Len(rxBuf) :
              /\ rxBuf'[i].num = rxBuf[i].num /\ rxBuf'[i].ofA = rxBuf[i].ofA
              /\ rxBuf'[i].len + ETHIP4 * rxBuf'[i].again = rxBuf[i].len + ETHIP4 * rxBuf[i].again
         /\ \A g \in rxWaiting' : g \in rxWaiting /\ rxBuf'[g].len > MinFrame
         /\ UNCHANGED <<mtuA, mtuB, A, wire, foreign, rxDone, out>>
<1>1. PICK f \in rxWaiting :
         /\ rxBuf' = [rxBuf EXCEPT ![f].len = Strip(@), ![f].again = @ + 1]
         /\ IF Sendable(rxBuf'[f].len) THEN UNCHANGED rxRing ELSE Rx!Drop(f)
  BY DEF rx_io_again
<1>2. /\ rxBuf \in Seq(Slot) /\ Len(rxBuf) \in Nat /\ f \in 1..Len(rxBuf)
      /\ rxBuf[f] \in Slot /\ rxBuf \in [1..Len(rxBuf) -> Slot]
  <2>1. rxBuf \in Seq(Slot) /\ f \in 1..Len(rxBuf)
    BY DEF TypeOK, PlacesInv, Slot
  <2>2. QED
    BY <2>1, LenProperties, ElementOfSeq
<1> DEFINE r == rxBuf[f]
           e == [r EXCEPT !.len = Strip(@), !.again = @ + 1]
<1>3. /\ e \in Slot /\ e.num = rxBuf[f].num /\ e.ofA = rxBuf[f].ofA
      /\ e.len = rxBuf[f].len - 34 /\ e.again = rxBuf[f].again + 1
  <2>1. r \in [num : 0..MaxFrames, ofA : BOOLEAN, len : Int, again : Nat]
    BY <1>2 DEF Slot
  <2> HIDE DEF r
  <2>2. r.len - 34 \in Int /\ r.again + 1 \in Nat
    BY <2>1
  <2>3. e = [r EXCEPT !.len = r.len - 34, !.again = r.again + 1]
    BY DEF Strip, ETHIP4
  <2> HIDE DEF e
  <2>4. QED
    BY <2>1, <2>2, <2>3 DEF r, Slot
<1>4. rxBuf' = [rxBuf EXCEPT ![f] = e]
  BY <1>1, <1>2
<1> HIDE DEF e
<1>5. /\ rxBuf' \in Seq(Slot) /\ Len(rxBuf') = Len(rxBuf)
      /\ \A i \in 1..Len(rxBuf) : rxBuf'[i] = IF i = f THEN e ELSE rxBuf[i]
  BY <1>2, <1>3, <1>4, ExceptSeq
<1>6. \A i \in 1..Len(rxBuf) :
         /\ rxBuf'[i].num = rxBuf[i].num /\ rxBuf'[i].ofA = rxBuf[i].ofA
         /\ rxBuf'[i].len + ETHIP4 * rxBuf'[i].again = rxBuf[i].len + ETHIP4 * rxBuf[i].again
  <2> TAKE i \in 1..Len(rxBuf)
  <2>1. CASE i # f
    BY <1>5, <2>1
  <2>2. CASE i = f
    <3>1. rxBuf'[i] = e
      BY <1>5, <2>2
    <3>2. \A l \in Int, a \in Nat : (l - 34) + 34 * (a + 1) = l + 34 * a
      OBVIOUS
    <3>3. e.len + 34 * e.again = rxBuf[f].len + 34 * rxBuf[f].again
      BY <1>2, <1>3, <3>2 DEF Slot
    <3>4. QED
      BY <1>3, <2>2, <3>1, <3>3 DEF ETHIP4
  <2>3. QED
    BY <2>1, <2>2
<1>7. \A g \in rxWaiting' : g \in rxWaiting /\ rxBuf'[g].len > MinFrame
  <2> TAKE g \in rxWaiting'
  <2>1. g \in rxWaiting /\ (g = f => Sendable(rxBuf'[f].len))
    BY <1>1 DEF rxRing, Rx!Drop
  <2>2. CASE g = f
    BY <2>1, <2>2 DEF Sendable
  <2>3. CASE g # f
    BY <1>5, <2>1, <2>3 DEF PlacesInv
  <2>4. QED
    BY <2>1, <2>2, <2>3
<1>8. UNCHANGED <<mtuA, mtuB, A, wire, foreign, rxDone, out>>
  BY <1>1 DEF rx_io_again, rxRing, Rx!Drop
<1>9. QED
  BY <1>5, <1>6, <1>7, <1>8

\* Nothing has been read.
LEMMA InitInv == Init => TypeOK /\ PlacesInv /\ OnceInv
<1> SUFFICES ASSUME Init PROVE TypeOK /\ PlacesInv /\ OnceInv
  OBVIOUS
<1> USE DEF Init, Tx!Empty, Rx!Empty
<1>1. TypeOK
  BY EmptySeq DEF TypeOK
<1>2. PlacesInv
  BY EmptySeq DEF PlacesInv
<1>3. OnceInv
  BY EmptySeq DEF OnceInv, Distinct, Apart
<1>4. QED
  BY <1>1, <1>2, <1>3

\* The variables keep their types.
LEMMA NextTypeOK == TypeOK /\ PlacesInv /\ [Next]_vars => TypeOK'
<1> SUFFICES ASSUME TypeOK, PlacesInv, [Next]_vars PROVE TypeOK'
  OBVIOUS
<1> USE DEF A, B, txRing, rxRing
<1>0. wire \in Seq(Packet) /\ rxBuf \in Seq(Slot) /\ Len(tap) \in Nat /\ Len(rxBuf) \in Nat
  BY LenProperties DEF TypeOK, Packet, Slot
<1>1. CASE tx_io
  <2> PICK l \in Sizes : /\ tap' = Append(tap, l)
                         /\ txLen' = Append(txLen, TapBytes(l))
                         /\ IF Sendable(TapBytes(l)) THEN Tx!Accept(Len(tap')) ELSE UNCHANGED txRing
    BY <1>1 DEF tx_io
  <2>1. /\ tap' \in Seq(Sizes) /\ txLen' \in Seq(Nat)
        /\ Len(tap') = Len(tap) + 1 /\ Len(txLen') = Len(txLen) + 1
    BY AppendFacts, Lengths DEF TypeOK
  <2>2. txWaiting' \subseteq 1..MaxFrames /\ UNCHANGED txDone
    BY DEF Tx!Accept, TypeOK
  <2>3. QED
    BY <1>1, <2>1, <2>2 DEF tx_io, TypeOK
<1>2. CASE tx
  <2> PICK f \in txWaiting :
           /\ Tx!Deliver(f)
           /\ wire' \in {wire, Append(wire, [num |-> f, ofA |-> TRUE, len |-> TxBytes(f)])}
    BY <1>2 DEF tx
  <2>1. [num |-> f, ofA |-> TRUE, len |-> TxBytes(f)] \in Packet
    <3>1. f \in 1..MaxFrames /\ f \in 1..Len(tap)
      BY DEF PlacesInv, TypeOK
    <3>2. f \in 0..MaxFrames /\ TxBytes(f) \in Nat
      BY <3>1, Lengths
    <3>3. QED
      BY <3>2 DEF Packet
  <2>2. wire' \in Seq(Packet)
    <3>1. Append(wire, [num |-> f, ofA |-> TRUE, len |-> TxBytes(f)]) \in Seq(Packet)
      BY <1>0, <2>1, AppendFacts
    <3>2. QED
      BY <1>0, <3>1
  <2>3. txWaiting' \subseteq 1..MaxFrames /\ txDone' \in Seq(1..MaxFrames)
    BY AppendFacts DEF Tx!Deliver, TypeOK
  <2>4. QED
    BY <1>2, <2>2, <2>3 DEF tx, TypeOK, Packet
<1>3. CASE TxRingLoses
  BY <1>3 DEF TxRingLoses, Tx!Lose, TypeOK
<1>4. CASE WireForeign
  <2> PICK l \in Foreign, a \in BOOLEAN : wire' = Append(wire, [num |-> 0, ofA |-> a, len |-> l])
    BY <1>4 DEF WireForeign
  <2>1. [num |-> 0, ofA |-> a, len |-> l] \in Packet
    BY DEF Packet
  <2>2. wire' \in Seq(Packet) /\ foreign' \in 0..MaxForeign
    BY <1>0, <1>4, <2>1, AppendFacts DEF WireForeign, TypeOK
  <2>3. QED
    BY <1>4, <2>2 DEF WireForeign, TypeOK, Packet
<1>5. CASE WireLoses
  <2>1. wire' \in Seq(Packet)
    BY <1>0, <1>5, RemoveFacts DEF WireLoses
  <2>2. QED
    BY <1>5, <2>1 DEF WireLoses, TypeOK, Packet
<1>6. CASE rx_io
  <2>1. wire' \in Seq(Packet) /\ Head(wire) \in Packet
    BY <1>0, <1>6, TailFacts DEF rx_io
  <2>2. rxBuf' \in Seq(Slot)
    BY <1>0, <1>6, <2>1, Lengths, AppendFacts DEF rx_io
  <2>3. rxWaiting' \subseteq 1..MaxFrames + MaxForeign /\ UNCHANGED rxDone
    BY <1>6 DEF rx_io, Rx!Accept, TypeOK
  <2>4. QED
    BY <1>6, <2>1, <2>2, <2>3 DEF rx_io, TypeOK, Packet, Slot
<1>7. CASE rx
  <2> PICK f \in rxWaiting : Rx!Deliver(f) /\ out' \in {out, Append(out, rxBuf[f])}
    BY <1>7 DEF rx
  <2>1. rxBuf[f] \in Slot /\ rxBuf[f].len > MinFrame
    BY <1>0, ElementOfSeq DEF PlacesInv
  <2>2. rxBuf[f] \in Written
    <3>1. rxBuf[f].len \in Nat
      BY <2>1 DEF Slot, MinFrame
    <3>2. QED
      BY <2>1, <3>1 DEF Written, Slot
  <2>3. out' \in Seq(Written)
    <3>1. out \in Seq(Written)
      BY DEF TypeOK, Written
    <3>2. Append(out, rxBuf[f]) \in Seq(Written)
      BY <2>2, <3>1, AppendFacts
    <3>3. QED
      BY <3>1, <3>2
  <2>4. rxWaiting' \subseteq 1..MaxFrames + MaxForeign /\ rxDone' \in Seq(1..MaxFrames + MaxForeign)
    BY AppendFacts DEF Rx!Deliver, TypeOK
  <2>5. QED
    BY <1>7, <2>3, <2>4 DEF rx, TypeOK, Written
<1>8. CASE RxRingLoses
  BY <1>8 DEF RxRingLoses, Rx!Lose, TypeOK
<1>9. CASE UNCHANGED vars
  BY <1>9 DEF vars, TypeOK
<1>10. CASE rx_io_again
  <2>1. rxBuf' \in Seq(Slot) /\ UNCHANGED <<mtuA, mtuB, A, wire, foreign, rxDone, out>>
    BY <1>10, AgainFacts
  <2>2. rxWaiting' \subseteq rxWaiting
    BY <1>10, AgainFacts
  <2>3. QED
    BY <2>1, <2>2 DEF TypeOK, Slot
<1>11. QED
  BY <1>1, <1>2, <1>3, <1>4, <1>5, <1>6, <1>7, <1>8, <1>9, <1>10 DEF Next
\* Each place holds what the one before it held.
LEMMA NextPlacesInv == TypeOK /\ PlacesInv /\ [Next]_vars => PlacesInv'
<1> SUFFICES ASSUME TypeOK, PlacesInv, [Next]_vars PROVE PlacesInv'
  OBVIOUS
<1> USE DEF A, B, txRing, rxRing
<1>0. /\ wire \in Seq(Packet) /\ rxBuf \in Seq(Slot) /\ out \in Seq(Written)
      /\ Len(tap) \in Nat /\ Len(rxBuf) \in Nat /\ Len(out) \in Nat /\ Len(wire) \in Nat
  BY LenProperties DEF TypeOK, Packet, Slot, Written
<1>1. CASE tx_io
  <2>1. UNCHANGED <<mtuA, mtuB, wire, rxBuf, rxWaiting, out>>
    BY <1>1 DEF tx_io
  <2>2. PICK l \in Sizes : tap' = Append(tap, l) /\ txLen' = Append(txLen, TapBytes(l))
    BY <1>1 DEF tx_io
  <2>3. txWaiting' \subseteq txWaiting \cup {Len(tap')}
    BY <1>1 DEF tx_io, Tx!Accept
  <2>4. Len(tap') = Len(tap) + 1 /\ tap'[Len(tap) + 1] = l /\ \A n \in 1..Len(tap) : tap'[n] = tap[n]
    BY <2>2, AppendFacts DEF TypeOK
  <2>5. txLen'[Len(tap) + 1] = TapBytes(l) /\ \A n \in 1..Len(tap) : txLen'[n] = txLen[n]
    <3>1. TapBytes(l) \in Nat /\ txLen \in Seq(Nat) /\ Len(txLen) = Len(tap)
      BY Lengths DEF TypeOK
    <3>2. QED
      BY <2>2, <3>1, AppendFacts
  <2>6. \A n \in 1..Len(tap') : txLen'[n] = TapBytes(tap[n])'
    <3> SUFFICES ASSUME NEW n \in 1..Len(tap') PROVE txLen'[n] = TapBytes(tap'[n])
      BY <2>1 DEF TapBytes
    <3>1. CASE n \in 1..Len(tap)
      BY <2>4, <2>5, <3>1 DEF PlacesInv
    <3>2. CASE n = Len(tap) + 1
      BY <2>4, <2>5, <3>2
    <3>3. QED
      BY <1>0, <2>4, <3>1, <3>2
  <2>7. 1..Len(tap) \subseteq 1..Len(tap') /\ Len(tap') \in 1..Len(tap') /\ Len(tap') \in Nat
    BY <1>0, <2>4
  <2>8. txWaiting' \subseteq 1..Len(tap')
    BY <2>3, <2>7 DEF PlacesInv
  <2>9. \A m \in 1..Len(tap) : TxBytes(m)' = TxBytes(m)
    BY <2>5 DEF TxBytes
  <2>10. \A p : (Sent(p) => Sent(p)') /\ (Received(p) => Received(p)')
    BY <2>1, <2>7, <2>9 DEF Sent, Received
  <2>11. QED
    BY <2>1, <2>6, <2>8, <2>10 DEF PlacesInv
<1>2. CASE tx
  <2> PICK f \in txWaiting :
           /\ Tx!Deliver(f)
           /\ wire' \in {wire, Append(wire, [num |-> f, ofA |-> TRUE, len |-> TxBytes(f)])}
    BY <1>2 DEF tx
  <2> DEFINE e == [num |-> f, ofA |-> TRUE, len |-> TxBytes(f)]
  <2>1. e \in Packet /\ Sent(e)
    <3>1. f \in 1..MaxFrames /\ f \in 1..Len(tap)
      BY DEF PlacesInv, TypeOK
    <3>2. f \in 0..MaxFrames /\ TxBytes(f) \in Nat
      BY <3>1, Lengths
    <3>3. QED
      BY <3>1, <3>2 DEF Packet, Sent
  <2> HIDE DEF e
  <2>2. \A i \in 1..Len(wire') : Sent(wire'[i])
    <3>1. /\ Len(Append(wire, e)) = Len(wire) + 1 /\ Append(wire, e)[Len(wire) + 1] = e
          /\ \A i \in 1..Len(wire) : Append(wire, e)[i] = wire[i]
      BY <1>0, <2>1, AppendFacts
    <3>2. wire' \in {wire, Append(wire, e)}
      BY DEF e
    <3>3. QED
      BY <1>0, <2>1, <3>1, <3>2 DEF PlacesInv
  <2>3. UNCHANGED <<mtuA, mtuB, tap, txLen, rxBuf, rxWaiting, out>> /\ txWaiting' \subseteq txWaiting
    BY <1>2 DEF tx, Tx!Deliver
  <2>4. \A p : (Sent(p) => Sent(p)') /\ (Received(p) => Received(p)') /\ TapBytes(p)' = TapBytes(p)
    BY <2>3 DEF Sent, Received, TxBytes, TapBytes
  <2>5. QED
    BY <2>2, <2>3, <2>4 DEF PlacesInv
<1>3. CASE TxRingLoses \/ RxRingLoses \/ UNCHANGED vars
  <2>1. /\ UNCHANGED <<mtuA, mtuB, tap, txLen, wire, rxBuf, out>>
        /\ txWaiting' \subseteq txWaiting /\ rxWaiting' \subseteq rxWaiting
    BY <1>3 DEF TxRingLoses, RxRingLoses, Tx!Lose, Rx!Lose, vars
  <2>2. QED
    BY <2>1 DEF PlacesInv, Sent, Received, TxBytes, TapBytes
<1>4. CASE WireForeign \/ WireLoses
  <2>1. UNCHANGED <<mtuA, mtuB, tap, txLen, txWaiting, rxBuf, rxWaiting, out>>
    BY <1>4 DEF WireForeign, WireLoses
  <2>2. \A i \in 1..Len(wire') : Sent(wire'[i])
    <3>1. CASE WireForeign
      <4> PICK l \in Foreign, a \in BOOLEAN : wire' = Append(wire, [num |-> 0, ofA |-> a, len |-> l])
        BY <3>1 DEF WireForeign
      <4> DEFINE e == [num |-> 0, ofA |-> a, len |-> l]
      <4>1. e \in Packet /\ Sent(e)
        BY DEF Packet, Sent
      <4> HIDE DEF e
      <4>2. wire' = Append(wire, e)
        BY DEF e
      <4>3. QED
        BY <1>0, <4>1, <4>2, AppendFacts DEF PlacesInv
    <3>2. CASE WireLoses
      <4>1. Thins(wire, wire')
        BY <1>0, <3>2, RemoveFacts DEF WireLoses
      <4>2. QED
        BY <4>1 DEF Thins, PlacesInv
    <3>3. QED
      BY <1>4, <3>1, <3>2
  <2>3. QED
    BY <2>1, <2>2 DEF PlacesInv, Sent, Received, TxBytes, TapBytes
<1>5. CASE rx_io
  <2> DEFINE p == Head(wire)
             e == [num |-> p.num, ofA |-> p.ofA, len |-> Strip(RxBytes(p)), again |-> 0]
  <2>1. /\ p \in Packet /\ p = wire[1] /\ 1 \in 1..Len(wire) /\ Thins(wire, wire')
    BY <1>0, <1>5, TailFacts DEF rx_io
  <2>2. e \in Slot /\ e.num = p.num /\ e.ofA = p.ofA /\ e.len = Strip(RxBytes(p)) /\ e.again = 0
    BY <2>1, Lengths DEF Packet
  <2>3. Received(e)
    <3>1. Sent(p)
      BY <2>1 DEF PlacesInv
    <3>2. e.len + ETHIP4 * e.again = RxBytes(p) - ETHIP4
      <4>1. e.len = RxBytes(p) - 34 /\ RxBytes(p) \in Int /\ e.again = 0
        BY <2>1, <2>2, Lengths DEF Strip, ETHIP4
      <4> HIDE DEF e, p
      <4>2. QED
        BY <4>1 DEF ETHIP4
    <3> HIDE DEF e, p
    <3>3. QED
      BY <2>2, <3>1, <3>2 DEF Sent, Received, RxBytes
  <2>4. UNCHANGED <<mtuA, mtuB, tap, txLen, txWaiting, out>> /\ rxBuf' = Append(rxBuf, e)
    BY <1>5 DEF rx_io
  <2>5. \/ rxWaiting' = rxWaiting
        \/ rxWaiting' = rxWaiting \cup {Len(rxBuf')} /\ p.ofA /\ Strip(RxBytes(p)) > MinFrame
    <3>1. PICK passes \in MayPass(p) :
             IF passes /\ Sendable(Strip(RxBytes(p))) THEN Rx!Accept(Len(rxBuf')) ELSE UNCHANGED rxRing
      BY <1>5 DEF rx_io
    <3>2. CASE passes /\ Sendable(Strip(RxBytes(p)))
      BY <2>1, <3>1, <3>2, QueuedIsOfA DEF Rx!Accept, Sendable
    <3>3. CASE ~(passes /\ Sendable(Strip(RxBytes(p))))
      BY <3>1, <3>3
    <3>4. QED
      BY <3>2, <3>3
  <2> HIDE DEF e, p
  <2>6. /\ Len(rxBuf') = Len(rxBuf) + 1 /\ rxBuf'[Len(rxBuf) + 1] = e
        /\ \A i \in 1..Len(rxBuf) : rxBuf'[i] = rxBuf[i]
    BY <1>0, <2>2, <2>4, AppendFacts
  <2>7. \A i \in 1..Len(rxBuf') : Received(rxBuf'[i])
    BY <1>0, <2>3, <2>6 DEF PlacesInv
  <2>8. \A f \in rxWaiting' : f \in 1..Len(rxBuf') /\ rxBuf'[f].ofA /\ rxBuf'[f].len > MinFrame
    <3>1. \A f \in rxWaiting : f \in 1..Len(rxBuf') /\ rxBuf'[f] = rxBuf[f]
      BY <1>0, <2>6 DEF PlacesInv
    <3>2. CASE rxWaiting' = rxWaiting
      BY <3>1, <3>2 DEF PlacesInv
    <3>3. CASE rxWaiting' = rxWaiting \cup {Len(rxBuf')} /\ p.ofA /\ Strip(RxBytes(p)) > MinFrame
      <4>1. Len(rxBuf') \in 1..Len(rxBuf') /\ rxBuf'[Len(rxBuf')] = e
        BY <1>0, <2>6
      <4>2. e.ofA /\ e.len > MinFrame
        BY <2>2, <3>3
      <4>3. QED
        BY <3>1, <3>3, <4>1, <4>2 DEF PlacesInv
    <3>4. QED
      BY <2>5, <3>2, <3>3
  <2>9. \A i \in 1..Len(wire') : Sent(wire'[i])
    BY <2>1 DEF Thins, PlacesInv
  <2>10. QED
    BY <2>4, <2>7, <2>8, <2>9 DEF PlacesInv, Sent, Received, TxBytes, TapBytes
<1>6. CASE rx
  <2> PICK f \in rxWaiting : Rx!Deliver(f) /\ out' \in {out, Append(out, rxBuf[f])}
    BY <1>6 DEF rx
  <2>1. UNCHANGED <<mtuA, mtuB, tap, txLen, txWaiting, wire, rxBuf>> /\ rxWaiting' \subseteq rxWaiting
    BY <1>6 DEF rx, Rx!Deliver
  <2>2. /\ Received(rxBuf[f]) /\ rxBuf[f].ofA
        /\ rxBuf[f] \in Slot /\ rxBuf[f].len > 14
    BY <1>0, ElementOfSeq DEF PlacesInv, MinFrame
  <2>3. rxBuf[f] \in Written
    <3>1. rxBuf[f].len \in Nat
      BY <2>2 DEF Slot
    <3>2. QED
      BY <2>2, <3>1 DEF Written, Slot
  <2>4. \A i \in 1..Len(out') : Received(out'[i]) /\ out'[i].ofA
    <3>1. /\ Len(Append(out, rxBuf[f])) = Len(out) + 1 /\ Append(out, rxBuf[f])[Len(out) + 1] = rxBuf[f]
          /\ \A i \in 1..Len(out) : Append(out, rxBuf[f])[i] = out[i]
      BY <1>0, <2>3, AppendFacts
    <3>2. QED
      BY <1>0, <2>2, <3>1 DEF PlacesInv
  <2>5. QED
    BY <2>1, <2>4 DEF PlacesInv, Sent, Received, TxBytes, TapBytes
<1>7. CASE rx_io_again
  <2>1. UNCHANGED <<mtuA, mtuB, tap, txLen, txWaiting, wire, out>>
    BY <1>7, AgainFacts DEF A
  <2>2. /\ Len(rxBuf') = Len(rxBuf)
        /\ \A i \in 1..Len(rxBuf) :
             /\ rxBuf'[i].num = rxBuf[i].num /\ rxBuf'[i].ofA = rxBuf[i].ofA
             /\ rxBuf'[i].len + ETHIP4 * rxBuf'[i].again = rxBuf[i].len + ETHIP4 * rxBuf[i].again
    BY <1>7, AgainFacts
  <2>3. \A i \in 1..Len(rxBuf') : Received(rxBuf'[i])
    BY <2>2 DEF PlacesInv, Received
  <2>4. \A f \in rxWaiting' : f \in rxWaiting /\ rxBuf'[f].len > MinFrame
    BY <1>7, AgainFacts
  <2>5. \A f \in rxWaiting' : f \in 1..Len(rxBuf') /\ rxBuf'[f].ofA /\ rxBuf'[f].len > MinFrame
    BY <2>2, <2>4 DEF PlacesInv
  <2>6. QED
    BY <2>1, <2>3, <2>5 DEF PlacesInv, Sent, Received, TxBytes, TapBytes
<1>8. QED
  BY <1>1, <1>2, <1>3, <1>4, <1>5, <1>6, <1>7 DEF Next
\* A frame goes from one place to the next and is not left behind.
LEMMA NextOnceInv == TypeOK /\ PlacesInv /\ OnceInv /\ [Next]_vars => OnceInv'
<1> SUFFICES ASSUME TypeOK, PlacesInv, OnceInv, [Next]_vars PROVE OnceInv'
  OBVIOUS
<1> USE DEF A, B, txRing, rxRing
<1>0. /\ wire \in Seq(Packet) /\ rxBuf \in Seq(Slot) /\ out \in Seq(Written)
      /\ Len(tap) \in Nat /\ Len(rxBuf) \in Nat
  BY LenProperties DEF TypeOK, Packet, Slot, Written
<1>1. CASE tx_io
  <2>1. UNCHANGED <<wire, rxBuf, rxWaiting, out>> /\ txWaiting' \subseteq txWaiting \cup {Len(tap')}
    BY <1>1 DEF tx_io, Tx!Accept
  <2>2. Len(tap') = Len(tap) + 1
    BY <1>1, AppendFacts DEF tx_io, TypeOK
  <2>3. \A n \in 1..Len(tap) : n < Len(tap')
    BY <1>0, <2>2
  <2>4. Lacks(wire, Len(tap')) /\ Lacks(rxBuf, Len(tap')) /\ Lacks(out, Len(tap'))
    BY <2>3 DEF Lacks, PlacesInv, Sent, Received
  <2>5. QED
    BY <2>1, <2>4 DEF OnceInv
<1>2. CASE tx
  <2> PICK f \in txWaiting :
           /\ Tx!Deliver(f)
           /\ wire' \in {wire, Append(wire, [num |-> f, ofA |-> TRUE, len |-> TxBytes(f)])}
    BY <1>2 DEF tx
  <2> DEFINE e == [num |-> f, ofA |-> TRUE, len |-> TxBytes(f)]
  <2>1. e \in Packet /\ e.num = f
    <3>1. f \in 1..MaxFrames /\ f \in 1..Len(tap)
      BY DEF PlacesInv, TypeOK
    <3>2. f \in 0..MaxFrames /\ TxBytes(f) \in Nat
      BY <3>1, Lengths
    <3>3. QED
      BY <3>2 DEF Packet
  <2>2. wire' = wire \/ wire' = Append(wire, e)
    OBVIOUS
  <2> HIDE DEF e
  <2>3. Lacks(wire, f) /\ Lacks(rxBuf, f) /\ Lacks(out, f)
    BY DEF OnceInv
  <2>4. Distinct(wire') /\ Apart(rxBuf, wire') /\ Apart(out, wire')
    <3>1. Distinct(wire) /\ Apart(rxBuf, wire) /\ Apart(out, wire)
      BY DEF OnceInv
    <3>2. CASE wire' = Append(wire, e)
      BY <1>0, <2>1, <2>3, <3>1, <3>2, AppendOnce
    <3>3. QED
      BY <2>2, <3>1, <3>2
  <2>5. UNCHANGED <<rxBuf, rxWaiting, out>> /\ \A g \in txWaiting' : g \in txWaiting /\ f # g
    <3>1. UNCHANGED <<rxBuf, rxWaiting, out>>
      BY <1>2 DEF tx
    <3>2. txWaiting' = txWaiting \ {f} /\ txWaiting \subseteq Int
      BY DEF Tx!Deliver, TypeOK
    <3>3. QED
      BY <3>1, <3>2
  <2>6. \A g \in txWaiting' : Lacks(wire', g)
    <3> SUFFICES ASSUME NEW g \in txWaiting' PROVE Lacks(wire', g)
      OBVIOUS
    <3>1. Lacks(wire, g) /\ f # g
      BY <2>5 DEF OnceInv
    <3>2. QED
      BY <1>0, <2>1, <2>2, <3>1, AppendOnce
  <2>7. QED
    BY <2>4, <2>5, <2>6 DEF OnceInv
<1>3. CASE TxRingLoses \/ RxRingLoses \/ UNCHANGED vars
  BY <1>3 DEF TxRingLoses, RxRingLoses, Tx!Lose, Rx!Lose, vars, OnceInv
<1>4. CASE WireForeign
  <2> PICK l \in Foreign, a \in BOOLEAN : wire' = Append(wire, [num |-> 0, ofA |-> a, len |-> l])
    BY <1>4 DEF WireForeign
  <2> DEFINE e == [num |-> 0, ofA |-> a, len |-> l]
  <2>1. e \in Packet /\ e.num = 0 /\ wire' = Append(wire, e)
    BY DEF Packet
  <2> HIDE DEF e
  <2>2. /\ Distinct(wire') /\ Apart(rxBuf, wire') /\ Apart(out, wire')
        /\ \A g \in txWaiting : Lacks(wire', g)
    BY <1>0, <2>1, AppendOnce DEF OnceInv
  <2>3. QED
    BY <1>4, <2>2 DEF WireForeign, OnceInv
<1>5. CASE WireLoses
  <2>1. Thins(wire, wire')
    BY <1>0, <1>5, RemoveFacts DEF WireLoses
  <2>2. QED
    BY <1>5, <2>1, ThinOnce DEF WireLoses, OnceInv
<1>6. CASE rx_io
  <2> DEFINE p == Head(wire)
             e == [num |-> p.num, ofA |-> p.ofA, len |-> Strip(RxBytes(p)), again |-> 0]
  <2>1. /\ p \in Packet /\ p = wire[1] /\ 1 \in 1..Len(wire) /\ Thins(wire, wire')
        /\ \A k \in 1..Len(wire') : \E m \in 1..Len(wire) : 1 < m /\ wire'[k] = wire[m]
    BY <1>0, <1>6, TailFacts DEF rx_io
  <2>2. e \in Slot /\ e.num = p.num
    BY <2>1, Lengths DEF Packet
  <2>3. /\ UNCHANGED <<txWaiting, out>> /\ rxBuf' = Append(rxBuf, e)
        /\ rxWaiting' \subseteq rxWaiting \cup {Len(rxBuf')}
    BY <1>6 DEF rx_io, Rx!Accept
  <2> HIDE DEF e, p
  <2>4. p.num # 0 => Lacks(rxBuf, p.num) /\ Lacks(out, p.num)
    BY <2>1 DEF OnceInv, Apart
  <2>5. p.num # 0 => \A k \in 1..Len(wire') : wire'[k].num # 0 => p.num # wire'[k].num
    BY <2>1 DEF OnceInv, Distinct
  <2>6. Distinct(wire') /\ Apart(out, wire') /\ \A g \in txWaiting : Lacks(wire', g)
    BY <2>1, ThinOnce DEF OnceInv
  <2>7. Distinct(rxBuf')
    BY <1>0, <2>2, <2>3, <2>4, AppendOnce DEF OnceInv
  <2>8. Apart(rxBuf', wire')
    <3> SUFFICES ASSUME NEW k \in 1..Len(wire'), wire'[k].num # 0 PROVE Lacks(rxBuf', wire'[k].num)
      BY DEF Apart
    <3>1. Lacks(rxBuf, wire'[k].num)
      BY <2>1, ThinOnce DEF OnceInv, Apart
    <3>2. QED
      BY <1>0, <2>2, <2>3, <2>5, <3>1, AppendOnce
  <2>9. \A g \in txWaiting : Lacks(rxBuf', g)
    <3> SUFFICES ASSUME NEW g \in txWaiting PROVE Lacks(rxBuf', g)
      OBVIOUS
    <3>1. Lacks(rxBuf, g) /\ (p.num # 0 => p.num # g)
      BY <2>1 DEF OnceInv, Lacks
    <3>2. QED
      BY <1>0, <2>2, <2>3, <3>1, AppendOnce
  <2>10. \A f \in rxWaiting' : rxBuf'[f].num # 0 => Lacks(out, rxBuf'[f].num)
    <3>1. /\ Len(rxBuf') = Len(rxBuf) + 1 /\ rxBuf'[Len(rxBuf')] = e
          /\ \A i \in 1..Len(rxBuf) : rxBuf'[i] = rxBuf[i]
      BY <1>0, <2>2, <2>3, AppendFacts
    <3>2. \A f \in rxWaiting : rxBuf'[f] = rxBuf[f]
      BY <3>1 DEF PlacesInv
    <3>3. QED
      BY <2>2, <2>3, <2>4, <3>1, <3>2 DEF OnceInv
  <2>11. QED
    BY <2>3, <2>6, <2>7, <2>8, <2>9, <2>10 DEF OnceInv
<1>7. CASE rx
  <2> PICK f \in rxWaiting : Rx!Deliver(f) /\ out' \in {out, Append(out, rxBuf[f])}
    BY <1>7 DEF rx
  <2> DEFINE e == rxBuf[f]
  <2>1. UNCHANGED <<txWaiting, wire, rxBuf>> /\ \A g \in rxWaiting' : g \in rxWaiting /\ f # g
    <3>1. UNCHANGED <<txWaiting, wire, rxBuf>>
      BY <1>7 DEF rx
    <3>2. rxWaiting' = rxWaiting \ {f} /\ rxWaiting \subseteq Int
      BY DEF Rx!Deliver, TypeOK
    <3>3. QED
      BY <3>1, <3>2
  <2>2. e \in Written /\ f \in 1..Len(rxBuf)
    <3>1. f \in 1..Len(rxBuf) /\ e.len > 14
      BY DEF PlacesInv, MinFrame
    <3>2. e \in Slot
      BY <1>0, <3>1, ElementOfSeq
    <3> HIDE DEF e
    <3>3. e.len \in Nat
      BY <3>1, <3>2 DEF Slot
    <3>4. QED
      BY <3>1, <3>2, <3>3 DEF Written, Slot
  <2>3. CASE out' = out
    BY <2>1, <2>3 DEF OnceInv
  <2>4. CASE out' = Append(out, e)
    <3> HIDE DEF e
    <3>1. e.num # 0 => Lacks(out, e.num)
      BY DEF OnceInv, e
    <3>2. Distinct(out')
      BY <1>0, <2>2, <2>4, <3>1, AppendOnce DEF OnceInv
    <3>3. Apart(out', wire)
      <4> SUFFICES ASSUME NEW k \in 1..Len(wire), wire[k].num # 0 PROVE Lacks(out', wire[k].num)
        BY DEF Apart
      <4>1. Lacks(out, wire[k].num) /\ (e.num # 0 => e.num # wire[k].num)
        BY <2>2 DEF OnceInv, Apart, Lacks, e
      <4>2. QED
        BY <1>0, <2>2, <2>4, <4>1, AppendOnce
    <3>4. \A g \in txWaiting : Lacks(out', g)
      <4> SUFFICES ASSUME NEW g \in txWaiting PROVE Lacks(out', g)
        OBVIOUS
      <4>1. Lacks(out, g) /\ (e.num # 0 => e.num # g)
        BY <2>2 DEF OnceInv, Lacks, e
      <4>2. QED
        BY <1>0, <2>2, <2>4, <4>1, AppendOnce
    <3>5. \A g \in rxWaiting' : rxBuf[g].num # 0 => Lacks(out', rxBuf[g].num)
      <4> SUFFICES ASSUME NEW g \in rxWaiting', rxBuf[g].num # 0 PROVE Lacks(out', rxBuf[g].num)
        OBVIOUS
      <4>1. Lacks(out, rxBuf[g].num)
        BY <2>1 DEF OnceInv
      <4>2. e.num # 0 => e.num # rxBuf[g].num
        <5>1. f \in 1..Len(rxBuf) /\ g \in 1..Len(rxBuf) /\ f # g
          BY <2>1, <2>2 DEF PlacesInv
        <5>2. f < g \/ g < f
          BY <1>0, <5>1
        <5>3. QED
          BY <5>1, <5>2 DEF OnceInv, Distinct, e
      <4>3. QED
        BY <1>0, <2>2, <2>4, <4>1, <4>2, AppendOnce
    <3>6. QED
      BY <2>1, <3>2, <3>3, <3>4, <3>5 DEF OnceInv
  <2>5. QED
    BY <2>3, <2>4
<1>8. CASE rx_io_again
  <2>1. /\ UNCHANGED <<txWaiting, wire, out>> /\ Len(rxBuf') = Len(rxBuf)
        /\ \A i \in 1..Len(rxBuf) : rxBuf'[i].num = rxBuf[i].num
    BY <1>8, AgainFacts DEF A
  <2>2. \A f \in rxWaiting' : f \in rxWaiting
    BY <1>8, AgainFacts
  <2>3. Distinct(rxBuf')
    BY <2>1 DEF OnceInv, Distinct
  <2>4. \A n : Lacks(rxBuf, n) => Lacks(rxBuf', n)
    BY <2>1 DEF Lacks
  <2>5. \A f \in rxWaiting' : rxBuf'[f].num # 0 => Lacks(out, rxBuf'[f].num)
    BY <2>1, <2>2 DEF OnceInv, PlacesInv
  <2>6. QED
    BY <2>1, <2>3, <2>4, <2>5 DEF OnceInv, Apart
<1>9. QED
  BY <1>1, <1>2, <1>3, <1>4, <1>5, <1>6, <1>7, <1>8 DEF Next

-----------------------------------------------------------------------------
\* The inductive invariant.
TunnelInv == TypeOK /\ PlacesInv /\ OnceInv

\* It holds in every reachable state.
LEMMA TunnelInvAlways == Spec => []TunnelInv
<1>1. Init => TunnelInv
  BY InitInv DEF TunnelInv
<1>2. TunnelInv /\ [Next]_vars => TunnelInv'
  BY NextTypeOK, NextPlacesInv, NextOnceInv DEF TunnelInv
<1>3. QED
  BY <1>1, <1>2, PTL DEF Spec

\* The lane keeps the types of what it carries; no frame reaches B's tap with
\* a negative length, although rx_io takes 34 bytes off whatever comes.
THEOREM TypeCorrect == Spec => []TypeOK
<1>1. TunnelInv => TypeOK
  BY DEF TunnelInv
<1>2. QED
  BY <1>1, TunnelInvAlways, PTL

\* rx_io and rx let nothing through to B's tap that A's host has not sent, even
\* where the sender's address is left over from an earlier frame.
THEOREM OnlyPeerReachesTap == Spec => []OnlyFromPeer
<1>1. TunnelInv => OnlyFromPeer
  BY DEF TunnelInv, PlacesInv, OnlyFromPeer
<1>2. QED
  BY <1>1, TunnelInvAlways, PTL

\* A frame of A's tap leaves B's tap at most once (tx_io, tx, rx_io, rx), whatever
\* overtakes what in the two rings.
THEOREM LaneDeliversOnce == Spec => []AtMostOnce
<1>1. TunnelInv => AtMostOnce
  BY DEF TunnelInv, PlacesInv, Received, OnceInv, Distinct, Lane, AtMostOnce
<1>2. QED
  BY <1>1, TunnelInvAlways, PTL

\* The length of a frame that reached B, in terms of the one on A's tap.
LEMMA ArrivalLength ==
  ASSUME TypeOK, PlacesInv, NEW p, Received(p), p.num # 0
  PROVE  LET l == tap[p.num]
             fits == Smaller(mtuA, mtuB) - ETHIP4
             arrived == p.len + ETHIP4 * p.again
         IN  /\ p.num \in 1..Len(tap)
             /\ \/ arrived = Smaller(l, fits)
                \/ l < arrived /\ arrived = Smaller(MinWire - ETHIP4, fits)
<1> DEFINE n == p.num
           arrived == p.len + ETHIP4 * p.again
<1>1. n \in 1..Len(tap) /\ arrived = Smaller(TxBytes(n), mtuB) - ETHIP4
  BY DEF Received
<1>2. txLen[n] = Smaller(tap[n], mtuA - ETHIP4)
  BY <1>1 DEF PlacesInv, TapBytes
<1>3. tap[n] \in Nat /\ mtuA \in Nat /\ mtuB \in Nat /\ MinWire \in Nat
  BY <1>1, Lengths
<1>4. mtuA >= MinWire /\ mtuB >= MinWire
  BY DEF TypeOK
<1> HIDE DEF n, arrived
<1>5. \/ arrived = Smaller(tap[n], Smaller(mtuA, mtuB) - ETHIP4)
      \/ tap[n] < arrived /\ arrived = Smaller(MinWire - ETHIP4, Smaller(mtuA, mtuB) - ETHIP4)
  BY <1>1, <1>2, <1>3, <1>4 DEF TxBytes, Smaller, Larger, ETHIP4
<1>6. QED
  BY <1>1, <1>5 DEF n, arrived

\* A frame comes out of the lane whole, or cut where the smaller MTU cuts it, or
\* padded by the wire (the reads of tx_io and rx_io, the 34 bytes of headers).
THEOREM LaneKeepsFrames == Spec => []Intact
<1>1. TunnelInv => Intact
  BY ArrivalLength DEF TunnelInv, PlacesInv, Lane, Intact
<1>2. QED
  BY <1>1, TunnelInvAlways, PTL

-----------------------------------------------------------------------------
(* The refinement of LossyLane.                                             *)

\* Nothing came into B's slots that is longer than what its MTU leaves.
FitsInv == \A i \in 1..Len(rxBuf) : rxBuf[i].len + ETHIP4 * rxBuf[i].again <= mtuB - ETHIP4

\* rx_io reads no more than that.
LEMMA NextFitsInv == TypeOK /\ PlacesInv /\ FitsInv /\ [Next]_vars => FitsInv'
<1> SUFFICES ASSUME TypeOK, PlacesInv, FitsInv, [Next]_vars PROVE FitsInv'
  OBVIOUS
<1>1. CASE rx_io
  <2> DEFINE p == Head(wire)
             e == [num |-> p.num, ofA |-> p.ofA, len |-> Strip(RxBytes(p)), again |-> 0]
  <2>1. p \in Packet /\ mtuB \in Nat /\ e \in Slot /\ rxBuf \in Seq(Slot)
    <3>1. wire \in Seq(Packet) /\ rxBuf \in Seq(Slot)
      BY DEF TypeOK, Packet, Slot
    <3>2. wire # <<>>
      BY <1>1 DEF rx_io
    <3>3. p \in Packet
      BY <3>1, <3>2, TailFacts
    <3>4. QED
      BY <3>1, <3>3, Lengths
  <2>2. e.len + ETHIP4 * e.again <= mtuB - ETHIP4
    BY <2>1 DEF Packet, Strip, RxBytes, Smaller, ETHIP4
  <2>3. rxBuf' = Append(rxBuf, e) /\ UNCHANGED mtuB
    BY <1>1 DEF rx_io
  <2> HIDE DEF e
  <2>4. /\ Len(rxBuf) \in Nat /\ Len(rxBuf') = Len(rxBuf) + 1 /\ rxBuf'[Len(rxBuf) + 1] = e
        /\ \A i \in 1..Len(rxBuf) : rxBuf'[i] = rxBuf[i]
    BY <2>1, <2>3, AppendFacts
  <2>5. QED
    BY <2>2, <2>3, <2>4 DEF FitsInv
<1>2. CASE UNCHANGED <<rxBuf, mtuB>>
  BY <1>2 DEF FitsInv
<1>3. CASE rx_io_again
  <2>1. UNCHANGED mtuB /\ Len(rxBuf') = Len(rxBuf)
    BY <1>3, AgainFacts
  <2>2. \A i \in 1..Len(rxBuf) :
           rxBuf'[i].len + ETHIP4 * rxBuf'[i].again = rxBuf[i].len + ETHIP4 * rxBuf[i].again
    BY <1>3, AgainFacts
  <2>3. QED
    BY <2>1, <2>2 DEF FitsInv
<1>4. QED
  BY <1>1, <1>2, <1>3 DEF Next, tx_io, tx, TxRingLoses, WireForeign, WireLoses, rx, RxRingLoses, vars, A, B

\* Every step of the two hosts and the wire is one of the lossy lane, or none.
LEMMA LaneStep == TunnelInv /\ FitsInv /\ [Next]_vars => [Promise!Step]_(Promise!lane)
<1> SUFFICES ASSUME TunnelInv, FitsInv, [Next]_vars PROVE [Promise!Step]_(Promise!lane)
  OBVIOUS
<1>1. CASE tx_io
  <2>1. Promise!Offer
    BY <1>1 DEF tx_io, Promise!Offer, B, Smaller
  <2>2. QED
    BY <2>1 DEF Promise!Step
<1>2. CASE rx
  <2> PICK f \in rxWaiting : Rx!Deliver(f) /\ out' \in {out, Append(out, rxBuf[f])}
    BY <1>2 DEF rx
  <2> DEFINE e == rxBuf[f]
  <2>1. UNCHANGED <<mtuA, mtuB, tap>>
    BY <1>2 DEF rx, A
  <2>2. /\ f \in 1..Len(rxBuf) /\ e \in Slot /\ Received(e) /\ e.ofA /\ e.len > 14
        /\ e.len + ETHIP4 * e.again <= mtuB - ETHIP4 /\ (e.num # 0 => Lacks(out, e.num))
    <3>1. f \in 1..Len(rxBuf) /\ rxBuf \in Seq(Slot)
      BY DEF TunnelInv, PlacesInv, TypeOK, Slot
    <3>2. QED
      BY <3>1, ElementOfSeq DEF TunnelInv, PlacesInv, OnceInv, FitsInv, MinFrame
  <2> HIDE DEF e
  <2> DEFINE arrived == e.len + ETHIP4 * e.again
  <2>3. /\ arrived \in Int /\ e.again \in Promise!Times(arrived)
        /\ e = [num |-> e.num, ofA |-> TRUE, len |-> arrived - ETHIP4 * e.again, again |-> e.again]
    <3>1. e = [num |-> e.num, ofA |-> e.ofA, len |-> e.len, again |-> e.again] /\ e.ofA \in BOOLEAN
      BY <2>2 DEF Slot
    <3>2. e.ofA = TRUE
      BY <2>2, <3>1
    <3>3. e.len \in Int /\ e.again \in Nat
      BY <2>2 DEF Slot
    <3>4. arrived \in Int /\ arrived - ETHIP4 * e.again = e.len
      BY <3>3 DEF ETHIP4
    <3>5. e.again \in 0..(arrived - 1) \div ETHIP4
      BY <2>2, <3>3 DEF ETHIP4
    <3>6. QED
      BY <3>1, <3>2, <3>4, <3>5 DEF Promise!Times
  <2> HIDE DEF arrived
  <2>4. CASE out' = out
    BY <2>1, <2>4 DEF Promise!lane
  <2>5. CASE out' = Append(out, e) /\ e.num = 0
    <3>1. mtuB \in Mtus /\ mtuB \in Nat /\ e.len \in Int /\ e.again \in Nat
      BY <2>2, Lengths DEF TunnelInv, TypeOK, Slot
    <3>2. arrived \in 1..mtuB
      BY <2>2, <3>1 DEF arrived, ETHIP4
    <3>3. Promise!Bring(0, arrived, e.again)
      BY <2>1, <2>3, <2>5 DEF Promise!Bring
    <3>4. QED
      BY <2>3, <3>1, <3>2, <3>3 DEF Promise!Step, Promise!BringStray
  <2>6. CASE out' = Append(out, e) /\ e.num # 0
    <3> DEFINE l == tap[e.num]
               fits == Smaller(mtuA, mtuB) - ETHIP4
    <3>1. /\ e.num \in 1..Len(tap)
          /\ arrived = Smaller(l, fits) \/ (l < arrived /\ arrived = Smaller(MinWire - ETHIP4, fits))
      BY <2>2, <2>6, ArrivalLength DEF TunnelInv, arrived
    <3>2. arrived \in Promise!Arrives(l)
      BY <3>1 DEF Promise!Arrives, Promise!Cut, Smaller
    <3>3. \A i \in 1..Len(out) : out[i].num # e.num
      BY <2>2, <2>6 DEF Lacks
    <3>4. Promise!Bring(e.num, arrived, e.again)
      BY <2>1, <2>3, <2>6 DEF Promise!Bring
    <3>5. QED
      BY <2>3, <3>1, <3>2, <3>3, <3>4 DEF Promise!Step, Promise!BringFrame
  <2>7. QED
    BY <2>4, <2>5, <2>6 DEF e
<1>3. CASE UNCHANGED <<mtuA, mtuB, tap, out>>
  BY <1>3 DEF Promise!lane
<1>4. QED
  BY <1>1, <1>2, <1>3 DEF Next, tx, TxRingLoses, WireForeign, WireLoses, rx_io, rx_io_again, RxRingLoses, vars, A, B

\* A lane across two hosts is a lossy lane, for every MTU, frame length, ring
\* size and number of frames: whatever tx_io, tx, rx_io and rx do between the
\* taps, a step that shows there is one that LossyLane allows.
THEOREM TunnelImplementsLane == Spec => ImplementsLane
<1>1. Init => Promise!Start
  <2>1. Init => TypeOK /\ tap = <<>> /\ out = <<>>
    BY InitInv DEF Init
  <2>2. TypeOK => Smaller(mtuA, mtuB) - ETHIP4 \in Int
    BY Lengths DEF Smaller, ETHIP4
  <2>3. QED
    BY <2>1, <2>2 DEF Promise!Start
<1>2. Init => FitsInv
  BY EmptySeq DEF Init, FitsInv
<1>3. TunnelInv /\ FitsInv /\ [Next]_vars => FitsInv'
  BY NextFitsInv DEF TunnelInv
<1>4. QED
  BY <1>1, <1>2, <1>3, LaneStep, TunnelInvAlways, PTL DEF Spec, ImplementsLane, Promise!Lossy
=============================================================================
