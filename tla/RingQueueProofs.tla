-------------------------- MODULE RingQueueProofs --------------------------
(***************************************************************************)
(* What becomes of a frame between the read of tx_io or rx_io and the send *)
(* of tx or rx, up to the first reset_ring, for every ring size, number of *)
(* frames and frame length, if in and out start inside the ring.           *)
(*                                                                         *)
(* The indices tell nothing about a frame: push also hands out slots whose *)
(* frame is still to be sent.  The slots do: each is written only by the   *)
(* thread that has locked it (RingProofs), a frame is read into one slot,  *)
(* and a slot whose frame was sent is marked empty before it is unlocked.  *)
(***************************************************************************)
EXTENDS RingQueue, RingProofs, FiniteSetTheorems, FunctionTheorems

\* The slots with a frame: read, or read and about to get its length.
Filled(i) == Rlen[i] > MinFrame \/ (ioPc = "len" /\ i = ioSlot)

\* The slot whose frame rx_io has not looked at yet, or has not seen the sender
\* of.
Unchecked(i) == /\ i = ioSlot
                /\ \/ ioPc \in {"poll", "len", "check"}
                   \/ ioPc \in {"strip", "stripst"} /\ Rlen[i] < AddrEnd

\* The slot whose frame the worker may just have sent.
Drained(i) == wkPc = "clear" /\ i = wkSlot

\* A frame in a slot or sent is one that a poll brought.
NumberInv ==
    /\ polls <= MaxPolls
    /\ \A i \in 0..rsz-1 : Rframe[i] <= polls /\ (Filled(i) => Rframe[i] >= 1)
    /\ \A n \in 1..Len(sent) : sent[n] \in 1..polls

\* It is the peer's, unless rx_io has it still in hand.
SenderInv ==
    /\ \A i \in 0..rsz-1 : Rlen[i] > MinFrame => Unchecked(i) \/ Dir = "tx" \/ Rframe[i] \notin Foreign
    /\ \A n \in 1..Len(sent) : Dir = "tx" \/ sent[n] \notin Foreign

\* It is in one slot only, and no longer there once it is sent.
OnceInv ==
    /\ \A i, j \in 0..rsz-1 : i # j /\ Filled(i) /\ Filled(j) => Rframe[i] # Rframe[j]
    /\ \A i \in 0..rsz-1 : Filled(i) /\ ~Drained(i) => \A n \in 1..Len(sent) : sent[n] # Rframe[i]
    /\ \A m, n \in 1..Len(sent) : m # n => sent[m] # sent[n]

\* What a thread knows of the length of its slot is still true.
LengthInv ==
    /\ ioPc = "stripst" => ioReg = Rlen[ioSlot] - ETHIP4
    /\ wkPc = "send" => Rlen[wkSlot] > MinFrame

\* With Inv and LockInv, inductive up to the first reset.
FrameInv == NumberInv /\ SenderInv /\ OnceInv /\ LengthInv

USE SizeAssumption, WidthAssumption, InputAssumption, ResidueAssumption

-----------------------------------------------------------------------------
(* Steps that touch neither the contents of a slot nor what was sent.       *)

\* What the properties say is about these.
Contents == <<Rlen, Rframe, polls, sent>>

\* The I/O thread in push, or publishing, or coming back from push.
LEMMA IoElsewhere ==
  ASSUME FrameInv, UNCHANGED Contents, UNCHANGED <<wkPc, wkSlot>>,
         ioPc \notin IoFills, ioPc' \notin IoFills \ {"poll"}
  PROVE  FrameInv'
<1> USE DEF Contents, IoFills
<1>1. NumberInv'
  BY DEF FrameInv, NumberInv, Filled
<1>2. SenderInv'
  BY DEF FrameInv, SenderInv, Unchecked
<1>3. OnceInv'
  BY DEF FrameInv, OnceInv, Filled, Drained
<1>4. LengthInv'
  BY DEF FrameInv, LengthInv
<1>5. QED
  BY <1>1, <1>2, <1>3, <1>4 DEF FrameInv

\* The worker, except where it looks at or empties its slot.
LEMMA WkElsewhere ==
  ASSUME FrameInv, UNCHANGED Contents, UNCHANGED <<ioPc, ioReg, ioSlot>>,
         wkPc # "clear", wkPc' # "send"
  PROVE  FrameInv'
<1> USE DEF Contents
<1>1. NumberInv'
  BY DEF FrameInv, NumberInv, Filled
<1>2. SenderInv'
  BY DEF FrameInv, SenderInv, Unchecked
<1>3. OnceInv'
  BY DEF FrameInv, OnceInv, Filled, Drained
<1>4. LengthInv'
  BY DEF FrameInv, LengthInv
<1>5. QED
  BY <1>1, <1>2, <1>3, <1>4 DEF FrameInv

-----------------------------------------------------------------------------
(* The I/O thread at its slot.                                              *)

\* What its steps may rely on.
LEMMA FillFacts ==
  ASSUME Inv, LockInv, ioPc \in IoFills
  PROVE  /\ ioSlot \in 0..rsz-1 /\ polls \in Nat
         /\ Rlen \in [0..rsz-1 -> Int] /\ Rframe \in [0..rsz-1 -> Nat]
         /\ wkPc \in WkDrains => wkSlot # ioSlot
         /\ wkSlot \in 0..rsz-1 /\ ioReg \in Int
  BY DEF Inv, TypeOK, LockInv, OwnInv, IoHolds, WkHolds

\* read() brings a frame that is in no slot and was not sent.
LEMMA ReadFrames ==
  ASSUME Inv, LockInv, FrameInv, IoRead, UNCHANGED <<wkPc, wkSlot, sent>>
  PROVE  FrameInv'
<1>1. /\ ioPc = "poll" /\ ioPc' = "len" /\ UNCHANGED <<ioSlot, Rlen>>
      /\ polls < MaxPolls /\ polls' = polls + 1
      /\ Rframe' = [Rframe EXCEPT ![ioSlot] = polls']
  BY DEF IoRead, Poll, IoLoad, SetRframe
<1>2. /\ ioSlot \in 0..rsz-1 /\ polls \in Nat /\ Rframe \in [0..rsz-1 -> Nat]
      /\ wkPc \in WkDrains => wkSlot # ioSlot
  BY <1>1, FillFacts DEF IoFills
<1>3. Rframe'[ioSlot] = polls + 1 /\ \A i \in 0..rsz-1 : i # ioSlot => Rframe'[i] = Rframe[i]
  BY <1>1, <1>2
<1>4. \A i \in 0..rsz-1 : i # ioSlot => (Filled(i)' <=> Filled(i))
  BY <1>1 DEF Filled
<1>5. \A i \in 0..rsz-1 : Drained(i)' <=> Drained(i)
  BY DEF Drained
<1>6. NumberInv'
  BY <1>1, <1>2, <1>3, <1>4 DEF FrameInv, NumberInv
<1>7. SenderInv'
  BY <1>1, <1>3 DEF FrameInv, SenderInv, Unchecked
<1>8. OnceInv'
  <2>1. \A i \in 0..rsz-1 : i # ioSlot => Rframe'[i] # polls + 1
    BY <1>2, <1>3 DEF FrameInv, NumberInv
  <2>2. \A n \in 1..Len(sent) : sent[n] # polls + 1
    BY <1>2 DEF FrameInv, NumberInv
  <2>3. QED
    BY <1>3, <1>4, <1>5, <2>1, <2>2 DEF FrameInv, OnceInv
<1>9. LengthInv'
  BY <1>1 DEF FrameInv, LengthInv
<1>10. QED
  BY <1>6, <1>7, <1>8, <1>9 DEF FrameInv

\* Its length, an error, or the length less the headers: nobody else's slot is
\* touched, and the slot has a frame only if it had one.
LEMMA LengthFrames ==
  ASSUME Inv, LockInv, FrameInv, IoLen \/ IoReadError \/ IoStrip,
         UNCHANGED <<wkPc, wkSlot, sent>>
  PROVE  FrameInv'
<1>1. /\ ioPc \in {"poll", "len", "stripst"} /\ UNCHANGED <<ioSlot, Rframe>>
      /\ ioPc # "stripst" => ioPc' = "check"
      /\ ioPc = "stripst" => ioPc' = "release"
  BY DEF IoLen, IoReadError, IoStrip, Poll, IoLoad, IoGo, SetRlen
<1>2. /\ ioSlot \in 0..rsz-1 /\ polls \in Nat /\ Rlen \in [0..rsz-1 -> Int]
      /\ wkPc \in WkDrains => wkSlot # ioSlot
      /\ wkSlot \in 0..rsz-1 /\ ioReg \in Int
  BY <1>1, FillFacts DEF IoFills
<1>3. /\ polls <= polls' /\ polls' <= MaxPolls /\ polls' \in Nat
  BY <1>2 DEF IoLen, IoReadError, IoStrip, Poll, FrameInv, NumberInv
<1>4. \A i \in 0..rsz-1 : i # ioSlot => Rlen'[i] = Rlen[i]
  BY <1>2 DEF IoLen, IoReadError, IoStrip, SetRlen
<1>5. Rlen'[ioSlot] > MinFrame => Filled(ioSlot)
  <2>1. CASE IoLen
    BY <2>1 DEF IoLen, Filled
  <2>2. CASE IoReadError
    BY <1>2, <2>2 DEF IoReadError, SetRlen, MinFrame
  <2>3. CASE IoStrip
    <3>1. Rlen'[ioSlot] = Rlen[ioSlot] - ETHIP4
      BY <1>2, <2>3 DEF IoStrip, SetRlen, FrameInv, LengthInv
    <3>2. Rlen[ioSlot] \in Int
      BY <1>2
    <3>3. QED
      BY <1>2, <3>1, <3>2 DEF Filled, MinFrame, ETHIP4
  <2>4. QED
    BY <2>1, <2>2, <2>3
<1>6. \A i \in 0..rsz-1 : (Filled(i)' => Filled(i)) /\ (Drained(i)' <=> Drained(i))
  BY <1>1, <1>4, <1>5 DEF Filled, Drained
<1>7. NumberInv'
  <2>1. \A i \in 0..rsz-1 : Rframe'[i] \in Nat /\ Rframe'[i] <= polls' /\ (Filled(i)' => Rframe'[i] >= 1)
    <3>1. \A i \in 0..rsz-1 : Rframe[i] \in Nat
      BY <1>1, FillFacts DEF IoFills
    <3>2. \A i \in 0..rsz-1 : Rframe[i] <= polls /\ (Filled(i) => Rframe[i] >= 1)
      BY DEF FrameInv, NumberInv
    <3>3. QED
      BY <1>1, <1>2, <1>3, <1>6, <3>1, <3>2
  <2>2. \A n \in 1..Len(sent) : sent[n] \in 1..polls'
    BY <1>2, <1>3 DEF FrameInv, NumberInv
  <2>3. QED
    BY <1>3, <2>1, <2>2 DEF NumberInv
<1>8. SenderInv'
  <2>1. CASE ioPc = "stripst"
    <3>1. Rlen'[ioSlot] > MinFrame => Rlen[ioSlot] > MinFrame /\ ~Unchecked(ioSlot)
      <4>1. Rlen'[ioSlot] = Rlen[ioSlot] - ETHIP4 /\ Rlen[ioSlot] \in Int
        BY <1>2, <2>1 DEF IoStrip, IoLen, IoReadError, Poll, SetRlen, FrameInv, LengthInv
      <4>2. QED
        BY <2>1, <4>1 DEF Unchecked, MinFrame, ETHIP4, AddrEnd
    <3>2. \A i \in 0..rsz-1 : Rlen'[i] > MinFrame => Rlen[i] > MinFrame /\ ~Unchecked(i)
      BY <1>4, <2>1, <3>1 DEF Unchecked
    <3>3. QED
      BY <1>1, <3>2 DEF FrameInv, SenderInv
  <2>2. CASE ioPc # "stripst"
    <3>1. ioPc' = "check"
      BY <1>1, <2>2
    <3>2. \A i \in 0..rsz-1 : i # ioSlot => ~Unchecked(i)
      BY DEF Unchecked
    <3>3. Unchecked(ioSlot)'
      BY <1>1, <3>1 DEF Unchecked
    <3>4. QED
      BY <1>1, <1>4, <3>2, <3>3 DEF FrameInv, SenderInv
  <2>3. QED
    BY <2>1, <2>2
<1>9. OnceInv'
  <2>1. \A i, j \in 0..rsz-1 : i # j /\ Filled(i)' /\ Filled(j)' => Rframe'[i] # Rframe'[j]
    BY <1>1, <1>6 DEF FrameInv, OnceInv
  <2>2. \A i \in 0..rsz-1 : Filled(i)' /\ ~Drained(i)' => \A n \in 1..Len(sent) : sent[n] # Rframe'[i]
    BY <1>1, <1>6 DEF FrameInv, OnceInv
  <2>3. QED
    BY <2>1, <2>2 DEF FrameInv, OnceInv
<1>10. LengthInv'
  BY <1>1, <1>2, <1>4 DEF FrameInv, LengthInv, WkDrains
<1>11. QED
  BY <1>7, <1>8, <1>9, <1>10 DEF FrameInv

\* The other steps at the slot change none of its contents; rx_io lets a frame
\* out of its hands only if it is the peer's.
LEMMA HandFrames ==
  ASSUME Inv, LockInv, FrameInv, IoNoInput \/ IoCheck \/ IoStripLoad \/ IoRelease,
         UNCHANGED <<wkPc, wkSlot, sent>>
  PROVE  FrameInv'
<1>1. /\ ioPc \in {"poll", "check", "strip", "release"} /\ UNCHANGED <<Rlen, Rframe>>
      /\ ioPc' \in {"check", "poll", "strip", "release", "stripst", "sz"}
      /\ polls <= polls' /\ polls' <= MaxPolls /\ polls' \in Nat
      /\ polls \in Nat /\ Rframe \in [0..rsz-1 -> Nat]
      /\ ioPc' # "sz" => ioSlot' = ioSlot
  <2>1. /\ ioPc \in {"poll", "check", "strip", "release"} /\ UNCHANGED <<Rlen, Rframe>>
        /\ ioPc' \in {"check", "poll", "strip", "release", "stripst", "sz"}
        /\ ioPc' # "sz" => ioSlot' = ioSlot
    BY DEF IoNoInput, IoCheck, IoStripLoad, IoRelease, Poll, IoGo, IoLoad, Unlock, SetRlock, R
  <2>2. polls' = polls \/ (polls < MaxPolls /\ polls' = polls + 1)
    BY DEF IoNoInput, IoCheck, IoStripLoad, IoRelease, Poll
  <2>3. polls \in Nat /\ polls <= MaxPolls /\ Rframe \in [0..rsz-1 -> Nat]
    BY DEF Inv, TypeOK, FrameInv, NumberInv
  <2>4. QED
    BY <2>1, <2>2, <2>3
<1>2. \A i \in 0..rsz-1 : Filled(i)' => Filled(i)
  BY <1>1 DEF Filled
<1>3. \A i \in 0..rsz-1 : Drained(i)' <=> Drained(i)
  BY DEF Drained
<1>4. NumberInv'
  <2>1. \A i \in 0..rsz-1 : Rframe[i] \in Nat
    BY <1>1
  <2>2. \A i \in 0..rsz-1 : Rframe[i] <= polls'
    BY <1>1, <2>1 DEF FrameInv, NumberInv
  <2>3. \A n \in 1..Len(sent) : sent[n] \in 1..polls'
    BY <1>1 DEF FrameInv, NumberInv
  <2>4. QED
    BY <1>1, <1>2, <2>2, <2>3 DEF FrameInv, NumberInv
<1>5. SenderInv'
  <2>1. \A i \in 0..rsz-1 : Rlen[i] > MinFrame => Unchecked(i)' \/ Dir = "tx" \/ Rframe[i] \notin Foreign
    <3> SUFFICES ASSUME NEW i \in 0..rsz-1, Rlen[i] > MinFrame, Unchecked(i), ~Unchecked(i)'
                 PROVE  Dir = "tx" \/ Rframe[i] \notin Foreign
      BY DEF FrameInv, SenderInv
    <3>1. i = ioSlot /\ ioPc \in {"poll", "check", "strip"}
      BY <1>1 DEF Unchecked
    <3>2. IoCheck /\ ioPc' \notin {"poll", "check"}
      BY <1>1, <3>1 DEF IoNoInput, IoCheck, IoStripLoad, IoRelease, IoGo, IoLoad, Unchecked
    <3>3. Dir = "tx" \/ Rlen[i] >= AddrEnd
      <4>1. Dir = "tx" \/ ioPc' = "strip"
        BY <3>2 DEF IoCheck, IoGo, InputAssumption
      <4>2. Rlen[i] \in Int /\ UNCHANGED Rlen /\ ioSlot' = ioSlot
        BY <1>1, <3>2 DEF Inv, TypeOK, IoCheck, IoGo
      <4>3. QED
        BY <3>1, <4>1, <4>2 DEF Unchecked, AddrEnd
    <3>4. TRUE \in Usable(ioSlot)
      BY <3>2 DEF IoCheck, IoGo, Usable
    <3>5. Rlen[i] \in Int
      BY DEF Inv, TypeOK
    <3>6. Dir = "tx" \/ ~(Rlen[i] \in 1..AddrEnd-1)
      BY <3>3, <3>5 DEF AddrEnd
    <3>7. QED
      BY <3>1, <3>4, <3>6, Zenon DEF Usable
  <2>2. QED
    BY <1>1, <2>1 DEF FrameInv, SenderInv
<1>6. OnceInv'
  <2>1. \A i, j \in 0..rsz-1 : i # j /\ Filled(i)' /\ Filled(j)' => Rframe'[i] # Rframe'[j]
    BY <1>1, <1>2 DEF FrameInv, OnceInv
  <2>2. \A i \in 0..rsz-1 : Filled(i)' /\ ~Drained(i)' => \A n \in 1..Len(sent) : sent[n] # Rframe'[i]
    BY <1>1, <1>2, <1>3 DEF FrameInv, OnceInv
  <2>3. QED
    BY <2>1, <2>2 DEF FrameInv, OnceInv
<1>7. LengthInv'
  <2>1. ASSUME ioPc' = "stripst" PROVE ioReg' = Rlen'[ioSlot'] - ETHIP4
    <3>1. IoStripLoad /\ ioReg' = Rlen[ioSlot] - ETHIP4 /\ ioSlot' = ioSlot
      BY <2>1 DEF IoNoInput, IoCheck, IoStripLoad, IoRelease, IoGo, IoLoad
    <3>2. Rlen[ioSlot] \in Int
      BY DEF Inv, TypeOK
    <3>3. QED
      BY <1>1, <3>1, <3>2 DEF ETHIP4
  <2>2. QED
    BY <1>1, <2>1 DEF FrameInv, LengthInv
<1>8. QED
  BY <1>4, <1>5, <1>6, <1>7 DEF FrameInv

\* Every step of the I/O thread preserves the invariant.
LEMMA IoFrames == Inv /\ LockInv /\ FrameInv /\ IoStep => FrameInv'
<1> SUFFICES ASSUME Inv, LockInv, FrameInv, IoStep PROVE FrameInv'
  OBVIOUS
<1>0. UNCHANGED <<wkPc, wkSlot, sent>>
  BY DEF IoStep, wk
<1>1. CASE Push
  <2>1. UNCHANGED <<Rlen, Rframe, polls>>
    BY <1>1 DEF Push, PushLock, PushIndex, PushSlot, PushSkip, PushIncLoad, PushIncStore,
       PushWrap, PushFullSz, PushFullIn, PushFullOut, PushRefuse, PushUnslotLoad, PushUnslot,
       PushNull, PushGrant, PushReturn, Lock, Unlock, SetRlock, R
  <2>2. ioPc \notin IoFills /\ ioPc' \notin IoFills \ {"poll"}
    BY <1>1 DEF Push, PushLock, PushIndex, PushSlot, PushSkip, PushIncLoad, PushIncStore,
       PushWrap, PushFullSz, PushFullIn, PushFullOut, PushRefuse, PushUnslotLoad, PushUnslot,
       PushNull, PushGrant, PushReturn, IoGo, IoLoad, IoFills
  <2>3. QED
    BY <1>0, <2>1, <2>2, IoElsewhere DEF Contents
<1>2. CASE IoSzTest \/ IoSzLoad \/ IoSzStore \/ IoInAdd \/ IoInTest \/ IoInLoad \/ IoInSub
  <2>1. UNCHANGED <<Rlen, Rframe, polls>>
    BY <1>2 DEF IoSzTest, IoSzLoad, IoSzStore, IoInAdd, IoInTest, IoInLoad, IoInSub, R
  <2>2. ioPc \notin IoFills /\ ioPc' \notin IoFills \ {"poll"}
    BY <1>2 DEF IoSzTest, IoSzLoad, IoSzStore, IoInAdd, IoInTest, IoInLoad, IoInSub, IoGo,
       IoLoad, IoFills
  <2>3. QED
    BY <1>0, <2>1, <2>2, IoElsewhere DEF Contents
<1>3. CASE IoRead
  BY <1>0, <1>3, ReadFrames
<1>4. CASE IoLen \/ IoReadError \/ IoStrip
  BY <1>0, <1>4, LengthFrames
<1>5. CASE IoNoInput \/ IoCheck \/ IoStripLoad \/ IoRelease
  BY <1>0, <1>5, HandFrames
<1>6. QED
  BY <1>1, <1>2, <1>3, <1>4, <1>5 DEF IoStep, Io, Fill

-----------------------------------------------------------------------------
(* The worker at its slot.                                                  *)

\* What its steps may rely on.
LEMMA DrainFacts ==
  ASSUME Inv, LockInv, wkPc \in WkDrains
  PROVE  /\ wkSlot \in 0..rsz-1 /\ ioSlot \in 0..rsz-1
         /\ Rlen \in [0..rsz-1 -> Int] /\ Rframe \in [0..rsz-1 -> Nat] /\ sent \in Seq(Nat)
         /\ ioPc \in IoFills => wkSlot # ioSlot
  BY DEF Inv, TypeOK, LockInv, OwnInv, IoHolds, WkHolds

\* The frame about to be sent is one more frame that was not sent before, the
\* peer's, and in no other slot.
LEMMA NextToSend ==
  ASSUME Inv, LockInv, FrameInv, wkPc = "send"
  PROVE  /\ Rlen[wkSlot] > MinFrame /\ Filled(wkSlot) /\ Rframe[wkSlot] \in 1..polls
         /\ Dir = "tx" \/ Rframe[wkSlot] \notin Foreign
         /\ \A n \in 1..Len(sent) : sent[n] # Rframe[wkSlot]
         /\ \A i \in 0..rsz-1 : i # wkSlot /\ Filled(i) => Rframe[i] # Rframe[wkSlot]
<1>1. wkSlot \in 0..rsz-1 /\ (ioPc \in IoFills => wkSlot # ioSlot) /\ Rframe[wkSlot] \in Nat
  BY DrainFacts DEF WkDrains
<1>2. Rlen[wkSlot] > MinFrame /\ Filled(wkSlot)
  BY DEF FrameInv, LengthInv, Filled
<1>3. polls \in Nat /\ Rframe[wkSlot] \in 1..polls
  BY <1>1, <1>2 DEF FrameInv, NumberInv, Inv, TypeOK
<1>4. ~Unchecked(wkSlot) /\ ~Drained(wkSlot)
  BY <1>1 DEF Unchecked, Drained, IoFills
<1>5. Dir = "tx" \/ Rframe[wkSlot] \notin Foreign
  BY <1>1, <1>2, <1>4 DEF FrameInv, SenderInv
<1>6. \A n \in 1..Len(sent) : sent[n] # Rframe[wkSlot]
  BY <1>1, <1>2, <1>4 DEF FrameInv, OnceInv
<1>7. \A i \in 0..rsz-1 : i # wkSlot /\ Filled(i) => Rframe[i] # Rframe[wkSlot]
  BY <1>1, <1>2 DEF FrameInv, OnceInv
<1>8. QED
  BY <1>2, <1>3, <1>5, <1>6, <1>7

\* It is sent, or the error is reported.
LEMMA SendFrames ==
  ASSUME Inv, LockInv, FrameInv, WkSend, UNCHANGED <<ioPc, ioReg, ioSlot, polls>>
  PROVE  FrameInv'
<1> DEFINE f == Rframe[wkSlot]
<1>1. /\ wkPc = "send" /\ wkPc' = "clear" /\ UNCHANGED <<wkSlot, Rlen, Rframe>>
      /\ sent' = Append(sent, f) \/ sent' = sent
  BY DEF WkSend, WkGo, R
<1>2. /\ f \in 1..polls /\ (Dir = "tx" \/ f \notin Foreign)
      /\ \A n \in 1..Len(sent) : sent[n] # f
      /\ \A i \in 0..rsz-1 : i # wkSlot /\ Filled(i) => Rframe[i] # f
  BY <1>1, NextToSend
<1>3. sent \in Seq(Nat) /\ f \in Nat
  BY <1>1, DrainFacts DEF WkDrains
<1> HIDE DEF f
<1>4. \A n \in 1..Len(sent') : (n \in 1..Len(sent) /\ sent'[n] = sent[n])
                              \/ (n = Len(sent) + 1 /\ sent'[n] = f)
  BY <1>1, <1>3
<1>5. \A i \in 0..rsz-1 : Filled(i)' <=> Filled(i)
  BY <1>1 DEF Filled
<1>6. \A i \in 0..rsz-1 : (Drained(i)' <=> i = wkSlot) /\ ~Drained(i)
  BY <1>1 DEF Drained
<1>7. NumberInv'
  BY <1>1, <1>2, <1>4, <1>5 DEF FrameInv, NumberInv
<1>8. SenderInv'
  BY <1>1, <1>2, <1>4 DEF FrameInv, SenderInv, Unchecked
<1>9. OnceInv'
  <2>1. \A i, j \in 0..rsz-1 : i # j /\ Filled(i)' /\ Filled(j)' => Rframe'[i] # Rframe'[j]
    BY <1>1, <1>5 DEF FrameInv, OnceInv
  <2>2. \A i \in 0..rsz-1 : Filled(i)' /\ ~Drained(i)' => \A n \in 1..Len(sent') : sent'[n] # Rframe'[i]
    BY <1>1, <1>2, <1>4, <1>5, <1>6 DEF FrameInv, OnceInv
  <2>3. \A m, n \in 1..Len(sent') : m # n => sent'[m] # sent'[n]
    BY <1>2, <1>4 DEF FrameInv, OnceInv
  <2>4. QED
    BY <2>1, <2>2, <2>3 DEF OnceInv
<1>10. LengthInv'
  BY <1>1 DEF FrameInv, LengthInv
<1>11. QED
  BY <1>7, <1>8, <1>9, <1>10 DEF FrameInv

\* The slot is marked empty while it is still locked.
LEMMA ClearFrames ==
  ASSUME Inv, LockInv, FrameInv, WkClear, UNCHANGED <<ioPc, ioReg, ioSlot, polls>>
  PROVE  FrameInv'
<1>1. /\ wkPc = "clear" /\ wkPc' = "sz" /\ UNCHANGED <<wkSlot, Rframe, sent>>
      /\ Rlen' = [Rlen EXCEPT ![wkSlot] = -1]
  BY DEF WkClear, WkGo, SetRlen
<1>2. /\ wkSlot \in 0..rsz-1 /\ Rlen \in [0..rsz-1 -> Int]
      /\ ioPc \in IoFills => wkSlot # ioSlot
  BY <1>1, DrainFacts DEF WkDrains
<1>3. ~(Rlen'[wkSlot] > MinFrame) /\ \A i \in 0..rsz-1 : i # wkSlot => Rlen'[i] = Rlen[i]
  BY <1>1, <1>2 DEF MinFrame
<1>4. \A i \in 0..rsz-1 : Filled(i)' => Filled(i) /\ ~Drained(i)
  BY <1>1, <1>2, <1>3 DEF Filled, Drained, IoFills
<1>5. NumberInv'
  BY <1>1, <1>4 DEF FrameInv, NumberInv
<1>6. SenderInv'
  BY <1>1, <1>3 DEF FrameInv, SenderInv, Unchecked
<1>7. OnceInv'
  <2>1. \A i, j \in 0..rsz-1 : i # j /\ Filled(i)' /\ Filled(j)' => Rframe'[i] # Rframe'[j]
    BY <1>1, <1>4 DEF FrameInv, OnceInv
  <2>2. \A i \in 0..rsz-1 : Filled(i)' => \A n \in 1..Len(sent) : sent[n] # Rframe'[i]
    BY <1>1, <1>4 DEF FrameInv, OnceInv
  <2>3. QED
    BY <1>1, <2>1, <2>2 DEF FrameInv, OnceInv
<1>8. LengthInv'
  <2>1. ioPc = "stripst" => ioSlot \in 0..rsz-1 /\ ioSlot # wkSlot
    BY <1>1, <1>2, DrainFacts DEF IoFills, WkDrains
  <2>2. QED
    BY <1>1, <1>3, <2>1 DEF FrameInv, LengthInv
<1>9. QED
  BY <1>5, <1>6, <1>7, <1>8 DEF FrameInv

\* Every step of the worker preserves the invariant, up to its first call of
\* reset_ring.
LEMMA WorkerFrames ==
  Inv /\ LockInv /\ FrameInv /\ WorkerStep /\ wkPc' # "rin" => FrameInv'
<1> SUFFICES ASSUME Inv, LockInv, FrameInv, WorkerStep, wkPc' # "rin" PROVE FrameInv'
  OBVIOUS
<1>0. UNCHANGED <<ioPc, ioReg, ioSlot, polls>>
  BY DEF WorkerStep, io
<1>1. CASE Pop
  <2>1. UNCHANGED <<Rlen, Rframe, sent>>
    BY <1>1 DEF Pop, PopLock, PopEmptySz, PopEmptyIdx, PopZero, PopUnlockEmpty, PopFull,
       PopWrap, PopScan, PopSlot, PopNext, PopUnlock, PopReturn, Lock, SetRlock, R
  <2>2. wkPc # "clear" /\ wkPc' # "send"
    BY <1>1 DEF Pop, PopLock, PopEmptySz, PopEmptyIdx, PopZero, PopUnlockEmpty, PopFull,
       PopWrap, PopScan, PopSlot, PopNext, PopUnlock, PopReturn, WkGo
  <2>3. QED
    BY <1>0, <2>1, <2>2, WkElsewhere DEF Contents
<1>2. CASE WkWait \/ WkSzTest \/ WkSzLoad \/ WkSzStore \/ WkRelease
  <2>1. UNCHANGED <<Rlen, Rframe, sent>>
    BY <1>2 DEF WkWait, WkSzTest, WkSzLoad, WkSzStore, WkRelease, Unlock, SetRlock, R
  <2>2. wkPc # "clear" /\ wkPc' # "send"
    BY <1>2 DEF WkWait, WkSzTest, WkSzLoad, WkSzStore, WkRelease, WkGo, WkLoad
  <2>3. QED
    BY <1>0, <2>1, <2>2, WkElsewhere DEF Contents
<1>3. CASE WkLen
  <2>1. /\ UNCHANGED <<Rlen, Rframe, sent, wkSlot>> /\ wkPc = "len"
        /\ wkPc' \in {"send", "clear"} /\ (wkPc' = "send" => Rlen[wkSlot] > MinFrame)
    BY <1>3 DEF WkLen, WkGo, R
  <2>2. NumberInv' /\ SenderInv'
    BY <1>0, <2>1 DEF FrameInv, NumberInv, SenderInv, Filled, Unchecked
  <2>3. OnceInv'
    BY <1>0, <2>1 DEF FrameInv, OnceInv, Filled, Drained
  <2>4. LengthInv'
    BY <1>0, <2>1 DEF FrameInv, LengthInv
  <2>5. QED
    BY <2>2, <2>3, <2>4 DEF FrameInv
<1>4. CASE WkSend
  BY <1>0, <1>4, SendFrames
<1>5. CASE WkClear
  BY <1>0, <1>5, ClearFrames
<1>6. CASE Reset
  BY <1>6 DEF LockInv, WkIndexInv, WkResets, Reset, ResetIn, ResetOut, ResetSz, ResetLock,
              ResetFull, ResetLen
<1>7. QED
  BY <1>1, <1>2, <1>3, <1>4, <1>5, <1>6 DEF WorkerStep, Worker, Drain

-----------------------------------------------------------------------------
\* The locks and the frames, as long as the worker has not entered reset_ring.
FramesUntilReset == rst \/ (LockInv /\ FrameInv)

\* No slot has a frame.
LEMMA InitFrames == Residue < rsz /\ Init => LockInv /\ FrameInv
<1> SUFFICES ASSUME Residue < rsz, Init PROVE FrameInv
  BY InitLocks
<1> USE DEF Init
<1>1. \A i \in 0..rsz-1 : ~(Rlen[i] > MinFrame) /\ ~Filled(i) /\ Rframe[i] <= polls
  BY DEF MinFrame, Filled
<1>2. NumberInv
  BY <1>1 DEF NumberInv
<1>3. SenderInv
  BY <1>1 DEF SenderInv
<1>4. OnceInv
  BY <1>1 DEF OnceInv
<1>5. LengthInv
  BY DEF LengthInv
<1>6. QED
  BY <1>2, <1>3, <1>4, <1>5 DEF FrameInv

\* Every step preserves both, or is the worker's entry into reset_ring.
LEMMA NextFrames == Inv /\ FramesUntilReset /\ [Next]_vars => FramesUntilReset'
<1> SUFFICES ASSUME Inv, FramesUntilReset, [Next]_vars PROVE FramesUntilReset'
  OBVIOUS
<1>1. CASE IoStep
  <2>1. UNCHANGED rst
    BY <1>1 DEF IoStep
  <2>2. LockInv /\ FrameInv => LockInv' /\ FrameInv'
    BY <1>1, IoLocks, IoFrames
  <2>3. QED
    BY <2>1, <2>2 DEF FramesUntilReset
<1>2. CASE WorkerStep
  <2>1. rst' = (rst \/ wkPc' = "rin")
    BY <1>2 DEF WorkerStep
  <2>2. LockInv /\ FrameInv /\ wkPc' # "rin" => LockInv' /\ FrameInv'
    BY <1>2, WorkerLocks, WorkerFrames
  <2>3. QED
    BY <2>1, <2>2 DEF FramesUntilReset
<1>3. CASE UNCHANGED vars
  <2>1. UNCHANGED rst
    BY <1>3 DEF vars
  <2>2. LockInv => LockInv'
    BY <1>3 DEF vars, Q, R, io, wk, LockInv, MutexInv, IoIndexInv, WkIndexInv, OwnInv,
                IoKeeps, IoHolds, WkHolds
  <2>3. FrameInv => FrameInv'
    BY <1>3 DEF vars, R, io, wk, FrameInv, NumberInv, SenderInv, OnceInv, LengthInv, Filled,
                Unchecked, Drained
  <2>4. QED
    BY <2>1, <2>2, <2>3 DEF FramesUntilReset
<1>4. QED
  BY <1>1, <1>2, <1>3 DEF Next

\* The invariant in every reachable state.
LEMMA FramesAlways == ASSUME Residue < rsz PROVE Spec => [](Inv /\ FramesUntilReset)
<1>1. Init => FramesUntilReset
  BY InitFrames DEF FramesUntilReset
<1>2. Inv /\ FramesUntilReset /\ [Next]_vars => FramesUntilReset'
  BY NextFrames
<1>3. Spec => []Inv
  BY InvAlways
<1>4. QED
  BY <1>1, <1>2, <1>3, PTL DEF Spec

\* Up to the first reset_ring, sendto() and write() take no frame twice, although
\* push hands out slots with frames in them and poll may return without a new one.
THEOREM NoFrameTwice == ASSUME Residue < rsz PROVE Spec => []NoRepeat
<1>1. FramesUntilReset => NoRepeat
  BY DEF FramesUntilReset, FrameInv, OnceInv, NoRepeat
<1>2. QED
  BY <1>1, FramesAlways, PTL

\* Up to the first reset_ring, rx writes to the tap only frames whose sender rx_io
\* compared with the peer, although rx_io reads every frame into the ring.
THEOREM PeerFramesOnly == ASSUME Residue < rsz PROVE Spec => []PeerOnly
<1>1. FramesUntilReset => PeerOnly
  BY DEF FramesUntilReset, FrameInv, SenderInv, PeerOnly
<1>2. QED
  BY <1>1, FramesAlways, PTL

-----------------------------------------------------------------------------
(* The refinement, step by step: a step of the two threads is one of the    *)
(* queue of FrameQueue, or leaves that queue alone.                         *)

\* No frame comes in and none is sent: at most some are lost.
LEMMA LosesOrStutters ==
  ASSUME UNCHANGED sent,
         \A k \in 0..rsz-1 : Live(k)' => Live(k) /\ Rframe'[k] = Rframe[k]
  PROVE  Queue!Step
<1>1. \A f \in Waiting' : f \in Waiting
  <2> SUFFICES ASSUME NEW k \in 0..rsz-1, Live(k)' PROVE Rframe'[k] \in Waiting
    BY DEF Waiting
  <2>1. QED
    BY DEF Waiting
<1>2. QED
  BY <1>1 DEF Queue!Step, Queue!Lose

\* Fewer frames wait than there are slots, when one slot has none waiting.
LEMMA RoomForOne ==
  ASSUME NEW j \in 0..rsz-1, ~Live(j)
  PROVE  Cardinality(Waiting) < rsz
<1> DEFINE S == {k \in 0..rsz-1 : Live(k)}
           T == (0..rsz-1) \ {j}
           F == [k \in S |-> Rframe[k]]
<1>1. IsFiniteSet(0..rsz-1) /\ Cardinality(0..rsz-1) = rsz
  BY FS_Interval
<1>2. IsFiniteSet(T) /\ Cardinality(T) = rsz - 1
  BY <1>1, FS_RemoveElement
<1>3. S \in SUBSET T
  OBVIOUS
<1>4. IsFiniteSet(S) /\ Cardinality(S) <= rsz - 1
  <2> HIDE DEF S, T
  <2>1. QED
    BY <1>2, <1>3, FS_Subset
<1>5. F \in Surjection(S, Waiting)
  <2>1. F \in [S -> Waiting]
    BY DEF Waiting
  <2>2. \A f \in Waiting : \E k \in S : F[k] = f
    BY DEF Waiting
  <2>3. QED
    BY <2>1, <2>2 DEF Surjection
<1> HIDE DEF F, S
<1>6. IsFiniteSet(Waiting) /\ Cardinality(Waiting) <= Cardinality(S)
  BY <1>4, <1>5, FS_Surjection
<1>7. Cardinality(Waiting) \in Nat /\ Cardinality(S) \in Nat
  BY <1>4, <1>6, FS_CardinalityType
<1>8. QED
  BY <1>4, <1>6, <1>7

\* The unlock of a filled slot is the arrival of its frame, if it has one that
\* the worker will send.
LEMMA ReleaseAccepts ==
  ASSUME Inv, LockInv, FrameInv, IoRelease, UNCHANGED sent
  PROVE  Queue!Step
<1>1. /\ ioPc = "release" /\ ioPc' = "sz" /\ UNCHANGED <<Rlen, Rframe>>
  BY DEF IoRelease, Unlock, SetRlock
<1> PICK j \in 0..rsz-1 : j = ioSlot
  BY <1>1, FillFacts DEF IoFills
<1> DEFINE f == Rframe[j]
<1>2. ~Live(j)
  BY <1>1 DEF Live, IoFills
<1>3. \A k \in 0..rsz-1 : k # j => (Live(k)' <=> Live(k))
  BY <1>1 DEF Live, IoFills
<1>4. CASE ~Live(j)'
  <2>1. \A k \in 0..rsz-1 : Live(k)' => Live(k) /\ Rframe'[k] = Rframe[k]
    BY <1>1, <1>3, <1>4
  <2>2. QED
    BY <2>1, LosesOrStutters
<1>5. CASE Live(j)'
  <2>1. Rlen[j] > MinFrame /\ \A n \in 1..Len(sent) : sent[n] # f
    BY <1>1, <1>5 DEF Live
  <2>2. f \in FromPeer
    <3>1. polls \in Nat /\ polls <= MaxPolls /\ f \in Nat
      BY <1>2 DEF FrameInv, NumberInv, Inv, TypeOK
    <3>2. f <= polls /\ f >= 1
      BY <1>2, <2>1 DEF FrameInv, NumberInv, Filled
    <3>3. ~Unchecked(j)
      BY <1>1 DEF Unchecked
    <3>4. Dir = "tx" \/ f \notin Foreign
      BY <1>2, <2>1, <3>3 DEF FrameInv, SenderInv
    <3> HIDE DEF f
    <3>5. QED
      BY <3>1, <3>2, <3>4 DEF FromPeer
  <2>3. f \notin Waiting
    <3> SUFFICES ASSUME NEW k \in 0..rsz-1, Live(k) PROVE Rframe[k] # f
      BY DEF Waiting
    <3>1. k # j /\ Filled(k) /\ Filled(j)
      BY <1>2, <2>1 DEF Live, Filled
    <3>2. QED
      BY <1>2, <3>1 DEF FrameInv, OnceInv
  <2>4. Waiting' = Waiting \cup {f}
    <3>1. \A g \in Waiting' : g \in Waiting \/ g = f
      BY <1>1, <1>3 DEF Waiting
    <3>2. \A g \in Waiting : g \in Waiting'
      BY <1>1, <1>2, <1>3 DEF Waiting
    <3>3. f \in Waiting'
      BY <1>1, <1>2, <1>5 DEF Waiting
    <3>4. QED
      BY <3>1, <3>2, <3>3
  <2>5. Cardinality(Waiting) < rsz
    BY <1>2, RoomForOne
  <2> HIDE DEF f
  <2>6. Queue!Cardinality(Waiting) = Cardinality(Waiting)
    BY DEF Cardinality, Queue!Cardinality
  <2>7. Queue!Accept(f)
    BY <2>1, <2>2, <2>3, <2>4, <2>5, <2>6 DEF Queue!Accept
  <2>8. QED
    BY <2>2, <2>7 DEF Queue!Step
<1>6. QED
  BY <1>4, <1>5

\* What sendto() or write() takes was waiting; if they fail it goes on waiting, until
\* the worker clears its slot.
LEMMA SendDelivers ==
  ASSUME Inv, LockInv, FrameInv, WkSend, UNCHANGED <<ioPc, ioReg, ioSlot, polls>>
  PROVE  Queue!Step
<1> DEFINE f == Rframe[wkSlot]
<1>1. /\ wkPc = "send" /\ UNCHANGED <<Rlen, Rframe>>
      /\ sent' = Append(sent, f) \/ sent' = sent
  BY DEF WkSend, R
<1>2. /\ wkSlot \in 0..rsz-1 /\ sent \in Seq(Nat) /\ f \in Nat
      /\ ioPc \in IoFills => wkSlot # ioSlot
  BY <1>1, DrainFacts DEF WkDrains
<1>3. /\ Rlen[wkSlot] > MinFrame /\ f \in 1..polls /\ (Dir = "tx" \/ f \notin Foreign)
      /\ \A n \in 1..Len(sent) : sent[n] # f
  BY <1>1, NextToSend
<1>4. CASE sent' = sent
  <2>1. \A k \in 0..rsz-1 : Live(k)' => Live(k) /\ Rframe'[k] = Rframe[k]
    BY <1>1, <1>4 DEF Live
  <2>2. QED
    BY <1>4, <2>1, LosesOrStutters
<1>5. CASE sent' = Append(sent, f)
  <2>1. Live(wkSlot) /\ f \in Waiting
    BY <1>2, <1>3 DEF Live, Waiting
  <2>2. f \in FromPeer
    <3>1. polls \in Nat /\ polls <= MaxPolls
      BY DEF Inv, TypeOK, FrameInv, NumberInv
    <3> HIDE DEF f
    <3>2. QED
      BY <1>2, <1>3, <3>1 DEF FromPeer
  <2>3. \A k \in 0..rsz-1 : Live(k)' <=> Live(k) /\ Rframe[k] # f
    <3>1. Len(sent') = Len(sent) + 1 /\ sent'[Len(sent) + 1] = f /\ Len(sent) \in Nat
          /\ \A n \in 1..Len(sent) : sent'[n] = sent[n]
      <4> HIDE DEF f
      <4>1. QED
        BY <1>2, <1>5
    <3> HIDE DEF f
    <3>2. 1..Len(sent') = 1..Len(sent) \cup {Len(sent) + 1}
      BY <3>1
    <3>3. \A k \in 0..rsz-1 : (\A n \in 1..Len(sent') : Rframe[k] # sent'[n])
             <=> ((\A n \in 1..Len(sent) : Rframe[k] # sent[n]) /\ Rframe[k] # f)
      BY <3>1, <3>2
    <3>4. QED
      BY <1>1, <3>3 DEF Live
  <2>4. Waiting' = Waiting \ {f}
    <3> HIDE DEF f
    <3>1. \A g \in Waiting' : g \in Waiting /\ g # f
      BY <1>1, <2>3 DEF Waiting
    <3>2. \A g \in Waiting : g # f => g \in Waiting'
      BY <1>1, <2>3 DEF Waiting
    <3>3. QED
      BY <3>1, <3>2
  <2> HIDE DEF f
  <2>5. Queue!Deliver(f)
    BY <1>5, <2>1, <2>4 DEF Queue!Deliver
  <2>6. QED
    BY <2>2, <2>5 DEF Queue!Step
<1>6. QED
  BY <1>1, <1>4, <1>5

\* Every step of the I/O thread.
LEMMA IoMaps == Inv /\ LockInv /\ FrameInv /\ IoStep => Queue!Step
<1> SUFFICES ASSUME Inv, LockInv, FrameInv, IoStep PROVE Queue!Step
  OBVIOUS
<1>0. UNCHANGED sent
  BY DEF IoStep
<1>1. CASE Push
  <2>1. UNCHANGED <<Rlen, Rframe>> /\ ioPc \notin IoFills
    BY <1>1 DEF Push, PushLock, PushIndex, PushSlot, PushSkip, PushIncLoad, PushIncStore,
       PushWrap, PushFullSz, PushFullIn, PushFullOut, PushRefuse, PushUnslotLoad, PushUnslot,
       PushNull, PushGrant, PushReturn, Lock, Unlock, SetRlock, R, IoFills
  <2>2. \A k \in 0..rsz-1 : Live(k)' => Live(k) /\ Rframe'[k] = Rframe[k]
    BY <1>0, <2>1 DEF Live
  <2>3. QED
    BY <1>0, <2>2, LosesOrStutters
<1>2. CASE IoSzTest \/ IoSzLoad \/ IoSzStore \/ IoInAdd \/ IoInTest \/ IoInLoad \/ IoInSub
  <2>1. UNCHANGED <<Rlen, Rframe>> /\ ioPc \notin IoFills
    BY <1>2 DEF IoSzTest, IoSzLoad, IoSzStore, IoInAdd, IoInTest, IoInLoad, IoInSub, R, IoFills
  <2>2. \A k \in 0..rsz-1 : Live(k)' => Live(k) /\ Rframe'[k] = Rframe[k]
    BY <1>0, <2>1 DEF Live
  <2>3. QED
    BY <1>0, <2>2, LosesOrStutters
<1>3. CASE IoRead \/ IoLen \/ IoReadError \/ IoNoInput \/ IoCheck \/ IoStripLoad \/ IoStrip
  <2>1. ioPc \in IoFills /\ ioPc' \in IoFills /\ ioSlot' = ioSlot
    BY <1>3 DEF IoRead, IoLen, IoReadError, IoNoInput, IoCheck, IoStripLoad, IoStrip, Poll,
       IoGo, IoLoad, IoFills
  <2>2. \A k \in 0..rsz-1 : k # ioSlot => Rlen'[k] = Rlen[k] /\ Rframe'[k] = Rframe[k]
    <3>1. Rlen \in [0..rsz-1 -> Int] /\ Rframe \in [0..rsz-1 -> Nat] /\ ioSlot \in 0..rsz-1
      BY <2>1, FillFacts
    <3>2. QED
      BY <1>3, <3>1 DEF IoRead, IoLen, IoReadError, IoNoInput, IoCheck, IoStripLoad, IoStrip,
         SetRlen, SetRframe, R
  <2>3. \A k \in 0..rsz-1 : Live(k)' => Live(k) /\ Rframe'[k] = Rframe[k]
    BY <1>0, <2>1, <2>2 DEF Live
  <2>4. QED
    BY <1>0, <2>3, LosesOrStutters
<1>4. CASE IoRelease
  BY <1>0, <1>4, ReleaseAccepts
<1>5. QED
  BY <1>1, <1>2, <1>3, <1>4 DEF IoStep, Io, Fill

\* Every step of the worker before it is in reset_ring.
LEMMA WorkerMaps == Inv /\ LockInv /\ FrameInv /\ WorkerStep => Queue!Step
<1> SUFFICES ASSUME Inv, LockInv, FrameInv, WorkerStep PROVE Queue!Step
  OBVIOUS
<1>0. UNCHANGED <<ioPc, ioReg, ioSlot, polls>>
  BY DEF WorkerStep, io
<1>1. CASE Pop \/ WkWait \/ WkLen \/ WkSzTest \/ WkSzLoad \/ WkSzStore \/ WkRelease
  <2>1. UNCHANGED <<Rlen, Rframe, sent>>
    BY <1>1 DEF Pop, PopLock, PopEmptySz, PopEmptyIdx, PopZero, PopUnlockEmpty, PopFull,
       PopWrap, PopScan, PopSlot, PopNext, PopUnlock, PopReturn, WkWait, WkLen, WkSzTest,
       WkSzLoad, WkSzStore, WkRelease, Lock, Unlock, SetRlock, R
  <2>2. \A k \in 0..rsz-1 : Live(k)' => Live(k) /\ Rframe'[k] = Rframe[k]
    BY <1>0, <2>1 DEF Live
  <2>3. QED
    BY <2>1, <2>2, LosesOrStutters
<1>2. CASE WkSend
  BY <1>0, <1>2, SendDelivers
<1>3. CASE WkClear
  <2>1. /\ wkPc = "clear" /\ UNCHANGED <<Rframe, sent>>
        /\ Rlen' = [Rlen EXCEPT ![wkSlot] = -1]
    BY <1>3 DEF WkClear, SetRlen
  <2>2. wkSlot \in 0..rsz-1 /\ Rlen \in [0..rsz-1 -> Int]
    BY <2>1, DrainFacts DEF WkDrains
  <2>3. ~(Rlen'[wkSlot] > MinFrame) /\ \A k \in 0..rsz-1 : k # wkSlot => Rlen'[k] = Rlen[k]
    BY <2>1, <2>2 DEF MinFrame
  <2>4. \A k \in 0..rsz-1 : Live(k)' => Live(k) /\ Rframe'[k] = Rframe[k]
    BY <1>0, <2>1, <2>3 DEF Live
  <2>5. QED
    BY <2>1, <2>4, LosesOrStutters
<1>4. CASE Reset
  BY <1>4 DEF LockInv, WkIndexInv, WkResets, Reset, ResetIn, ResetOut, ResetSz, ResetLock,
              ResetFull, ResetLen
<1>5. QED
  BY <1>1, <1>2, <1>3, <1>4 DEF WorkerStep, Worker, Drain

\* The ring starts as an empty queue.
LEMMA InitMaps == Init => Queue!Empty
<1> SUFFICES ASSUME Init PROVE Queue!Empty
  OBVIOUS
<1>1. \A k \in 0..rsz-1 : ~Live(k)
  BY DEF Init, Live, MinFrame
<1>2. Waiting = {}
  BY <1>1 DEF Waiting
<1>3. QED
  BY <1>2 DEF Init, Queue!Empty

\* Up to the first reset_ring, push, pop and the loops around them implement the
\* queue of FrameQueue: what comes out came in, from the peer, and comes out once.
THEOREM RingImplementsQueue == ASSUME Residue < rsz PROVE SpecToReset => ImplementsQueue
<1>1. Init => Queue!Empty
  BY InitMaps
<1>2. Init => Inv /\ FramesUntilReset
  BY InitInv, InitFrames DEF FramesUntilReset
<1>3. Inv /\ FramesUntilReset /\ [~rst /\ Next]_vars => Inv' /\ FramesUntilReset'
  BY NextInv, NextFrames DEF vars
<1>4. Inv /\ FramesUntilReset /\ [~rst /\ Next]_vars => [Queue!Step]_(Queue!queue)
  <2> SUFFICES ASSUME Inv, FramesUntilReset, [~rst /\ Next]_vars
               PROVE  [Queue!Step]_(Queue!queue)
    OBVIOUS
  <2>1. CASE ~rst /\ Next
    BY <2>1, IoMaps, WorkerMaps DEF FramesUntilReset, Next
  <2>2. CASE UNCHANGED vars
    BY <2>2 DEF vars, R, io, Queue!queue, Waiting, Live
  <2>3. QED
    BY <2>1, <2>2
<1>5. QED
  BY <1>1, <1>2, <1>3, <1>4, PTL DEF SpecToReset, ImplementsQueue, Queue!LossyQueue

=============================================================================
